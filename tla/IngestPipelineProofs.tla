------------------------ MODULE IngestPipelineProofs ------------------------
(***************************************************************************)
(* What holds of IngestPipeline for every set of messages, every number of *)
(* workers, every batch size and channel capacity, and every combination   *)
(* of faults.                                                              *)
(***************************************************************************)
EXTENDS IngestPipeline, SequenceTheorems, TLAPS

-----------------------------------------------------------------------------
(* Type correctness.                                                       *)

PcOK ==
    /\ pc \in [Goroutines -> PollerStates \cup WorkerStates \cup BatcherStates]
    /\ pc[Poller] \in PollerStates
    /\ pc[Batcher] \in BatcherStates
    /\ \A w \in Workers : pc[w] \in WorkerStates

BatcherOK ==
    /\ batch \in Seq(Messages) /\ Len(batch) <= BatchSize
    /\ phase \in Contexts
    /\ last \in BOOLEAN
    /\ attempt \in 0 .. maxStoreAttempts - 1

\* A goroutine that goes to a state of its own kind keeps pc well typed.
LEMMA GotoTyped ==
    ASSUME PcOK, NEW g \in Goroutines, NEW s, Goto(g, s),
           g = Poller => s \in PollerStates,
           g = Batcher => s \in BatcherStates,
           g \in Workers => s \in WorkerStates
    PROVE  PcOK'
<1>1. s \in PollerStates \cup WorkerStates \cup BatcherStates
  BY DEF Goroutines
<1> QED
  BY <1>1, PipelineAssumption DEF PcOK, Goto, Goroutines

\* The poller and the workers go back to their loops empty-handed.
LEMMA ContinueTyped ==
    ASSUME TypeOK, NEW g \in Workers \cup {Poller}, Continue(g)
    PROVE  PcOK' /\ hand' \in [Goroutines -> Messages \cup {Nothing}]
<1>1. PcOK
  BY DEF TypeOK, PcOK
<1>2. PcOK'
  <2>1. g \in Goroutines /\ g # Batcher
    BY PipelineAssumption DEF Goroutines
  <2>2. LoopHead(g) = "receive" \/ (g \notin Workers /\ LoopHead(g) \in {"done", "fetch"})
    BY DEF LoopHead
  <2>3. g \in Workers => LoopHead(g) = "receive" /\ g # Poller
    BY PipelineAssumption DEF LoopHead
  <2>4. g = Poller => LoopHead(g) \in {"done", "fetch"}
    BY PipelineAssumption DEF LoopHead
  <2> QED
    BY <1>1, <2>1, <2>3, <2>4, GotoTyped DEF Continue, PollerStates, WorkerStates
<1>3. hand' \in [Goroutines -> Messages \cup {Nothing}]
  BY DEF Continue, Hold, TypeOK
<1> QED
  BY <1>2, <1>3

\* A flush starts from a well-typed batch.
LEMMA FlushTyped ==
    ASSUME TypeOK, NEW b \in Seq(Messages), Len(b) <= BatchSize, NEW l \in BOOLEAN,
           Flush(b, l), phase' \in Contexts
    PROVE  PcOK' /\ BatcherOK'
<1>1. PcOK
  BY DEF TypeOK, PcOK
<1>2. PcOK'
  BY <1>1, GotoTyped, PipelineAssumption DEF Flush, Goroutines, BatcherStates
<1>3. BatcherOK'
  BY DEF Flush, BatcherOK, maxStoreAttempts
<1> QED
  BY <1>2, <1>3

\* A flush ends with an empty batch.
LEMMA FlushReturnsTyped ==
    ASSUME TypeOK, FlushReturns
    PROVE  PcOK' /\ BatcherOK'
<1>1. PcOK
  BY DEF TypeOK, PcOK
<1>2. PcOK'
  BY <1>1, GotoTyped, PipelineAssumption DEF FlushReturns, Goroutines, BatcherStates
<1>3. batch' \in Seq(Messages) /\ Len(batch') <= BatchSize
  BY EmptySeq, PipelineAssumption DEF FlushReturns
<1>4. phase' \in Contexts /\ last' \in BOOLEAN
  BY DEF FlushReturns, TypeOK
<1>5. attempt' \in 0 .. maxStoreAttempts - 1
  BY DEF FlushReturns, maxStoreAttempts
<1> QED
  BY <1>2, <1>3, <1>4, <1>5 DEF BatcherOK

\* Going on to the next delivery keeps the goroutine's state well typed.
LEMMA NextDeliveryTyped ==
    ASSUME TypeOK, NEW g \in Goroutines, NEW s \in {"record", "ackStored"},
           g = Batcher => batch # <<>>,
           NextDelivery(g, s)
    PROVE  PcOK' /\ BatcherOK' /\ hand' \in [Goroutines -> Messages \cup {Nothing}]
<1>1. CASE g # Batcher
  <2>1. Continue(g) /\ UNCHANGED <<batch, phase, last, attempt>>
    BY <1>1 DEF NextDelivery, batcher
  <2>2. g \in Workers \cup {Poller}
    BY <1>1 DEF Goroutines
  <2> QED
    BY <2>1, <2>2, ContinueTyped DEF TypeOK, BatcherOK
<1>2. CASE g = Batcher
  <2>1. hand' \in [Goroutines -> Messages \cup {Nothing}]
    BY <1>2 DEF NextDelivery, TypeOK
  <2>2. CASE Len(batch) > 1
    <3>1. /\ batch' = Tail(batch)
          /\ Goto(Batcher, s)
          /\ UNCHANGED <<phase, last, attempt>>
      BY <1>2, <2>2 DEF NextDelivery
    <3>2. PcOK'
      BY <3>1, GotoTyped, PipelineAssumption DEF TypeOK, PcOK, Goroutines, BatcherStates
    <3>3. batch' \in Seq(Messages) /\ Len(batch') <= BatchSize
      BY <1>2, <3>1, HeadTailProperties, LenProperties, PipelineAssumption DEF TypeOK
    <3> QED
      BY <2>1, <3>1, <3>2, <3>3 DEF TypeOK, BatcherOK
  <2>3. CASE ~(Len(batch) > 1)
    BY <1>2, <2>1, <2>3, FlushReturnsTyped DEF NextDelivery
  <2> QED
    BY <2>2, <2>3
<1> QED
  BY <1>1, <1>2

-----------------------------------------------------------------------------
(* The step of each action.                                                *)

\* The invariant without its claims about the storages.
Shape == TypeOK /\ FlushHasWork /\ BatchHasRoom /\ WorkInHand

\* The typed part of the state that is neither pc nor the batcher's.
RestOK ==
    /\ source \subseteq Messages
    /\ expired \subseteq Contexts
    /\ hand \in [Goroutines -> Messages \cup {Nothing}]
    /\ deliveryCh \in Seq(Messages) /\ Len(deliveryCh) <= DeliveryCap
    /\ eventCh \in Seq(Messages) /\ Len(eventCh) <= EventCap
    /\ eventClosed \in BOOLEAN
    /\ stored \subseteq Messages
    /\ deadLetters \subseteq {"sqlite", "kafka"} \X Messages
    /\ acked \subseteq Messages
    /\ ackFailed \subseteq Messages
    /\ afterAck \subseteq Messages
    /\ down \in BOOLEAN

\* What a panic leaves as it is: everything but down.
standing == <<source, expired, pc, hand, channels, batcher, durable>>

\* A step is one of a goroutine of a live process, or the end of the process.
LEMMA NextCases ==
    ASSUME [Next]_vars
    PROVE  (Step /\ UNCHANGED down) \/ (UNCHANGED standing /\ down' \in {down, TRUE})
  BY DEF Next, Live, Panic, IngestReturns, vars, standing

\* TypeOK falls into the three parts the steps disturb separately.
LEMMA TypeParts ==
    /\ TypeOK => PcOK /\ BatcherOK /\ RestOK
    /\ PcOK' /\ BatcherOK' /\ RestOK' => TypeOK'
  BY DEF TypeOK, PcOK, BatcherOK, RestOK

\* The delivery a goroutine deals with is a message.
LEMMA CurrentTyped ==
    ASSUME Shape, NEW g \in Goroutines, pc[g] \in {"record", "ack", "ackStored"}
    PROVE  Current(g) \in Messages /\ (g = Batcher => batch # <<>>)
<1>1. CASE g = Batcher
  <2>1. batch # <<>>
    BY <1>1 DEF Shape, FlushHasWork
  <2>2. Head(batch) \in Messages
    BY <2>1, HeadTailProperties DEF Shape, TypeOK
  <2> QED
    BY <1>1, <2>1, <2>2 DEF Current
<1>2. CASE g # Batcher
  <2>1. g \in Workers \cup {Poller}
    BY <1>2 DEF Goroutines
  <2>2. pc[g] \in WorkerStates \cup PollerStates
    BY <2>1 DEF Shape, TypeOK
  <2>3. pc[g] \in {"record", "ack"}
    BY <2>2 DEF WorkerStates, PollerStates
  <2>4. hand[g] \in Messages
    BY <2>1, <2>3 DEF Shape, WorkInHand
  <2> QED
    BY <1>2, <2>4 DEF Current
<1> QED
  BY <1>1, <1>2

\* A step of the poller keeps TypeOK.
LEMMA PollerTypes ==
    ASSUME Shape, PollerStep, UNCHANGED down
    PROVE  TypeOK'
<1> USE PipelineAssumption
<1>1. PcOK /\ BatcherOK /\ RestOK
  BY TypeParts DEF Shape
<1>2. Poller \in Goroutines /\ Poller \notin Workers /\ Poller # Batcher
  BY DEF Goroutines
<1>3. ASSUME NEW m \in Messages, ProcessData(m) PROVE TypeOK'
  <2>1. BatcherOK'
    BY <1>1, <1>3 DEF ProcessData, batcher, BatcherOK
  <2>2. RestOK'
    BY <1>1, <1>3 DEF ProcessData, channels, durable, RestOK, Hold
  <2>3. \E s \in PollerStates : Goto(Poller, s)
    BY <1>3 DEF ProcessData, PollerStates
  <2>4. PcOK'
    BY <1>1, <1>2, <2>3, GotoTyped
  <2> QED
    BY <2>1, <2>2, <2>4, TypeParts
<1>4. CASE PollFails
  BY <1>1, <1>4, TypeParts
     DEF PollFails, vars, channels, batcher, durable, PcOK, BatcherOK, RestOK
<1>5. CASE PollCancelled
  <2>1. BatcherOK' /\ RestOK'
    BY <1>1, <1>5 DEF PollCancelled, channels, batcher, durable, BatcherOK, RestOK
  <2>2. PcOK'
    BY <1>1, <1>2, <1>5, GotoTyped DEF PollCancelled, PollerStates
  <2> QED
    BY <2>1, <2>2, TypeParts
<1>6. CASE SendDelivery
  <2>1. hand[Poller] \in Messages
    BY <1>6 DEF SendDelivery, Shape, WorkInHand
  <2>2. deliveryCh' \in Seq(Messages) /\ Len(deliveryCh') <= DeliveryCap
    BY <1>1, <1>6, <2>1, AppendProperties, LenProperties DEF SendDelivery, RestOK
  <2>3. PcOK' /\ hand' \in [Goroutines -> Messages \cup {Nothing}]
    BY <1>6, ContinueTyped DEF SendDelivery, Shape
  <2>4. RestOK' /\ BatcherOK'
    BY <1>1, <1>6, <2>2, <2>3 DEF SendDelivery, batcher, durable, RestOK, BatcherOK
  <2> QED
    BY <2>3, <2>4, TypeParts
<1> QED
  BY <1>3, <1>4, <1>5, <1>6 DEF PollerStep

\* A step of a worker keeps TypeOK.
LEMMA WorkerTypes ==
    ASSUME Shape, NEW w \in Workers, WorkerStep(w), UNCHANGED down
    PROVE  TypeOK'
<1> USE PipelineAssumption
<1>1. PcOK /\ BatcherOK /\ RestOK
  BY TypeParts DEF Shape
<1>2. w \in Goroutines /\ w # Poller /\ w # Batcher
  BY DEF Goroutines
<1>3. CASE Transform(w)
  <2>1. /\ Head(deliveryCh) \in Messages
        /\ Tail(deliveryCh) \in Seq(Messages)
        /\ Len(Tail(deliveryCh)) <= DeliveryCap
    BY <1>1, <1>3, HeadTailProperties, LenProperties DEF Transform, RestOK
  <2>2. BatcherOK'
    BY <1>1, <1>3 DEF Transform, batcher, BatcherOK
  <2>3. /\ UNCHANGED hand \/ Hold(w, Head(deliveryCh))
        /\ UNCHANGED pc \/ \E s \in WorkerStates : Goto(w, s)
    BY <1>3 DEF Transform, WorkerStates
  <2>4. RestOK'
    BY <1>1, <1>3, <2>1, <2>3 DEF Transform, durable, RestOK, Hold
  <2>5. PcOK'
    <3>1. CASE UNCHANGED pc
      BY <1>1, <3>1 DEF PcOK
    <3>2. CASE \E s \in WorkerStates : Goto(w, s)
      BY <1>1, <1>2, <3>2, GotoTyped
    <3> QED
      BY <2>3, <3>1, <3>2
  <2> QED
    BY <2>2, <2>4, <2>5, TypeParts
<1>4. CASE SendEvent(w)
  <2>1. hand[w] \in Messages
    BY <1>4 DEF SendEvent, Shape, WorkInHand
  <2>2. eventCh' \in Seq(Messages) /\ Len(eventCh') <= EventCap
    BY <1>1, <1>4, <2>1, AppendProperties, LenProperties DEF SendEvent, RestOK
  <2>3. PcOK' /\ hand' \in [Goroutines -> Messages \cup {Nothing}]
    BY <1>4, ContinueTyped DEF SendEvent, Shape
  <2>4. RestOK' /\ BatcherOK'
    BY <1>1, <1>4, <2>2, <2>3 DEF SendEvent, batcher, durable, RestOK, BatcherOK
  <2> QED
    BY <2>3, <2>4, TypeParts
<1>5. CASE WorkerReturns(w)
  <2>1. BatcherOK' /\ RestOK'
    BY <1>1, <1>5 DEF WorkerReturns, channels, batcher, durable, BatcherOK, RestOK
  <2>2. PcOK'
    BY <1>1, <1>2, <1>5, GotoTyped DEF WorkerReturns, WorkerStates
  <2> QED
    BY <2>1, <2>2, TypeParts
<1> QED
  BY <1>3, <1>4, <1>5 DEF WorkerStep

\* A step of the batcher keeps TypeOK.
LEMMA BatcherTypes ==
    ASSUME Shape, BatcherStep, UNCHANGED down
    PROVE  TypeOK'
<1> USE PipelineAssumption
<1>1. TypeOK /\ PcOK /\ BatcherOK /\ RestOK
  BY TypeParts DEF Shape
<1>2. Batcher \in Goroutines /\ Batcher \notin Workers /\ Poller # Batcher
  BY DEF Goroutines
<1>3. CASE Collect
  <2>1. /\ Head(eventCh) \in Messages
        /\ Tail(eventCh) \in Seq(Messages)
        /\ Len(Tail(eventCh)) <= EventCap
    BY <1>1, <1>3, HeadTailProperties, LenProperties DEF Collect, RestOK
  <2>2. RestOK'
    BY <1>1, <1>3, <2>1 DEF Collect, durable, RestOK
  <2> DEFINE b == Append(batch, Head(eventCh))
  <2>3. b \in Seq(Messages) /\ Len(b) = Len(batch) + 1
    BY <1>1, <2>1, AppendProperties DEF BatcherOK
  <2>4. phase' \in Contexts
    BY <1>1, <1>3 DEF Collect, BatcherOK
  <2>5. CASE Len(b) >= BatchSize
    <3>1. Len(b) <= BatchSize
      <4>1. Len(batch) < BatchSize
        BY <1>1, <1>3 DEF Collect, Shape, BatchHasRoom
      <4> QED
        BY <1>1, <2>3, <4>1, LenProperties DEF BatcherOK
    <3>2. Flush(b, FALSE)
      BY <1>3, <2>5 DEF Collect
    <3> HIDE DEF b
    <3> QED
      BY <1>1, <2>2, <2>3, <2>4, <3>1, <3>2, FlushTyped, TypeParts
  <2>6. CASE ~(Len(b) >= BatchSize)
    <3>1. batch' = b /\ UNCHANGED <<pc, last, attempt, phase>>
      BY <1>3, <2>6 DEF Collect
    <3> HIDE DEF b
    <3>2. Len(b) <= BatchSize
      BY <2>3, <2>6, LenProperties
    <3>3. BatcherOK' /\ PcOK'
      BY <1>1, <2>3, <3>1, <3>2 DEF BatcherOK, PcOK
    <3> QED
      BY <2>2, <3>3, TypeParts
  <2> QED
    BY <2>5, <2>6
<1>4. CASE EventsClosed
  <2>1. RestOK' /\ phase' \in Contexts /\ Flush(batch, TRUE)
    BY <1>1, <1>4 DEF EventsClosed, channels, durable, RestOK, BatcherOK
  <2> QED
    BY <1>1, <2>1, FlushTyped, TypeParts DEF BatcherOK
<1>5. CASE Tick
  <2>1. RestOK' /\ phase' \in Contexts /\ Flush(batch, FALSE)
    BY <1>1, <1>5 DEF Tick, channels, durable, RestOK, BatcherOK
  <2> QED
    BY <1>1, <2>1, FlushTyped, TypeParts DEF BatcherOK
<1>6. CASE StartDrain
  <2>1. RestOK' /\ BatcherOK' /\ PcOK'
    BY <1>1, <1>6 DEF StartDrain, channels, durable, RestOK, BatcherOK, PcOK, Contexts
  <2> QED
    BY <2>1, TypeParts
<1>7. CASE DrainExpires
  <2>1. RestOK' /\ phase' \in Contexts /\ Flush(batch, TRUE)
    BY <1>1, <1>7 DEF DrainExpires, channels, durable, RestOK, Contexts
  <2> QED
    BY <1>1, <2>1, FlushTyped, TypeParts DEF BatcherOK
<1>8. CASE StoreSucceeds \/ StoreFailsTransiently
  <2>1. BatcherOK'
    BY <1>1, <1>8
       DEF StoreSucceeds, StoreFailsTransiently, batcher, BatcherOK
  <2>2. Elements(batch) \subseteq Messages
    BY <1>1, ElementOfSeq DEF BatcherOK, Elements
  <2>3. RestOK'
    BY <1>1, <1>8, <2>2
       DEF StoreSucceeds, StoreFailsTransiently, Touch, channels, durable, RestOK
  <2>4. \E s \in BatcherStates : Goto(Batcher, s)
    BY <1>8 DEF StoreSucceeds, StoreFailsTransiently, BatcherStates
  <2>5. PcOK'
    BY <1>1, <1>2, <2>4, GotoTyped
  <2> QED
    BY <2>1, <2>3, <2>5, TypeParts
<1>9. CASE BackoffElapses \/ BackoffCancelled \/ StoreFailsTerminally
  <2>1. RestOK'
    BY <1>1, <1>9 DEF BackoffElapses, BackoffCancelled, StoreFailsTerminally, channels, durable,
                         RestOK
  <2>2. CASE FlushReturns
    BY <1>1, <2>1, <2>2, FlushReturnsTyped, TypeParts
  <2>3. CASE StoreFailsTerminally /\ ~FlushReturns
    <3>1. Goto(Batcher, "record") /\ UNCHANGED batcher
      BY <2>3 DEF StoreFailsTerminally
    <3>2. PcOK'
      BY <1>1, <1>2, <3>1, GotoTyped DEF BatcherStates
    <3>3. BatcherOK'
      BY <1>1, <3>1 DEF batcher, BatcherOK
    <3> QED
      BY <2>1, <3>2, <3>3, TypeParts
  <2>4. CASE ~StoreFailsTerminally /\ ~FlushReturns
    <3>1. /\ attempt + 1 < maxStoreAttempts
          /\ attempt' = attempt + 1
          /\ Goto(Batcher, "store")
          /\ UNCHANGED <<batch, phase, last>>
      BY <1>9, <2>4 DEF BackoffElapses, BackoffCancelled
    <3>2. BatcherOK'
      BY <1>1, <3>1 DEF BatcherOK, maxStoreAttempts
    <3>3. PcOK'
      BY <1>1, <1>2, <3>1, GotoTyped DEF BatcherStates
    <3> QED
      BY <2>1, <3>2, <3>3, TypeParts
  <2> QED
    BY <2>2, <2>3, <2>4
<1> QED
  BY <1>3, <1>4, <1>5, <1>6, <1>7, <1>8, <1>9 DEF BatcherStep

\* StoreFailure writes one row or two, and all for its delivery.
LEMMA RowsLeft ==
    ASSUME NEW g, StoreFailure(g)
    PROVE  \E S \in {{"sqlite"}, {"kafka"}, {"sqlite", "kafka"}} :
              deadLetters' = deadLetters \cup (S \X {Current(g)})
<1>1. CASE deadLetters' = deadLetters \cup {<<"sqlite", Current(g)>>}
  <2>1. {<<"sqlite", Current(g)>>} = {"sqlite"} \X {Current(g)}
    OBVIOUS
  <2> QED
    BY <1>1, <2>1
<1>2. ASSUME NEW left \in SUBSET {"sqlite"},
             deadLetters' = deadLetters \cup ((left \cup {"kafka"}) \X {Current(g)})
      PROVE  \E S \in {{"sqlite"}, {"kafka"}, {"sqlite", "kafka"}} :
                deadLetters' = deadLetters \cup (S \X {Current(g)})
  <2>1. left \cup {"kafka"} \in {{"kafka"}, {"sqlite", "kafka"}}
    OBVIOUS
  <2> QED
    BY <1>2, <2>1
<1> QED
  BY <1>1, <1>2 DEF StoreFailure

\* All of them are of the one message.
LEMMA RowsOf ==
    ASSUME NEW m, NEW S, S # {}
    PROVE  {d[2] : d \in S \X {m}} = {m}
<1>1. \A d \in S \X {m} : d[2] = m
  OBVIOUS
<1>2. PICK s \in S : TRUE
  OBVIOUS
<1>3. <<s, m>> \in S \X {m} /\ <<s, m>>[2] = m
  BY <1>2
<1> QED
  BY <1>1, <1>3

\* A step any goroutine may take keeps TypeOK.
LEMMA SharedTypes ==
    ASSUME Shape, NEW g \in Goroutines, SharedStep(g), UNCHANGED down
    PROVE  TypeOK'
<1> USE PipelineAssumption
<1>1. TypeOK /\ PcOK /\ BatcherOK /\ RestOK
  BY TypeParts DEF Shape
<1>2. CASE HandoffCancelled(g)
  <2>1. BatcherOK' /\ RestOK'
    BY <1>1, <1>2 DEF HandoffCancelled, channels, batcher, durable, BatcherOK, RestOK, Hold
  <2>2. PcOK'
    BY <1>1, <1>2, GotoTyped DEF HandoffCancelled, PollerStates, WorkerStates
  <2> QED
    BY <2>1, <2>2, TypeParts
<1>3. CASE StoreFailure(g)
  <2>1. Current(g) \in Messages
    BY <1>3, CurrentTyped DEF StoreFailure
  <2>2. BatcherOK' /\ RestOK'
    <3>1. BatcherOK'
      BY <1>1, <1>3 DEF StoreFailure, batcher, BatcherOK
    <3>2. deadLetters' \subseteq {"sqlite", "kafka"} \X Messages
      <4>1. PICK S \in {{"sqlite"}, {"kafka"}, {"sqlite", "kafka"}} :
                deadLetters' = deadLetters \cup (S \X {Current(g)})
        BY <1>3, RowsLeft
      <4>2. S \X {Current(g)} \subseteq {"sqlite", "kafka"} \X Messages
        BY <2>1
      <4> QED
        BY <1>1, <4>1, <4>2 DEF RestOK
    <3>3. RestOK'
      BY <1>1, <1>3, <2>1, <3>2 DEF StoreFailure, Touch, channels, RestOK
    <3> QED
      BY <3>1, <3>3
  <2>3. PcOK'
    BY <1>1, <1>3, GotoTyped DEF StoreFailure, PollerStates, WorkerStates, BatcherStates
  <2> QED
    BY <2>2, <2>3, TypeParts
<1>4. CASE StoreFailureFails(g)
  <2>1. Current(g) \in Messages /\ (g = Batcher => batch # <<>>)
    BY <1>4, CurrentTyped DEF StoreFailureFails
  <2>2. PcOK' /\ BatcherOK' /\ hand' \in [Goroutines -> Messages \cup {Nothing}]
    BY <1>1, <1>4, <2>1, NextDeliveryTyped DEF StoreFailureFails
  <2>3. RestOK'
    BY <1>1, <1>4, <2>1, <2>2 DEF StoreFailureFails, Touch, channels, RestOK
  <2> QED
    BY <2>2, <2>3, TypeParts
<1>5. CASE Ack(g)
  <2>1. Current(g) \in Messages /\ (g = Batcher => batch # <<>>)
    BY <1>5, CurrentTyped DEF Ack
  <2>2. PcOK' /\ BatcherOK' /\ hand' \in [Goroutines -> Messages \cup {Nothing}]
    BY <1>1, <1>5, <2>1, NextDeliveryTyped DEF Ack
  <2>3. RestOK'
    BY <1>1, <1>5, <2>1, <2>2 DEF Ack, Touch, channels, RestOK
  <2> QED
    BY <2>2, <2>3, TypeParts
<1> QED
  BY <1>2, <1>3, <1>4, <1>5 DEF SharedStep

\* Closing eventCh and the end of a context keep TypeOK.
LEMMA ContextTypes ==
    ASSUME Shape, CloseEvents \/ Cancel \/ Deadline, UNCHANGED down
    PROVE  TypeOK'
<1>1. PcOK /\ BatcherOK /\ RestOK
  BY TypeParts DEF Shape
<1>2. PcOK' /\ BatcherOK'
  BY <1>1 DEF CloseEvents, Cancel, Deadline, batcher, PcOK, BatcherOK
<1>3. RestOK'
  BY <1>1 DEF CloseEvents, Cancel, Deadline, channels, durable, RestOK, BatcherOK, Contexts
<1> QED
  BY <1>2, <1>3, TypeParts

-----------------------------------------------------------------------------
(* Where the work is.                                                      *)

Moves(g) == \E s : Goto(g, s)

\* A goroutine that moves leaves the others where they are.
LEMMA OthersStay ==
    ASSUME PcOK, NEW g \in Goroutines, NEW s, Goto(g, s)
    PROVE  pc'[g] = s /\ \A h \in Goroutines \ {g} : pc'[h] = pc[h]
  BY DEF PcOK, Goto

\* A flush starts in one of the states its batch allows.
LEMMA FlushShaped ==
    ASSUME TypeOK, NEW b \in Seq(Messages), NEW l \in BOOLEAN, Flush(b, l)
    PROVE  FlushHasWork' /\ BatchHasRoom'
<1> USE PipelineAssumption
<1>1. pc'[Batcher] = IF b # <<>> THEN "store" ELSE IF l THEN "done" ELSE "collect"
  BY OthersStay DEF Flush, TypeOK, PcOK, Goroutines
<1>2. batch' = b
  BY DEF Flush
<1>3. CASE b # <<>>
  BY <1>1, <1>2, <1>3 DEF FlushHasWork, BatchHasRoom
<1>4. CASE b = <<>>
  <2>1. Len(b) = 0
    BY <1>4
  <2> QED
    BY <1>1, <1>2, <1>4, <2>1 DEF FlushHasWork, BatchHasRoom
<1> QED
  BY <1>3, <1>4

\* After a flush the batcher is idle with an empty batch.
LEMMA FlushReturnsShaped ==
    ASSUME TypeOK, FlushReturns
    PROVE  FlushHasWork' /\ BatchHasRoom'
<1>1. pc'[Batcher] \in {"done", "collect"}
  BY OthersStay DEF FlushReturns, TypeOK, PcOK, Goroutines
<1>2. Len(batch') = 0
  BY DEF FlushReturns
<1> QED
  BY <1>1, <1>2, PipelineAssumption DEF FlushHasWork, BatchHasRoom

\* The loop over a batch goes on only while deliveries are left.
LEMMA NextDeliveryShaped ==
    ASSUME Shape, NEW g \in Goroutines, NEW s \in {"record", "ackStored"}, NextDelivery(g, s)
    PROVE  FlushHasWork' /\ BatchHasRoom'
<1> USE PipelineAssumption
<1>1. PcOK
  BY TypeParts DEF Shape
<1>2. CASE g # Batcher
  <2>1. Goto(g, LoopHead(g)) /\ batch' = batch
    BY <1>2 DEF NextDelivery, Continue, batcher
  <2>2. pc'[Batcher] = pc[Batcher]
    BY <1>1, <1>2, <2>1, OthersStay DEF Goroutines
  <2> QED
    BY <2>1, <2>2 DEF Shape, FlushHasWork, BatchHasRoom
<1>3. CASE g = Batcher /\ Len(batch) > 1
  <2>1. batch' = Tail(batch) /\ Goto(Batcher, s)
    BY <1>3 DEF NextDelivery
  <2>2. pc'[Batcher] = s
    BY <1>1, <2>1, OthersStay DEF Goroutines
  <2>3. batch' # <<>>
    <3>1. batch \in Seq(Messages) /\ batch # <<>>
      BY <1>1, <1>3, EmptySeq DEF Shape, TypeOK
    <3>2. Len(Tail(batch)) = Len(batch) - 1 /\ Len(batch) \in Nat
      BY <3>1, HeadTailProperties, LenProperties
    <3>3. Len(batch') > 0
      BY <1>3, <2>1, <3>2
    <3> QED
      BY <3>3
  <2> QED
    BY <2>2, <2>3 DEF FlushHasWork, BatchHasRoom
<1>4. CASE g = Batcher /\ ~(Len(batch) > 1)
  BY <1>4, FlushReturnsShaped DEF NextDelivery, Shape
<1> QED
  BY <1>2, <1>3, <1>4

\* What the poller and the workers do leaves the batch as it is.
LEMMA OthersKeepBatch ==
    ASSUME Shape, NEW g \in Goroutines \ {Batcher}, Moves(g) \/ UNCHANGED pc, UNCHANGED batch
    PROVE  FlushHasWork' /\ BatchHasRoom'
<1>1. PcOK
  BY TypeParts DEF Shape
<1>2. pc'[Batcher] = pc[Batcher]
  BY <1>1, OthersStay DEF Goroutines, Moves
<1> QED
  BY <1>2 DEF Shape, FlushHasWork, BatchHasRoom

\* Every step keeps FlushHasWork and BatchHasRoom.
LEMMA BatchStep ==
    ASSUME Shape, Step
    PROVE  FlushHasWork' /\ BatchHasRoom'
<1> USE PipelineAssumption
<1>1. TypeOK /\ PcOK /\ BatcherOK /\ RestOK
  BY TypeParts DEF Shape
<1>2. CASE PollerStep
  <2>1. Moves(Poller) \/ UNCHANGED pc
    BY <1>2 DEF PollerStep, ProcessData, PollFails, PollCancelled, SendDelivery, Continue,
                Moves, vars
  <2>2. UNCHANGED batch
    BY <1>2 DEF PollerStep, ProcessData, PollFails, PollCancelled, SendDelivery, vars, batcher
  <2> QED
    BY <2>1, <2>2, OthersKeepBatch DEF Goroutines
<1>3. ASSUME NEW w \in Workers, WorkerStep(w) PROVE FlushHasWork' /\ BatchHasRoom'
  <2>1. Moves(w) \/ UNCHANGED pc
    BY <1>3 DEF WorkerStep, Transform, SendEvent, WorkerReturns, Continue, Moves
  <2>2. UNCHANGED batch
    BY <1>3 DEF WorkerStep, Transform, SendEvent, WorkerReturns, batcher
  <2> QED
    BY <2>1, <2>2, OthersKeepBatch DEF Goroutines
<1>4. CASE CloseEvents \/ Cancel \/ Deadline
  BY <1>4 DEF CloseEvents, Cancel, Deadline, batcher, Shape, FlushHasWork, BatchHasRoom
<1>5. CASE BatcherStep
  <2>1. CASE Collect
    <3> DEFINE b == Append(batch, Head(eventCh))
    <3>1. b \in Seq(Messages)
      BY <1>1, <2>1, HeadTailProperties, AppendProperties DEF Collect, BatcherOK, RestOK
    <3>2. CASE Len(b) >= BatchSize
      <4>1. Flush(b, FALSE)
        BY <2>1, <3>2 DEF Collect
      <4> HIDE DEF b
      <4> QED
        BY <1>1, <3>1, <4>1, FlushShaped
    <3>3. CASE ~(Len(b) >= BatchSize)
      <4>1. batch' = b /\ pc' = pc /\ pc[Batcher] = "collect"
        BY <2>1, <3>3 DEF Collect
      <4> HIDE DEF b
      <4> QED
        BY <3>1, <3>3, <4>1, LenProperties DEF FlushHasWork, BatchHasRoom
    <3> QED
      BY <3>2, <3>3
  <2>2. CASE EventsClosed \/ Tick \/ DrainExpires
    BY <1>1, <2>2, FlushShaped DEF EventsClosed, Tick, DrainExpires, BatcherOK
  <2>3. CASE StartDrain
    BY <2>3 DEF StartDrain, Shape, FlushHasWork, BatchHasRoom
  <2>4. CASE (StoreSucceeds \/ StoreFailsTransiently \/ StoreFailsTerminally)
             /\ ~FlushReturns
    <3>1. pc[Batcher] = "store" /\ batch' = batch
      BY <2>4 DEF StoreSucceeds, StoreFailsTransiently, StoreFailsTerminally, batcher
    <3>2. \E s \in {"ackStored", "backoff", "record"} : Goto(Batcher, s)
      BY <2>4 DEF StoreSucceeds, StoreFailsTransiently, StoreFailsTerminally
    <3>3. pc'[Batcher] \in {"ackStored", "backoff", "record"}
      BY <1>1, <3>2, OthersStay DEF Goroutines
    <3> QED
      BY <3>1, <3>3 DEF Shape, FlushHasWork, BatchHasRoom
  <2>5. CASE (BackoffElapses \/ BackoffCancelled) /\ ~FlushReturns
    <3>1. pc[Batcher] = "backoff" /\ batch' = batch /\ Goto(Batcher, "store")
      BY <2>5 DEF BackoffElapses, BackoffCancelled
    <3>2. pc'[Batcher] = "store"
      BY <1>1, <3>1, OthersStay DEF Goroutines
    <3> QED
      BY <3>1, <3>2 DEF Shape, FlushHasWork, BatchHasRoom
  <2>6. CASE FlushReturns
    BY <1>1, <2>6, FlushReturnsShaped
  <2> QED
    BY <1>5, <2>1, <2>2, <2>3, <2>4, <2>5, <2>6 DEF BatcherStep
<1>6. ASSUME NEW g \in Goroutines, SharedStep(g) PROVE FlushHasWork' /\ BatchHasRoom'
  <2>1. CASE HandoffCancelled(g)
    <3>1. g # Batcher /\ Moves(g) /\ UNCHANGED batch
      BY <2>1 DEF HandoffCancelled, Moves, batcher
    <3> QED
      BY <3>1, OthersKeepBatch
  <2>2. CASE StoreFailure(g)
    <3>1. pc[g] = "record" /\ Goto(g, "ack") /\ UNCHANGED batch
      BY <2>2 DEF StoreFailure, batcher
    <3>2. CASE g = Batcher
      <4>1. pc'[Batcher] = "ack"
        BY <1>1, <3>1, <3>2, OthersStay
      <4> QED
        BY <3>1, <3>2, <4>1 DEF Shape, FlushHasWork, BatchHasRoom
    <3>3. CASE g # Batcher
      BY <3>1, <3>3, OthersKeepBatch DEF Moves
    <3> QED
      BY <3>2, <3>3
  <2>3. CASE StoreFailureFails(g) \/ Ack(g)
    BY <2>3, NextDeliveryShaped DEF StoreFailureFails, Ack
  <2> QED
    BY <1>6, <2>1, <2>2, <2>3 DEF SharedStep
<1> QED
  BY <1>2, <1>3, <1>4, <1>5, <1>6 DEF Step

\* A goroutine that moves while the hands of the others stay as they are keeps
\* WorkInHand if it has a message where it needs one.
LEMMA MoveKeepsHands ==
    ASSUME Shape, NEW g \in Goroutines, NEW s, Goto(g, s),
           \A h \in Goroutines \ {g} : hand'[h] = hand[h],
           g # Batcher /\ s \in {"handoff", "record", "ack"} => hand'[g] \in Messages
    PROVE  WorkInHand'
<1>1. PcOK
  BY TypeParts DEF Shape
<1>2. pc'[g] = s /\ \A h \in Goroutines \ {g} : pc'[h] = pc[h]
  BY <1>1, OthersStay
<1>3. ASSUME NEW h \in Workers \cup {Poller}, pc'[h] \in {"handoff", "record", "ack"}
      PROVE  hand'[h] \in Messages
  <2>1. h \in Goroutines /\ h # Batcher
    BY PipelineAssumption DEF Goroutines
  <2>2. CASE h = g
    BY <1>2, <1>3, <2>1, <2>2
  <2>3. CASE h # g
    BY <1>2, <1>3, <2>1, <2>3 DEF Shape, WorkInHand
  <2> QED
    BY <2>2, <2>3
<1> QED
  BY <1>3 DEF WorkInHand

\* Going back to the loop, or on in the batch, keeps WorkInHand.
LEMMA NextKeepsHands ==
    ASSUME Shape, NEW g \in Goroutines,
           (g # Batcher /\ Continue(g)) \/ NextDelivery(g, "record")
               \/ NextDelivery(g, "ackStored")
    PROVE  WorkInHand'
<1>1. CASE g # Batcher
  <2>1. Goto(g, LoopHead(g)) /\ Hold(g, Nothing)
    BY <1>1 DEF Continue, NextDelivery
  <2>2. LoopHead(g) \notin {"handoff", "record", "ack"}
    BY DEF LoopHead
  <2>3. \A h \in Goroutines \ {g} : hand'[h] = hand[h]
    BY <2>1 DEF Hold, Shape, TypeOK
  <2> QED
    BY <2>1, <2>2, <2>3, MoveKeepsHands
<1>2. CASE g = Batcher
  <2>1. UNCHANGED hand /\ \E s : Goto(g, s)
    BY <1>2 DEF NextDelivery, FlushReturns
  <2> QED
    BY <1>2, <2>1, MoveKeepsHands
<1> QED
  BY <1>1, <1>2

\* Every step keeps WorkInHand.
LEMMA HandStep ==
    ASSUME Shape, Step
    PROVE  WorkInHand'
<1> USE PipelineAssumption
<1>1. TypeOK /\ PcOK /\ BatcherOK /\ RestOK
  BY TypeParts DEF Shape
<1>2. /\ Poller \in Goroutines /\ Poller # Batcher /\ Batcher \in Goroutines
      /\ \A w \in Workers : w \in Goroutines /\ w # Batcher
  BY DEF Goroutines
<1>3. CASE UNCHANGED <<pc, hand>>
  BY <1>3 DEF Shape, WorkInHand
<1>4. ASSUME NEW m \in Messages, ProcessData(m) PROVE WorkInHand'
  <2>1. CASE Goto(Poller, "done") /\ UNCHANGED hand
    BY <1>2, <2>1, MoveKeepsHands
  <2>2. CASE Hold(Poller, m) /\ Moves(Poller)
    <3>1. hand'[Poller] = m /\ \A h \in Goroutines \ {Poller} : hand'[h] = hand[h]
      BY <1>1, <1>2, <2>2 DEF Hold, RestOK
    <3> QED
      BY <1>2, <2>2, <3>1, MoveKeepsHands DEF Moves
  <2> QED
    BY <1>4, <2>1, <2>2 DEF ProcessData, Moves
<1>5. CASE PollFails \/ PollCancelled
  BY <1>2, <1>3, <1>5, MoveKeepsHands DEF PollFails, PollCancelled, vars
<1>6. CASE SendDelivery
  BY <1>2, <1>6, NextKeepsHands DEF SendDelivery
<1>7. ASSUME NEW w \in Workers, WorkerStep(w) PROVE WorkInHand'
  <2>1. CASE Transform(w)
    <3>1. CASE Hold(w, Head(deliveryCh)) /\ Moves(w)
      <4>1. Head(deliveryCh) \in Messages
        BY <1>1, <2>1, HeadTailProperties DEF Transform, RestOK
      <4>2. hand'[w] \in Messages /\ \A h \in Goroutines \ {w} : hand'[h] = hand[h]
        BY <1>1, <1>2, <3>1, <4>1 DEF Hold, RestOK
      <4> QED
        BY <1>2, <3>1, <4>2, MoveKeepsHands DEF Moves
    <3>2. CASE Goto(w, "done") /\ UNCHANGED hand
      BY <1>2, <3>2, MoveKeepsHands
    <3> QED
      BY <1>3, <2>1, <3>1, <3>2 DEF Transform, Moves
  <2>2. CASE SendEvent(w)
    BY <1>2, <2>2, NextKeepsHands DEF SendEvent
  <2>3. CASE WorkerReturns(w)
    BY <1>2, <2>3, MoveKeepsHands DEF WorkerReturns
  <2> QED
    BY <1>7, <2>1, <2>2, <2>3 DEF WorkerStep
<1>8. CASE CloseEvents \/ Cancel \/ Deadline
  BY <1>3, <1>8 DEF CloseEvents, Cancel, Deadline
<1>9. CASE BatcherStep
  <2>1. UNCHANGED hand
    BY <1>9 DEF BatcherStep, Collect, EventsClosed, Tick, StartDrain, DrainExpires,
                StoreSucceeds, StoreFailsTransiently, StoreFailsTerminally,
                BackoffElapses, BackoffCancelled
  <2>2. UNCHANGED pc \/ Moves(Batcher)
    BY <1>9 DEF BatcherStep, Collect, EventsClosed, Tick, StartDrain, DrainExpires,
                StoreSucceeds, StoreFailsTransiently, StoreFailsTerminally,
                BackoffElapses, BackoffCancelled, Flush, FlushReturns, Moves
  <2> QED
    BY <1>2, <1>3, <2>1, <2>2, MoveKeepsHands DEF Moves
<1>10. ASSUME NEW g \in Goroutines, SharedStep(g) PROVE WorkInHand'
  <2>1. CASE HandoffCancelled(g)
    <3>1. Goto(g, "done") /\ \A h \in Goroutines \ {g} : hand'[h] = hand[h]
      BY <1>1, <2>1 DEF HandoffCancelled, Hold, RestOK
    <3> QED
      BY <3>1, MoveKeepsHands
  <2>2. CASE StoreFailure(g)
    <3>1. Goto(g, "ack") /\ UNCHANGED hand /\ pc[g] = "record"
      BY <2>2 DEF StoreFailure
    <3>2. g # Batcher => hand'[g] \in Messages
      BY <3>1 DEF Shape, WorkInHand, Goroutines
    <3> QED
      BY <3>1, <3>2, MoveKeepsHands
  <2>3. CASE StoreFailureFails(g) \/ Ack(g)
    BY <2>3, NextKeepsHands DEF StoreFailureFails, Ack
  <2> QED
    BY <1>10, <2>1, <2>2, <2>3 DEF SharedStep
<1> QED
  BY <1>4, <1>5, <1>6, <1>7, <1>8, <1>9, <1>10 DEF Step, PollerStep

\* Every step keeps the shape of the state.
LEMMA ShapeStep ==
    ASSUME Shape, [Next]_vars
    PROVE  Shape'
<1>1. CASE UNCHANGED standing /\ down' \in {down, TRUE}
  BY <1>1 DEF standing, channels, batcher, durable, Shape, TypeOK, FlushHasWork, BatchHasRoom,
              WorkInHand
<1>2. CASE Step /\ UNCHANGED down
  <2>1. TypeOK'
    BY <1>2, PollerTypes, WorkerTypes, BatcherTypes, SharedTypes, ContextTypes DEF Step
  <2> QED
    BY <1>2, <2>1, BatchStep, HandStep DEF Shape
<1> QED
  BY <1>1, <1>2, NextCases

-----------------------------------------------------------------------------
(* Durability before the acknowledgement.                                  *)

\* A move keeps what the goroutines about to call a handler rely on, if the one
\* that moves finds what it needs.
LEMMA MoveKeepsEvidence ==
    ASSUME IInv, NEW g \in Goroutines, NEW s, Goto(g, s),
           \A h \in Goroutines \ {g, Batcher} : hand'[h] = hand[h],
           g # Batcher => batch' = batch,
           stored \subseteq stored', recorded \subseteq recorded',
           s = "ack" => Current(g)' \in recorded',
           g = Batcher /\ s = "ackStored" => Elements(batch') \subseteq stored'
    PROVE  RecordedBeforeAck' /\ StoredBeforeAck'
<1>1. PcOK
  BY TypeParts DEF IInv
<1>2. pc'[g] = s /\ \A h \in Goroutines \ {g} : pc'[h] = pc[h]
  BY <1>1, OthersStay
<1>3. ASSUME NEW h \in Goroutines, pc'[h] = "ack"
      PROVE  Current(h)' \in recorded'
  <2>1. CASE h = g
    BY <1>2, <1>3, <2>1
  <2>2. CASE h # g
    <3>1. Current(h)' = Current(h)
      BY <2>2 DEF Current, Goroutines
    <3>2. Current(h) \in recorded
      BY <1>2, <1>3, <2>2 DEF IInv, RecordedBeforeAck
    <3> QED
      BY <3>1, <3>2
  <2> QED
    BY <2>1, <2>2
<1>4. StoredBeforeAck'
  <2>1. CASE g = Batcher
    BY <1>2, <2>1 DEF StoredBeforeAck, Elements
  <2>2. CASE g # Batcher
    BY <1>2, <2>2 DEF StoredBeforeAck, Elements, IInv, Goroutines
  <2> QED
    BY <2>1, <2>2
<1> QED
  BY <1>3, <1>4 DEF RecordedBeforeAck

\* A step that leaves the goroutines alone keeps them too.
LEMMA StillKeepsEvidence ==
    ASSUME IInv, UNCHANGED <<pc, hand, stored, deadLetters>>,
           pc[Batcher] = "collect" \/ UNCHANGED batch
    PROVE  RecordedBeforeAck' /\ StoredBeforeAck'
<1>1. ASSUME NEW h \in Goroutines, pc'[h] = "ack"
      PROVE  Current(h)' \in recorded'
  <2>1. Current(h)' = Current(h)
    BY <1>1 DEF Current
  <2> QED
    BY <1>1, <2>1 DEF IInv, RecordedBeforeAck, recorded
<1>2. StoredBeforeAck'
  BY DEF StoredBeforeAck, Elements, IInv
<1> QED
  BY <1>1, <1>2 DEF RecordedBeforeAck

\* What is left of a batch was in it before.
LEMMA TailElements ==
    ASSUME NEW s \in Seq(Messages), s # <<>>
    PROVE  Head(s) \in Elements(s) /\ Elements(Tail(s)) \subseteq Elements(s)
<1>1. Len(s) \in Nat \ {0} /\ DOMAIN s = 1 .. Len(s) /\ Head(s) = s[1]
  BY EmptySeq, LenProperties, HeadTailProperties
<1>2. ASSUME NEW i \in DOMAIN Tail(s) PROVE Tail(s)[i] \in Elements(s)
  <2>1. Tail(s) \in Seq(Messages) /\ Len(Tail(s)) = Len(s) - 1
    BY HeadTailProperties
  <2>2. i \in 1 .. Len(s) - 1 /\ Tail(s)[i] = s[i + 1]
    BY <1>1, <2>1, HeadTailProperties, LenProperties
  <2> QED
    BY <1>1, <2>2 DEF Elements
<1> QED
  BY <1>1, <1>2 DEF Elements

\* Going on to the next delivery keeps them: the rest of the batch is stored.
LEMMA NextKeepsEvidence ==
    ASSUME IInv, NEW g \in Goroutines, stored \subseteq stored', recorded \subseteq recorded',
           NextDelivery(g, "record") \/
             (NextDelivery(g, "ackStored") /\ (g = Batcher => pc[g] = "ackStored"))
    PROVE  RecordedBeforeAck' /\ StoredBeforeAck'
<1>1. stored \subseteq stored' /\ recorded \subseteq recorded'
  OBVIOUS
<1>2. CASE g # Batcher
  <2>1. Goto(g, LoopHead(g)) /\ Hold(g, Nothing) /\ batch' = batch
    BY <1>2 DEF Continue, NextDelivery, batcher
  <2>2. LoopHead(g) \notin {"ack", "ackStored"}
    BY DEF LoopHead
  <2>3. \A h \in Goroutines \ {g, Batcher} : hand'[h] = hand[h]
    BY <2>1 DEF Hold, IInv, TypeOK
  <2> QED
    BY <1>1, <1>2, <2>1, <2>2, <2>3, MoveKeepsEvidence
<1>3. CASE g = Batcher /\ Len(batch) > 1
  <2>1. PICK s \in {"record", "ackStored"} :
            /\ batch' = Tail(batch) /\ UNCHANGED hand /\ Goto(Batcher, s)
            /\ s = "ackStored" => pc[Batcher] = "ackStored"
    BY <1>3 DEF NextDelivery
  <2>2. s = "ackStored" => Elements(batch') \subseteq stored'
    <3>1. batch \in Seq(Messages) /\ batch # <<>>
      BY <1>3, EmptySeq DEF IInv, TypeOK
    <3> QED
      BY <2>1, <3>1, TailElements DEF IInv, StoredBeforeAck
  <2> QED
    BY <1>1, <1>3, <2>1, <2>2, MoveKeepsEvidence
<1>4. CASE g = Batcher /\ ~(Len(batch) > 1)
  <2>1. UNCHANGED hand /\ FlushReturns
    BY <1>4 DEF NextDelivery
  <2>2. \E s \in {"done", "collect"} : Goto(Batcher, s)
    BY <2>1 DEF FlushReturns
  <2> QED
    BY <1>1, <1>4, <2>1, <2>2, MoveKeepsEvidence
<1> QED
  BY <1>2, <1>3, <1>4

\* A step of the poller keeps the evidence.
LEMMA PollerEvidence ==
    ASSUME IInv, PollerStep
    PROVE  RecordedBeforeAck' /\ StoredBeforeAck'
<1>1. /\ Poller \in Goroutines /\ Poller # Batcher
      /\ hand \in [Goroutines -> Messages \cup {Nothing}]
  BY PipelineAssumption DEF Goroutines, IInv, TypeOK
<1>2. UNCHANGED <<stored, deadLetters, batch>> /\ stored \subseteq stored'
        /\ recorded \subseteq recorded'
  BY DEF PollerStep, ProcessData, PollFails, PollCancelled, SendDelivery, Continue, durable,
         batcher, vars, recorded
<1>3. UNCHANGED <<pc, hand>> \/
        \E s \in {"done", "record", "handoff", LoopHead(Poller)} : Goto(Poller, s)
  BY DEF PollerStep, ProcessData, PollFails, PollCancelled, SendDelivery, Continue, vars
<1>4. LoopHead(Poller) \notin {"ack", "ackStored"}
  BY DEF LoopHead
<1>5. UNCHANGED hand \/ \E m : Hold(Poller, m)
  BY DEF PollerStep, ProcessData, PollFails, PollCancelled, SendDelivery, Continue, vars
<1>6. \A h \in Goroutines \ {Poller, Batcher} : hand'[h] = hand[h]
  BY <1>1, <1>5 DEF Hold
<1>7. CASE UNCHANGED <<pc, hand>>
  BY <1>2, <1>7, StillKeepsEvidence
<1>8. CASE \E s \in {"done", "record", "handoff", LoopHead(Poller)} : Goto(Poller, s)
  BY <1>1, <1>2, <1>4, <1>6, <1>8, MoveKeepsEvidence
<1> QED
  BY <1>3, <1>7, <1>8

\* A step of a worker keeps the evidence.
LEMMA WorkerEvidence ==
    ASSUME IInv, NEW w \in Workers, WorkerStep(w)
    PROVE  RecordedBeforeAck' /\ StoredBeforeAck'
<1>1. /\ w \in Goroutines /\ w # Batcher
      /\ hand \in [Goroutines -> Messages \cup {Nothing}]
  BY PipelineAssumption DEF Goroutines, IInv, TypeOK
<1>2. UNCHANGED <<stored, deadLetters, batch>> /\ stored \subseteq stored'
        /\ recorded \subseteq recorded'
  BY DEF WorkerStep, Transform, SendEvent, WorkerReturns, Continue, durable, batcher, recorded
<1>3. UNCHANGED <<pc, hand>> \/
        \E s \in {"done", "panic", "record", "handoff", LoopHead(w)} : Goto(w, s)
  BY DEF WorkerStep, Transform, SendEvent, WorkerReturns, Continue
<1>4. LoopHead(w) \notin {"ack", "ackStored"}
  BY DEF LoopHead
<1>5. UNCHANGED hand \/ \E m : Hold(w, m)
  BY DEF WorkerStep, Transform, SendEvent, WorkerReturns, Continue
<1>6. \A h \in Goroutines \ {w, Batcher} : hand'[h] = hand[h]
  BY <1>1, <1>5 DEF Hold
<1>7. CASE UNCHANGED <<pc, hand>>
  BY <1>2, <1>7, StillKeepsEvidence
<1>8. CASE \E s \in {"done", "panic", "record", "handoff", LoopHead(w)} : Goto(w, s)
  BY <1>1, <1>2, <1>4, <1>6, <1>8, MoveKeepsEvidence
<1> QED
  BY <1>3, <1>7, <1>8

\* A step of the batcher keeps the evidence.
LEMMA BatcherEvidence ==
    ASSUME IInv, BatcherStep
    PROVE  RecordedBeforeAck' /\ StoredBeforeAck'
<1>1. Batcher \in Goroutines
  BY DEF Goroutines
<1>2. UNCHANGED <<hand, deadLetters>> /\ stored \subseteq stored' /\ recorded \subseteq recorded'
  BY DEF BatcherStep, Collect, EventsClosed, Tick, StartDrain, DrainExpires, StoreSucceeds,
         StoreFailsTransiently, StoreFailsTerminally, BackoffElapses, BackoffCancelled,
         durable, recorded
<1>3. CASE StoreSucceeds
  <2>1. Goto(Batcher, "ackStored") /\ batch' = batch /\ stored' = stored \cup Elements(batch)
    BY <1>3 DEF StoreSucceeds, batcher
  <2> QED
    BY <1>1, <1>2, <2>1, MoveKeepsEvidence
<1>4. CASE StartDrain \/ (Collect /\ UNCHANGED pc)
  <2>1. UNCHANGED <<pc, stored>> /\ pc[Batcher] = "collect"
    BY <1>4 DEF StartDrain, Collect, durable
  <2> QED
    BY <1>2, <2>1, StillKeepsEvidence
<1>5. CASE ~StoreSucceeds /\ ~StartDrain /\ ~(Collect /\ UNCHANGED pc)
  <2>1. \E s \in {"store", "collect", "done", "backoff", "record"} : Goto(Batcher, s)
    BY <1>5 DEF BatcherStep, Collect, EventsClosed, Tick, DrainExpires, StoreFailsTransiently,
                StoreFailsTerminally, BackoffElapses, BackoffCancelled, Flush, FlushReturns
  <2> QED
    BY <1>1, <1>2, <2>1, MoveKeepsEvidence
<1> QED
  BY <1>3, <1>4, <1>5

\* A step any goroutine may take keeps the evidence.
LEMMA SharedEvidence ==
    ASSUME IInv, NEW g \in Goroutines, SharedStep(g)
    PROVE  RecordedBeforeAck' /\ StoredBeforeAck'
<1>1. CASE HandoffCancelled(g)
  <2>1. Goto(g, "done") /\ Hold(g, Nothing) /\ UNCHANGED <<batch, stored, deadLetters>>
    BY <1>1 DEF HandoffCancelled, batcher, durable
  <2>2. \A h \in Goroutines \ {g, Batcher} : hand'[h] = hand[h]
    BY <2>1 DEF Hold, IInv, TypeOK
  <2>3. stored \subseteq stored' /\ recorded \subseteq recorded'
    BY <2>1 DEF recorded
  <2> QED
    BY <1>1, <2>1, <2>2, <2>3, MoveKeepsEvidence DEF HandoffCancelled
<1>2. CASE StoreFailure(g)
  <2>1. Goto(g, "ack") /\ UNCHANGED <<hand, batch, stored>>
    BY <1>2 DEF StoreFailure, batcher
  <2>2. Current(g)' = Current(g)
    BY <2>1 DEF Current
  <2>3. recorded \subseteq recorded' /\ Current(g) \in recorded'
    <3>1. PICK S \in {{"sqlite"}, {"kafka"}, {"sqlite", "kafka"}} :
              deadLetters' = deadLetters \cup (S \X {Current(g)})
      BY <1>2, RowsLeft
    <3>2. \E s : <<s, Current(g)>> \in deadLetters' /\ deadLetters \subseteq deadLetters'
      BY <3>1
    <3>3. \A d \in deadLetters' : d[2] \in recorded'
      BY DEF recorded
    <3>4. Current(g) \in recorded'
      BY <3>2, <3>3
    <3>5. recorded \subseteq recorded'
      BY <3>2 DEF recorded
    <3> QED
      BY <3>4, <3>5
  <2> QED
    BY <2>1, <2>2, <2>3, MoveKeepsEvidence
<1>3. CASE StoreFailureFails(g)
  <2>1. stored' = stored /\ deadLetters \subseteq deadLetters' /\ NextDelivery(g, "record")
    BY <1>3 DEF StoreFailureFails
  <2> QED
    BY <2>1, NextKeepsEvidence DEF recorded
<1>4. CASE Ack(g)
  BY <1>4, NextKeepsEvidence DEF Ack, recorded
<1> QED
  BY <1>1, <1>2, <1>3, <1>4 DEF SharedStep

\* A delivery is acked only when its message is in one of the storages.
LEMMA AckStep ==
    ASSUME IInv, Step
    PROVE  AckedIsDurable'
<1>1. stored \subseteq stored' /\ recorded \subseteq recorded'
  <2>1. ASSUME NEW g \in Goroutines, SharedStep(g)
        PROVE  stored \subseteq stored' /\ deadLetters \subseteq deadLetters'
    BY <2>1 DEF SharedStep, HandoffCancelled, StoreFailure, StoreFailureFails, Ack, durable
  <2>2. stored \subseteq stored' /\ deadLetters \subseteq deadLetters'
    BY <2>1 DEF Step, PollerStep, ProcessData, PollFails, PollCancelled, SendDelivery,
                WorkerStep, Transform, SendEvent, WorkerReturns, CloseEvents, BatcherStep,
                Collect, EventsClosed, Tick, StartDrain, DrainExpires, StoreSucceeds,
                StoreFailsTransiently, StoreFailsTerminally, BackoffElapses,
                BackoffCancelled, Cancel, Deadline, durable, vars
  <2> QED
    BY <2>2 DEF recorded
<1>2. CASE \E g \in Goroutines : Ack(g)
  <2>1. PICK g \in Goroutines : Ack(g)
    BY <1>2
  <2>2. Current(g) \in stored \cup recorded
    <3>1. CASE pc[g] = "ack"
      BY <3>1 DEF IInv, RecordedBeforeAck
    <3>2. CASE pc[g] = "ackStored"
      <4>1. g = Batcher
        BY <3>2 DEF IInv, TypeOK, Goroutines, PollerStates, WorkerStates
      <4>2. batch \in Seq(Messages) /\ batch # <<>> /\ Elements(batch) \subseteq stored
        BY <3>2, <4>1 DEF IInv, TypeOK, FlushHasWork, StoredBeforeAck
      <4> QED
        BY <4>1, <4>2, TailElements DEF Current
    <3> QED
      BY <2>1, <3>1, <3>2 DEF Ack
  <2>3. acked' = acked \cup {Current(g)}
    BY <2>1 DEF Ack
  <2> QED
    BY <1>1, <2>2, <2>3 DEF IInv, AckedIsDurable
<1>3. CASE ~(\E g \in Goroutines : Ack(g))
  <2>1. ASSUME NEW g \in Goroutines, SharedStep(g) PROVE acked' = acked
    BY <1>3, <2>1 DEF SharedStep, HandoffCancelled, StoreFailure, StoreFailureFails, durable
  <2>2. acked' = acked
    BY <2>1 DEF Step, PollerStep, ProcessData, PollFails, PollCancelled, SendDelivery,
                WorkerStep, Transform, SendEvent, WorkerReturns, CloseEvents, BatcherStep,
                Collect, EventsClosed, Tick, StartDrain, DrainExpires, StoreSucceeds,
                StoreFailsTransiently, StoreFailsTerminally, BackoffElapses,
                BackoffCancelled, Cancel, Deadline, durable, vars
  <2> QED
    BY <1>1, <2>2 DEF IInv, AckedIsDurable
<1> QED
  BY <1>2, <1>3

\* Every step keeps the inductive invariant.
LEMMA InductiveStep ==
    ASSUME IInv, [Next]_vars
    PROVE  IInv'
<1>1. Shape /\ Shape'
  BY ShapeStep DEF IInv, Shape
<1>2. CASE Step
  <2>1. AckedIsDurable'
    BY <1>2, AckStep
  <2>2. RecordedBeforeAck' /\ StoredBeforeAck'
    <3>1. CASE CloseEvents \/ Cancel \/ Deadline
      BY <3>1, StillKeepsEvidence DEF CloseEvents, Cancel, Deadline, durable, batcher
    <3> QED
      BY <1>2, <3>1, PollerEvidence, WorkerEvidence, BatcherEvidence, SharedEvidence DEF Step
  <2> QED
    BY <1>1, <2>1, <2>2 DEF IInv, Shape
<1>3. CASE UNCHANGED standing
  <2>1. UNCHANGED <<pc, hand, stored, deadLetters, acked, batch>>
    BY <1>3 DEF standing, durable, batcher
  <2>2. AckedIsDurable'
    BY <2>1 DEF IInv, AckedIsDurable, recorded
  <2> QED
    BY <1>1, <2>1, <2>2, StillKeepsEvidence DEF IInv, Shape
<1> QED
  BY <1>2, <1>3, NextCases

-----------------------------------------------------------------------------
(* The theorems.                                                           *)

\* The invariant holds when Ingest starts.
LEMMA InitialState == Init => IInv
<1> SUFFICES ASSUME Init PROVE IInv
  OBVIOUS
<1> USE PipelineAssumption
<1>1. \A g \in Goroutines : pc[g] = IF g = Poller THEN "fetch"
                                    ELSE IF g = Batcher THEN "collect" ELSE "receive"
  BY DEF Init, entry
<1>2. PcOK
  BY <1>1 DEF Init, entry, PcOK, Goroutines, PollerStates, WorkerStates, BatcherStates
<1>0. <<>> \in Seq(Messages) /\ Len(<<>>) = 0
  BY EmptySeq
<1>3. BatcherOK /\ Len(batch) < BatchSize
  <2>1. batch \in Seq(Messages) /\ Len(batch) = 0
    BY <1>0 DEF Init
  <2> QED
    <3>1. last \in BOOLEAN /\ phase \in Contexts
      BY DEF Init, Contexts
    <3>2. attempt \in 0 .. maxStoreAttempts - 1
      BY DEF Init, maxStoreAttempts
    <3> QED
      BY <2>1, <3>1, <3>2 DEF BatcherOK
<1>4. RestOK
  <2>1. deliveryCh \in Seq(Messages) /\ Len(deliveryCh) = 0
    BY <1>0 DEF Init
  <2>2. eventCh \in Seq(Messages) /\ Len(eventCh) = 0
    BY <1>0 DEF Init
  <2>3. hand \in [Goroutines -> Messages \cup {Nothing}]
    BY DEF Init
  <2>4. source \subseteq Messages /\ expired \subseteq Contexts /\ eventClosed \in BOOLEAN
    BY DEF Init
  <2>5. /\ stored \subseteq Messages
        /\ deadLetters \subseteq {"sqlite", "kafka"} \X Messages
        /\ acked \subseteq Messages
        /\ ackFailed \subseteq Messages
        /\ afterAck \subseteq Messages
        /\ down \in BOOLEAN
    BY DEF Init
  <2> QED
    BY <2>1, <2>2, <2>3, <2>4, <2>5 DEF RestOK
<1>5. TypeOK
  BY <1>2, <1>3, <1>4 DEF TypeOK, PcOK, BatcherOK, RestOK
<1>6. pc[Batcher] = "collect" /\ \A g \in Goroutines : pc[g] \in {"fetch", "collect", "receive"}
  BY <1>1 DEF Goroutines
<1>7. FlushHasWork /\ BatchHasRoom /\ WorkInHand
  BY <1>3, <1>6 DEF FlushHasWork, BatchHasRoom, WorkInHand, Goroutines
<1>8. RecordedBeforeAck /\ StoredBeforeAck /\ AckedIsDurable
  BY <1>6 DEF Init, RecordedBeforeAck, StoredBeforeAck, AckedIsDurable
<1> QED
  BY <1>5, <1>7, <1>8 DEF IInv

\* The inductive invariant of the pipeline: what each goroutine holds, and what
\* it has seen written, wherever it stands in ingestor.go.
THEOREM Invariant == Spec => []IInv
  BY InitialState, InductiveStep, PTL DEF Spec

\* The pipeline's state is well typed: batches within Config.BatchSize, channels
\* within their capacity, attempts within maxStoreAttempts.
THEOREM TypeCorrect == Spec => []TypeOK
<1>1. IInv => TypeOK
  BY DEF IInv
<1> QED
  BY <1>1, Invariant, PTL

\* failTerminalAndAck and storeBatchWithDeliveries: whatever fails, in whatever
\* order, the handler of a delivery is called only after its message is in the
\* event store or in a failure storage.
THEOREM AckIsSafe == Spec => []AckedIsDurable
<1>1. IInv => AckedIsDurable
  BY DEF IInv
<1> QED
  BY <1>1, Invariant, PTL

\* Only the goroutine that waits for the workers closes eventCh, and a worker
\* that has returned takes no step.
LEMMA ClosedStep ==
    ASSUME TypeOK, NoSendOnClosedChannel, [Next]_vars
    PROVE  NoSendOnClosedChannel'
<1> USE PipelineAssumption
<1>1. PcOK
  BY TypeParts
<1>2. CASE CloseEvents
  BY <1>2 DEF CloseEvents, NoSendOnClosedChannel
<1>3. ASSUME NEW g \in {Poller, Batcher}, Moves(g) \/ UNCHANGED pc, UNCHANGED eventClosed
      PROVE  NoSendOnClosedChannel'
  <2>1. g \in Goroutines /\ \A w \in Workers : w \in Goroutines \ {g}
    BY DEF Goroutines
  <2>2. \A w \in Workers : pc'[w] = pc[w]
    BY <1>1, <1>3, <2>1, OthersStay DEF Moves
  <2> QED
    BY <1>3, <2>2 DEF NoSendOnClosedChannel
<1>4. CASE PollerStep \/ SharedStep(Poller)
  <2>1. UNCHANGED eventClosed
    BY <1>4 DEF PollerStep, ProcessData, PollFails, PollCancelled, SendDelivery, SharedStep,
                HandoffCancelled, StoreFailure, StoreFailureFails, Ack, channels, vars
  <2>2. Moves(Poller) \/ UNCHANGED pc
    BY <1>4 DEF PollerStep, ProcessData, PollFails, PollCancelled, SendDelivery, SharedStep,
                HandoffCancelled, StoreFailure, StoreFailureFails, Ack, NextDelivery,
                Continue, Moves, vars
  <2> QED
    BY <1>3, <2>1, <2>2
<1>5. CASE BatcherStep \/ SharedStep(Batcher)
  <2>1. UNCHANGED eventClosed
    BY <1>5 DEF BatcherStep, Collect, EventsClosed, Tick, StartDrain, DrainExpires,
                StoreSucceeds, StoreFailsTransiently, StoreFailsTerminally,
                BackoffElapses, BackoffCancelled, SharedStep, HandoffCancelled,
                StoreFailure, StoreFailureFails, Ack, channels
  <2>2. Moves(Batcher) \/ UNCHANGED pc
    BY <1>5 DEF BatcherStep, Collect, EventsClosed, Tick, StartDrain, DrainExpires,
                StoreSucceeds, StoreFailsTransiently, StoreFailsTerminally,
                BackoffElapses, BackoffCancelled, SharedStep, HandoffCancelled,
                StoreFailure, StoreFailureFails, Ack, NextDelivery, Flush, FlushReturns,
                Moves
  <2> QED
    BY <1>3, <2>1, <2>2
<1>6. ASSUME NEW w \in Workers, WorkerStep(w) \/ SharedStep(w)
      PROVE  NoSendOnClosedChannel'
  <2>1. pc[w] # "done" /\ UNCHANGED eventClosed
    BY <1>6 DEF WorkerStep, Transform, SendEvent, WorkerReturns, SharedStep, HandoffCancelled,
                StoreFailure, StoreFailureFails, Ack, channels
  <2> QED
    BY <2>1 DEF NoSendOnClosedChannel
<1>7. CASE Cancel \/ Deadline \/ UNCHANGED standing
  BY <1>7 DEF Cancel, Deadline, channels, standing, NoSendOnClosedChannel
<1>8. \A g \in Goroutines : g \in Workers \/ g = Poller \/ g = Batcher
  BY DEF Goroutines
<1> QED
  BY <1>2, <1>4, <1>5, <1>6, <1>7, <1>8, NextCases DEF Step

\* ingestWithWorkerPool: eventCh is closed after the last worker has returned,
\* so no worker ever sends on a closed channel, which would panic.
THEOREM NoPanicOnSend == Spec => []NoSendOnClosedChannel
<1>1. Init => NoSendOnClosedChannel
  BY DEF Init, NoSendOnClosedChannel
<1> QED
  BY <1>1, ClosedStep, TypeCorrect, PTL DEF Spec

-----------------------------------------------------------------------------
(* Custody.                                                                *)

Distinct(s) == \A i, j \in DOMAIN s : s[i] = s[j] => i = j

\* CustodyIsUnique in terms of what the places hold, which is how the steps
\* change it: no place holds a delivery twice, no two places hold the same one,
\* and none holds one that is not fetched yet or already acked.
HandsApart == \A g, h \in Goroutines : hand[g] = hand[h] /\ hand[g] # Nothing => g = h
SlotsApart == Distinct(deliveryCh) /\ Distinct(eventCh) /\ Distinct(batch)
PlacesApart ==
    /\ Elements(deliveryCh) \cap Elements(eventCh) = {}
    /\ Elements(deliveryCh) \cap Elements(batch) = {}
    /\ Elements(eventCh) \cap Elements(batch) = {}
    /\ \A g \in Goroutines :
          hand[g] \notin Elements(deliveryCh) \cup Elements(eventCh) \cup Elements(batch)
NoneTaken ==
    /\ source \cap acked = {}
    /\ \A g \in Goroutines : hand[g] \notin source \cup acked
    /\ (Elements(deliveryCh) \cup Elements(eventCh) \cup Elements(batch))
          \cap (source \cup acked) = {}
Custody == HandsApart /\ SlotsApart /\ PlacesApart /\ NoneTaken

\* A message put at the end of a queue.
LEMMA AppendDistinct ==
    ASSUME NEW s \in Seq(Messages), NEW m \in Messages
    PROVE  /\ Elements(Append(s, m)) = Elements(s) \cup {m}
           /\ Distinct(s) /\ m \notin Elements(s) => Distinct(Append(s, m))
<1> DEFINE t == Append(s, m)
           n == Len(s)
<1>1. /\ n \in Nat /\ DOMAIN s = 1 .. n /\ DOMAIN t = 1 .. n + 1
      /\ \A i \in 1 .. n : t[i] = s[i]
      /\ t[n + 1] = m
  BY AppendProperties, LenProperties
<1> HIDE DEF t, n
<1>2. Elements(t) = Elements(s) \cup {m}
  <2>1. \A i \in 1 .. n + 1 : i = n + 1 \/ i \in 1 .. n
    BY <1>1
  <2>2. n + 1 \in 1 .. n + 1 /\ 1 .. n \subseteq 1 .. n + 1
    BY <1>1
  <2>3. Elements(t) \subseteq Elements(s) \cup {m}
    BY <1>1, <2>1 DEF Elements
  <2>4. m \in Elements(t) /\ Elements(s) \subseteq Elements(t)
    BY <1>1, <2>2 DEF Elements
  <2> QED
    BY <2>3, <2>4
<1>3. ASSUME Distinct(s), m \notin Elements(s), NEW i \in DOMAIN t, NEW j \in DOMAIN t, t[i] = t[j]
      PROVE  i = j
  <2>1. \A k \in 1 .. n : s[k] # m
    BY <1>1, <1>3 DEF Elements
  <2>2. (i = n + 1 \/ i \in 1 .. n) /\ (j = n + 1 \/ j \in 1 .. n)
    BY <1>1, <1>3
  <2>3. \A k, l \in 1 .. n : s[k] = s[l] => k = l
    BY <1>1, <1>3 DEF Distinct
  <2> QED
    BY <1>1, <1>3, <2>1, <2>2, <2>3
<1> QED
  BY <1>2, <1>3 DEF Distinct, t

\* A message taken from the front.
LEMMA TailDistinct ==
    ASSUME NEW s \in Seq(Messages), s # <<>>, Distinct(s)
    PROVE  /\ Head(s) \in Elements(s) /\ Head(s) \in Messages
           /\ Elements(Tail(s)) = Elements(s) \ {Head(s)}
           /\ Distinct(Tail(s))
<1> DEFINE t == Tail(s)
           n == Len(s)
<1>1. /\ n \in Nat \ {0} /\ DOMAIN s = 1 .. n /\ Head(s) = s[1] /\ Head(s) \in Messages
      /\ t \in Seq(Messages) /\ Len(t) = n - 1
      /\ \A i \in 1 .. n - 1 : t[i] = s[i + 1]
  BY EmptySeq, LenProperties, HeadTailProperties
<1>2. DOMAIN t = 1 .. n - 1
  BY <1>1, LenProperties
<1> HIDE DEF t, n
<1>3. \A k, l \in 1 .. n : s[k] = s[l] => k = l
  BY <1>1 DEF Distinct
<1>4. Head(s) \in Elements(s)
  BY <1>1 DEF Elements
<1>5. Elements(t) \subseteq Elements(s) \ {Head(s)}
  <2> SUFFICES ASSUME NEW i \in 1 .. n - 1
               PROVE  t[i] \in Elements(s) /\ t[i] # Head(s)
    BY <1>2 DEF Elements
  <2>1. i + 1 \in 1 .. n /\ 1 \in 1 .. n /\ i + 1 # 1
    BY <1>1
  <2>2. t[i] = s[i + 1] /\ s[i + 1] # s[1]
    BY <1>1, <1>3, <2>1
  <2> QED
    BY <1>1, <2>1, <2>2 DEF Elements
<1>6. Elements(s) \ {Head(s)} \subseteq Elements(t)
  <2> SUFFICES ASSUME NEW i \in 1 .. n, s[i] # s[1]
               PROVE  s[i] \in Elements(t)
    BY <1>1 DEF Elements
  <2>1. i - 1 \in 1 .. n - 1 /\ (i - 1) + 1 = i
    BY <1>1
  <2> QED
    BY <1>1, <1>2, <2>1 DEF Elements
<1>7. Distinct(t)
  <2> SUFFICES ASSUME NEW i \in 1 .. n - 1, NEW j \in 1 .. n - 1, t[i] = t[j]
               PROVE  i = j
    BY <1>2 DEF Distinct
  <2>1. i + 1 \in 1 .. n /\ j + 1 \in 1 .. n
    BY <1>1
  <2>2. i + 1 = j + 1
    BY <1>1, <1>3, <2>1
  <2> QED
    BY <2>2
<1> QED
  BY <1>1, <1>4, <1>5, <1>6, <1>7 DEF t

\* What the places hold, taken together, are messages.
LEMMA PlacesTyped ==
    ASSUME TypeOK
    PROVE  /\ Elements(deliveryCh) \subseteq Messages
           /\ Elements(eventCh) \subseteq Messages
           /\ Elements(batch) \subseteq Messages
           /\ source \subseteq Messages /\ acked \subseteq Messages
           /\ \A g \in Goroutines : hand[g] \in Messages \cup {Nothing}
  BY ElementOfSeq DEF TypeOK, Elements

\* Deliveries are let go: hands are emptied and the batch gets shorter, and what
\* is acked meanwhile is no longer held anywhere.
LEMMA LettingGo ==
    ASSUME TypeOK, Custody, UNCHANGED <<source, deliveryCh, eventCh>>,
           \A g \in Goroutines : hand'[g] \in {hand[g], Nothing},
           Distinct(batch'), Elements(batch') \subseteq Elements(batch),
           \A m \in acked' : \/ m \in acked
                             \/ /\ m \in Messages \ source
                                /\ \A g \in Goroutines : hand'[g] # m
                                /\ m \notin Elements(deliveryCh) \cup Elements(eventCh)
                                /\ m \notin Elements(batch')
    PROVE  Custody'
<1> USE PipelineAssumption
<1>1. HandsApart'
  BY DEF Custody, HandsApart
<1>2. SlotsApart'
  BY DEF Custody, SlotsApart
<1> DEFINE D == Elements(deliveryCh)
           E == Elements(eventCh)
           B == Elements(batch)
<1>3. /\ Elements(deliveryCh)' = D /\ Elements(eventCh)' = E /\ Elements(batch)' \subseteq B
      /\ Elements(batch)' = Elements(batch')
  BY DEF Elements
<1>4. /\ D \subseteq Messages /\ E \subseteq Messages /\ B \subseteq Messages
      /\ source \subseteq Messages /\ acked \subseteq Messages
  BY PlacesTyped
<1> HIDE DEF D, E, B
<1>5. PlacesApart'
  BY <1>3, <1>4 DEF Custody, PlacesApart, D, E, B
<1>6. NoneTaken'
  <2>1. source' \cap acked' = {}
    BY DEF Custody, NoneTaken
  <2>2. \A g \in Goroutines : hand'[g] \notin source' \cup acked'
    <3> SUFFICES ASSUME NEW g \in Goroutines PROVE hand'[g] \notin source \cup acked'
      OBVIOUS
    <3>1. CASE hand'[g] = Nothing
      BY <1>4, <3>1
    <3>2. CASE hand'[g] = hand[g]
      BY <3>2 DEF Custody, NoneTaken
    <3> QED
      BY <3>1, <3>2
  <2>3. (D \cup E \cup Elements(batch')) \cap (source \cup acked') = {}
    BY <1>3 DEF Custody, NoneTaken, D, E, B
  <2> QED
    BY <1>3, <2>1, <2>2, <2>3 DEF NoneTaken, D, E
<1> QED
  BY <1>1, <1>2, <1>5, <1>6 DEF Custody

\* A goroutine takes a message out of source or deliveryCh, into its hand or not.
LEMMA TakingOne ==
    ASSUME TypeOK, Custody, NEW g \in Goroutines, NEW m \in Messages,
           UNCHANGED <<eventCh, batch, acked>>,
           UNCHANGED hand \/ Hold(g, m),
           source' \subseteq source,
           Distinct(deliveryCh'), Elements(deliveryCh') \subseteq Elements(deliveryCh),
           \/ m \in source \ source'
           \/ m \in Elements(deliveryCh) \ Elements(deliveryCh')
    PROVE  Custody'
<1> USE PipelineAssumption
<1> DEFINE D == Elements(deliveryCh)
           E == Elements(eventCh)
           B == Elements(batch)
           DD == Elements(deliveryCh')
<1>1. /\ Elements(deliveryCh)' = DD /\ Elements(eventCh)' = E /\ Elements(batch)' = B
      /\ DD \subseteq D
  BY DEF Elements
<1>2. \A h \in Goroutines : hand'[h] = hand[h] \/ (h = g /\ hand'[h] = m)
  BY DEF Hold, TypeOK
<1>3. /\ m \notin source' \cup acked \cup DD \cup E \cup B
      /\ \A h \in Goroutines : hand[h] # m
  BY DEF Custody, PlacesApart, NoneTaken
<1>4. SlotsApart'
  BY DEF Custody, SlotsApart
<1> HIDE DEF D, E, B, DD
<1>5. HandsApart'
  BY <1>2, <1>3 DEF Custody, HandsApart
<1>6. PlacesApart'
  BY <1>1, <1>2, <1>3 DEF Custody, PlacesApart, D, E, B
<1>7. NoneTaken'
  BY <1>1, <1>2, <1>3 DEF Custody, NoneTaken, D, E, B
<1> QED
  BY <1>4, <1>5, <1>6, <1>7 DEF Custody

\* A goroutine puts the message it holds into the queue that follows it.
LEMMA HandingOn ==
    ASSUME TypeOK, Custody, NEW g \in Goroutines, hand[g] \in Messages, Hold(g, Nothing),
           UNCHANGED <<source, batch, acked>>,
           \/ deliveryCh' = Append(deliveryCh, hand[g]) /\ UNCHANGED eventCh
           \/ eventCh' = Append(eventCh, hand[g]) /\ UNCHANGED deliveryCh
    PROVE  Custody'
<1> USE PipelineAssumption
<1> DEFINE D == Elements(deliveryCh)
           E == Elements(eventCh)
           B == Elements(batch)
           m == hand[g]
<1>1. /\ m \notin source \cup acked \cup D \cup E \cup B
      /\ \A h \in Goroutines : hand[h] = m => h = g
  BY DEF Custody, PlacesApart, NoneTaken, HandsApart
<1>2. deliveryCh \in Seq(Messages) /\ eventCh \in Seq(Messages) /\ Distinct(deliveryCh)
        /\ Distinct(eventCh)
  BY DEF TypeOK, Custody, SlotsApart
<1> HIDE DEF D, E, B, m
<1>3. /\ Elements(deliveryCh)' \cup Elements(eventCh)' = D \cup E \cup {m}
      /\ Elements(batch)' = B
      /\ Elements(deliveryCh)' \cap Elements(eventCh)' = {}
      /\ SlotsApart'
  <2>1. Elements(batch)' = B /\ D \cap E = {}
    BY DEF Elements, B, D, E, Custody, PlacesApart
  <2>2. CASE deliveryCh' = Append(deliveryCh, hand[g]) /\ UNCHANGED eventCh
    <3>1. Elements(deliveryCh)' = Elements(deliveryCh') /\ Elements(eventCh)' = E
      BY <2>2 DEF Elements, E
    <3>2. Elements(deliveryCh') = D \cup {m} /\ Distinct(deliveryCh')
      BY <1>1, <1>2, <2>2, AppendDistinct DEF D, m
    <3>3. SlotsApart'
      BY <2>2, <3>2 DEF Custody, SlotsApart, Distinct
    <3> QED
      BY <1>1, <2>1, <3>1, <3>2, <3>3
  <2>3. CASE eventCh' = Append(eventCh, hand[g]) /\ UNCHANGED deliveryCh
    <3>1. Elements(eventCh)' = Elements(eventCh') /\ Elements(deliveryCh)' = D
      BY <2>3 DEF Elements, D
    <3>2. Elements(eventCh') = E \cup {m} /\ Distinct(eventCh')
      BY <1>1, <1>2, <2>3, AppendDistinct DEF E, m
    <3>3. SlotsApart'
      BY <2>3, <3>2 DEF Custody, SlotsApart, Distinct
    <3> QED
      BY <1>1, <2>1, <3>1, <3>2, <3>3
  <2> QED
    BY <2>2, <2>3
<1>4. \A h \in Goroutines : (h # g /\ hand'[h] = hand[h]) \/ hand'[h] = Nothing
  BY DEF Hold, TypeOK
<1>5. /\ D \subseteq Messages /\ E \subseteq Messages /\ B \subseteq Messages
      /\ source \subseteq Messages /\ acked \subseteq Messages /\ m \in Messages
  BY PlacesTyped DEF D, E, B, m
<1>6. HandsApart'
  BY <1>4 DEF Custody, HandsApart
<1>7. PlacesApart'
  <2>1. \A h \in Goroutines : hand'[h] \notin D \cup E \cup B \cup {m}
    BY <1>1, <1>4, <1>5 DEF Custody, PlacesApart, D, E, B
  <2>2. (D \cup E \cup {m}) \cap B = {}
    BY <1>1 DEF Custody, PlacesApart, D, E, B
  <2> QED
    BY <1>3, <2>1, <2>2 DEF PlacesApart
<1>8. NoneTaken'
  <2>1. \A h \in Goroutines : hand'[h] \notin source \cup acked
    BY <1>4, <1>5 DEF Custody, NoneTaken
  <2>2. (D \cup E \cup B \cup {m}) \cap (source \cup acked) = {} /\ source \cap acked = {}
    BY <1>1 DEF Custody, NoneTaken, D, E, B
  <2> QED
    BY <1>3, <2>1, <2>2 DEF NoneTaken
<1> QED
  BY <1>3, <1>6, <1>7, <1>8 DEF Custody

\* The batcher moves an event from eventCh to its batch.
LEMMA Batching ==
    ASSUME TypeOK, Custody, eventCh # <<>>, eventCh' = Tail(eventCh),
           batch' = Append(batch, Head(eventCh)),
           UNCHANGED <<source, deliveryCh, acked, hand>>
    PROVE  Custody'
<1> DEFINE D == Elements(deliveryCh)
           E == Elements(eventCh)
           B == Elements(batch)
           m == Head(eventCh)
<1>1. batch \in Seq(Messages) /\ eventCh \in Seq(Messages) /\ Distinct(batch) /\ Distinct(eventCh)
  BY DEF TypeOK, Custody, SlotsApart
<1>0. Elements(eventCh)' = Elements(eventCh') /\ Elements(batch)' = Elements(batch')
  BY DEF Elements
<1>2. m \in E /\ m \in Messages /\ Elements(eventCh)' = E \ {m} /\ Distinct(eventCh')
  BY <1>0, <1>1, TailDistinct
<1>3. m \notin B
  BY <1>2 DEF Custody, PlacesApart
<1>4. Elements(batch)' = B \cup {m} /\ Distinct(batch')
  BY <1>0, <1>1, <1>2, <1>3, AppendDistinct
<1>5. Elements(deliveryCh)' = D
  BY DEF Elements
<1> HIDE DEF D, E, B, m
<1>6. SlotsApart' /\ HandsApart'
  BY <1>2, <1>4 DEF Custody, SlotsApart, HandsApart
<1>7. PlacesApart'
  BY <1>2, <1>4, <1>5 DEF Custody, PlacesApart, D, E, B
<1>8. NoneTaken'
  BY <1>2, <1>4, <1>5 DEF Custody, NoneTaken, D, E, B
<1> QED
  BY <1>6, <1>7, <1>8 DEF Custody

\* The delivery a goroutine is dealing with is open: fetched and not acked.
LEMMA CurrentIsOpen ==
    ASSUME IInv, Custody, NEW g \in Goroutines, pc[g] \in {"record", "ack", "ackStored"}
    PROVE  Current(g) \in Messages \ (source \cup acked)
<1>1. CASE g = Batcher
  <2>1. batch \in Seq(Messages) /\ batch # <<>>
    BY <1>1 DEF IInv, TypeOK, FlushHasWork
  <2>2. Head(batch) \in Elements(batch) /\ Head(batch) \in Messages
    BY <2>1, TailDistinct DEF Custody, SlotsApart
  <2> QED
    BY <1>1, <2>2 DEF Current, Custody, NoneTaken
<1>2. CASE g # Batcher
  <2>1. g \in Workers \cup {Poller} /\ pc[g] # "ackStored"
    BY <1>2 DEF Goroutines, IInv, TypeOK, PollerStates, WorkerStates
  <2>2. hand[g] \in Messages
    BY <2>1 DEF IInv, WorkInHand
  <2> QED
    BY <1>2, <2>2 DEF Current, Custody, NoneTaken
<1> QED
  BY <1>1, <1>2

\* Going on to the next delivery lets go of the present one, and of it alone.
LEMMA NextLetsGo ==
    ASSUME IInv, Custody, NEW g \in Goroutines, pc[g] \in {"record", "ack", "ackStored"},
           NextDelivery(g, "record") \/ NextDelivery(g, "ackStored")
    PROVE  /\ \A h \in Goroutines : hand'[h] \in {hand[h], Nothing} /\ hand'[h] # Current(g)
           /\ Distinct(batch') /\ Elements(batch') \subseteq Elements(batch)
           /\ Current(g) \notin Elements(deliveryCh) \cup Elements(eventCh)
           /\ Current(g) \notin Elements(batch')
<1> USE PipelineAssumption
<1>1. Current(g) \in Messages
  BY CurrentIsOpen
<1>2. CASE g # Batcher
  <2>1. Hold(g, Nothing) /\ batch' = batch /\ Current(g) = hand[g]
    BY <1>2 DEF NextDelivery, Continue, batcher, Current
  <2>2. hand'[g] = Nothing /\ \A h \in Goroutines \ {g} : hand'[h] = hand[h]
    BY <2>1 DEF Hold, IInv, TypeOK
  <2>3. \A h \in Goroutines \ {g} : hand[h] # hand[g]
    BY <1>1, <2>1 DEF Custody, HandsApart
  <2>4. hand[g] \notin Elements(deliveryCh) \cup Elements(eventCh) \cup Elements(batch)
    BY DEF Custody, PlacesApart
  <2> QED
    BY <1>1, <2>1, <2>2, <2>3, <2>4 DEF Custody, SlotsApart
<1>3. CASE g = Batcher
  <2>1. batch \in Seq(Messages) /\ batch # <<>> /\ Distinct(batch)
    BY <1>3 DEF IInv, TypeOK, FlushHasWork, Custody, SlotsApart
  <2>2. Current(g) = Head(batch) /\ UNCHANGED hand
    BY <1>3 DEF Current, NextDelivery
  <2>3. Head(batch) \in Elements(batch)
    BY <2>1, TailDistinct
  <2>4. /\ \A h \in Goroutines : hand[h] # Head(batch)
        /\ Head(batch) \notin Elements(deliveryCh) \cup Elements(eventCh)
    BY <2>3 DEF Custody, PlacesApart
  <2>5. batch' = Tail(batch) \/ batch' = <<>>
    BY <1>3 DEF NextDelivery, FlushReturns
  <2>6. /\ Distinct(batch') /\ Elements(batch') \subseteq Elements(batch)
        /\ Head(batch) \notin Elements(batch')
    <3>1. CASE batch' = Tail(batch)
      BY <2>1, <3>1, TailDistinct
    <3>2. CASE batch' = <<>>
      <4>1. Elements(<<>>) = {} /\ Distinct(<<>>)
        BY DEF Elements, Distinct
      <4> QED
        BY <3>2, <4>1
    <3> QED
      BY <2>5, <3>1, <3>2
  <2> QED
    BY <2>2, <2>4, <2>6
<1> QED
  BY <1>2, <1>3

\* A step of the poller: a message goes from source to its hand and on to
\* deliveryCh.
LEMMA PollerCustody == IInv /\ Custody /\ PollerStep => Custody'
<1> SUFFICES ASSUME IInv, Custody, PollerStep PROVE Custody'
  OBVIOUS
<1> USE PipelineAssumption
<1>1. TypeOK /\ Poller \in Goroutines
  BY DEF IInv, Goroutines
<1>2. ASSUME NEW m \in Messages, ProcessData(m)
      PROVE  Custody'
  <2>1. /\ UNCHANGED <<deliveryCh, eventCh, batch, acked>> /\ source' = source \ {m}
        /\ m \in source \ source'
    BY <1>2 DEF ProcessData, channels, batcher, durable
  <2>2. UNCHANGED hand \/ Hold(Poller, m)
    BY <1>2 DEF ProcessData
  <2>3. Distinct(deliveryCh')
    BY <2>1 DEF Custody, SlotsApart
  <2> QED
    BY <1>1, <2>1, <2>2, <2>3, TakingOne
<1>3. CASE SendDelivery
  <2>1. hand[Poller] \in Messages
    BY <1>3 DEF SendDelivery, IInv, WorkInHand
  <2> QED
    BY <1>1, <1>3, <2>1, HandingOn DEF SendDelivery, Continue, batcher, durable
<1>4. CASE PollFails \/ PollCancelled
  <2>1. UNCHANGED <<source, deliveryCh, eventCh, hand, batch, acked>>
    BY <1>4 DEF PollFails, PollCancelled, vars, channels, batcher, durable
  <2> QED
    BY <1>1, <2>1, LettingGo DEF Custody, SlotsApart
<1> QED
  BY <1>2, <1>3, <1>4 DEF PollerStep

\* A step of a worker: a message goes from deliveryCh to its hand and on to
\* eventCh.
LEMMA WorkerCustody ==
    ASSUME IInv, Custody, NEW w \in Workers, WorkerStep(w)
    PROVE  Custody'
<1> USE PipelineAssumption
<1>1. TypeOK /\ w \in Goroutines
  BY DEF IInv, Goroutines
<1>2. CASE Transform(w)
  <2>1. /\ deliveryCh # <<>> /\ deliveryCh' = Tail(deliveryCh)
        /\ UNCHANGED <<source, eventCh, batch, acked>>
        /\ UNCHANGED hand \/ Hold(w, Head(deliveryCh))
    BY <1>2 DEF Transform, batcher, durable
  <2>2. deliveryCh \in Seq(Messages) /\ Distinct(deliveryCh)
    BY <1>1 DEF TypeOK, Custody, SlotsApart
  <2>3. /\ Head(deliveryCh) \in Messages
        /\ Head(deliveryCh) \in Elements(deliveryCh) \ Elements(deliveryCh')
        /\ Distinct(deliveryCh') /\ Elements(deliveryCh') \subseteq Elements(deliveryCh)
    BY <2>1, <2>2, TailDistinct
  <2> QED
    BY <1>1, <2>1, <2>3, TakingOne
<1>3. CASE SendEvent(w)
  <2>1. hand[w] \in Messages
    BY <1>3 DEF SendEvent, IInv, WorkInHand
  <2> QED
    BY <1>1, <1>3, <2>1, HandingOn DEF SendEvent, Continue, batcher, durable
<1>4. CASE WorkerReturns(w)
  <2>1. UNCHANGED <<source, deliveryCh, eventCh, hand, batch, acked>>
    BY <1>4 DEF WorkerReturns, channels, batcher, durable
  <2> QED
    BY <1>1, <2>1, LettingGo DEF Custody, SlotsApart
<1> QED
  BY <1>2, <1>3, <1>4 DEF WorkerStep

\* A step of the batcher: an event goes from eventCh to the batch, which is
\* emptied after the flush.
LEMMA BatcherCustody == IInv /\ Custody /\ BatcherStep => Custody'
<1> SUFFICES ASSUME IInv, Custody, BatcherStep PROVE Custody'
  OBVIOUS
<1>1. TypeOK
  BY DEF IInv
<1>2. CASE Collect
  BY <1>1, <1>2, Batching DEF Collect, Flush, durable
<1>3. CASE ~Collect
  <2>1. UNCHANGED <<source, deliveryCh, eventCh, hand, acked>> /\ batch' \in {batch, <<>>}
    BY <1>3 DEF BatcherStep, EventsClosed, Tick, StartDrain, DrainExpires, StoreSucceeds,
         StoreFailsTransiently, StoreFailsTerminally, BackoffElapses, BackoffCancelled,
         Flush, FlushReturns, channels, batcher, durable
  <2>2. Distinct(batch') /\ Elements(batch') \subseteq Elements(batch)
    <3>1. Elements(<<>>) = {} /\ Distinct(<<>>)
      BY DEF Elements, Distinct
    <3> QED
      BY <2>1, <3>1 DEF Custody, SlotsApart
  <2> QED
    BY <1>1, <2>1, <2>2, LettingGo
<1> QED
  BY <1>2, <1>3

\* A step any goroutine may take only lets go of deliveries, and acks none but
\* the one it lets go of.
LEMMA SharedCustody ==
    ASSUME IInv, Custody, NEW g \in Goroutines, SharedStep(g)
    PROVE  Custody'
<1>1. TypeOK
  BY DEF IInv
<1>2. CASE HandoffCancelled(g)
  <2>1. UNCHANGED <<source, deliveryCh, eventCh, batch, acked>> /\ Hold(g, Nothing)
    BY <1>2 DEF HandoffCancelled, channels, batcher, durable
  <2>2. \A h \in Goroutines : hand'[h] \in {hand[h], Nothing}
    BY <1>1, <2>1 DEF Hold, TypeOK
  <2> QED
    BY <1>1, <2>1, <2>2, LettingGo DEF Custody, SlotsApart
<1>3. CASE StoreFailure(g)
  <2>1. UNCHANGED <<source, deliveryCh, eventCh, hand, batch, acked>>
    BY <1>3 DEF StoreFailure, channels, batcher
  <2> QED
    BY <1>1, <2>1, LettingGo DEF Custody, SlotsApart
<1>4. CASE StoreFailureFails(g)
  <2>1. UNCHANGED <<source, deliveryCh, eventCh, acked>> /\ pc[g] = "record"
          /\ NextDelivery(g, "record")
    BY <1>4 DEF StoreFailureFails, channels
  <2> QED
    BY <1>1, <2>1, NextLetsGo, LettingGo
<1>5. CASE Ack(g)
  <2>1. /\ UNCHANGED <<source, deliveryCh, eventCh>> /\ pc[g] \in {"ack", "ackStored"}
        /\ acked' = acked \cup {Current(g)}
        /\ NextDelivery(g, "record") \/ NextDelivery(g, "ackStored")
    BY <1>5 DEF Ack, channels
  <2> QED
    BY <1>1, <2>1, CurrentIsOpen, NextLetsGo, LettingGo
<1> QED
  BY <1>2, <1>3, <1>4, <1>5 DEF SharedStep

\* Every step keeps custody.
LEMMA CustodyStep == IInv /\ Custody /\ [Next]_vars => Custody'
<1> SUFFICES ASSUME IInv, Custody, [Next]_vars PROVE Custody'
  OBVIOUS
<1>1. CASE CloseEvents \/ Cancel \/ Deadline \/ UNCHANGED standing
  <2>1. UNCHANGED <<source, deliveryCh, eventCh, hand, batch, acked>>
    BY <1>1 DEF CloseEvents, Cancel, Deadline, standing, channels, batcher, durable
  <2> QED
    BY <2>1, LettingGo DEF IInv, Custody, SlotsApart
<1> QED
  BY <1>1, NextCases, PollerCustody, WorkerCustody, BatcherCustody, SharedCustody DEF Step

\* Nothing is in custody before the first fetch.
LEMMA CustodyInitially == Init => Custody
<1> SUFFICES ASSUME Init PROVE Custody
  OBVIOUS
<1>1. Elements(<<>>) = {} /\ Distinct(<<>>)
  BY DEF Elements, Distinct
<1> QED
  BY <1>1, PipelineAssumption DEF Init, Custody, HandsApart, SlotsApart, PlacesApart, NoneTaken

\* Custody as an invariant, the one the refinement below rests on.
THEOREM CustodyInvariant == Spec => []Custody
  BY CustodyInitially, CustodyStep, Invariant, PTL DEF Spec

\* What Custody says of the places is what CustodyIsUnique says of the holders.
LEMMA OneHolder == TypeOK /\ Custody => CustodyIsUnique
<1> SUFFICES ASSUME TypeOK, Custody PROVE CustodyIsUnique
  OBVIOUS
<1> SUFFICES ASSUME NEW m \in Messages
             PROVE  (\A x, y \in Holders(m) : x = y) /\ (m \in source \cup acked => Holders(m) = {})
  BY Zenon DEF CustodyIsUnique
<1> DEFINE H == {<<"hand", g>> : g \in {h \in Goroutines : hand[h] = m}}
           D == {<<"deliveryCh", i>> : i \in {j \in DOMAIN deliveryCh : deliveryCh[j] = m}}
           E == {<<"eventCh", i>> : i \in {j \in DOMAIN eventCh : eventCh[j] = m}}
           B == {<<"batch", i>> : i \in {j \in DOMAIN batch : batch[j] = m}}
<1>1. Holders(m) = H \cup D \cup E \cup B
  BY DEF Holders
<1>2. m # Nothing
  BY PipelineAssumption
<1>3. /\ H # {} => \E g \in Goroutines : hand[g] = m
      /\ D # {} => m \in Elements(deliveryCh)
      /\ E # {} => m \in Elements(eventCh)
      /\ B # {} => m \in Elements(batch)
  BY DEF Elements
<1>4. /\ \A x, y \in H : x = y
      /\ \A x, y \in D : x = y
      /\ \A x, y \in E : x = y
      /\ \A x, y \in B : x = y
  BY <1>2 DEF Custody, HandsApart, SlotsApart, Distinct
<1> HIDE DEF H, D, E, B
<1>5. /\ H = {} \/ (D = {} /\ E = {} /\ B = {})
      /\ D = {} \/ (E = {} /\ B = {})
      /\ E = {} \/ B = {}
  BY <1>3 DEF Custody, PlacesApart
<1>6. ASSUME m \in source \cup acked
      PROVE  H = {} /\ D = {} /\ E = {} /\ B = {}
  BY <1>3, <1>6 DEF Custody, NoneTaken
<1> QED
  BY <1>1, <1>4, <1>5, <1>6

\* Deliveries are held by one goroutine, channel slot or batch slot at a time
\* and by none before they are fetched or after they are acked: the channels,
\* the workers and the batch slice reused after every flush never duplicate one.
THEOREM CustodyHolds == Spec => []CustodyIsUnique
  BY OneHolder, TypeCorrect, CustodyInvariant, PTL

-----------------------------------------------------------------------------
(* Refinement.                                                             *)

\* Nothing is done for a delivery whose handler has been called: what a
\* goroutine stores, records or acks is in its custody, hence still open.
LEMMA NeverTooLate ==
    ASSUME IInv, Custody, [Next]_vars
    PROVE  afterAck' = afterAck
<1>1. TypeOK
  BY DEF IInv
<1>2. ASSUME NEW g \in Goroutines, pc[g] \in {"record", "ack", "ackStored"}, Touch({Current(g)})
      PROVE  afterAck' = afterAck
  <2>1. {Current(g)} \cap acked = {}
    BY <1>2, CurrentIsOpen
  <2> QED
    BY <1>2, <2>1 DEF Touch
<1>3. ASSUME Touch(Elements(batch)) PROVE afterAck' = afterAck
  <2>1. Elements(batch) \cap acked = {}
    BY DEF Custody, NoneTaken
  <2> QED
    BY <1>3, <2>1 DEF Touch
<1>4. ASSUME NEW g \in Goroutines, SharedStep(g) PROVE afterAck' = afterAck
  BY <1>2, <1>4 DEF SharedStep, HandoffCancelled, StoreFailure, StoreFailureFails, Ack, durable
<1>5. CASE BatcherStep
  BY <1>3, <1>5 DEF BatcherStep, Collect, EventsClosed, Tick, StartDrain, DrainExpires,
     StoreSucceeds, StoreFailsTransiently, StoreFailsTerminally, BackoffElapses,
     BackoffCancelled, durable
<1>6. CASE PollerStep \/ \E w \in Workers : WorkerStep(w)
  BY <1>6 DEF PollerStep, ProcessData, PollFails, PollCancelled, SendDelivery, WorkerStep,
     Transform, SendEvent, WorkerReturns, vars, durable
<1>7. CASE CloseEvents \/ Cancel \/ Deadline \/ UNCHANGED standing
  BY <1>7 DEF CloseEvents, Cancel, Deadline, standing, durable
<1> QED
  BY <1>4, <1>5, <1>6, <1>7, NextCases DEF Step

\* The steps that change what the contract sees: they hand out a delivery, or
\* write or ack one that is open.
LEMMA ContractStep ==
    ASSUME IInv, Custody, [Next]_vars
    PROVE  Contract!Next \/ UNCHANGED <<Messages \ source, stored, recorded, acked, afterAck>>
<1>0. afterAck' = afterAck
  BY NeverTooLate
<1>1. TypeOK
  BY DEF IInv
<1> DEFINE Seen == <<source, stored, deadLetters, acked>>
<1>2. ASSUME UNCHANGED Seen
      PROVE  UNCHANGED <<Messages \ source, stored, recorded, acked, afterAck>>
  BY <1>0, <1>2 DEF recorded
<1>3. ASSUME NEW m \in Messages, ProcessData(m)
      PROVE  Contract!Next
  <2>1. m \in source /\ source' = source \ {m} /\ UNCHANGED <<stored, deadLetters, acked>>
    BY <1>3 DEF ProcessData, durable
  <2>2. m \notin Messages \ source /\ Messages \ source' = (Messages \ source) \cup {m}
    BY <2>1
  <2>3. recorded' = recorded
    BY <2>1 DEF recorded
  <2> QED
    BY <1>0, <2>1, <2>2, <2>3 DEF Contract!Next, Contract!Fetch
<1>4. ASSUME pc[Batcher] = "store", UNCHANGED <<source, deadLetters, acked>>,
             stored' = stored \cup Elements(batch)
      PROVE  Contract!Next
  <2>1. Elements(batch) \subseteq (Messages \ source) \ acked
    BY <1>1, PlacesTyped DEF Custody, NoneTaken
  <2>2. recorded' = recorded /\ Messages \ source' = Messages \ source
    BY <1>4 DEF recorded
  <2>3. Contract!Store(Elements(batch))
    BY <1>0, <1>4, <2>1, <2>2 DEF Contract!Store, Contract!Open
  <2> QED
    BY <2>1, <2>3 DEF Contract!Next
<1>5. ASSUME NEW g \in Goroutines, StoreFailure(g)
      PROVE  Contract!Next
  <2>1. Current(g) \in (Messages \ source) \ acked
    BY <1>5, CurrentIsOpen DEF StoreFailure
  <2>2. UNCHANGED <<source, stored, acked>> /\ recorded' = recorded \cup {Current(g)}
    <3>1. PICK S \in {{"sqlite"}, {"kafka"}, {"sqlite", "kafka"}} :
              deadLetters' = deadLetters \cup (S \X {Current(g)})
      BY <1>5, RowsLeft
    <3>2. {d[2] : d \in S \X {Current(g)}} = {Current(g)}
      BY RowsOf
    <3> QED
      BY <1>5, <3>1, <3>2 DEF recorded, StoreFailure
  <2>3. Contract!Record(Current(g))
    BY <1>0, <2>1, <2>2 DEF Contract!Record, Contract!Open
  <2> QED
    BY <2>1, <2>3 DEF Contract!Next
<1>12. ASSUME NEW g \in Goroutines, StoreFailureFails(g)
       PROVE  Contract!Next \/ UNCHANGED Seen
  <2>1. Current(g) \in (Messages \ source) \ acked
    BY <1>12, CurrentIsOpen DEF StoreFailureFails
  <2>2. PICK left \in SUBSET {"sqlite"} : deadLetters' = deadLetters \cup (left \X {Current(g)})
    BY <1>12 DEF StoreFailureFails
  <2>3. UNCHANGED <<source, stored, acked>>
    BY <1>12 DEF StoreFailureFails
  <2>4. CASE left = {}
    <3>1. deadLetters' = deadLetters
      BY <2>2, <2>4
    <3> QED
      BY <2>3, <3>1
  <2>5. CASE left = {"sqlite"}
    <3>1. deadLetters' = deadLetters \cup ({"sqlite"} \X {Current(g)})
      BY <2>2, <2>5
    <3>2. {d[2] : d \in {"sqlite"} \X {Current(g)}} = {Current(g)}
      BY RowsOf
    <3>3. recorded' = recorded \cup {Current(g)}
      BY <3>1, <3>2 DEF recorded
    <3>4. Contract!Record(Current(g))
      BY <1>0, <2>1, <2>3, <3>3 DEF Contract!Record, Contract!Open
    <3> QED
      BY <2>1, <3>4 DEF Contract!Next
  <2> QED
    BY <2>4, <2>5
<1>6. ASSUME NEW g \in Goroutines, Ack(g)
      PROVE  Contract!Next
  <2>1. Current(g) \in (Messages \ source) \ acked
    BY <1>6, CurrentIsOpen DEF Ack
  <2>2. Current(g) \in stored \cup recorded
    <3>1. CASE pc[g] = "ack"
      BY <3>1 DEF IInv, RecordedBeforeAck
    <3>2. CASE pc[g] = "ackStored"
      <4>1. g = Batcher
        BY <1>1, <3>2 DEF TypeOK, Goroutines, PollerStates, WorkerStates
      <4>2. batch \in Seq(Messages) /\ batch # <<>>
        BY <1>1, <3>2, <4>1 DEF TypeOK, IInv, FlushHasWork
      <4> QED
        BY <3>2, <4>1, <4>2, TailElements DEF Current, IInv, StoredBeforeAck
    <3> QED
      BY <1>6, <3>1, <3>2 DEF Ack
  <2>3. UNCHANGED <<source, stored, deadLetters>> /\ acked' = acked \cup {Current(g)}
    BY <1>6 DEF Ack
  <2>4. recorded' = recorded /\ Messages \ source' = Messages \ source
    BY <2>3 DEF recorded
  <2>5. Contract!Ack(Current(g))
    BY <1>0, <2>1, <2>2, <2>3, <2>4 DEF Contract!Ack, Contract!Open
  <2> QED
    BY <2>1, <2>5 DEF Contract!Next
<1>7. CASE PollerStep
  <2>1. \/ \E m \in Messages : ProcessData(m)
        \/ UNCHANGED Seen
    BY <1>7 DEF PollerStep, PollFails, PollCancelled, SendDelivery, vars, durable
  <2> QED
    BY <1>2, <1>3, <2>1
<1>8. ASSUME NEW w \in Workers, WorkerStep(w)
      PROVE  UNCHANGED Seen
  BY <1>8 DEF WorkerStep, Transform, SendEvent, WorkerReturns, durable
<1>9. CASE BatcherStep
  <2>1. \/ /\ pc[Batcher] = "store" /\ UNCHANGED <<source, deadLetters, acked>>
           /\ stored' = stored \cup Elements(batch)
        \/ UNCHANGED Seen
    BY <1>9 DEF BatcherStep, Collect, EventsClosed, Tick, StartDrain, DrainExpires,
         StoreSucceeds, StoreFailsTransiently, StoreFailsTerminally, BackoffElapses,
         BackoffCancelled, durable
  <2> QED
    BY <1>2, <1>4, <2>1
<1>10. ASSUME NEW g \in Goroutines, SharedStep(g)
       PROVE  Contract!Next \/ UNCHANGED Seen
  BY <1>5, <1>6, <1>10, <1>12 DEF SharedStep, HandoffCancelled, durable
<1>11. CASE CloseEvents \/ Cancel \/ Deadline \/ UNCHANGED standing
  BY <1>2, <1>11 DEF CloseEvents, Cancel, Deadline, standing, durable
<1> QED
  BY <1>2, <1>7, <1>8, <1>9, <1>10, <1>11, NextCases DEF Step

\* Whatever is retried, drained or cancelled, no handler is called twice and
\* nothing is stored or recorded for a delivery whose handler has been called.
THEOREM NothingIsDoneTwice == Spec => []NothingAfterAck
<1>1. Init => NothingAfterAck
  BY DEF Init, NothingAfterAck
<1>2. IInv /\ Custody /\ NothingAfterAck /\ [Next]_vars => NothingAfterAck'
  BY NeverTooLate DEF NothingAfterAck
<1> QED
  BY <1>1, <1>2, Invariant, CustodyInvariant, PTL DEF Spec

\* The pool keeps the contract of a delivery: whatever goroutine records or acks
\* it, after whatever retries and cancellations, its handler is called at most
\* once, after its message was stored or recorded, and nothing is written for it
\* afterwards.
THEOREM ImplementsContract == Spec => ContractSpec
<1>1. Init => Contract!Init
  BY DEF Init, Contract!Init, recorded
<1>2. IInv /\ Custody /\ [Next]_vars => [Contract!Next]_(Contract!contractVars)
  BY ContractStep DEF Contract!contractVars
<1> QED
  BY <1>1, <1>2, Invariant, CustodyInvariant, PTL DEF Spec, ContractSpec, Contract!Spec

-----------------------------------------------------------------------------
(* Sorting.                                                                *)

\* While no error of the store is terminal, what is on its way to the event
\* store is good and what is on its way to a failure storage is not.
BadKinds == TerminalAtPoll \cup TerminalAtTransform
GoodsSorted ==
    \A m \in Elements(eventCh) \cup Elements(batch) \cup stored : Kind[m] = "good"
HandsSorted ==
    \A g \in Workers \cup {Poller} :
        /\ g \in Workers /\ pc[g] = "handoff" => Kind[hand[g]] = "good"
        /\ pc[g] \in {"record", "ack"} => Kind[hand[g]] \in BadKinds
BatchNotCondemned == pc[Batcher] \notin {"record", "ack"}
RecordsSorted == \A m \in recorded : Kind[m] \in BadKinds
Sorted == GoodsSorted /\ HandsSorted /\ BatchNotCondemned /\ RecordsSorted

\* Nothing new comes on its way to the event store but a good message.
LEMMA KeepsGoods ==
    ASSUME GoodsSorted, NEW m,
           \A x \in Elements(eventCh') \cup Elements(batch') \cup stored' :
               x \in Elements(eventCh) \cup Elements(batch) \cup stored \cup {m},
           \/ Kind[m] = "good"
           \/ m \in Elements(eventCh) \cup Elements(batch) \cup stored
    PROVE  GoodsSorted'
<1>1. Elements(eventCh)' = Elements(eventCh') /\ Elements(batch)' = Elements(batch')
  BY DEF Elements
<1> QED
  BY <1>1 DEF GoodsSorted

\* A goroutine moves with a message it has sorted.
LEMMA MoveKeepsSorted ==
    ASSUME TypeOK, HandsSorted, BatchNotCondemned, NEW g \in Goroutines, NEW s, Goto(g, s),
           \A h \in Goroutines \ {g} : hand'[h] = hand[h],
           g \in Workers /\ s = "handoff" => Kind[hand'[g]] = "good",
           s \in {"record", "ack"} => g # Batcher /\ Kind[hand'[g]] \in BadKinds
    PROVE  HandsSorted' /\ BatchNotCondemned'
<1> USE PipelineAssumption
<1>1. pc'[g] = s /\ \A h \in Goroutines \ {g} : pc'[h] = pc[h]
  BY OthersStay DEF TypeOK, PcOK
<1>2. BatchNotCondemned'
  BY <1>1 DEF BatchNotCondemned, Goroutines
<1>3. ASSUME NEW h \in Workers \cup {Poller}
      PROVE  /\ h \in Workers /\ pc'[h] = "handoff" => Kind[hand'[h]] = "good"
             /\ pc'[h] \in {"record", "ack"} => Kind[hand'[h]] \in BadKinds
  <2>1. h \in Goroutines
    BY DEF Goroutines
  <2>2. CASE h = g
    BY <1>1, <2>1, <2>2
  <2>3. CASE h # g
    <3>1. pc'[h] = pc[h] /\ hand'[h] = hand[h]
      BY <1>1, <2>1, <2>3
    <3> QED
      BY <3>1 DEF HandsSorted
  <2> QED
    BY <2>2, <2>3
<1> QED
  BY <1>2, <1>3 DEF HandsSorted

\* Going on to the next delivery, short of a failed flush that goes on recording.
LEMMA NextKeepsSorted ==
    ASSUME TypeOK, HandsSorted, BatchNotCondemned, NEW g \in Goroutines,
           \/ g # Batcher /\ Continue(g)
           \/ \E again \in {"record", "ackStored"} :
                 NextDelivery(g, again) /\ (g = Batcher => again = "ackStored")
    PROVE  HandsSorted' /\ BatchNotCondemned'
<1>1. CASE g # Batcher
  <2>1. Goto(g, LoopHead(g)) /\ Hold(g, Nothing)
    BY <1>1 DEF Continue, NextDelivery
  <2>2. LoopHead(g) \notin {"handoff", "record", "ack"}
    BY DEF LoopHead
  <2>3. \A h \in Goroutines \ {g} : hand'[h] = hand[h]
    BY <2>1 DEF Hold, TypeOK
  <2> QED
    BY <2>1, <2>2, <2>3, MoveKeepsSorted
<1>2. CASE g = Batcher
  <2>1. UNCHANGED hand /\ \E s \in {"ackStored", "done", "collect"} : Goto(g, s)
    BY <1>2 DEF NextDelivery, FlushReturns
  <2>2. g \notin Workers
    BY <1>2, PipelineAssumption
  <2> QED
    BY <2>1, <2>2, MoveKeepsSorted
<1> QED
  BY <1>1, <1>2

\* The poller records what ProcessData called terminal.
LEMMA PollerSorts ==
    ASSUME TypeOK, WorkInHand, Sorted, PollerStep
    PROVE  Sorted'
<1> USE PipelineAssumption
<1>1. /\ Poller \in Goroutines /\ Poller # Batcher /\ Poller \notin Workers
      /\ HandsSorted /\ BatchNotCondemned
  BY DEF Goroutines, Sorted
<1>2. UNCHANGED <<eventCh, batch, stored, deadLetters>>
  BY DEF PollerStep, ProcessData, PollFails, PollCancelled, SendDelivery, durable, batcher,
         channels, vars
<1>3. GoodsSorted' /\ RecordsSorted'
  BY <1>2 DEF Sorted, GoodsSorted, RecordsSorted, recorded, Elements
<1>4. ASSUME NEW m \in Messages, ProcessData(m)
      PROVE  HandsSorted' /\ BatchNotCondemned'
  <2>1. CASE Kind[m] \in TerminalAtPoll /\ Goto(Poller, "record") /\ Hold(Poller, m)
    <3>1. hand'[Poller] = m /\ \A h \in Goroutines \ {Poller} : hand'[h] = hand[h]
      BY <1>1, <2>1 DEF Hold, TypeOK
    <3> QED
      BY <1>1, <2>1, <3>1, MoveKeepsSorted DEF BadKinds
  <2>2. CASE Goto(Poller, "handoff") /\ Hold(Poller, m)
    <3>1. \A h \in Goroutines \ {Poller} : hand'[h] = hand[h]
      BY <1>1, <2>2 DEF Hold, TypeOK
    <3> QED
      BY <1>1, <2>2, <3>1, MoveKeepsSorted
  <2>3. CASE Goto(Poller, "done") /\ UNCHANGED hand
    BY <1>1, <2>3, MoveKeepsSorted
  <2> QED
    BY <1>4, <2>1, <2>2, <2>3 DEF ProcessData
<1>5. ASSUME PollFails PROVE HandsSorted' /\ BatchNotCondemned'
  BY <1>1, <1>5 DEF PollFails, vars, HandsSorted, BatchNotCondemned
<1>6. ASSUME PollCancelled PROVE HandsSorted' /\ BatchNotCondemned'
  BY <1>1, <1>6, MoveKeepsSorted DEF PollCancelled
<1>7. ASSUME SendDelivery PROVE HandsSorted' /\ BatchNotCondemned'
  BY <1>1, <1>7, NextKeepsSorted DEF SendDelivery
<1> QED
  BY <1>3, <1>4, <1>5, <1>6, <1>7 DEF PollerStep, Sorted

\* A worker hands on what Transform accepted and records what it condemned.
LEMMA WorkerSorts ==
    ASSUME TypeOK, WorkInHand, Sorted, NEW w \in Workers, WorkerStep(w)
    PROVE  Sorted'
<1> USE PipelineAssumption
<1>1. w \in Goroutines /\ w # Batcher /\ HandsSorted /\ BatchNotCondemned /\ GoodsSorted
  BY DEF Goroutines, Sorted
<1>2. UNCHANGED <<batch, stored, deadLetters>>
  BY DEF WorkerStep, Transform, SendEvent, WorkerReturns, durable, batcher
<1>3. RecordsSorted'
  BY <1>2 DEF Sorted, RecordsSorted, recorded
<1>4. CASE Transform(w)
  <2>1. GoodsSorted'
    BY <1>1, <1>2, <1>4 DEF Transform, GoodsSorted, Elements
  <2>2. CASE UNCHANGED <<pc, hand>>
    BY <1>1, <1>3, <2>1, <2>2 DEF Sorted, HandsSorted, BatchNotCondemned
  <2>3. CASE Goto(w, "done") /\ UNCHANGED hand
    BY <1>1, <1>3, <2>1, <2>3, MoveKeepsSorted DEF Sorted
  <2>5. CASE Goto(w, "panic") /\ Hold(w, Head(deliveryCh))
    <3>1. \A h \in Goroutines \ {w} : hand'[h] = hand[h]
      BY <1>1, <2>5 DEF Hold, TypeOK
    <3> QED
      BY <1>1, <1>3, <2>1, <2>5, <3>1, MoveKeepsSorted DEF Sorted
  <2>4. CASE Hold(w, Head(deliveryCh)) /\ \/ Kind[Head(deliveryCh)] = "good" /\ Goto(w, "handoff")
                                          \/ /\ Kind[Head(deliveryCh)] \in TerminalAtTransform
                                             /\ Goto(w, "record")
    <3>1. hand'[w] = Head(deliveryCh) /\ \A h \in Goroutines \ {w} : hand'[h] = hand[h]
      BY <1>1, <2>4 DEF Hold, TypeOK
    <3>2. HandsSorted' /\ BatchNotCondemned'
      <4>1. CASE Kind[Head(deliveryCh)] = "good" /\ Goto(w, "handoff")
        BY <1>1, <3>1, <4>1, MoveKeepsSorted
      <4>2. CASE Kind[Head(deliveryCh)] \in TerminalAtTransform /\ Goto(w, "record")
        BY <1>1, <3>1, <4>2, MoveKeepsSorted DEF BadKinds
      <4> QED
        BY <2>4, <4>1, <4>2
    <3> QED
      BY <1>3, <2>1, <3>2 DEF Sorted
  <2> QED
    BY <1>4, <2>2, <2>3, <2>4, <2>5 DEF Transform
<1>5. CASE SendEvent(w)
  <2>1. /\ pc[w] = "handoff" /\ eventCh' = Append(eventCh, hand[w]) /\ Continue(w)
        /\ hand[w] \in Messages /\ eventCh \in Seq(Messages)
    BY <1>5 DEF SendEvent, WorkInHand, TypeOK
  <2>2. Kind[hand[w]] = "good"
    BY <1>1, <2>1 DEF HandsSorted
  <2>3. Elements(eventCh') = Elements(eventCh) \cup {hand[w]}
    BY <2>1, AppendDistinct
  <2>4. GoodsSorted'
    BY <1>1, <1>2, <2>2, <2>3, KeepsGoods
  <2>5. HandsSorted' /\ BatchNotCondemned'
    BY <1>1, <2>1, NextKeepsSorted
  <2> QED
    BY <1>3, <2>4, <2>5 DEF Sorted
<1>6. CASE WorkerReturns(w)
  <2>1. GoodsSorted'
    BY <1>1, <1>2, <1>6 DEF WorkerReturns, channels, GoodsSorted, Elements
  <2>2. HandsSorted' /\ BatchNotCondemned'
    BY <1>1, <1>6, MoveKeepsSorted DEF WorkerReturns
  <2> QED
    BY <1>3, <2>1, <2>2 DEF Sorted
<1> QED
  BY <1>4, <1>5, <1>6 DEF WorkerStep

\* The batcher stores what it was handed and, without a terminal error of the
\* store, condemns nothing.
LEMMA BatcherSorts ==
    ASSUME "storeTerminal" \notin Faults, TypeOK, Sorted, BatcherStep
    PROVE  Sorted'
<1> USE PipelineAssumption
<1>1. /\ Batcher \in Goroutines /\ Batcher \notin Workers /\ GoodsSorted
      /\ HandsSorted /\ BatchNotCondemned
  BY DEF Goroutines, Sorted
<1>2. UNCHANGED <<hand, deadLetters>>
  BY DEF BatcherStep, Collect, EventsClosed, Tick, StartDrain, DrainExpires, StoreSucceeds,
         StoreFailsTransiently, StoreFailsTerminally, BackoffElapses, BackoffCancelled, durable
<1>3. RecordsSorted'
  BY <1>2 DEF Sorted, RecordsSorted, recorded
<1>4. HandsSorted' /\ BatchNotCondemned'
  <2>1. \/ UNCHANGED pc
        \/ \E s \in {"store", "collect", "done", "backoff", "ackStored"} : Goto(Batcher, s)
    BY DEF BatcherStep, Collect, EventsClosed, Tick, StartDrain, DrainExpires, StoreSucceeds,
           StoreFailsTransiently, StoreFailsTerminally, BackoffElapses, BackoffCancelled,
           Flush, FlushReturns
  <2>2. CASE UNCHANGED pc
    BY <1>1, <1>2, <2>2 DEF HandsSorted, BatchNotCondemned
  <2>3. CASE \E s \in {"store", "collect", "done", "backoff", "ackStored"} : Goto(Batcher, s)
    BY <1>1, <1>2, <2>3, MoveKeepsSorted
  <2> QED
    BY <2>1, <2>2, <2>3
<1>5. CASE Collect
  <2>1. /\ eventCh \in Seq(Messages) /\ eventCh # <<>> /\ batch \in Seq(Messages)
        /\ eventCh' = Tail(eventCh) /\ batch' = Append(batch, Head(eventCh)) /\ stored' = stored
    BY <1>5 DEF Collect, Flush, durable, TypeOK
  <2>2. /\ Head(eventCh) \in Messages /\ Head(eventCh) \in Elements(eventCh)
        /\ Elements(eventCh') \subseteq Elements(eventCh)
    BY <2>1, TailElements, HeadTailProperties
  <2>3. Elements(batch') = Elements(batch) \cup {Head(eventCh)}
    BY <2>1, <2>2, AppendDistinct
  <2>4. GoodsSorted'
    BY <1>1, <2>1, <2>2, <2>3, KeepsGoods
  <2> QED
    BY <1>3, <1>4, <2>4 DEF Sorted
<1>6. CASE ~Collect
  <2>1. /\ eventCh' = eventCh /\ batch' \in {batch, <<>>}
        /\ stored' \in {stored, stored \cup Elements(batch)}
    BY <1>6 DEF BatcherStep, EventsClosed, Tick, StartDrain, DrainExpires, StoreSucceeds,
         StoreFailsTransiently, StoreFailsTerminally, BackoffElapses, BackoffCancelled,
         Flush, FlushReturns, channels, batcher, durable
  <2>2. Elements(<<>>) = {}
    BY DEF Elements
  <2>3. Elements(batch)' \subseteq Elements(batch) /\ Elements(eventCh)' = Elements(eventCh)
    BY <2>1, <2>2 DEF Elements
  <2>4. GoodsSorted'
    BY <1>1, <2>1, <2>3 DEF GoodsSorted
  <2> QED
    BY <1>3, <1>4, <2>4 DEF Sorted
<1> QED
  BY <1>5, <1>6

\* failTerminalAndAck records what its goroutine condemned.
LEMMA SharedSorts ==
    ASSUME TypeOK, FlushHasWork, Sorted, NEW g \in Goroutines, SharedStep(g)
    PROVE  Sorted'
<1> USE PipelineAssumption
<1>1. HandsSorted /\ BatchNotCondemned /\ GoodsSorted
  BY DEF Sorted
<1>2. CASE StoreFailure(g)
  <2>1. /\ pc[g] = "record" /\ Goto(g, "ack") /\ UNCHANGED <<hand, eventCh, batch, stored>>
    BY <1>2 DEF StoreFailure, channels, batcher
  <2>2. g \in Workers \cup {Poller} /\ g # Batcher
    BY <1>1, <2>1 DEF Goroutines, BatchNotCondemned
  <2>3. Current(g) = hand[g] /\ Kind[hand[g]] \in BadKinds
    BY <1>1, <2>1, <2>2 DEF Current, HandsSorted
  <2>4. HandsSorted' /\ BatchNotCondemned'
    BY <1>1, <2>1, <2>2, <2>3, MoveKeepsSorted
  <2>5. RecordsSorted'
    <3>1. PICK S \in {{"sqlite"}, {"kafka"}, {"sqlite", "kafka"}} :
              deadLetters' = deadLetters \cup (S \X {Current(g)})
      BY <1>2, RowsLeft
    <3>2. \A d \in deadLetters' : d \in deadLetters \/ d[2] = Current(g)
      BY <3>1
    <3>3. \A m \in recorded' : m \in recorded \/ m = Current(g)
      BY <3>2 DEF recorded
    <3> QED
      BY <2>3, <3>3 DEF Sorted, RecordsSorted
  <2>6. GoodsSorted'
    BY <1>1, <2>1 DEF GoodsSorted, Elements
  <2> QED
    BY <2>4, <2>5, <2>6 DEF Sorted
<1>3. CASE HandoffCancelled(g) \/ StoreFailureFails(g) \/ Ack(g)
  <2>1. /\ UNCHANGED <<eventCh, stored>>
        /\ batch' = batch \/ batch' = Tail(batch) \/ batch' = <<>>
        /\ batch' # batch => g = Batcher /\ batch # <<>>
    BY <1>3, <1>1 DEF HandoffCancelled, StoreFailureFails, Ack, NextDelivery, FlushReturns,
         channels, batcher, durable, FlushHasWork
  <2>2. GoodsSorted'
    <3>1. Elements(<<>>) = {}
      BY DEF Elements
    <3>2. Elements(batch') \subseteq Elements(batch)
      BY <2>1, <3>1, TailElements DEF TypeOK
    <3>3. Elements(batch)' \subseteq Elements(batch) /\ Elements(eventCh)' = Elements(eventCh)
      BY <2>1, <3>2 DEF Elements
    <3> QED
      BY <1>1, <2>1, <3>3 DEF GoodsSorted
  <2>3. RecordsSorted'
    <3>1. CASE StoreFailureFails(g)
      <4>1. g \in Workers \cup {Poller} /\ g # Batcher /\ pc[g] = "record"
        BY <1>1, <3>1 DEF StoreFailureFails, Goroutines, BatchNotCondemned
      <4>2. Current(g) = hand[g] /\ Kind[hand[g]] \in BadKinds
        BY <1>1, <4>1 DEF Current, HandsSorted
      <4>3. \A d \in deadLetters' : d \in deadLetters \/ d[2] = Current(g)
        BY <3>1 DEF StoreFailureFails
      <4>4. \A m \in recorded' : m \in recorded \/ m = Current(g)
        BY <4>3 DEF recorded
      <4> QED
        BY <4>2, <4>4 DEF Sorted, RecordsSorted
    <3>2. CASE UNCHANGED deadLetters
      BY <3>2 DEF Sorted, RecordsSorted, recorded
    <3> QED
      BY <1>3, <3>1, <3>2 DEF HandoffCancelled, Ack, durable
  <2>4. HandsSorted' /\ BatchNotCondemned'
    <3>1. CASE HandoffCancelled(g)
      <4>1. Goto(g, "done") /\ \A h \in Goroutines \ {g} : hand'[h] = hand[h]
        BY <3>1 DEF HandoffCancelled, Hold, TypeOK
      <4> QED
        BY <1>1, <4>1, MoveKeepsSorted
    <3>2. CASE StoreFailureFails(g)
      BY <1>1, <3>2, NextKeepsSorted DEF StoreFailureFails, BatchNotCondemned
    <3>3. CASE Ack(g)
      BY <1>1, <3>3, NextKeepsSorted DEF Ack, BatchNotCondemned
    <3> QED
      BY <1>3, <3>1, <3>2, <3>3
  <2> QED
    BY <2>2, <2>3, <2>4 DEF Sorted
<1> QED
  BY <1>2, <1>3 DEF SharedStep

\* Every step keeps the messages sorted.
LEMMA SortedStep ==
    ASSUME "storeTerminal" \notin Faults, IInv, Sorted, [Next]_vars
    PROVE  Sorted'
<1>1. TypeOK /\ WorkInHand /\ FlushHasWork
  BY DEF IInv
<1>2. CASE CloseEvents \/ Cancel \/ Deadline \/ UNCHANGED standing
  <2>1. UNCHANGED <<pc, hand, eventCh, batch, stored, deadLetters>>
    BY <1>2 DEF CloseEvents, Cancel, Deadline, standing, channels, batcher, durable
  <2> QED
    BY <2>1 DEF Sorted, GoodsSorted, HandsSorted, BatchNotCondemned, RecordsSorted,
                recorded, Elements
<1> QED
  BY <1>1, <1>2, NextCases, PollerSorts, WorkerSorts, BatcherSorts, SharedSorts DEF Step

\* Short of a terminal error of the store, whatever is retried, cancelled or
\* drained, failTerminalAndAck gets only what ProcessData or Transform called
\* terminal, and the store gets only what Transform accepted.
THEOREM OnlyBadIsCondemned ==
    ASSUME "storeTerminal" \notin Faults
    PROVE  Spec => []OnlyBadMessagesAreDeadLettered
<1>1. Init => Sorted
  BY PipelineAssumption DEF Init, Sorted, GoodsSorted, HandsSorted, BatchNotCondemned,
     RecordsSorted, recorded, Elements, entry, Goroutines
<1>2. IInv /\ Sorted /\ [Next]_vars => Sorted'
  BY SortedStep
<1>3. Sorted => OnlyBadMessagesAreDeadLettered
  BY DEF Sorted, GoodsSorted, RecordsSorted, BadKinds, OnlyBadMessagesAreDeadLettered
<1> QED
  BY <1>1, <1>2, <1>3, Invariant, PTL DEF Spec

-----------------------------------------------------------------------------
(* What a composition with the pipeline needs to know of it.               *)

\* What the goroutines, channels and batch hold.
InCustody ==
    {hand[g] : g \in Goroutines} \cup Elements(deliveryCh) \cup Elements(eventCh)
        \cup Elements(batch)

\* Deliveries come into custody through ProcessData and in no other way.
LEMMA OnlyFetchedComesIn ==
    ASSUME IInv, [Next]_vars
    PROVE  InCustody' \subseteq InCustody \cup {Nothing} \cup (source \ source')
<1> USE PipelineAssumption
<1> DEFINE Known == InCustody \cup {Nothing} \cup (source \ source')
<1>1. TypeOK
  BY DEF IInv
<1>2. /\ \A g \in Goroutines : hand[g] \in Known
      /\ Elements(deliveryCh) \subseteq Known /\ Elements(eventCh) \subseteq Known
      /\ Elements(batch) \subseteq Known /\ Nothing \in Known /\ source \ source' \subseteq Known
  BY DEF InCustody
<1> HIDE DEF Known
<1>3. SUFFICES /\ \A g \in Goroutines : hand'[g] \in Known
               /\ Elements(deliveryCh') \subseteq Known /\ Elements(eventCh') \subseteq Known
               /\ Elements(batch') \subseteq Known
  <2>1. InCustody' = {hand'[g] : g \in Goroutines} \cup Elements(deliveryCh')
                        \cup Elements(eventCh') \cup Elements(batch')
    BY DEF InCustody, Elements, Goroutines
  <2> QED
    BY <1>3, <2>1 DEF Known
<1>4. ASSUME NEW m \in Known, NEW g \in Goroutines, Hold(g, m)
      PROVE  \A h \in Goroutines : hand'[h] \in Known
  BY <1>1, <1>2, <1>4 DEF Hold, TypeOK
<1>5. ASSUME NEW m \in Messages, ProcessData(m)
      PROVE  \A g \in Goroutines : hand'[g] \in Known
  <2>1. m \in Known
    BY <1>2, <1>5 DEF ProcessData
  <2>2. UNCHANGED hand \/ Hold(Poller, m)
    BY <1>5 DEF ProcessData
  <2> QED
    BY <1>2, <1>4, <2>1, <2>2 DEF Goroutines
<1>6. ASSUME NEW g \in Goroutines, NextDelivery(g, "record") \/ NextDelivery(g, "ackStored"),
             g = Batcher => batch # <<>>
      PROVE  (\A h \in Goroutines : hand'[h] \in Known) /\ Elements(batch') \subseteq Known
  <2>1. UNCHANGED hand \/ Hold(g, Nothing)
    BY <1>6 DEF NextDelivery, Continue
  <2>2. batch' = batch \/ (batch # <<>> /\ batch' = Tail(batch)) \/ batch' = <<>>
    BY <1>6 DEF NextDelivery, FlushReturns, batcher
  <2>3. Elements(<<>>) = {}
    BY DEF Elements
  <2>4. Elements(batch') \subseteq Elements(batch)
    BY <1>1, <2>2, <2>3, TailElements DEF TypeOK
  <2> QED
    BY <1>2, <1>4, <2>1, <2>4
<1>7. CASE PollerStep
  <2>1. eventCh' = eventCh /\ batch' = batch
    BY <1>7 DEF PollerStep, ProcessData, PollFails, PollCancelled, SendDelivery, vars, channels,
       batcher
  <2>2. \A g \in Goroutines : hand'[g] \in Known
    BY <1>2, <1>4, <1>5, <1>7 DEF PollerStep, PollFails, PollCancelled, SendDelivery, Continue,
       vars, Goroutines
  <2>3. Elements(deliveryCh') \subseteq Known
    <3>1. CASE SendDelivery
      <4>1. hand[Poller] \in Messages /\ hand[Poller] \in Known /\ deliveryCh \in Seq(Messages)
              /\ deliveryCh' = Append(deliveryCh, hand[Poller])
        BY <1>1, <1>2, <3>1 DEF SendDelivery, IInv, WorkInHand, TypeOK, Goroutines
      <4>2. Elements(deliveryCh') = Elements(deliveryCh) \cup {hand[Poller]}
        BY <4>1, AppendDistinct
      <4> QED
        BY <1>2, <4>1, <4>2
    <3>2. CASE ~SendDelivery
      BY <1>2, <1>7, <3>2 DEF PollerStep, ProcessData, PollFails, PollCancelled, vars, channels
    <3> QED
      BY <3>1, <3>2
  <2> QED
    BY <1>2, <2>1, <2>2, <2>3
<1>8. CASE \E w \in Workers : WorkerStep(w)
  <2>1. PICK w \in Workers : WorkerStep(w)
    BY <1>8
  <2>2. w \in Goroutines /\ batch' = batch
    BY <2>1 DEF WorkerStep, Transform, SendEvent, WorkerReturns, batcher, Goroutines
  <2>3. CASE Transform(w)
    <3>1. /\ deliveryCh \in Seq(Messages) /\ deliveryCh # <<>> /\ deliveryCh' = Tail(deliveryCh)
          /\ eventCh' = eventCh
          /\ UNCHANGED hand \/ Hold(w, Head(deliveryCh))
      BY <1>1, <2>3 DEF Transform, TypeOK
    <3>2. Head(deliveryCh) \in Known /\ Elements(deliveryCh') \subseteq Known
      BY <1>2, <3>1, TailElements
    <3> QED
      BY <1>2, <1>4, <2>2, <3>1, <3>2
  <2>4. CASE SendEvent(w)
    <3>1. /\ eventCh \in Seq(Messages) /\ hand[w] \in Messages
          /\ eventCh' = Append(eventCh, hand[w]) /\ deliveryCh' = deliveryCh /\ Hold(w, Nothing)
      BY <1>1, <2>4 DEF SendEvent, Continue, IInv, WorkInHand, TypeOK
    <3>2. Elements(eventCh') = Elements(eventCh) \cup {hand[w]}
      BY <3>1, AppendDistinct
    <3> QED
      BY <1>2, <1>4, <2>2, <3>1, <3>2
  <2>5. CASE WorkerReturns(w)
    BY <1>2, <2>2, <2>5 DEF WorkerReturns, channels
  <2> QED
    BY <2>1, <2>3, <2>4, <2>5 DEF WorkerStep
<1>9. CASE BatcherStep
  <2>1. UNCHANGED hand /\ deliveryCh' = deliveryCh
    BY <1>9 DEF BatcherStep, Collect, EventsClosed, Tick, StartDrain, DrainExpires,
         StoreSucceeds, StoreFailsTransiently, StoreFailsTerminally, BackoffElapses,
         BackoffCancelled, channels
  <2>2. CASE Collect
    <3>1. /\ eventCh \in Seq(Messages) /\ batch \in Seq(Messages) /\ eventCh # <<>>
          /\ eventCh' = Tail(eventCh) /\ batch' = Append(batch, Head(eventCh))
      BY <1>1, <2>2 DEF Collect, Flush, TypeOK
    <3>2. /\ Head(eventCh) \in Known /\ Elements(eventCh') \subseteq Known
          /\ Head(eventCh) \in Messages
      BY <1>2, <3>1, TailElements, HeadTailProperties
    <3>3. Elements(batch') = Elements(batch) \cup {Head(eventCh)}
      BY <3>1, <3>2, AppendDistinct
    <3> QED
      BY <1>2, <2>1, <3>2, <3>3
  <2>3. CASE ~Collect
    <3>1. eventCh' = eventCh /\ batch' \in {batch, <<>>}
      BY <1>9, <2>3 DEF BatcherStep, EventsClosed, Tick, StartDrain, DrainExpires,
         StoreSucceeds, StoreFailsTransiently, StoreFailsTerminally, BackoffElapses,
         BackoffCancelled, Flush, FlushReturns, channels, batcher
    <3>2. Elements(<<>>) = {}
      BY DEF Elements
    <3> QED
      BY <1>2, <2>1, <3>1, <3>2
  <2> QED
    BY <2>2, <2>3
<1>10. CASE \E g \in Goroutines : SharedStep(g)
  <2>1. PICK g \in Goroutines : SharedStep(g)
    BY <1>10
  <2>2. deliveryCh' = deliveryCh /\ eventCh' = eventCh
    BY <2>1 DEF SharedStep, HandoffCancelled, StoreFailure, StoreFailureFails, Ack, channels
  <2>3. CASE HandoffCancelled(g) \/ StoreFailure(g)
    BY <1>2, <1>4, <2>2, <2>3 DEF HandoffCancelled, StoreFailure, batcher
  <2>4. CASE StoreFailureFails(g) \/ Ack(g)
    <3>1. /\ NextDelivery(g, "record") \/ NextDelivery(g, "ackStored")
          /\ g = Batcher => batch # <<>>
      BY <2>4 DEF StoreFailureFails, Ack, IInv, FlushHasWork
    <3> QED
      BY <1>2, <1>6, <2>2, <3>1
  <2> QED
    BY <2>1, <2>3, <2>4 DEF SharedStep
<1>11. CASE CloseEvents \/ Cancel \/ Deadline \/ UNCHANGED standing
  BY <1>2, <1>11 DEF CloseEvents, Cancel, Deadline, standing, channels, batcher
<1> QED
  BY <1>7, <1>8, <1>9, <1>10, <1>11, NextCases DEF Step

\* The delivery a goroutine is dealing with is in its custody.
LEMMA CurrentIsHeld ==
    ASSUME IInv, NEW g \in Goroutines, pc[g] \in {"record", "ack", "ackStored"}
    PROVE  Current(g) \in InCustody
<1>1. CASE g = Batcher
  <2>1. batch \in Seq(Messages) /\ batch # <<>>
    BY <1>1 DEF IInv, TypeOK, FlushHasWork
  <2> QED
    BY <1>1, <2>1, TailElements DEF Current, InCustody
<1>2. CASE g # Batcher
  BY <1>2 DEF Current, InCustody
<1> QED
  BY <1>1, <1>2

\* A delivery leaves custody when its handler is called.
LEMMA AckedLeavesCustody ==
    ASSUME IInv, Custody, NEW g \in Goroutines, Ack(g)
    PROVE  Current(g) \in Messages /\ Current(g) \in InCustody /\ Current(g) \notin InCustody'
<1> USE PipelineAssumption
<1>1. /\ pc[g] \in {"record", "ack", "ackStored"}
      /\ NextDelivery(g, "record") \/ NextDelivery(g, "ackStored")
      /\ UNCHANGED <<deliveryCh, eventCh>>
  BY DEF Ack, channels
<1>2. Current(g) \in Messages
  BY <1>1, CurrentIsOpen
<1>3. InCustody' = {hand'[h] : h \in Goroutines} \cup Elements(deliveryCh) \cup Elements(eventCh)
                     \cup Elements(batch')
  BY <1>1 DEF InCustody, Elements, Goroutines
<1>4. /\ \A h \in Goroutines : hand'[h] # Current(g)
      /\ Current(g) \notin Elements(deliveryCh) \cup Elements(eventCh) \cup Elements(batch')
  BY <1>1, NextLetsGo
<1>5. Current(g) \in InCustody
  BY <1>1, CurrentIsHeld
<1> QED
  BY <1>2, <1>3, <1>4, <1>5

\* A new process starts with nothing in custody; what is durable has outlived
\* the old one.
LEMMA FreshProcess ==
    ASSUME IInv, Custody,
           expired' = {}, pc' = entry, hand' = [g \in Goroutines |-> Nothing],
           deliveryCh' = <<>>, eventCh' = <<>>, eventClosed' = FALSE, batch' = <<>>,
           phase' = "ctx", last' = FALSE, attempt' = 0, down' = FALSE,
           UNCHANGED <<source, stored, deadLetters, acked, ackFailed, afterAck>>
    PROVE  IInv' /\ Custody' /\ InCustody' \subseteq {Nothing}

<1> USE PipelineAssumption
<1>1. TypeOK
  BY DEF IInv
<1>2. \A g \in Goroutines : pc'[g] = IF g = Poller THEN "fetch"
                                     ELSE IF g = Batcher THEN "collect" ELSE "receive"
  BY DEF entry
<1>3. PcOK'
  BY <1>2 DEF entry, PcOK, Goroutines, PollerStates, WorkerStates, BatcherStates
<1>4. <<>> \in Seq(Messages) /\ Len(<<>>) = 0
  BY EmptySeq
<1>5. BatcherOK' /\ Len(batch') < BatchSize
  <2>1. batch' \in Seq(Messages) /\ Len(batch') = 0
    BY <1>4
  <2>2. last' \in BOOLEAN /\ phase' \in Contexts
    BY DEF Contexts
  <2>3. attempt' \in 0 .. maxStoreAttempts - 1
    BY DEF maxStoreAttempts
  <2> QED
    BY <2>1, <2>2, <2>3 DEF BatcherOK
<1>6. RestOK'
  <2>1. deliveryCh' \in Seq(Messages) /\ Len(deliveryCh') = 0
    BY <1>4
  <2>2. eventCh' \in Seq(Messages) /\ Len(eventCh') = 0
    BY <1>4
  <2>3. hand' \in [Goroutines -> Messages \cup {Nothing}]
    OBVIOUS
  <2>4. source' \subseteq Messages /\ expired' \subseteq Contexts /\ eventClosed' \in BOOLEAN
    BY <1>1 DEF TypeOK
  <2>5. /\ stored' \subseteq Messages
        /\ deadLetters' \subseteq {"sqlite", "kafka"} \X Messages
        /\ acked' \subseteq Messages
        /\ ackFailed' \subseteq Messages
        /\ afterAck' \subseteq Messages
        /\ down' \in BOOLEAN
    BY <1>1 DEF TypeOK
  <2> QED
    BY <2>1, <2>2, <2>3, <2>4, <2>5 DEF RestOK
<1>7. TypeOK'
  BY <1>3, <1>5, <1>6 DEF TypeOK, PcOK, BatcherOK, RestOK
<1>8. pc'[Batcher] = "collect" /\ \A g \in Goroutines : pc'[g] \in {"fetch", "collect", "receive"}
  BY <1>2 DEF Goroutines
<1>9. FlushHasWork' /\ BatchHasRoom' /\ WorkInHand'
  BY <1>5, <1>8 DEF FlushHasWork, BatchHasRoom, WorkInHand, Goroutines
<1>10. RecordedBeforeAck' /\ StoredBeforeAck' /\ AckedIsDurable'
  BY <1>8 DEF IInv, RecordedBeforeAck, StoredBeforeAck, AckedIsDurable, recorded
<1>11. Elements(<<>>) = {} /\ Distinct(<<>>)
  BY DEF Elements, Distinct
<1>12. /\ Elements(deliveryCh)' = {} /\ Elements(eventCh)' = {} /\ Elements(batch)' = {}
       /\ SlotsApart'
  BY <1>11 DEF Elements, Distinct, SlotsApart
<1>13. Nothing \notin source' \cup acked'
  BY <1>7 DEF TypeOK
<1>14. Custody'
  BY <1>1, <1>12, <1>13 DEF Custody, HandsApart, PlacesApart, NoneTaken
<1>15. InCustody' \subseteq {Nothing}
  BY <1>12 DEF InCustody, Goroutines
<1> QED
  BY <1>7, <1>9, <1>10, <1>14, <1>15 DEF IInv

=============================================================================

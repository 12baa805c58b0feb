------------------------ MODULE OffsetCommitterProofs ------------------------
(***************************************************************************)
(* What holds of OffsetCommitter for every log, every number of goroutines *)
(* and sessions, and every combination of faults.                          *)
(***************************************************************************)
EXTENDS OffsetCommitter, TLAPS

\* A type-correct state stays type correct in every step of the committer, its
\* reader and the group.
LEMMA TypeStep == TypeOK /\ [Next]_vars => TypeOK'
<1> SUFFICES ASSUME TypeOK, [Next]_vars
             PROVE  TypeOK'
  OBVIOUS
<1> USE CommitterAssumption DEF TypeOK
<1>1. CASE Assign
  BY <1>1 DEF Assign, parts, Sessions
<1>2. ASSUME NEW o \in Log, PollMessage(o)
      PROVE  TypeOK'
  <2>1. fetchPos' \in Positions /\ o \in Positions
    BY <1>2 DEF PollMessage, Log, Positions
  <2>2. inflight' \subseteq Log \X Sessions
    BY <1>2 DEF PollMessage
  <2>3. CASE registered
    <3>1. UNCHANGED <<registered, next, completed>>
      BY <1>2, <2>3 DEF PollMessage, register, parts
    <3> QED
      BY <1>2, <2>1, <2>2, <3>1 DEF PollMessage
  <2>4. CASE ~registered
    <3>1. registered' = TRUE /\ next' = o /\ completed' = {}
      BY <1>2, <2>4 DEF PollMessage, register
    <3> QED
      BY <1>2, <2>1, <2>2, <3>1 DEF PollMessage
  <2> QED
    BY <2>3, <2>4
<1>3. CASE Revoke
  BY <1>3 DEF Revoke, parts
<1>4. ASSUME NEW a \in Ackers, NEW d \in inflight, complete(a, d)
      PROVE  TypeOK'
  <2>1. PICK n \in next .. LogEnd :
          /\ next' = n
          /\ completed' = (completed \cup {d[1]}) \ (next .. (n - 1))
          /\ next .. (n - 1) \subseteq completed \cup {d[1]}
          /\ call' = IF n > next THEN [call EXCEPT ![a] = n - 1] ELSE call
    BY <1>4 DEF complete
  <2>2. d[1] \in Log
    OBVIOUS
  <2>3. n \in Positions
    BY <2>1 DEF Positions
  <2>4. call' \in [Ackers -> Log \cup {NoCall}]
    <3>1. n > next => n - 1 \in Log
      BY <2>1, <2>2 DEF Positions
    <3>2. QED
      BY <2>1, <3>1
  <2>5. completed' \subseteq Log
    BY <2>1, <2>2
  <2> QED
    BY <1>4, <2>1, <2>2, <2>3, <2>4, <2>5 DEF complete, Settle, reader
<1>5. ASSUME NEW a \in Ackers, CommitMessages(a)
      PROVE  TypeOK'
  <2>1. call[a] \in Log
    BY <1>5 DEF CommitMessages
  <2> QED
    BY <1>5, <2>1 DEF CommitMessages, parts, reader, Log, Positions
<1>6. ASSUME NEW a \in Ackers, CommitFails(a)
      PROVE  TypeOK'
  BY <1>6 DEF CommitFails, parts, reader
<1>7. ASSUME NEW d \in inflight, Drop(d)
      PROVE  TypeOK'
  BY <1>7 DEF Drop, parts, reader
<1>8. ASSUME NEW o \in Log, ForeignSettle(o)
      PROVE  TypeOK'
  BY <1>8 DEF ForeignSettle, parts, reader
<1>9. ASSUME NEW p \in Positions, ForeignCommit(p)
      PROVE  TypeOK'
  BY <1>9 DEF ForeignCommit, parts, reader
<1>10. CASE Crash
  <2>1. 0 \in Positions
    BY DEF Positions
  <2> QED
    BY <1>10, <2>1 DEF Crash
<1>11. CASE UNCHANGED vars
  BY <1>11 DEF vars, parts, reader
<1> QED
  BY <1>1, <1>2, <1>3, <1>4, <1>5, <1>6, <1>7, <1>8, <1>9, <1>10, <1>11 DEF Next

\* The variables of the committer keep their types: the watermark stays within
\* the log and the broker is never sent a position outside it.
THEOREM TypeCorrect == Spec => []TypeOK
<1>1. Init => TypeOK
  <2> SUFFICES ASSUME Init
               PROVE  TypeOK
    OBVIOUS
  <2>1. 0 \in Positions /\ 0 \in Sessions
    BY CommitterAssumption DEF Positions, Sessions
  <2> QED
    BY <2>1 DEF Init, TypeOK
<1> QED
  BY <1>1, TypeStep, PTL DEF Spec

-----------------------------------------------------------------------------
(* The inductive invariant.                                                *)

\* A cursor at a position passes no more than one at a later position.
LEMMA BelowMonotone ==
    ASSUME NEW p \in Int, NEW q \in Int, p <= q
    PROVE  Below(p) \subseteq Below(q)
BY CommitterAssumption DEF Below, Log

\* The first state has fetched and committed nothing.
LEMMA InvInit == Init => IInv
<1> SUFFICES ASSUME Init
             PROVE  IInv
  OBVIOUS
<1>1. TypeOK
  <2>1. 0 \in Positions /\ 0 \in Sessions
    BY CommitterAssumption DEF Positions, Sessions
  <2> QED
    BY <2>1 DEF Init, TypeOK
<1>2. Below(0) = {}
  BY CommitterAssumption DEF Below, Log
<1> QED
  BY <1>1, <1>2
  DEF Init, IInv, WatermarkSettled, CompletedSettled, FirstFetchSettled, HandlersHaveAnEntry,
      NoCallBeforeFetch, CallsBelowNext, EachAdvanceHasOneSender, NoPendingCommitOverGap, NoCommitOverGap

\* A step that settles more and leaves the watermark, the pending commits and
\* the broker alone keeps every conjunct but the two about fetching.
LEMMA SettlingKeepsInv ==
    ASSUME IInv, settled \subseteq settled', TypeOK',
           UNCHANGED <<next, completed, call, committed>>
    PROVE  /\ WatermarkSettled'
           /\ CompletedSettled'
           /\ CallsBelowNext'
           /\ EachAdvanceHasOneSender'
           /\ NoPendingCommitOverGap'
           /\ NoCommitOverGap'
BY DEF IInv, WatermarkSettled, CompletedSettled, CallsBelowNext, EachAdvanceHasOneSender,
       NoPendingCommitOverGap, NoCommitOverGap, Below

\* Assign resumes at the committed position, below which all is settled.
LEMMA AssignStep == IInv /\ TypeOK' /\ Assign => IInv'
<1> SUFFICES ASSUME IInv, TypeOK', Assign
             PROVE  IInv'
  OBVIOUS
<1>1. UNCHANGED <<registered, next, completed, inflight, call, committed, settled>>
  BY DEF Assign, parts
<1>2. FirstFetchSettled'
  BY <1>1 DEF Assign, IInv, FirstFetchSettled, NoCommitOverGap, Below
<1>3. HandlersHaveAnEntry' /\ NoCallBeforeFetch'
  BY <1>1 DEF IInv, HandlersHaveAnEntry, NoCallBeforeFetch
<1> QED
  BY <1>1, <1>2, <1>3, SettlingKeepsInv DEF IInv

\* The first fetch of a process pins the watermark where the reader resumed, and
\* no message lies between that position and the message fetched.
LEMMA PollStep ==
    ASSUME IInv, TypeOK', NEW o \in Log, PollMessage(o)
    PROVE  IInv'
<1>1. registered' = TRUE
  BY DEF PollMessage, register, parts
<1>2. UNCHANGED <<call, committed, settled>>
  BY DEF PollMessage
<1>3. FirstFetchSettled' /\ HandlersHaveAnEntry' /\ NoCallBeforeFetch'
  BY <1>1 DEF FirstFetchSettled, HandlersHaveAnEntry, NoCallBeforeFetch
<1>4. CASE registered
  <2>1. UNCHANGED <<next, completed>>
    BY <1>4 DEF PollMessage, register, parts
  <2> QED
    BY <1>2, <1>3, <2>1, SettlingKeepsInv DEF IInv
<1>5. CASE ~registered
  <2>1. next' = o /\ completed' = {}
    BY <1>5 DEF PollMessage, register
  <2>2. WatermarkSettled'
    BY <1>2, <1>5, <2>1 DEF PollMessage, IInv, FirstFetchSettled, WatermarkSettled, Below
  <2>3. CompletedSettled'
    BY <2>1 DEF CompletedSettled
  <2>4. CallsBelowNext'
    BY <1>2, <1>5 DEF IInv, NoCallBeforeFetch, CallsBelowNext
  <2> QED
    BY <1>2, <1>3, <2>2, <2>3, <2>4
    DEF IInv, EachAdvanceHasOneSender, NoPendingCommitOverGap, NoCommitOverGap, Below
<1> QED
  BY <1>4, <1>5

\* One call of complete: the run it walks is settled, so is everything below the
\* new watermark, and the commit it decides on is above every pending one.
LEMMA CompleteStep ==
    ASSUME IInv, TypeOK', NEW a \in Ackers, NEW d \in inflight, complete(a, d)
    PROVE  IInv'
<1> USE CommitterAssumption
<1>1. PICK n \in next .. LogEnd :
        /\ next .. (n - 1) \subseteq completed \cup {d[1]}
        /\ next' = n
        /\ completed' = (completed \cup {d[1]}) \ (next .. (n - 1))
        /\ call' = IF n > next THEN [call EXCEPT ![a] = n - 1] ELSE call
  BY DEF complete
<1>2. /\ settled' = settled \cup {d[1]}
      /\ inflight' = inflight \ {d}
      /\ call[a] = NoCall
      /\ UNCHANGED <<fetchPos, registered, committed>>
  BY DEF complete, Settle, reader
<1>3. next \in Int /\ n \in Int /\ n >= next
  BY <1>1 DEF IInv, TypeOK, Positions
<1>4. registered
  BY DEF IInv, HandlersHaveAnEntry
<1>5. completed \cup {d[1]} \subseteq settled'
  BY <1>2 DEF IInv, CompletedSettled
<1>6. WatermarkSettled'
  <2>1. ASSUME NEW o \in Log, o < n
        PROVE  o \in settled'
    <3>1. CASE o < next
      BY <1>2, <3>1 DEF IInv, WatermarkSettled, Below
    <3>2. CASE o >= next
      BY <1>1, <1>3, <1>5, <2>1, <3>2 DEF Log
    <3> QED
      BY <1>3, <3>1, <3>2 DEF Log
  <2> QED
    BY <1>1, <2>1 DEF WatermarkSettled, Below
<1>7. CompletedSettled'
  BY <1>1, <1>5 DEF CompletedSettled
<1>8. FirstFetchSettled' /\ HandlersHaveAnEntry' /\ NoCallBeforeFetch'
  BY <1>2, <1>4 DEF FirstFetchSettled, HandlersHaveAnEntry, NoCallBeforeFetch
<1>9. call \in [Ackers -> Log \cup {NoCall}]
  BY DEF IInv, TypeOK
<1>10. ASSUME NEW b \in Ackers
       PROVE  \/ call'[b] = call[b]
              \/ b = a /\ call'[b] = n - 1 /\ n > next
  BY <1>1, <1>9
<1>11. CallsBelowNext'
  BY <1>1, <1>3, <1>9, <1>10 DEF IInv, CallsBelowNext, Log, NoCall
<1>12. EachAdvanceHasOneSender'
  <2>1. ASSUME NEW b \in Ackers, call[b] # NoCall
        PROVE  call[b] < next
    BY <2>1 DEF IInv, CallsBelowNext
  <2>2. CASE n > next
    <3>1. ASSUME NEW b \in Ackers, b # a, call[b] # NoCall
          PROVE  call[b] # n - 1
      BY <1>3, <1>9, <2>1, <2>2, <3>1 DEF Log
    <3>2. call'[a] = n - 1
      BY <1>1, <1>9, <2>2
    <3>3. \A b \in Ackers \ {a} : call'[b] = call[b]
      BY <1>1, <1>9, <2>2
    <3>4. n - 1 # NoCall
      BY <1>1, <2>2 DEF NoCall, IInv, TypeOK, Positions
    <3> QED
      BY <3>1, <3>2, <3>3, <3>4 DEF IInv, EachAdvanceHasOneSender
  <2>3. CASE ~(n > next)
    BY <1>1, <2>3 DEF IInv, EachAdvanceHasOneSender
  <2> QED
    BY <2>2, <2>3
<1>13. NoPendingCommitOverGap'
  <2> SUFFICES ASSUME NEW b \in Ackers, call'[b] # NoCall
               PROVE  Below(call'[b] + 1) \subseteq settled'
    BY DEF NoPendingCommitOverGap, Below, Log
  <2>1. CASE call'[b] = call[b]
    BY <1>2, <2>1 DEF IInv, NoPendingCommitOverGap
  <2>2. CASE call'[b] = n - 1
    <3>1. call'[b] + 1 = n
      BY <1>3, <2>2
    <3> QED
      BY <1>1, <1>6, <3>1 DEF WatermarkSettled, Below
  <2> QED
    BY <1>10, <2>1, <2>2
<1>14. NoCommitOverGap'
  BY <1>2 DEF IInv, NoCommitOverGap, Below
<1> QED
  BY <1>6, <1>7, <1>8, <1>11, <1>12, <1>13, <1>14 DEF IInv

\* The broker receives a position whose prefix was settled when it was decided.
LEMMA CommitStep ==
    ASSUME IInv, TypeOK', NEW a \in Ackers, CommitMessages(a)
    PROVE  IInv'
<1>1. /\ committed' = call[a] + 1
      /\ call[a] # NoCall
      /\ call' = [call EXCEPT ![a] = NoCall]
      /\ UNCHANGED <<fetchPos, registered, next, completed, inflight, settled>>
  BY DEF CommitMessages, reader, parts
<1>2. call \in [Ackers -> Log \cup {NoCall}]
  BY DEF IInv, TypeOK
<1>3. NoCommitOverGap'
  BY <1>1 DEF IInv, NoPendingCommitOverGap, NoCommitOverGap, Below
<1>4. \A b \in Ackers : call'[b] = call[b] \/ call'[b] = NoCall
  BY <1>1, <1>2
<1>5. /\ NoCallBeforeFetch'
      /\ CallsBelowNext'
      /\ EachAdvanceHasOneSender'
      /\ NoPendingCommitOverGap'
  BY <1>1, <1>2, <1>4
  DEF IInv, NoCallBeforeFetch, CallsBelowNext, EachAdvanceHasOneSender, NoPendingCommitOverGap, Below
<1> QED
  BY <1>1, <1>3, <1>5
  DEF IInv, WatermarkSettled, CompletedSettled, FirstFetchSettled, HandlersHaveAnEntry, Below

\* A commit that fails only ends the call.
LEMMA CommitFailsStep ==
    ASSUME IInv, TypeOK', NEW a \in Ackers, CommitFails(a)
    PROVE  IInv'
<1>1. /\ call' = [call EXCEPT ![a] = NoCall]
      /\ UNCHANGED <<fetchPos, registered, next, completed, inflight, committed, settled>>
  BY DEF CommitFails, reader, parts
<1>2. \A b \in Ackers : call'[b] = call[b] \/ call'[b] = NoCall
  BY <1>1 DEF IInv, TypeOK
<1>3. /\ NoCallBeforeFetch'
      /\ CallsBelowNext'
      /\ EachAdvanceHasOneSender'
      /\ NoPendingCommitOverGap'
  BY <1>1, <1>2
  DEF IInv, NoCallBeforeFetch, CallsBelowNext, EachAdvanceHasOneSender, NoPendingCommitOverGap, Below
<1> QED
  BY <1>1, <1>3
  DEF IInv, WatermarkSettled, CompletedSettled, FirstFetchSettled, HandlersHaveAnEntry,
      NoCommitOverGap, Below

\* Steps that touch neither the watermark, the pending commits nor the broker:
\* a rebalance, a delivery given up, another member at work, stuttering.
LEMMA QuietStep ==
    ASSUME IInv, TypeOK', settled \subseteq settled', inflight' \subseteq inflight,
           UNCHANGED <<fetchPos, registered, next, completed, call, committed>>
    PROVE  IInv'
<1>1. FirstFetchSettled' /\ HandlersHaveAnEntry' /\ NoCallBeforeFetch'
  BY DEF IInv, FirstFetchSettled, HandlersHaveAnEntry, NoCallBeforeFetch, Below
<1> QED
  BY <1>1, SettlingKeepsInv DEF IInv

\* Another member commits only what is settled.
LEMMA ForeignCommitStep ==
    ASSUME IInv, TypeOK', NEW p \in Positions, ForeignCommit(p)
    PROVE  IInv'
<1>1. /\ Below(p) \subseteq settled
      /\ committed' = p
      /\ UNCHANGED <<fetchPos, registered, next, completed, inflight, call, settled>>
  BY DEF ForeignCommit, reader, parts
<1> QED
  BY <1>1
  DEF IInv, WatermarkSettled, CompletedSettled, FirstFetchSettled, HandlersHaveAnEntry,
      NoCallBeforeFetch, CallsBelowNext, EachAdvanceHasOneSender, NoPendingCommitOverGap,
      NoCommitOverGap, Below

\* A new process starts with nothing registered and nothing pending.
LEMMA CrashStep == IInv /\ TypeOK' /\ Crash => IInv'
<1> SUFFICES ASSUME IInv, TypeOK', Crash
             PROVE  IInv'
  OBVIOUS
<1>1. /\ fetchPos' = 0 /\ registered' = FALSE /\ next' = 0
      /\ completed' = {} /\ inflight' = {}
      /\ call' = [a \in Ackers |-> NoCall]
      /\ UNCHANGED <<committed, settled>>
  BY DEF Crash
<1>2. WatermarkSettled' /\ FirstFetchSettled'
  BY <1>1, CommitterAssumption DEF WatermarkSettled, FirstFetchSettled, Below, Log
<1> QED
  BY <1>1, <1>2
  DEF IInv, CompletedSettled, HandlersHaveAnEntry, NoCallBeforeFetch, CallsBelowNext,
      EachAdvanceHasOneSender, NoPendingCommitOverGap, NoCommitOverGap, Below

\* Every step keeps the inductive invariant.
LEMMA InvStep == IInv /\ [Next]_vars => IInv'
<1> SUFFICES ASSUME IInv, [Next]_vars
             PROVE  IInv'
  OBVIOUS
<1>1. TypeOK'
  BY TypeStep DEF IInv
<1>2. CASE Assign
  BY <1>1, <1>2, AssignStep
<1>3. ASSUME NEW o \in Log, PollMessage(o)
      PROVE  IInv'
  BY <1>1, <1>3, PollStep
<1>4. CASE Revoke
  BY <1>1, <1>4, QuietStep DEF Revoke, parts
<1>5. ASSUME NEW a \in Ackers, NEW d \in inflight, complete(a, d)
      PROVE  IInv'
  BY <1>1, <1>5, CompleteStep
<1>6. ASSUME NEW a \in Ackers, CommitMessages(a)
      PROVE  IInv'
  BY <1>1, <1>6, CommitStep
<1>7. ASSUME NEW a \in Ackers, CommitFails(a)
      PROVE  IInv'
  BY <1>1, <1>7, CommitFailsStep
<1>8. ASSUME NEW d \in inflight, Drop(d)
      PROVE  IInv'
  BY <1>1, <1>8, QuietStep DEF Drop, reader, parts
<1>9. ASSUME NEW o \in Log, ForeignSettle(o)
      PROVE  IInv'
  BY <1>1, <1>9, QuietStep DEF ForeignSettle, reader, parts
<1>10. ASSUME NEW p \in Positions, ForeignCommit(p)
       PROVE  IInv'
  BY <1>1, <1>10, ForeignCommitStep
<1>11. CASE Crash
  BY <1>1, <1>11, CrashStep
<1>12. CASE UNCHANGED vars
  BY <1>1, <1>12, QuietStep DEF vars, reader, parts
<1> QED
  BY <1>2, <1>3, <1>4, <1>5, <1>6, <1>7, <1>8, <1>9, <1>10, <1>11, <1>12 DEF Next

\* The inductive invariant holds in every reachable state.
THEOREM Invariant == Spec => []IInv
BY InvInit, InvStep, PTL DEF Spec

-----------------------------------------------------------------------------
(* What follows from it.                                                   *)

\* The committed position of the broker never passes a message without a durable
\* outcome, whatever order the handlers of ack.go complete in.
THEOREM CommitIsSafe == Spec => []NoCommitOverGap
<1>1. IInv => NoCommitOverGap
  BY DEF IInv
<1> QED
  BY <1>1, Invariant, PTL

\* Nor would any commit still on its way from complete to the broker.
THEOREM PendingCommitsAreSafe == Spec => []NoPendingCommitOverGap
<1>1. IInv => NoPendingCommitOverGap
  BY DEF IInv
<1> QED
  BY <1>1, Invariant, PTL

\* No two goroutines inside CommitMessages carry the same watermark.
THEOREM OneSenderPerAdvance == Spec => []EachAdvanceHasOneSender
<1>1. IInv => EachAdvanceHasOneSender
  BY DEF IInv
<1> QED
  BY <1>1, Invariant, PTL

\* complete never finds parts without the entry it dereferences.
THEOREM NoNilProgress == Spec => []HandlersHaveAnEntry
<1>1. IInv => HandlersHaveAnEntry
  BY DEF IInv
<1> QED
  BY <1>1, Invariant, PTL

-----------------------------------------------------------------------------
(* Refinement.                                                             *)

\* The ledger's operators are the committer's own.
LEMMA SameLog ==
    /\ Ledger!Log = Log
    /\ Ledger!Positions = Positions
    /\ \A p : Ledger!Below(p) = Below(p)
BY DEF Ledger!Log, Log, Ledger!Positions, Positions, Ledger!Below, Below

\* Each step of the committer is a step of the ledger or leaves it alone: a
\* handler settles one message, a commit moves the cursor over settled ones.
LEMMA LedgerStep == IInv /\ [Next]_vars => [Ledger!Next]_(Ledger!ledgerVars)
<1> SUFFICES ASSUME IInv, [Next]_vars
             PROVE  Ledger!Next \/ UNCHANGED <<settled, committed>>
  BY DEF Ledger!ledgerVars
<1>1. ASSUME NEW o \in Log, settled' = settled \cup {o}, committed' = committed
      PROVE  Ledger!Next
  BY <1>1, SameLog DEF Ledger!Next, Ledger!Settle
<1>2. ASSUME NEW p \in Positions, Below(p) \subseteq settled, committed' = p, settled' = settled
      PROVE  Ledger!Next
  BY <1>2, SameLog DEF Ledger!Next, Ledger!MoveCursor
<1>3. ASSUME NEW a \in Ackers, NEW d \in inflight, complete(a, d)
      PROVE  Ledger!Next
  <2>1. d[1] \in Log
    BY DEF IInv, TypeOK
  <2> QED
    BY <1>1, <1>3, <2>1 DEF complete, Settle
<1>4. ASSUME NEW a \in Ackers, CommitMessages(a)
      PROVE  Ledger!Next
  <2>1. call[a] \in Log
    BY <1>4 DEF CommitMessages, IInv, TypeOK
  <2>2. call[a] + 1 \in Positions
    BY <2>1, CommitterAssumption DEF Log, Positions
  <2> QED
    BY <1>2, <1>4, <2>2 DEF CommitMessages, IInv, NoPendingCommitOverGap
<1>5. ASSUME NEW o \in Log, ForeignSettle(o)
      PROVE  Ledger!Next
  BY <1>1, <1>5 DEF ForeignSettle
<1>6. ASSUME NEW p \in Positions, ForeignCommit(p)
      PROVE  Ledger!Next
  BY <1>2, <1>6 DEF ForeignCommit
<1>7. ASSUME \/ Assign \/ Revoke \/ Crash
             \/ \E o \in Log : PollMessage(o)
             \/ \E a \in Ackers : CommitFails(a)
             \/ \E d \in inflight : Drop(d)
             \/ UNCHANGED vars
      PROVE  UNCHANGED <<settled, committed>>
  BY <1>7 DEF Assign, Revoke, Crash, PollMessage, CommitFails, Drop, vars
<1> QED
  BY <1>3, <1>4, <1>5, <1>6, <1>7 DEF Next

\* OffsetCommitter, with its reader and its group, implements the ledger of
\* at-least-once delivery.
THEOREM ImplementsLedger == Spec => LedgerSpec
<1>1. Init => Ledger!Init
  BY DEF Init, Ledger!Init
<1> QED
  BY <1>1, LedgerStep, Invariant, PTL DEF Spec, LedgerSpec, Ledger!Spec

=============================================================================

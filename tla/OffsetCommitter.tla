--------------------------- MODULE OffsetCommitter ---------------------------
(***************************************************************************)
(* internal/kafka/ack.go for one partition of one topic.  Its map parts is *)
(* keyed by partition and no code relates two partitions, so one entry     *)
(* stands for all.                                                         *)
(*                                                                         *)
(* PollMessage registers every message it fetches and hands the pipeline a *)
(* handler; the goroutines of the pipeline (Ackers: the poller, the        *)
(* transform workers and the batcher) call the handlers in any order.  A   *)
(* handler updates the watermark under the mutex, releases it, and only    *)
(* then sends the commit: the two steps of one call are two actions here.  *)
(*                                                                         *)
(* The broker and the kafka-go reader are external: what they do is taken  *)
(* from how poller.go and ack.go use them.  A session is one assignment of *)
(* the partition to this process; the reader resumes it at the committed   *)
(* position.  The watermark outlives a session (no code resets parts) and  *)
(* dies with the process.                                                  *)
(***************************************************************************)
EXTENDS Integers

CONSTANTS
    LogEnd,       \* bound: the partition holds offsets below LogEnd
    Holes,        \* offsets without a message
    Ackers,       \* goroutines that call completion handlers
    MaxSessions,  \* bound on the assignments of the partition
    OutageSessions, \* sessions whose deliveries the pipeline may give up
    Faults        \* which of the environment's faults may happen

AllFaults == {"commitFail", "revoke", "foreign", "crash"}

ASSUME CommitterAssumption ==
    /\ LogEnd \in Nat
    /\ Holes \subseteq 0 .. LogEnd - 1
    /\ MaxSessions \in Nat
    /\ OutageSessions \subseteq 0 .. MaxSessions
    /\ Faults \subseteq AllFaults

VARIABLES
    assigned,    \* the group has assigned the partition to this process
    session,     \* the number of assignments so far
    fetchPos,    \* the reader's position: the next fetch starts here
    registered,  \* parts has an entry for the partition
    next,        \* partitionProgress.next
    completed,   \* the offsets in partitionProgress.completed
    inflight,    \* fetched deliveries whose handler has not been called
    call,        \* the commit an acker has decided on and not yet sent
    committed,   \* the committed position the broker holds
    settled      \* offsets with a durable outcome (history variable)

parts == <<registered, next, completed>>
reader == <<assigned, session, fetchPos>>
vars == <<reader, parts, inflight, call, committed, settled>>

Log == (0 .. LogEnd - 1) \ Holes
Positions == 0 .. LogEnd
Sessions == 0 .. MaxSessions
Below(p) == {o \in Log : o < p}

\* The value of call[a] when acker a is not inside CommitMessages.
NoCall == -1

TypeOK ==
    /\ assigned \in BOOLEAN
    /\ session \in Sessions
    /\ fetchPos \in Positions
    /\ registered \in BOOLEAN
    /\ next \in Positions
    /\ completed \subseteq Log
    /\ inflight \subseteq Log \X Sessions
    /\ call \in [Ackers -> Log \cup {NoCall}]
    /\ committed \in Positions
    /\ settled \subseteq Log

Init ==
    /\ assigned = FALSE
    /\ session = 0
    /\ fetchPos = 0
    /\ registered = FALSE
    /\ next = 0
    /\ completed = {}
    /\ inflight = {}
    /\ call = [a \in Ackers |-> NoCall]
    /\ committed = 0
    /\ settled = {}

-----------------------------------------------------------------------------
(* The reader.                                                             *)

\* The group assigns the partition; the reader resumes at the committed offset.
Assign ==
    /\ ~assigned
    /\ session < MaxSessions
    /\ assigned' = TRUE
    /\ session' = session + 1
    /\ fetchPos' = committed
    /\ UNCHANGED <<parts, inflight, call, committed, settled>>

\* Mutated form: register without its nil check, every fetch restarts the entry.
register_always(o) ==
    /\ registered' = TRUE
    /\ next' = o
    /\ completed' = {}

\* OffsetCommitter.register: only the first message ever seen creates the entry.
register(o) ==
    IF registered
    THEN UNCHANGED parts
    ELSE /\ registered' = TRUE
         /\ next' = o
         /\ completed' = {}

\* PollMessage: FetchMessage returns the next message of the partition and
\* Ack registers it before anything else can fail.
PollMessage(o) ==
    /\ assigned
    /\ o \in Log
    /\ fetchPos <= o
    /\ Below(o) \subseteq Below(fetchPos)
    /\ fetchPos' = o + 1
    /\ register(o)
    /\ inflight' = inflight \cup {<<o, session>>}
    /\ UNCHANGED <<assigned, session, call, committed, settled>>

\* A rebalance takes the partition away.  Deliveries already handed to the
\* pipeline stay there with their handlers, and parts keeps its entry.
Revoke ==
    /\ "revoke" \in Faults
    /\ assigned
    /\ assigned' = FALSE
    /\ UNCHANGED <<session, fetchPos, parts, inflight, call, committed, settled>>

-----------------------------------------------------------------------------
(* The completion handlers.                                                *)

\* What every form of complete does to the delivery.
Settle(a, d) ==
    /\ call[a] = NoCall
    /\ d \in inflight
    /\ inflight' = inflight \ {d}
    /\ settled' = settled \cup {d[1]}

\* Mutated form: the naive commit per message that the struct comment warns of.
complete_naive(a, d) ==
    /\ Settle(a, d)
    /\ call' = [call EXCEPT ![a] = d[1]]
    /\ UNCHANGED <<reader, parts, committed>>

\* Mutated form: the run is committed and stays in the map, next is not advanced.
complete_keepsRun(a, d) ==
    LET done == completed \cup {d[1]} IN
    /\ Settle(a, d)
    /\ completed' = done
    /\ \E n \in next .. LogEnd :
        /\ next .. (n - 1) \subseteq done
        /\ n \notin done
        /\ call' = IF n > next THEN [call EXCEPT ![a] = n - 1] ELSE call
    /\ UNCHANGED <<reader, registered, next, committed>>

\* OffsetCommitter.complete up to the unlock: acker a settles delivery d, the
\* loop walks the contiguous run next .. n-1, and a commit of n-1 is due if the
\* run is not empty.
complete(a, d) ==
    LET done == completed \cup {d[1]} IN
    /\ Settle(a, d)
    /\ \E n \in next .. LogEnd :
        /\ next .. (n - 1) \subseteq done
        /\ n \notin done
        /\ next' = n
        /\ completed' = done \ (next .. (n - 1))
        /\ call' = IF n > next THEN [call EXCEPT ![a] = n - 1] ELSE call
    /\ UNCHANGED <<reader, registered, committed>>

\* Mutated form: the position sent is one too far.
CommitMessages_offByOne(a) ==
    /\ call[a] # NoCall
    /\ committed' = call[a] + 2
    /\ call' = [call EXCEPT ![a] = NoCall]
    /\ UNCHANGED <<reader, parts, inflight, settled>>

\* CommitMessages after the unlock: the broker stores the position it is given.
\* An answer lost on the way back leaves the same state: the call is over.
CommitMessages(a) ==
    /\ call[a] # NoCall
    /\ committed' = call[a] + 1
    /\ call' = [call EXCEPT ![a] = NoCall]
    /\ UNCHANGED <<reader, parts, inflight, settled>>

\* CommitMessages returns an error.  The watermark has already moved and no
\* code moves it back or sends the commit again.
CommitFails(a) ==
    /\ "commitFail" \in Faults
    /\ call[a] # NoCall
    /\ call' = [call EXCEPT ![a] = NoCall]
    /\ UNCHANGED <<reader, parts, inflight, committed, settled>>

\* The pipeline gives a delivery up without calling its handler (transient
\* failure, shutdown).  Nothing tells the reader.
Drop(d) ==
    /\ d \in inflight
    /\ d[2] \in OutageSessions
    /\ inflight' = inflight \ {d}
    /\ UNCHANGED <<reader, parts, call, committed, settled>>

-----------------------------------------------------------------------------
(* Other members of the group, and the process itself.                     *)

\* Another member owns the partition and settles a message of it.
ForeignSettle(o) ==
    /\ "foreign" \in Faults
    /\ ~assigned
    /\ o \in Log \ settled
    /\ settled' = settled \cup {o}
    /\ UNCHANGED <<reader, parts, inflight, call, committed>>

\* Another member commits a position below which everything is settled.
ForeignCommit(p) ==
    /\ "foreign" \in Faults
    /\ ~assigned
    /\ p \in Positions
    /\ p > committed
    /\ Below(p) \subseteq settled
    /\ committed' = p
    /\ UNCHANGED <<reader, parts, inflight, call, settled>>

\* The process dies and restarts: only the broker remembers anything.
Crash ==
    /\ "crash" \in Faults
    /\ session < MaxSessions
    /\ assigned' = FALSE
    /\ fetchPos' = 0
    /\ registered' = FALSE
    /\ next' = 0
    /\ completed' = {}
    /\ inflight' = {}
    /\ call' = [a \in Ackers |-> NoCall]
    /\ UNCHANGED <<session, committed, settled>>

-----------------------------------------------------------------------------
Next ==
    \/ Assign
    \/ \E o \in Log : PollMessage(o)
    \/ Revoke
    \/ \E a \in Ackers, d \in inflight : complete(a, d)
    \/ \E a \in Ackers : CommitMessages(a)
    \/ \E a \in Ackers : CommitFails(a)
    \/ \E d \in inflight : Drop(d)
    \/ \E o \in Log : ForeignSettle(o)
    \/ \E p \in Positions : ForeignCommit(p)
    \/ Crash

Spec == Init /\ [][Next]_vars

\* What the code's scheduling justifies: the poll loop never stops fetching, the
\* goroutine holding a delivery eventually calls its handler (unless it drops
\* the delivery), and a call that was started ends.  The group eventually hands
\* an unowned partition out again.
Fairness ==
    /\ WF_vars(Assign)
    /\ WF_vars(\E o \in Log : PollMessage(o))
    /\ \A d \in Log \X Sessions : WF_vars(\E a \in Ackers : complete(a, d))
    /\ \A a \in Ackers : WF_vars(CommitMessages(a))

FairSpec == Spec /\ Fairness

-----------------------------------------------------------------------------
(* Safety.                                                                 *)

\* The committed position has passed no message whose outcome is not durable,
\* whatever the order of the handlers, rebalances and crashes: "never skip the
\* gap" in complete.  A violation loses a message for good.
NoCommitOverGap == Below(committed) \subseteq settled

\* No commit on its way to the broker would pass an unsettled message, so
\* NoCommitOverGap does not depend on which pending commit arrives last.
NoPendingCommitOverGap ==
    \A a \in Ackers : call[a] # NoCall => Below(call[a] + 1) \subseteq settled

\* Two goroutines never send the same watermark: the walk in complete removes
\* the run it commits, so each advance has one owner.
EachAdvanceHasOneSender ==
    \A a, b \in Ackers : a # b /\ call[a] # NoCall => call[a] # call[b]

\* complete dereferences parts[partition] without a check ("always present: Ack
\* registered it at fetch time"): a delivery in flight has its entry.
HandlersHaveAnEntry == inflight # {} => registered

\* The inductive invariant behind the four: the watermark itself never passes
\* an unsettled message, nor does the position the first message of a process
\* is fetched from.
WatermarkSettled == Below(next) \subseteq settled
CompletedSettled == completed \subseteq settled
FirstFetchSettled == ~registered => Below(fetchPos) \subseteq settled
NoCallBeforeFetch == ~registered => \A a \in Ackers : call[a] = NoCall
CallsBelowNext == \A a \in Ackers : call[a] < next \/ call[a] = NoCall

IInv ==
    /\ TypeOK
    /\ WatermarkSettled
    /\ CompletedSettled
    /\ FirstFetchSettled
    /\ HandlersHaveAnEntry
    /\ NoCallBeforeFetch
    /\ CallsBelowNext
    /\ EachAdvanceHasOneSender
    /\ NoPendingCommitOverGap
    /\ NoCommitOverGap

-----------------------------------------------------------------------------
(* What the struct comment of ack.go says and the code does not do.        *)

\* "OffsetCommitter only advances the committed position" (ack.go:20): the
\* broker's cursor would never move back.  Two goroutines that decide under the
\* mutex and send after it send in either order, and the lower watermark last.
CommittedNeverRegresses == [][committed' >= committed]_vars

\* "An un-acked offset is a gap that blocks every later commit on its partition
\* until it succeeds on redelivery" (ack.go:21): once this process owns the
\* partition for good, after the outage in which it gave deliveries up, and every
\* message is settled, the whole log would be committed.  An offset that another
\* member committed in between is never delivered here again, and the watermark
\* of the earlier assignment waits for it.
GapIsEventuallyClosed ==
    <>[](assigned /\ session \notin OutageSessions /\ settled = Log)
        => <>(committed >= LogEnd)

-----------------------------------------------------------------------------
(* The broker's view is the ledger of at-least-once delivery.              *)

Ledger == INSTANCE CommitLedger

\* Every behaviour of the committer, its reader and the group is a behaviour of
\* the ledger: no step of ack.go moves the cursor over an unsettled message.
LedgerSpec == Ledger!Spec

=============================================================================

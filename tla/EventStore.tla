----------------------------- MODULE EventStore -----------------------------
(***************************************************************************)
(* The event table of internal/sqllite/storer.go: StoreData and StoreBatch *)
(* with their accounting, under the retries of the ingestors of several    *)
(* topics that share one Repo, and ListEvents read page by page through    *)
(* its cursor.                                                             *)
(*                                                                         *)
(* The Repo has one connection.  A statement outside a transaction holds   *)
(* it for the statement alone, one action here; a transaction holds it     *)
(* from BeginTx to Commit or Rollback.                                     *)
(*                                                                         *)
(* An event is its id and the ingested_at that the transformer stamped on  *)
(* it: a message that is delivered again has the same id and a new stamp.  *)
(***************************************************************************)
EXTENDS Integers, Sequences, FiniteSets

CONSTANTS
    Writers,      \* the batchers of the topics
    Batches,      \* what a batcher may be asked to store
    ChunkSize,    \* maxEventsPerChunk
    MaxAttempts,  \* maxStoreAttempts
    MaxCalls,     \* bound: flushes in a behaviour
    MaxCrashes,   \* bound: deaths of the process in a behaviour
    Limits,       \* the limits a client asks for
    DefaultPageSize, MaxPageSize,
    ZeroTime,     \* where the text of time.Time{} sorts among the event ids
    NoConn        \* the value of conn when the connection is in the pool

\* Event ids are numbered in the order of their text, stamps in that of time.
Event == [id : Nat, at : Nat]

ASSUME StoreAssumption ==
    /\ Batches \subseteq Seq(Event) \ {<<>>}
    /\ ChunkSize \in Nat \ {0}
    /\ MaxAttempts \in Nat \ {0}
    /\ MaxCalls \in Nat /\ MaxCrashes \in Nat
    /\ Limits \subseteq Int
    /\ DefaultPageSize \in Nat \ {0} /\ MaxPageSize \in Nat \ {0}
    /\ ZeroTime \in Nat
    /\ NoConn \notin Writers

VARIABLES
    rows,     \* the events table
    acct,     \* the row of store_accounting
    counted,  \* history: the rows whose insert has been accounted for
    conn,     \* the writer whose transaction holds the connection, or NoConn
    pc,       \* where each writer is
    batch,    \* the events of its flush
    done,     \* how many of them are in committed chunks
    fresh,    \* the rows of its last insert, uncommitted in a transaction
    tries,    \* the attempts of its flush
    calls, crashes,
    cursor,   \* ingested_at in the client's next_cursor
    walk,     \* "none", "more" (has_more) or "end": the client's listing
    seen,     \* the rows the pages have shown
    repeated, \* those of them that an earlier page had shown
    start     \* the rows in the table when the first page was read

table == <<rows, acct, counted>>
writers == <<pc, batch, done, fresh, tries, calls>>
client == <<cursor, walk, seen, repeated, start>>
vars == <<table, conn, writers, crashes, client>>

Elements(s) == {s[i] : i \in DOMAIN s}
Ids(S) == {e.id : e \in S}

\* Mutated form: the table has no primary key.
Ignored_noKey(s, i) == \E j \in 1 .. i - 1 : s[j].id = s[i].id

\* INSERT OR IGNORE: of the events of one statement the first with an id that
\* the table does not have becomes a row.
Ignored(s, i) == s[i].id \in Ids(rows) \/ \E j \in 1 .. i - 1 : s[j].id = s[i].id
Inserted(s) == {s[i] : i \in {k \in DOMAIN s : ~Ignored(s, k)}}

\* Mutated form: the attempted rows are counted as inserted.
Account_countsAttempts(attempted, S) ==
    /\ acct' = [attempted |-> acct.attempted + attempted,
                inserted |-> acct.inserted + attempted,
                duplicates |-> acct.duplicates + (attempted - Cardinality(S))]
    /\ counted' = counted \cup S

\* UPDATE store_accounting: how many rows an insert attempted, how many
\* it inserted (RowsAffected) and how many it ignored.
Account(attempted, S) ==
    /\ acct' = [attempted |-> acct.attempted + attempted,
                inserted |-> acct.inserted + Cardinality(S),
                duplicates |-> acct.duplicates + (attempted - Cardinality(S))]
    /\ counted' = counted \cup S

\* The chunk StoreBatch inserts next.
Chunk(w) ==
    LET end == IF done[w] + ChunkSize > Len(batch[w]) THEN Len(batch[w])
                                                      ELSE done[w] + ChunkSize
    IN  SubSeq(batch[w], done[w] + 1, end)

Goto(w, l) == pc' = [pc EXCEPT ![w] = l]

\* StoreData or StoreBatch returns, and its locals are gone.
Return(w, l) ==
    /\ Goto(w, l)
    /\ done' = [done EXCEPT ![w] = 0]
    /\ fresh' = [fresh EXCEPT ![w] = {}]

\* The flush returns: the batcher empties its batch.
EndFlush(w) ==
    /\ Goto(w, "idle")
    /\ batch' = [batch EXCEPT ![w] = <<>>]
    /\ tries' = [tries EXCEPT ![w] = 0]

Free == conn = NoConn
Entry(b) == IF Len(b) = 1 THEN "insert" ELSE "begin"

Init ==
    /\ rows = {}
    /\ acct = [attempted |-> 0, inserted |-> 0, duplicates |-> 0]
    /\ counted = {}
    /\ conn = NoConn
    /\ pc = [w \in Writers |-> "idle"]
    /\ batch = [w \in Writers |-> <<>>]
    /\ done = [w \in Writers |-> 0]
    /\ fresh = [w \in Writers |-> {}]
    /\ tries = [w \in Writers |-> 0]
    /\ calls = 0 /\ crashes = 0
    /\ cursor = 0 /\ walk = "none"
    /\ seen = {} /\ repeated = {} /\ start = {}

-----------------------------------------------------------------------------
(* The batcher's calls: one event goes to StoreData, more to StoreBatch.   *)

Flush(w) ==
    /\ pc[w] = "idle" /\ calls < MaxCalls
    /\ \E b \in Batches :
          /\ batch' = [batch EXCEPT ![w] = b]
          /\ Goto(w, Entry(b))
    /\ tries' = [tries EXCEPT ![w] = 1]
    /\ calls' = calls + 1
    /\ UNCHANGED <<table, conn, done, fresh, crashes, client>>

\* Mutated form: the attempts are not counted against maxStoreAttempts.
Retry_unbounded(w) ==
    /\ pc[w] = "failed"
    /\ Goto(w, Entry(batch[w]))
    /\ tries' = [tries EXCEPT ![w] = @ + 1]
    /\ UNCHANGED <<table, conn, batch, done, fresh, calls, crashes, client>>

\* A transient error, and attempts are left: the whole batch once more.
Retry(w) ==
    /\ pc[w] = "failed" /\ tries[w] < MaxAttempts
    /\ Goto(w, Entry(batch[w]))
    /\ tries' = [tries EXCEPT ![w] = @ + 1]
    /\ UNCHANGED <<table, conn, batch, done, fresh, calls, crashes, client>>

\* A terminal error, the last attempt or a context that is done.
GiveUp(w) ==
    /\ pc[w] = "failed"
    /\ EndFlush(w)
    /\ UNCHANGED <<table, conn, done, fresh, calls, crashes, client>>

\* The call has returned nil: the batcher acks the batch and is free again.
Acked(w) ==
    /\ pc[w] = "stored"
    /\ EndFlush(w)
    /\ UNCHANGED <<table, conn, done, fresh, calls, crashes, client>>

\* The context of the call ends while it waits for the connection.
WaitCancelled(w) ==
    /\ pc[w] \in {"insert", "account", "begin"}
    /\ Return(w, "failed")
    /\ UNCHANGED <<table, conn, batch, tries, calls, crashes, client>>

-----------------------------------------------------------------------------
(* StoreData: two statements, and the connection is free between them.     *)

\* Mutated form: INSERT OR REPLACE.
InsertEvent_replaces(w) ==
    /\ pc[w] = "insert" /\ Free
    /\ rows' = {r \in rows : r.id \notin Ids(Elements(batch[w]))} \cup Elements(batch[w])
    /\ fresh' = [fresh EXCEPT ![w] = Inserted(batch[w])]
    /\ Goto(w, "account")
    /\ UNCHANGED <<acct, counted, conn, batch, done, tries, calls, crashes, client>>

InsertEvent(w) ==
    /\ pc[w] = "insert" /\ Free
    /\ rows' = rows \cup Inserted(batch[w])
    /\ fresh' = [fresh EXCEPT ![w] = Inserted(batch[w])]
    /\ Goto(w, "account")
    /\ UNCHANGED <<acct, counted, conn, batch, done, tries, calls, crashes, client>>

\* The statement fails, or it is done and its answer does not arrive.
InsertEventFails(w) ==
    /\ pc[w] = "insert" /\ Free
    /\ rows' \in {rows, rows \cup Inserted(batch[w])}
    /\ Return(w, "failed")
    /\ UNCHANGED <<acct, counted, conn, batch, tries, calls, crashes, client>>

recordStoreAccounting(w) ==
    /\ pc[w] = "account" /\ Free
    /\ Account(1, fresh[w])
    /\ Return(w, "stored")
    /\ UNCHANGED <<rows, conn, batch, tries, calls, crashes, client>>

recordStoreAccountingFails(w) ==
    /\ pc[w] = "account" /\ Free
    /\ Account(1, fresh[w]) \/ UNCHANGED <<acct, counted>>
    /\ Return(w, "failed")
    /\ UNCHANGED <<rows, conn, batch, tries, calls, crashes, client>>

-----------------------------------------------------------------------------
(* StoreBatch: insertChunk for one chunk after the other, each in a        *)
(* transaction of its own with its accounting.                             *)

BeginTx(w) ==
    /\ pc[w] = "begin" /\ Free
    /\ conn' = w
    /\ Goto(w, "insertChunk")
    /\ UNCHANGED <<table, batch, done, fresh, tries, calls, crashes, client>>

insertChunk(w) ==
    /\ pc[w] = "insertChunk"
    /\ fresh' = [fresh EXCEPT ![w] = Inserted(Chunk(w))]
    /\ Goto(w, "accountTx")
    /\ UNCHANGED <<table, conn, batch, done, tries, calls, crashes, client>>

\* The update is part of the transaction: Commit makes it visible.
recordStoreAccountingTx(w) ==
    /\ pc[w] = "accountTx"
    /\ Goto(w, "commit")
    /\ UNCHANGED <<table, conn, batch, done, fresh, tries, calls, crashes, client>>

\* What a commit writes, and the connection back in the pool.
Committed(w) ==
    /\ rows' = rows \cup fresh[w]
    /\ Account(Len(Chunk(w)), fresh[w])
    /\ conn' = NoConn

\* Mutated form: the loop ends before a last chunk that is not full.
Commit_dropsLastChunk(w) ==
    /\ pc[w] = "commit"
    /\ Committed(w)
    /\ LET next == done[w] + Len(Chunk(w))
       IN  IF next + ChunkSize <= Len(batch[w])
           THEN /\ done' = [done EXCEPT ![w] = next]
                /\ fresh' = [fresh EXCEPT ![w] = {}]
                /\ Goto(w, "begin")
           ELSE Return(w, "stored")
    /\ UNCHANGED <<batch, tries, calls, crashes, client>>

Commit(w) ==
    /\ pc[w] = "commit"
    /\ Committed(w)
    /\ LET next == done[w] + Len(Chunk(w))
       IN  IF next < Len(batch[w])
           THEN /\ done' = [done EXCEPT ![w] = next]
                /\ fresh' = [fresh EXCEPT ![w] = {}]
                /\ Goto(w, "begin")
           ELSE Return(w, "stored")
    /\ UNCHANGED <<batch, tries, calls, crashes, client>>

\* Commit has been carried out and its answer does not arrive.
CommitAnswerLost(w) ==
    /\ pc[w] = "commit"
    /\ Committed(w)
    /\ Return(w, "failed")
    /\ UNCHANGED <<batch, tries, calls, crashes, client>>

BeginTxFails(w) ==
    /\ pc[w] = "begin" /\ Free
    /\ Return(w, "failed")
    /\ UNCHANGED <<table, conn, batch, tries, calls, crashes, client>>

\* Mutated form: the transaction is not rolled back on an error.
Rollback_keepsConn(w) ==
    /\ pc[w] \in {"insertChunk", "accountTx", "commit"}
    /\ Return(w, "failed")
    /\ UNCHANGED <<table, conn, batch, tries, calls, crashes, client>>

\* Any statement of the transaction fails: the deferred Rollback.
Rollback(w) ==
    /\ pc[w] \in {"insertChunk", "accountTx", "commit"}
    /\ conn' = NoConn
    /\ Return(w, "failed")
    /\ UNCHANGED <<table, batch, tries, calls, crashes, client>>

-----------------------------------------------------------------------------
(* The process dies: an open transaction is gone, the file and the cursor  *)
(* in the client's hands are not.                                          *)

Crash ==
    /\ crashes < MaxCrashes
    /\ crashes' = crashes + 1
    /\ conn' = NoConn
    /\ pc' = [w \in Writers |-> "idle"]
    /\ batch' = [w \in Writers |-> <<>>]
    /\ done' = [w \in Writers |-> 0]
    /\ fresh' = [w \in Writers |-> {}]
    /\ tries' = [w \in Writers |-> 0]
    /\ UNCHANGED <<table, calls, client>>

-----------------------------------------------------------------------------
(* ListEvents.                                                             *)

clamp(v) ==
    IF v <= 0 THEN DefaultPageSize ELSE IF v > MaxPageSize THEN MaxPageSize ELSE v

\* ORDER BY ingested_at DESC, event_id DESC: q comes before r.
Newer(q, r) == q.at > r.at \/ (q.at = r.at /\ q.id > r.id)

\* LIMIT n.
Top(S, n) == {r \in S : Cardinality({q \in S : Newer(q, r)}) < n}

\* WHERE (ingested_at, event_id) < (?, ?).  ListEvents fills in the cursor's
\* ingested_at only: event_id is compared with the text of the zero time.
AfterCursor(r) == r.at < cursor \/ (r.at = cursor /\ r.id < ZeroTime)

\* Mutated form: the cursor is taken from the extra row.
ShowPage_extraRow(S, n) ==
    LET page == Top(S, n)
        more == Cardinality(S) > n
    IN  /\ seen' = seen \cup page
        /\ repeated' = repeated \cup {r \in page : r.id \in Ids(seen)}
        /\ walk' = IF more THEN "more" ELSE "end"
        /\ IF more
           THEN \E last \in Top(S, n + 1) :
                   /\ \A r \in Top(S, n + 1) : r = last \/ Newer(r, last)
                   /\ cursor' = last.at
           ELSE cursor' = 0

\* A page of the rows of S, and the cursor to its last row when there are more
\* (the query fetches one row over the limit to see it).
ShowPage(S, n) ==
    LET page == Top(S, n)
        more == Cardinality(S) > n
    IN  /\ seen' = seen \cup page
        /\ repeated' = repeated \cup {r \in page : r.id \in Ids(seen)}
        /\ walk' = IF more THEN "more" ELSE "end"
        /\ IF more
           THEN \E last \in page :
                   /\ \A r \in page : r = last \/ Newer(r, last)
                   /\ cursor' = last.at
           ELSE cursor' = 0

ListFirstPage ==
    /\ walk = "none" /\ Free
    /\ start' = rows
    /\ \E v \in Limits : ShowPage(rows, clamp(v))
    /\ UNCHANGED <<table, conn, writers, crashes>>

ListAfterCursor ==
    /\ walk = "more" /\ Free
    /\ \E v \in Limits : ShowPage({r \in rows : AfterCursor(r)}, clamp(v))
    /\ UNCHANGED <<table, conn, writers, crashes, start>>

-----------------------------------------------------------------------------
StoreCall(w) ==
    \/ InsertEvent(w) \/ InsertEventFails(w)
    \/ recordStoreAccounting(w) \/ recordStoreAccountingFails(w)
    \/ BeginTx(w) \/ BeginTxFails(w) \/ insertChunk(w) \/ recordStoreAccountingTx(w)
    \/ Commit(w) \/ CommitAnswerLost(w) \/ Rollback(w)

Write(w) ==
    \/ Flush(w) \/ Retry(w) \/ GiveUp(w) \/ Acked(w)
    \/ StoreCall(w) \/ WaitCancelled(w)

Next == (\E w \in Writers : Write(w)) \/ Crash \/ ListFirstPage \/ ListAfterCursor

Spec == Init /\ [][Next]_vars

\* The drivers return from every statement and the batcher goes on after it;
\* the client fetches the next page while there is one.  Nothing makes a context
\* end: a call that waits for the connection may wait for ever.
FairSpec ==
    /\ Spec
    /\ \A w \in Writers : WF_vars(Retry(w) \/ GiveUp(w) \/ Acked(w) \/ StoreCall(w))
    /\ WF_vars(ListAfterCursor)

-----------------------------------------------------------------------------
(* Invariants.                                                             *)

InTx == {"insertChunk", "accountTx", "commit"}
PcValues == {"idle", "insert", "account", "begin", "failed", "stored"} \cup InTx

TypeOK ==
    /\ rows \subseteq Event /\ counted \subseteq Event
    /\ acct \in [attempted : Nat, inserted : Nat, duplicates : Nat]
    /\ conn \in Writers \cup {NoConn}
    /\ pc \in [Writers -> PcValues]
    /\ batch \in [Writers -> Batches \cup {<<>>}]
    /\ done \in [Writers -> Nat]
    /\ fresh \in [Writers -> SUBSET Event]
    /\ tries \in [Writers -> 0 .. MaxAttempts]
    /\ calls \in Nat /\ crashes \in Nat
    /\ cursor \in Nat /\ walk \in {"none", "more", "end"}
    /\ seen \subseteq Event /\ repeated \subseteq Event /\ start \subseteq Event

\* StoreData and StoreBatch return nil only when every event of the call is in
\* the table, those of earlier chunks and of earlier attempts included: what the
\* batcher acks rests on it.
StoredMeansInTable ==
    \A w \in Writers : pc[w] = "stored" => Ids(Elements(batch[w])) \subseteq Ids(rows)

\* store_accounting never claims more rows than the table has, whatever call
\* fails between an insert and its accounting and however often it is repeated.
AccountingNeverOverclaims == acct.inserted <= Cardinality(rows)

\* The test of ListEvents: "no duplicates across pages".  A listing shows no
\* event twice, while events are stored, redelivered with new stamps or lost.
NoDuplicatesAcrossPages == repeated = {}

\* The same test: "all events reachable through pagination".  A listing that has
\* come to its end has shown every event of the table it started on.
AllEventsReachable == walk = "end" => start \subseteq seen

\* What makes the two true: no id begins like the zero time does, and no two
\* events have the same stamp.  Each is needed for its property only.
NoLowIds == \A b \in Batches : \A e \in Elements(b) : e.id >= ZeroTime
StampsDiffer ==
    \A b, c \in Batches : \A e \in Elements(b), f \in Elements(c) : e.at = f.at => e.id = f.id

-----------------------------------------------------------------------------
(* The inductive invariant.                                                *)

\* event_id is the primary key.
KeyIn(S) == \A q, r \in S : q.id = r.id => q = r

\* While a writer is in a transaction, the transaction has the connection.
TxHoldsConn == \A w \in Writers : pc[w] \in InTx => conn = w

\* One event is in StoreData; in StoreBatch there is an event left to insert, and
\* those of the committed chunks are in the table.
CallFitsBatch(w) ==
    /\ pc[w] \in {"insert", "account"} => batch[w] \in Batches /\ Len(batch[w]) = 1
    /\ pc[w] \in {"begin"} \cup InTx =>
          /\ batch[w] \in Batches /\ done[w] < Len(batch[w])
          /\ \A i \in 1 .. done[w] : batch[w][i].id \in Ids(rows)
    /\ pc[w] = "failed" => batch[w] \in Batches
    /\ pc[w] \notin {"begin"} \cup InTx => done[w] = 0

\* Between an insert and its accounting: what the insert covered, and that no
\* other call accounts for its rows.
InsertCovers(w, s) ==
    /\ IsFiniteSet(fresh[w]) /\ Cardinality(fresh[w]) <= Len(s)
    /\ Ids(Elements(s)) \subseteq Ids(rows \cup fresh[w])
    /\ fresh[w] \cap counted = {}

PendingInsert(w) ==
    /\ pc[w] = "account" => InsertCovers(w, batch[w]) /\ fresh[w] \subseteq rows
    /\ pc[w] \in {"accountTx", "commit"} =>
          /\ InsertCovers(w, Chunk(w))
          /\ KeyIn(fresh[w]) /\ Ids(fresh[w]) \cap Ids(rows) = {}

OneAccountPerRow ==
    \A v, w \in Writers :
       v # w /\ pc[v] = "account" /\ pc[w] = "account" => fresh[v] \cap fresh[w] = {}

CountedRows ==
    /\ counted \subseteq rows
    /\ acct.inserted = Cardinality(counted)

TableInv ==
    /\ TypeOK
    /\ IsFiniteSet(rows) /\ KeyIn(rows)
    /\ TxHoldsConn
    /\ \A w \in Writers : CallFitsBatch(w) /\ PendingInsert(w)
    /\ OneAccountPerRow
    /\ CountedRows
    /\ StoredMeansInTable

\* Every row is an event of some flush.
AllEvents == UNION {Elements(b) : b \in Batches}
Provenance ==
    /\ rows \subseteq AllEvents
    /\ \A w \in Writers : fresh[w] \subseteq AllEvents

\* The listing: what was shown is not before the cursor, and what was in the
\* table at the start was shown or is behind it.
ListingInv ==
    /\ seen \subseteq rows /\ start \subseteq rows
    /\ walk = "none" => seen = {}

ShownBeforeCursor == walk = "more" => \A r \in seen : r.at >= cursor
StartShownOrBehind == walk = "more" => \A r \in start : r \in seen \/ r.at < cursor

-----------------------------------------------------------------------------
(* Action and liveness properties.                                         *)

\* A row is never replaced or removed: a redelivered event keeps the stamp it
\* was first stored with, so it keeps its place in every listing.
RowsAreFinal == [][rows \subseteq rows']_vars

\* A flush returns, whatever fails: every transaction gives the one connection
\* back, on its error paths too, and no other writer waits for it for ever.
EveryCallReturns == \A w \in Writers : pc[w] \notin {"idle"} ~> pc[w] = "idle"

=============================================================================

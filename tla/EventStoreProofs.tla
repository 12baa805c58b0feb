--------------------------- MODULE EventStoreProofs ---------------------------
(***************************************************************************)
(* Proofs about EventStore, for any number of writers, any batches, chunk  *)
(* and page sizes, limits, crashes and failures.                           *)
(***************************************************************************)
EXTENDS EventStore, TLAPS, FiniteSetTheorems, FunctionTheorems,
        SequenceTheorems, WellFoundedInduction

-----------------------------------------------------------------------------
(* Lemmas about one insert and one chunk.                                  *)

\* A set of naturals that is not empty has a least element.
LEMMA LeastNatural ==
    ASSUME NEW S \in SUBSET Nat, S # {}
    PROVE  \E m \in S : \A k \in S : m <= k
<1> DEFINE R == {ss \in Nat \X Nat : ss[1] < ss[2]}
<1>1. IsWellFoundedOn(R, Nat)
  BY NatLessThanWellFounded DEF OpToRel
<1>2. \A x, y \in Nat : <<x, y>> \in R <=> x < y
  OBVIOUS
<1> HIDE DEF R
<1>3. PICK m \in S : \A k \in S : <<k, m>> \notin R
  BY <1>1, WFMin
<1>4. ASSUME NEW k \in S
      PROVE  m <= k
  <2>1. k \in Nat /\ m \in Nat
    OBVIOUS
  <2>2. ~(k < m)
    BY <2>1, <1>2, <1>3
  <2> QED  BY <2>1, <2>2
<1> QED  BY <1>4

\* A statement with INSERT OR IGNORE leaves every event it is given in the table,
\* once, next to what was there.
LEMMA InsertLemma ==
    ASSUME NEW s \in Seq(Event)
    PROVE  /\ Inserted(s) \subseteq Elements(s)
           /\ IsFiniteSet(Inserted(s)) /\ Cardinality(Inserted(s)) <= Len(s)
           /\ Cardinality(Inserted(s)) \in Nat
           /\ KeyIn(Inserted(s))
           /\ Ids(Inserted(s)) \cap Ids(rows) = {}
           /\ Ids(Elements(s)) \subseteq Ids(rows \cup Inserted(s))
<1> DEFINE D == {k \in DOMAIN s : ~Ignored(s, k)}
<1>1. DOMAIN s = 1 .. Len(s) /\ Len(s) \in Nat
  OBVIOUS
<1>2. Inserted(s) = {s[i] : i \in D}
  BY DEF Inserted
<1>3. Inserted(s) \subseteq Elements(s)
  BY <1>2 DEF Elements
<1>4. IsFiniteSet(D) /\ Cardinality(D) <= Len(s)
  <2>1. IsFiniteSet(1 .. Len(s)) /\ Cardinality(1 .. Len(s)) = Len(s)
    BY <1>1, FS_Interval
  <2>2. D \in SUBSET (1 .. Len(s))
    BY <1>1
  <2> HIDE DEF D
  <2> QED  BY <2>1, <2>2, FS_Subset
<1>5. /\ IsFiniteSet(Inserted(s)) /\ Cardinality(Inserted(s)) <= Len(s)
      /\ Cardinality(Inserted(s)) \in Nat
  <2> DEFINE f == [i \in D |-> s[i]]
  <2>1. f \in Surjection(D, Inserted(s))
    BY <1>2 DEF Surjection
  <2>2. IsFiniteSet(Inserted(s)) /\ Cardinality(Inserted(s)) <= Cardinality(D)
    <3> HIDE DEF f, D
    <3> QED  BY <2>1, <1>4, FS_Surjection
  <2>3. Cardinality(Inserted(s)) \in Nat /\ Cardinality(D) \in Nat
    BY <2>2, <1>4, FS_CardinalityType
  <2> QED  BY <2>2, <2>3, <1>4, <1>1
<1>6. KeyIn(Inserted(s))
  <2> SUFFICES ASSUME NEW i \in D, NEW j \in D, s[i].id = s[j].id
               PROVE  i = j
    BY <1>2 DEF KeyIn
  <2>1. ~(j \in 1 .. i - 1) /\ ~(i \in 1 .. j - 1)
    BY DEF Ignored
  <2> QED  BY <2>1, <1>1
<1>7. Ids(Inserted(s)) \cap Ids(rows) = {}
  BY <1>2 DEF Ids, Ignored
<1>8. ASSUME NEW i \in DOMAIN s, s[i].id \notin Ids(rows)
      PROVE  \E e \in Inserted(s) : e.id = s[i].id
  <2> DEFINE Same == {j \in DOMAIN s : s[j].id = s[i].id}
  <2>1. i \in Same /\ Same \in SUBSET Nat /\ Same # {}
    BY <1>1
  <2>2. PICK m \in Same : \A k \in Same : m <= k
    <3> HIDE DEF Same
    <3> QED  BY <2>1, LeastNatural
  <2>3. m \in DOMAIN s /\ s[m].id = s[i].id
    OBVIOUS
  <2>4. ~Ignored(s, m)
    <3> SUFFICES ASSUME NEW j \in 1 .. m - 1, s[j].id = s[m].id
                 PROVE  FALSE
      BY <2>3, <1>8 DEF Ignored
    <3>1. j \in Same
      BY <1>1, <2>3
    <3> QED  BY <3>1, <2>2, <1>1
  <2>5. s[m] \in Inserted(s)
    BY <1>2, <2>3, <2>4
  <2> QED  BY <2>3, <2>5
<1>9. Ids(Elements(s)) \subseteq Ids(rows \cup Inserted(s))
  BY <1>8 DEF Ids, Elements
<1> QED  BY <1>3, <1>5, <1>6, <1>7, <1>9

\* The chunk is the next ChunkSize events of the batch, or the rest of it.
LEMMA ChunkLemma ==
    ASSUME StoreAssumption, NEW w, batch[w] \in Batches, done[w] \in Nat,
           done[w] < Len(batch[w])
    PROVE  /\ batch[w] \in Seq(Event)
           /\ Chunk(w) \in Seq(Event)
           /\ Len(Chunk(w)) \in Nat \ {0}
           /\ done[w] + Len(Chunk(w)) <= Len(batch[w])
           /\ \A i \in 1 .. Len(Chunk(w)) : Chunk(w)[i] = batch[w][done[w] + i]
           /\ Elements(Chunk(w)) \subseteq Elements(batch[w])
<1> DEFINE b == batch[w]
           d == done[w]
           end == IF d + ChunkSize > Len(b) THEN Len(b) ELSE d + ChunkSize
<1>1. b \in Seq(Event) /\ ChunkSize \in Nat \ {0} /\ d \in Nat /\ d < Len(b)
  BY DEF StoreAssumption
<1>2. Len(b) \in Nat /\ DOMAIN b = 1 .. Len(b)
  BY <1>1
<1>3. end \in Nat /\ d < end /\ end <= Len(b)
  BY <1>1, <1>2
<1>4. Chunk(w) = SubSeq(b, d + 1, end)
  BY DEF Chunk
<1> HIDE DEF b, d, end
<1>5. /\ Chunk(w) \in Seq(Event)
      /\ Len(Chunk(w)) = end - d
      /\ \A i \in 1 .. end - d : Chunk(w)[i] = b[d + i]
  BY <1>1, <1>2, <1>3, <1>4, SubSeqProperties
<1>6. Elements(Chunk(w)) \subseteq Elements(b)
  <2> SUFFICES ASSUME NEW i \in DOMAIN Chunk(w)
               PROVE  Chunk(w)[i] \in Elements(b)
    BY DEF Elements
  <2>1. i \in 1 .. end - d
    BY <1>5, <1>3, <1>1
  <2>2. d + i \in DOMAIN b
    BY <2>1, <1>1, <1>2, <1>3
  <2> QED  BY <2>1, <2>2, <1>5 DEF Elements
<1> QED  BY <1>1, <1>3, <1>5, <1>6 DEF b, d

-----------------------------------------------------------------------------
(* The table and its accounting.                                           *)

LEMMA InitTable == StoreAssumption /\ Init => TableInv
<1> SUFFICES ASSUME StoreAssumption, Init PROVE TableInv
  OBVIOUS
<1> USE DEF Init
<1>1. TypeOK
  BY DEF TypeOK, Event, PcValues, StoreAssumption
<1>2. IsFiniteSet(rows) /\ KeyIn(rows) /\ CountedRows
  BY FS_EmptySet DEF KeyIn, CountedRows
<1>3. \A w \in Writers : CallFitsBatch(w) /\ PendingInsert(w)
  BY DEF CallFitsBatch, PendingInsert, InTx
<1>4. TxHoldsConn /\ OneAccountPerRow /\ StoredMeansInTable
  BY DEF TxHoldsConn, InTx, OneAccountPerRow, StoredMeansInTable
<1> QED  BY <1>1, <1>2, <1>3, <1>4 DEF TableInv

\* A step of another writer disturbs nothing that a writer knows, as long as it
\* does not account for its rows and a transaction has the table for itself.
LEMMA OthersKeep ==
    ASSUME NEW v \in Writers, CallFitsBatch(v), PendingInsert(v),
           pc'[v] = pc[v], batch'[v] = batch[v], done'[v] = done[v], fresh'[v] = fresh[v],
           rows \subseteq rows',
           pc[v] \in {"account", "accountTx", "commit"} => fresh[v] \cap counted' = {},
           pc[v] \in InTx => rows' = rows
    PROVE  CallFitsBatch(v)' /\ PendingInsert(v)'
<1>1. Ids(rows) \subseteq Ids(rows') /\ Ids(rows \cup fresh[v]) \subseteq Ids(rows' \cup fresh'[v])
  BY DEF Ids
<1>2. CallFitsBatch(v)'
  BY <1>1 DEF CallFitsBatch
<1>3. Chunk(v)' = Chunk(v)
  BY DEF Chunk
<1>4. PendingInsert(v)'
  BY <1>1, <1>3 DEF PendingInsert, InsertCovers, InTx, KeyIn, Ids
<1> QED  BY <1>2, <1>4

\* A step that leaves the table alone keeps the invariant if it keeps what its own
\* writer knows.
LEMMA LocalStep ==
    ASSUME NEW w \in Writers, TableInv, TypeOK', UNCHANGED table,
           \A v \in Writers \ {w} : /\ pc'[v] = pc[v] /\ batch'[v] = batch[v]
                                     /\ done'[v] = done[v] /\ fresh'[v] = fresh[v],
           TxHoldsConn', CallFitsBatch(w)', PendingInsert(w)',
           pc'[w] \notin {"account", "stored"}
    PROVE  TableInv'
<1>1. ASSUME NEW v \in Writers
      PROVE  CallFitsBatch(v)' /\ PendingInsert(v)'
  <2>1. CASE v = w
    BY <2>1
  <2>2. CASE v # w
    <3>1. v \in Writers \ {w}
      BY <2>2
    <3>2. CallFitsBatch(v) /\ PendingInsert(v) /\ counted' = counted /\ rows' = rows
      BY DEF TableInv, table
    <3>3. pc[v] \in {"account", "accountTx", "commit"} => fresh[v] \cap counted' = {}
      BY <3>2 DEF PendingInsert, InsertCovers
    <3> QED  BY <3>1, <3>2, <3>3, OthersKeep
  <2> QED  BY <2>1, <2>2
<1>2. IsFiniteSet(rows)' /\ KeyIn(rows)' /\ CountedRows'
  BY DEF TableInv, table, KeyIn, CountedRows
<1>3. OneAccountPerRow'
  BY DEF TableInv, OneAccountPerRow
<1>4. StoredMeansInTable'
  <2> SUFFICES ASSUME NEW v \in Writers, pc'[v] = "stored"
               PROVE  Ids(Elements(batch'[v])) \subseteq Ids(rows')
    BY DEF StoredMeansInTable
  <2>1. v # w /\ pc[v] = "stored" /\ batch'[v] = batch[v] /\ rows' = rows
    BY DEF table
  <2> QED  BY <2>1 DEF TableInv, StoredMeansInTable
<1> QED  BY <1>1, <1>2, <1>3, <1>4 DEF TableInv

\* The batcher's steps and the failures that write nothing.
LEMMA StepsOutsideTable ==
    ASSUME StoreAssumption, TableInv, NEW w \in Writers,
           \/ Flush(w) \/ Retry(w) \/ GiveUp(w) \/ Acked(w)
           \/ BeginTx(w) \/ BeginTxFails(w) \/ recordStoreAccountingTx(w) \/ Rollback(w)
           \/ WaitCancelled(w)
    PROVE  TableInv'
<1> USE DEF table, client, Goto, Return, EndFlush, Free, InTx
<1>0. /\ TypeOK /\ TxHoldsConn /\ CallFitsBatch(w) /\ PendingInsert(w)
      /\ pc[w] \in PcValues /\ batch[w] \in Batches \cup {<<>>} /\ done[w] \in Nat
  BY DEF TableInv, TypeOK
<1>1. \A b \in Batches : b \in Seq(Event) /\ Len(b) \in Nat /\ Len(b) > 0
  BY DEF StoreAssumption
<1>2. CASE Flush(w)
  <2> USE <1>2 DEF Flush
  <2>1. PICK b \in Batches : batch' = [batch EXCEPT ![w] = b] /\ pc' = [pc EXCEPT ![w] = Entry(b)]
    OBVIOUS
  <2>2. TypeOK'
    BY <2>1, <1>0 DEF TypeOK, PcValues, Entry, StoreAssumption
  <2>3. pc'[w] = Entry(b) /\ batch'[w] = b /\ done'[w] = 0
    BY <2>1, <1>0 DEF TypeOK, CallFitsBatch
  <2>4. CallFitsBatch(w)' /\ PendingInsert(w)'
    BY <2>3, <1>1 DEF CallFitsBatch, PendingInsert, Entry
  <2>5. TxHoldsConn'
    BY <2>1, <1>0 DEF TypeOK, TxHoldsConn, Entry
  <2> QED  BY <2>1, <2>2, <2>3, <2>4, <2>5, <1>0, LocalStep DEF TypeOK, Entry
<1>3. CASE Retry(w)
  <2> USE <1>3 DEF Retry
  <2>1. TypeOK'
    BY <1>0 DEF TypeOK, PcValues, Entry, StoreAssumption
  <2>2. pc'[w] = Entry(batch[w]) /\ batch' = batch /\ done'[w] = 0 /\ batch[w] \in Batches
    BY <1>0 DEF TypeOK, CallFitsBatch
  <2>3. CallFitsBatch(w)' /\ PendingInsert(w)'
    BY <2>2, <1>1 DEF CallFitsBatch, PendingInsert, Entry
  <2>4. TxHoldsConn'
    BY <1>0 DEF TypeOK, TxHoldsConn, Entry
  <2> QED  BY <2>1, <2>2, <2>3, <2>4, <1>0, LocalStep DEF TypeOK, Entry
<1>4. CASE GiveUp(w) \/ Acked(w)
  <2>0. /\ pc[w] \in {"failed", "stored"} /\ EndFlush(w)
        /\ UNCHANGED <<table, conn, done, fresh, calls, crashes, client>>
    BY <1>4 DEF GiveUp, Acked
  <2> USE <2>0
  <2>1. TypeOK'
    BY <1>0 DEF TypeOK, PcValues, StoreAssumption
  <2>2. pc'[w] = "idle" /\ done'[w] = 0
    BY <1>0 DEF TypeOK, CallFitsBatch
  <2>3. CallFitsBatch(w)' /\ PendingInsert(w)'
    BY <2>2 DEF CallFitsBatch, PendingInsert
  <2>4. TxHoldsConn'
    BY <1>0 DEF TypeOK, TxHoldsConn
  <2> QED  BY <2>1, <2>2, <2>3, <2>4, <1>0, LocalStep DEF TypeOK
<1>5. CASE BeginTx(w)
  <2> USE <1>5 DEF BeginTx
  <2>1. TypeOK'
    BY <1>0 DEF TypeOK, PcValues
  <2>2. pc'[w] = "insertChunk" /\ batch' = batch /\ done' = done /\ rows' = rows
    BY <1>0 DEF TypeOK
  <2>3. CallFitsBatch(w)' /\ PendingInsert(w)'
    BY <2>2, <1>0 DEF CallFitsBatch, PendingInsert
  <2>4. TxHoldsConn'
    BY <1>0 DEF TypeOK, TxHoldsConn, StoreAssumption
  <2> QED  BY <2>1, <2>2, <2>3, <2>4, <1>0, LocalStep DEF TypeOK
<1>6. CASE BeginTxFails(w) \/ Rollback(w) \/ WaitCancelled(w)
  <2>0. /\ pc[w] \in {"insert", "account", "begin"} \cup InTx /\ Return(w, "failed")
        /\ \/ pc[w] \notin InTx /\ conn' = conn
           \/ pc[w] \in InTx /\ conn' = NoConn
        /\ UNCHANGED <<table, batch, tries, calls, crashes, client>>
    BY <1>6 DEF BeginTxFails, Rollback, WaitCancelled
  <2> USE <2>0
  <2>1. TypeOK'
    BY <1>0 DEF TypeOK, PcValues
  <2>2. pc'[w] = "failed" /\ batch' = batch /\ done'[w] = 0 /\ batch[w] \in Batches
    BY <1>0 DEF TypeOK, CallFitsBatch
  <2>3. CallFitsBatch(w)' /\ PendingInsert(w)'
    BY <2>2 DEF CallFitsBatch, PendingInsert
  <2>4. TxHoldsConn'
    BY <1>0 DEF TypeOK, TxHoldsConn, StoreAssumption
  <2> QED  BY <2>1, <2>2, <2>3, <2>4, <1>0, LocalStep DEF TypeOK
<1>7. CASE recordStoreAccountingTx(w)
  <2> USE <1>7 DEF recordStoreAccountingTx
  <2>1. TypeOK'
    BY <1>0 DEF TypeOK, PcValues
  <2>2. /\ pc'[w] = "commit" /\ batch' = batch /\ done' = done /\ rows' = rows
        /\ fresh' = fresh /\ counted' = counted
    BY <1>0 DEF TypeOK
  <2>3. CallFitsBatch(w)'
    BY <2>2, <1>0 DEF CallFitsBatch
  <2>4. Chunk(w)' = Chunk(w)
    BY <2>2 DEF Chunk
  <2>5. PendingInsert(w)'
    BY <2>2, <2>4, <1>0 DEF PendingInsert, InsertCovers, KeyIn, Ids
  <2>6. TxHoldsConn'
    BY <1>0 DEF TypeOK, TxHoldsConn
  <2> QED  BY <2>1, <2>2, <2>3, <2>5, <2>6, <1>0, LocalStep DEF TypeOK
<1> QED  BY <1>2, <1>3, <1>4, <1>5, <1>6, <1>7

\* Events with different ids are different events.
LEMMA DisjointIds ==
    ASSUME NEW S, NEW T, Ids(S) \cap Ids(T) = {}
    PROVE  S \cap T = {}
BY DEF Ids

\* New rows with new ids keep the primary key.
LEMMA GrowRows ==
    ASSUME TableInv, NEW S, IsFiniteSet(S), KeyIn(S), Ids(S) \cap Ids(rows) = {},
           rows' = rows \cup S
    PROVE  /\ IsFiniteSet(rows') /\ KeyIn(rows)' /\ S \cap rows = {}
           /\ Ids(rows) \subseteq Ids(rows')
<1>1. IsFiniteSet(rows')
  BY FS_Union DEF TableInv
<1>2. KeyIn(rows)'
  BY DEF TableInv, KeyIn, Ids
<1> QED  BY <1>1, <1>2 DEF Ids

\* Accounting for rows that were not counted yet.
LEMMA CountMore ==
    ASSUME TableInv, NEW S, IsFiniteSet(S), S \cap counted = {}, S \subseteq rows',
           rows \subseteq rows', NEW n \in Nat, Cardinality(S) <= n, Account(n, S)
    PROVE  /\ CountedRows'
           /\ acct' \in [attempted : Nat, inserted : Nat, duplicates : Nat]
<1>1. IsFiniteSet(counted)
  BY FS_Subset DEF TableInv, CountedRows
<1>2. Cardinality(S) \in Nat /\ Cardinality(counted) \in Nat
  BY <1>1, FS_CardinalityType
<1>3. Cardinality(counted \cup S) = Cardinality(counted) + Cardinality(S)
  <2>1. Cardinality(counted \cup S) =
           Cardinality(counted) + Cardinality(S) - Cardinality(counted \cap S)
    BY <1>1, FS_Union
  <2>2. counted \cap S = {}
    OBVIOUS
  <2>3. Cardinality(counted \cap S) = 0
    BY <2>2, FS_EmptySet
  <2> QED  BY <1>2, <2>1, <2>3
<1>4. acct'.inserted = acct.inserted + Cardinality(S) /\ counted' = counted \cup S
  BY DEF Account
<1>5. CountedRows'
  BY <1>3, <1>4 DEF TableInv, CountedRows
<1>6. acct' \in [attempted : Nat, inserted : Nat, duplicates : Nat]
  BY <1>2 DEF TableInv, TypeOK, Account
<1> QED  BY <1>5, <1>6

\* insertChunk writes inside its transaction only.
LEMMA InsertChunkStep ==
    ASSUME StoreAssumption, TableInv, NEW w \in Writers, insertChunk(w)
    PROVE  TableInv'
<1> USE DEF insertChunk, table, client, Goto, InTx
<1>0. /\ TypeOK /\ TxHoldsConn /\ CallFitsBatch(w)
      /\ batch[w] \in Batches /\ done[w] \in Nat /\ done[w] < Len(batch[w])
  BY DEF TableInv, TypeOK, CallFitsBatch
<1>1. Chunk(w) \in Seq(Event)
  BY <1>0, ChunkLemma
<1> DEFINE S == Inserted(Chunk(w))
<1>2. /\ S \subseteq Elements(Chunk(w)) /\ IsFiniteSet(S) /\ Cardinality(S) <= Len(Chunk(w))
      /\ KeyIn(S) /\ Ids(S) \cap Ids(rows) = {}
      /\ Ids(Elements(Chunk(w))) \subseteq Ids(rows \cup S)
  BY <1>1, InsertLemma
<1>3. S \subseteq Event
  BY <1>1, <1>2 DEF Elements
<1> HIDE DEF S
<1>4. fresh' = [fresh EXCEPT ![w] = S] /\ Chunk(w)' = Chunk(w)
  BY DEF S, Chunk
<1>5. TypeOK'
  BY <1>0, <1>3, <1>4 DEF TypeOK, PcValues
<1>6. /\ fresh'[w] = S /\ pc'[w] = "accountTx" /\ batch' = batch /\ done' = done
      /\ rows' = rows /\ counted' = counted
  BY <1>0, <1>4 DEF TypeOK
<1>7. CallFitsBatch(w)'
  BY <1>0, <1>6 DEF CallFitsBatch
<1>8. S \cap counted = {}
  BY <1>2 DEF TableInv, CountedRows, Ids
<1>9. InsertCovers(w, Chunk(w))'
  BY <1>2, <1>4, <1>6, <1>8 DEF InsertCovers
<1>10. PendingInsert(w)'
  BY <1>2, <1>6, <1>9 DEF PendingInsert, KeyIn, Ids
<1>11. TxHoldsConn'
  BY <1>0 DEF TypeOK, TxHoldsConn
<1> QED  BY <1>4, <1>5, <1>6, <1>7, <1>10, <1>11, <1>0, LocalStep DEF TypeOK

\* The insert of StoreData, whether its answer arrives or not.
LEMMA InsertEventStep ==
    ASSUME StoreAssumption, TableInv, NEW w \in Writers,
           InsertEvent(w) \/ InsertEventFails(w)
    PROVE  TableInv'
<1> USE DEF Free, Goto, Return, client, InTx
<1> DEFINE S == Inserted(batch[w])
<1>0. /\ TypeOK /\ TxHoldsConn /\ \A v \in Writers : CallFitsBatch(v) /\ PendingInsert(v)
      /\ batch[w] \in Batches /\ done[w] = 0 /\ Len(batch[w]) = 1 /\ pc[w] = "insert"
      /\ conn = NoConn /\ conn' = conn /\ batch' = batch /\ counted' = counted /\ acct' = acct
      /\ counted \subseteq rows
  BY DEF TableInv, TypeOK, CallFitsBatch, InsertEvent, InsertEventFails, CountedRows
<1>1. batch[w] \in Seq(Event)
  BY <1>0 DEF StoreAssumption
<1>2. /\ S \subseteq Elements(batch[w]) /\ IsFiniteSet(S) /\ Cardinality(S) <= Len(batch[w])
      /\ KeyIn(S) /\ Ids(S) \cap Ids(rows) = {}
      /\ Ids(Elements(batch[w])) \subseteq Ids(rows \cup S)
  BY <1>1, InsertLemma
<1>3. S \subseteq Event
  BY <1>1, <1>2 DEF Elements
<1>4. \/ /\ rows' = rows \cup S /\ fresh' = [fresh EXCEPT ![w] = S]
         /\ pc' = [pc EXCEPT ![w] = "account"] /\ done' = done
      \/ /\ rows' \in {rows, rows \cup S} /\ fresh' = [fresh EXCEPT ![w] = {}]
         /\ pc' = [pc EXCEPT ![w] = "failed"] /\ done' = [done EXCEPT ![w] = 0]
  BY DEF InsertEvent, InsertEventFails
<1>5. UNCHANGED <<tries, calls, crashes, cursor, walk, seen, repeated, start>>
  BY DEF InsertEvent, InsertEventFails
<1> HIDE DEF S
<1>6. TypeOK'
  <2>1. rows' \subseteq Event
    BY <1>0, <1>3, <1>4 DEF TypeOK
  <2>2. pc' \in [Writers -> PcValues] /\ done' \in [Writers -> Nat]
    BY <1>0, <1>4 DEF TypeOK, PcValues
  <2>3. fresh' \in [Writers -> SUBSET Event]
    BY <1>0, <1>3, <1>4 DEF TypeOK
  <2> QED  BY <1>0, <1>5, <2>1, <2>2, <2>3 DEF TypeOK
<1>7. /\ IsFiniteSet(rows') /\ KeyIn(rows)' /\ S \cap rows = {} /\ rows \subseteq rows'
      /\ Ids(rows) \subseteq Ids(rows')
  <2>1. CASE rows' = rows \cup S
    BY <2>1, <1>2, GrowRows
  <2>2. CASE rows' = rows
    <3>1. S \cap rows = {}
      BY <1>2, DisjointIds
    <3>2. IsFiniteSet(rows) /\ KeyIn(rows)
      BY DEF TableInv
    <3>3. IsFiniteSet(rows') /\ KeyIn(rows)'
      BY <2>2, <3>2 DEF KeyIn
    <3> QED  BY <2>2, <3>1, <3>3
  <2> QED  BY <1>4, <2>1, <2>2
<1>8. TxHoldsConn'
  BY <1>0, <1>4 DEF TypeOK, TxHoldsConn
<1>9. \A v \in Writers : pc[v] \notin InTx
  BY <1>0 DEF TxHoldsConn, StoreAssumption
<1>10. CallFitsBatch(w)' /\ PendingInsert(w)'
  <2>1. CASE pc'[w] = "account"
    <3>1. rows' = rows \cup S /\ fresh'[w] = S /\ done'[w] = 0
      BY <2>1, <1>0, <1>4 DEF TypeOK
    <3>2. S \cap counted = {}
      BY <1>0, <1>7
    <3>3. rows' \cup S = rows \cup S
      BY <3>1
    <3>4. InsertCovers(w, batch[w])'
      BY <3>1, <3>2, <3>3, <1>2, <1>0 DEF InsertCovers
    <3> QED  BY <2>1, <3>1, <3>4, <1>0 DEF CallFitsBatch, PendingInsert
  <2>2. CASE pc'[w] = "failed"
    BY <2>2, <1>0, <1>4 DEF TypeOK, CallFitsBatch, PendingInsert
  <2> QED  BY <2>1, <2>2, <1>4, <1>0 DEF TypeOK
<1>11. \A v \in Writers \ {w} : /\ pc'[v] = pc[v] /\ batch'[v] = batch[v]
                                 /\ done'[v] = done[v] /\ fresh'[v] = fresh[v]
  BY <1>0, <1>4 DEF TypeOK
<1>12. ASSUME NEW v \in Writers
       PROVE  CallFitsBatch(v)' /\ PendingInsert(v)'
  <2>1. CASE v = w
    BY <2>1, <1>10
  <2>2. CASE v # w
    <3>1. pc[v] \in {"account", "accountTx", "commit"} => fresh[v] \cap counted' = {}
      BY <1>0 DEF PendingInsert, InsertCovers
    <3> QED  BY <2>2, <3>1, <1>0, <1>7, <1>9, <1>11, OthersKeep
  <2> QED  BY <2>1, <2>2
<1>13. OneAccountPerRow'
  <2> SUFFICES ASSUME NEW v \in Writers \ {w}, pc'[v] = "account", pc'[w] = "account"
               PROVE  fresh'[v] \cap fresh'[w] = {}
    BY <1>11 DEF TableInv, OneAccountPerRow
  <2>1. fresh'[v] = fresh[v] /\ fresh[v] \subseteq rows
    BY <1>0, <1>11 DEF PendingInsert
  <2>2. fresh'[w] = S
    BY <1>0, <1>4 DEF TypeOK
  <2> QED  BY <2>1, <2>2, <1>7
<1>14. CountedRows'
  BY <1>0, <1>7 DEF TableInv, CountedRows
<1>15. StoredMeansInTable'
  <2> SUFFICES ASSUME NEW v \in Writers, pc'[v] = "stored"
               PROVE  Ids(Elements(batch'[v])) \subseteq Ids(rows')
    BY DEF StoredMeansInTable
  <2>1. v # w
    BY <1>0, <1>4 DEF TypeOK
  <2> QED  BY <2>1, <1>11, <1>7 DEF TableInv, StoredMeansInTable
<1> QED  BY <1>6, <1>7, <1>8, <1>12, <1>13, <1>14, <1>15 DEF TableInv

\* The accounting of StoreData, which may also fail with or without its effect.
LEMMA AccountStep ==
    ASSUME StoreAssumption, TableInv, NEW w \in Writers,
           recordStoreAccounting(w) \/ recordStoreAccountingFails(w)
    PROVE  TableInv'
<1> USE DEF Free, Goto, Return, client, InTx
<1>0. /\ TypeOK /\ TxHoldsConn /\ \A v \in Writers : CallFitsBatch(v) /\ PendingInsert(v)
      /\ batch[w] \in Batches /\ Len(batch[w]) = 1 /\ pc[w] = "account"
      /\ conn = NoConn /\ conn' = conn /\ batch' = batch /\ rows' = rows
      /\ InsertCovers(w, batch[w]) /\ fresh[w] \subseteq rows
  BY DEF TableInv, TypeOK, CallFitsBatch, PendingInsert, recordStoreAccounting,
         recordStoreAccountingFails
<1>1. /\ Account(1, fresh[w]) \/ UNCHANGED <<acct, counted>>
      /\ pc' = [pc EXCEPT ![w] = "stored"] \/ pc' = [pc EXCEPT ![w] = "failed"]
      /\ done' = [done EXCEPT ![w] = 0] /\ fresh' = [fresh EXCEPT ![w] = {}]
      /\ UNCHANGED <<tries, calls, crashes, cursor, walk, seen, repeated, start>>
  BY DEF recordStoreAccounting, recordStoreAccountingFails
<1>2. IsFiniteSet(fresh[w]) /\ Cardinality(fresh[w]) <= 1 /\ fresh[w] \cap counted = {}
  BY <1>0 DEF InsertCovers
<1>3. /\ CountedRows' /\ acct' \in [attempted : Nat, inserted : Nat, duplicates : Nat]
      /\ counted' \subseteq counted \cup fresh[w] /\ counted \subseteq counted'
  <2>1. CASE Account(1, fresh[w])
    <3>1. /\ CountedRows'
          /\ acct' \in [attempted : Nat, inserted : Nat, duplicates : Nat]
      BY <2>1, <1>0, <1>2, CountMore
    <3> QED  BY <2>1, <3>1 DEF Account
  <2>2. CASE UNCHANGED <<acct, counted>>
    BY <2>2, <1>0 DEF TableInv, CountedRows, TypeOK
  <2> QED  BY <1>1, <2>1, <2>2
<1>4. TypeOK'
  <2>1. pc' \in [Writers -> PcValues] /\ done' \in [Writers -> Nat]
    BY <1>0, <1>1 DEF TypeOK, PcValues
  <2>2. fresh' \in [Writers -> SUBSET Event] /\ counted' \subseteq Event
    BY <1>0, <1>1, <1>3 DEF TypeOK
  <2> QED  BY <1>0, <1>1, <1>3, <2>1, <2>2 DEF TypeOK
<1>5. TxHoldsConn'
  BY <1>0, <1>1 DEF TypeOK, TxHoldsConn
<1>6. \A v \in Writers \ {w} : /\ pc'[v] = pc[v] /\ batch'[v] = batch[v]
                                /\ done'[v] = done[v] /\ fresh'[v] = fresh[v]
  BY <1>0, <1>1 DEF TypeOK
<1>7. pc'[w] \in {"stored", "failed"} /\ done'[w] = 0
  BY <1>0, <1>1 DEF TypeOK
<1>8. ASSUME NEW v \in Writers
      PROVE  CallFitsBatch(v)' /\ PendingInsert(v)'
  <2>1. CASE v = w
    BY <2>1, <1>0, <1>7 DEF CallFitsBatch, PendingInsert
  <2>2. CASE v # w
    <3>1. pc[v] \notin InTx
      BY <1>0 DEF TxHoldsConn, StoreAssumption
    <3>2. pc[v] = "account" => fresh[v] \cap counted = {} /\ fresh[v] \cap fresh[w] = {}
      BY <2>2, <1>0 DEF TableInv, PendingInsert, InsertCovers, OneAccountPerRow
    <3>3. pc[v] \in {"account", "accountTx", "commit"} => fresh[v] \cap counted' = {}
      BY <3>1, <3>2, <1>3
    <3> QED  BY <2>2, <3>1, <3>3, <1>0, <1>6, OthersKeep
  <2> QED  BY <2>1, <2>2
<1>9. OneAccountPerRow'
  BY <1>6, <1>7 DEF TableInv, OneAccountPerRow
<1>10. StoredMeansInTable'
  <2> SUFFICES ASSUME NEW v \in Writers, pc'[v] = "stored"
               PROVE  Ids(Elements(batch'[v])) \subseteq Ids(rows')
    BY DEF StoredMeansInTable
  <2>1. CASE v = w
    <3>1. rows \cup fresh[w] = rows
      BY <1>0
    <3> QED  BY <2>1, <3>1, <1>0 DEF InsertCovers
  <2>2. CASE v # w
    BY <2>2, <1>6, <1>0 DEF TableInv, StoredMeansInTable
  <2> QED  BY <2>1, <2>2
<1>11. IsFiniteSet(rows') /\ KeyIn(rows)'
  BY <1>0 DEF TableInv, KeyIn
<1> QED  BY <1>3, <1>4, <1>5, <1>8, <1>9, <1>10, <1>11 DEF TableInv

\* A commit adds the chunk and its accounting; after the last one the whole batch
\* is in the table.
LEMMA CommitStep ==
    ASSUME StoreAssumption, TableInv, NEW w \in Writers,
           Commit(w) \/ CommitAnswerLost(w)
    PROVE  TableInv'
<1> USE DEF Goto, Return, client, InTx
<1> DEFINE S == fresh[w]
           n == Len(Chunk(w))
<1>0. /\ TypeOK /\ TxHoldsConn /\ \A v \in Writers : CallFitsBatch(v) /\ PendingInsert(v)
      /\ pc[w] = "commit" /\ batch[w] \in Batches /\ done[w] \in Nat
      /\ done[w] < Len(batch[w])
      /\ \A i \in 1 .. done[w] : batch[w][i].id \in Ids(rows)
      /\ InsertCovers(w, Chunk(w)) /\ KeyIn(S) /\ Ids(S) \cap Ids(rows) = {}
  BY DEF TableInv, TypeOK, CallFitsBatch, PendingInsert, Commit, CommitAnswerLost
<1>1. /\ rows' = rows \cup S /\ Account(n, S) /\ conn' = NoConn /\ batch' = batch
      /\ UNCHANGED <<tries, calls, crashes, cursor, walk, seen, repeated, start>>
      /\ fresh' = [fresh EXCEPT ![w] = {}]
      /\ \/ /\ done[w] + n < Len(batch[w]) /\ done' = [done EXCEPT ![w] = done[w] + n]
            /\ pc' = [pc EXCEPT ![w] = "begin"]
         \/ /\ ~(done[w] + n < Len(batch[w])) /\ done' = [done EXCEPT ![w] = 0]
            /\ pc' = [pc EXCEPT ![w] = "stored"]
         \/ /\ done' = [done EXCEPT ![w] = 0] /\ pc' = [pc EXCEPT ![w] = "failed"]
  BY DEF Commit, CommitAnswerLost, Committed
<1>2. /\ batch[w] \in Seq(Event) /\ n \in Nat \ {0} /\ done[w] + n <= Len(batch[w])
      /\ Chunk(w) \in Seq(Event)
      /\ \A i \in 1 .. n : Chunk(w)[i] = batch[w][done[w] + i]
  BY <1>0, ChunkLemma
<1>3. /\ IsFiniteSet(S) /\ Cardinality(S) <= n /\ S \cap counted = {}
      /\ Ids(Elements(Chunk(w))) \subseteq Ids(rows \cup S)
  BY <1>0 DEF InsertCovers
<1> HIDE DEF S, n
<1>4. /\ IsFiniteSet(rows') /\ KeyIn(rows)' /\ Ids(rows) \subseteq Ids(rows')
      /\ rows \subseteq rows' /\ S \subseteq rows' /\ S \cap rows = {}
  BY <1>0, <1>1, <1>3, GrowRows
<1>5. /\ CountedRows'
      /\ acct' \in [attempted : Nat, inserted : Nat, duplicates : Nat]
  BY <1>1, <1>2, <1>3, <1>4, CountMore
<1>6. counted' = counted \cup S
  BY <1>1 DEF Account
<1>7. S \subseteq Event
  BY <1>0 DEF TypeOK, S
<1>8. TypeOK'
  <2>1. pc' \in [Writers -> PcValues] /\ done' \in [Writers -> Nat]
    <3>1. done[w] + n \in Nat
      BY <1>0, <1>2
    <3>2. pc \in [Writers -> PcValues] /\ done \in [Writers -> Nat]
      BY <1>0 DEF TypeOK
    <3>3. done' \in [Writers -> Nat]
      BY <1>1, <3>1, <3>2
    <3>4. pc' \in [Writers -> PcValues]
      BY <1>1, <3>2 DEF PcValues
    <3> QED  BY <3>3, <3>4
  <2>2. fresh' \in [Writers -> SUBSET Event]
    BY <1>0, <1>1 DEF TypeOK
  <2>3. rows' \subseteq Event /\ counted' \subseteq Event
    BY <1>0, <1>1, <1>6, <1>7 DEF TypeOK
  <2> QED  BY <1>0, <1>1, <1>5, <2>1, <2>2, <2>3 DEF TypeOK
<1>9. \A v \in Writers \ {w} : /\ pc'[v] = pc[v] /\ batch'[v] = batch[v]
                                /\ done'[v] = done[v] /\ fresh'[v] = fresh[v]
  BY <1>0, <1>1 DEF TypeOK
<1>10. \A v \in Writers \ {w} : pc[v] \notin InTx
  BY <1>0 DEF TxHoldsConn
<1>11. TxHoldsConn'
  <2>1. pc'[w] \notin InTx
    BY <1>0, <1>1 DEF TypeOK
  <2> QED  BY <2>1, <1>9, <1>10 DEF TxHoldsConn
<1>12. ASSUME NEW i \in 1 .. done[w] + n
       PROVE  batch[w][i].id \in Ids(rows')
  <2>1. CASE i \in 1 .. done[w]
    BY <2>1, <1>0, <1>4
  <2>2. CASE ~(i \in 1 .. done[w])
    <3> DEFINE j == i - done[w]
    <3>1. j \in 1 .. n /\ i = done[w] + j
      BY <2>2, <1>0, <1>2
    <3>2. Chunk(w)[j] = batch[w][i]
      BY <3>1, <1>2
    <3>3. Chunk(w)[j] \in Elements(Chunk(w))
      BY <3>1, <1>2 DEF Elements, n
    <3> QED  BY <3>2, <3>3, <1>1, <1>3 DEF Ids
  <2> QED  BY <2>1, <2>2
<1>13. CallFitsBatch(w)' /\ PendingInsert(w)'
  <2>1. pc'[w] \in {"begin", "stored", "failed"}
    BY <1>0, <1>1 DEF TypeOK
  <2>2. CASE pc'[w] = "begin"
    <3>1. done'[w] = done[w] + n /\ done'[w] < Len(batch[w])
      BY <2>2, <1>0, <1>1 DEF TypeOK
    <3>2. \A i \in 1 .. done'[w] : batch'[w][i].id \in Ids(rows')
      BY <3>1, <1>1, <1>12
    <3> QED  BY <2>2, <3>1, <3>2, <1>0, <1>1 DEF CallFitsBatch, PendingInsert
  <2>3. CASE pc'[w] \in {"stored", "failed"}
    <3>1. done'[w] = 0
      BY <2>3, <1>0, <1>1 DEF TypeOK
    <3> QED  BY <2>3, <3>1, <1>0, <1>1 DEF CallFitsBatch, PendingInsert
  <2> QED  BY <2>1, <2>2, <2>3
<1>14. ASSUME NEW v \in Writers
       PROVE  CallFitsBatch(v)' /\ PendingInsert(v)'
  <2>1. CASE v = w
    BY <2>1, <1>13
  <2>2. CASE v # w
    <3>1. pc[v] = "account" => fresh[v] \cap counted = {} /\ fresh[v] \subseteq rows
      BY <1>0 DEF PendingInsert, InsertCovers
    <3>2. pc[v] \in {"account", "accountTx", "commit"} => fresh[v] \cap counted' = {}
      BY <2>2, <3>1, <1>4, <1>6, <1>10
    <3> QED  BY <2>2, <3>2, <1>0, <1>4, <1>9, <1>10, OthersKeep
  <2> QED  BY <2>1, <2>2
<1>15. OneAccountPerRow'
  <2>1. pc'[w] # "account"
    BY <1>0, <1>1 DEF TypeOK
  <2> QED  BY <2>1, <1>9 DEF TableInv, OneAccountPerRow
<1>16. StoredMeansInTable'
  <2> SUFFICES ASSUME NEW v \in Writers, pc'[v] = "stored"
               PROVE  Ids(Elements(batch'[v])) \subseteq Ids(rows')
    BY DEF StoredMeansInTable
  <2>1. CASE v = w
    <3>1. done[w] + n = Len(batch[w])
      BY <2>1, <1>0, <1>1, <1>2 DEF TypeOK
    <3>2. DOMAIN batch[w] = 1 .. done[w] + n
      BY <3>1, <1>2
    <3>3. \A e \in Elements(batch[w]) : e.id \in Ids(rows')
      BY <3>2, <1>12 DEF Elements
    <3>4. Ids(Elements(batch[w])) \subseteq Ids(rows')
      BY <3>3 DEF Ids
    <3> QED  BY <2>1, <3>4, <1>1
  <2>2. CASE v # w
    BY <2>2, <1>9, <1>4 DEF TableInv, StoredMeansInTable
  <2> QED  BY <2>1, <2>2
<1> QED  BY <1>4, <1>5, <1>8, <1>11, <1>14, <1>15, <1>16 DEF TableInv

\* A crash rolls the open transaction back, and every call is forgotten.
LEMMA CrashStep ==
    ASSUME StoreAssumption, TableInv, Crash
    PROVE  TableInv'
<1> USE DEF Crash, table, client
<1>1. TypeOK'
  <2>1. TypeOK
    BY DEF TableInv
  <2>2. pc' \in [Writers -> PcValues] /\ batch' \in [Writers -> Batches \cup {<<>>}]
    BY DEF PcValues
  <2>3. /\ done' \in [Writers -> Nat] /\ fresh' \in [Writers -> SUBSET Event]
        /\ tries' \in [Writers -> 0 .. MaxAttempts]
    BY DEF StoreAssumption
  <2>4. conn' \in Writers \cup {NoConn} /\ crashes' \in Nat
    BY <2>1 DEF TypeOK
  <2> QED  BY <2>1, <2>2, <2>3, <2>4 DEF TypeOK
<1>2. IsFiniteSet(rows)' /\ KeyIn(rows)' /\ CountedRows'
  BY DEF TableInv, KeyIn, CountedRows
<1>3. \A v \in Writers : pc'[v] = "idle" /\ done'[v] = 0
  OBVIOUS
<1>4. \A v \in Writers : CallFitsBatch(v)' /\ PendingInsert(v)'
  BY <1>3 DEF CallFitsBatch, PendingInsert, InTx
<1>5. TxHoldsConn' /\ OneAccountPerRow' /\ StoredMeansInTable'
  BY <1>3 DEF TxHoldsConn, InTx, OneAccountPerRow, StoredMeansInTable
<1> QED  BY <1>1, <1>2, <1>4, <1>5 DEF TableInv

\* A page is made of rows of the table it is taken from.
LEMMA PageOfRows ==
    ASSUME StoreAssumption, NEW S, S \subseteq Event, NEW v \in Limits, ShowPage(S, clamp(v))
    PROVE  /\ clamp(v) \in Nat \ {0}
           /\ seen' = seen \cup Top(S, clamp(v)) /\ Top(S, clamp(v)) \subseteq S
           /\ walk' \in {"more", "end"} /\ cursor' \in Nat
           /\ repeated' = repeated \cup {r \in Top(S, clamp(v)) : r.id \in Ids(seen)}
<1>1. clamp(v) \in Nat \ {0}
  BY DEF clamp, StoreAssumption
<1>2. Top(S, clamp(v)) \subseteq S
  BY DEF Top
<1>3. cursor' \in Nat
  BY <1>2 DEF ShowPage, Event
<1> QED  BY <1>1, <1>2, <1>3 DEF ShowPage

\* Reading does not write.
LEMMA ListStep ==
    ASSUME StoreAssumption, TableInv, ListFirstPage \/ ListAfterCursor
    PROVE  TableInv'
<1> USE DEF table, writers
<1>0. /\ TypeOK /\ UNCHANGED <<table, conn, writers, crashes>>
  BY DEF TableInv, ListFirstPage, ListAfterCursor
<1>1. /\ seen' \subseteq Event /\ repeated' \subseteq Event /\ start' \subseteq Event
      /\ walk' \in {"more", "end"} /\ cursor' \in Nat
  <2>1. PICK S \in SUBSET rows, v \in Limits : ShowPage(S, clamp(v))
    BY DEF ListFirstPage, ListAfterCursor
  <2>2. start' \in {start, rows}
    BY DEF ListFirstPage, ListAfterCursor
  <2>3. S \subseteq Event
    BY <1>0 DEF TypeOK
  <2> DEFINE T == Top(S, clamp(v))
  <2>4. /\ seen' = seen \cup T /\ T \subseteq S /\ walk' \in {"more", "end"}
        /\ cursor' \in Nat /\ repeated' = repeated \cup {r \in T : r.id \in Ids(seen)}
    BY <2>1, <2>3, PageOfRows
  <2> HIDE DEF T
  <2>5. seen \subseteq Event /\ repeated \subseteq Event /\ start \subseteq Event /\ rows \subseteq Event
    BY <1>0 DEF TypeOK
  <2> QED  BY <2>2, <2>3, <2>4, <2>5
<1>2. TypeOK'
  BY <1>0, <1>1 DEF TypeOK
<1>3. IsFiniteSet(rows)' /\ KeyIn(rows)' /\ CountedRows'
  BY <1>0 DEF TableInv, KeyIn, CountedRows
<1>4. ASSUME NEW v \in Writers
      PROVE  CallFitsBatch(v)' /\ PendingInsert(v)'
  <2>1. CallFitsBatch(v) /\ PendingInsert(v)
    BY DEF TableInv
  <2>2. pc[v] \in {"account", "accountTx", "commit"} => fresh[v] \cap counted' = {}
    BY <1>0, <2>1 DEF PendingInsert, InsertCovers
  <2> QED  BY <1>0, <2>1, <2>2, OthersKeep
<1>5. TxHoldsConn' /\ OneAccountPerRow'
  BY <1>0 DEF TableInv, TxHoldsConn, OneAccountPerRow
<1>6. StoredMeansInTable'
  BY <1>0 DEF TableInv, StoredMeansInTable
<1> QED  BY <1>2, <1>3, <1>4, <1>5, <1>6 DEF TableInv

LEMMA StutterTable ==
    ASSUME TableInv, UNCHANGED vars
    PROVE  TableInv'
<1> USE DEF vars, table, writers, client
<1>1. TypeOK'
  BY DEF TableInv, TypeOK
<1>2. IsFiniteSet(rows)' /\ KeyIn(rows)' /\ CountedRows'
  BY DEF TableInv, KeyIn, CountedRows
<1>3. ASSUME NEW v \in Writers
      PROVE  CallFitsBatch(v)' /\ PendingInsert(v)'
  <2>1. CallFitsBatch(v) /\ PendingInsert(v)
    BY DEF TableInv
  <2>2. pc[v] \in {"account", "accountTx", "commit"} => fresh[v] \cap counted' = {}
    BY <2>1 DEF PendingInsert, InsertCovers
  <2> QED  BY <2>1, <2>2, OthersKeep
<1>4. TxHoldsConn' /\ OneAccountPerRow'
  BY DEF TableInv, TxHoldsConn, OneAccountPerRow
<1>5. StoredMeansInTable'
  BY DEF TableInv, StoredMeansInTable
<1> QED  BY <1>1, <1>2, <1>3, <1>4, <1>5 DEF TableInv

LEMMA NextTable == StoreAssumption /\ TableInv /\ [Next]_vars => TableInv'
<1> SUFFICES ASSUME StoreAssumption, TableInv, [Next]_vars PROVE TableInv'
  OBVIOUS
<1>1. ASSUME NEW w \in Writers, Write(w) PROVE TableInv'
  BY <1>1, StepsOutsideTable, InsertChunkStep, InsertEventStep, AccountStep, CommitStep
     DEF Write, StoreCall
<1>2. CASE Crash
  BY <1>2, CrashStep
<1>3. CASE ListFirstPage \/ ListAfterCursor
  BY <1>3, ListStep
<1>4. CASE UNCHANGED vars
  BY <1>4, StutterTable
<1> QED  BY <1>1, <1>2, <1>3, <1>4 DEF Next

\* TableInv holds in every behaviour: the primary key, the connection of a
\* transaction, what a call has inserted and what is accounted for.
THEOREM TableInvariant == Spec => []TableInv
<1>1. StoreAssumption
  BY StoreAssumption
<1> QED  BY <1>1, InitTable, NextTable, PTL DEF Spec

\* Types: attempts stay within maxStoreAttempts, duplicates are never negative.
THEOREM TypeCorrect == Spec => []TypeOK
<1>1. TableInv => TypeOK
  BY DEF TableInv
<1> QED  BY <1>1, TableInvariant, PTL

\* A call that returns nil has all its events in the table, whatever the batch
\* holds twice, the table held before, or an earlier attempt left behind.
THEOREM NilMeansStored == Spec => []StoredMeansInTable
<1>1. TableInv => StoredMeansInTable
  BY DEF TableInv
<1> QED  BY <1>1, TableInvariant, PTL

\* inserted_events never exceeds the rows of the table.
THEOREM AccountingIsConservative == Spec => []AccountingNeverOverclaims
<1>1. ASSUME TableInv PROVE AccountingNeverOverclaims
  <2>1. IsFiniteSet(rows) /\ counted \in SUBSET rows /\ acct.inserted = Cardinality(counted)
    BY <1>1 DEF TableInv, CountedRows
  <2>2. Cardinality(counted) <= Cardinality(rows)
    BY <2>1, FS_Subset
  <2> QED  BY <2>1, <2>2 DEF AccountingNeverOverclaims
<1>2. TableInv => AccountingNeverOverclaims
  BY <1>1
<1> QED  BY <1>2, TableInvariant, PTL

-----------------------------------------------------------------------------
(* The listing.                                                            *)

\* Every row comes from a flush, and rows stay.
LEMMA RowsGrow ==
    ASSUME StoreAssumption, TableInv, Provenance, [Next]_vars
    PROVE  Provenance' /\ rows \subseteq rows'
<1> USE DEF table, client, writers, vars, Provenance
<1>0. /\ TypeOK /\ fresh \in [Writers -> SUBSET Event]
      /\ \A w \in Writers : CallFitsBatch(w)
      /\ \A b \in Batches : Elements(b) \subseteq AllEvents
  BY DEF TableInv, TypeOK, AllEvents
<1> HIDE DEF Provenance
<1>1. ASSUME NEW w \in Writers, InsertEvent(w) \/ InsertEventFails(w)
      PROVE  Provenance' /\ rows \subseteq rows'
  <2>1. batch[w] \in Batches /\ batch[w] \in Seq(Event)
    BY <1>0, <1>1 DEF CallFitsBatch, InsertEvent, InsertEventFails, StoreAssumption
  <2>2. Inserted(batch[w]) \subseteq AllEvents
    BY <1>0, <2>1, InsertLemma
  <2>3. /\ rows' \in {rows, rows \cup Inserted(batch[w])}
        /\ \/ fresh' = [fresh EXCEPT ![w] = Inserted(batch[w])]
           \/ fresh' = [fresh EXCEPT ![w] = {}]
    BY <1>1 DEF InsertEvent, InsertEventFails, Return
  <2> HIDE DEF Inserted
  <2> QED  BY <1>0, <2>2, <2>3 DEF Provenance
<1>2. ASSUME NEW w \in Writers, insertChunk(w)
      PROVE  Provenance' /\ rows \subseteq rows'
  <2>1. batch[w] \in Batches /\ done[w] \in Nat /\ done[w] < Len(batch[w])
    BY <1>0, <1>2 DEF CallFitsBatch, insertChunk, InTx, TypeOK
  <2>2. Chunk(w) \in Seq(Event) /\ Elements(Chunk(w)) \subseteq Elements(batch[w])
    BY <2>1, ChunkLemma
  <2>3. Inserted(Chunk(w)) \subseteq AllEvents
    BY <1>0, <2>1, <2>2, InsertLemma
  <2>4. rows' = rows /\ fresh' = [fresh EXCEPT ![w] = Inserted(Chunk(w))]
    BY <1>2 DEF insertChunk
  <2> QED  BY <1>0, <2>3, <2>4 DEF Provenance
<1>3. ASSUME NEW w \in Writers, Commit(w) \/ CommitAnswerLost(w)
      PROVE  Provenance' /\ rows \subseteq rows'
  <2>1. rows' = rows \cup fresh[w] /\ fresh' = [fresh EXCEPT ![w] = {}]
    BY <1>3 DEF Commit, CommitAnswerLost, Committed, Return
  <2> QED  BY <1>0, <2>1 DEF Provenance
<1>4. ASSUME NEW w \in Writers,
             \/ Flush(w) \/ Retry(w) \/ GiveUp(w) \/ Acked(w) \/ BeginTx(w)
             \/ recordStoreAccountingTx(w)
      PROVE  Provenance' /\ rows \subseteq rows'
  <2>1. rows' = rows /\ fresh' = fresh
    BY <1>4 DEF Flush, Retry, GiveUp, Acked, BeginTx, recordStoreAccountingTx
  <2> QED  BY <2>1 DEF Provenance
<1>5. ASSUME NEW w \in Writers,
             \/ recordStoreAccounting(w) \/ recordStoreAccountingFails(w)
             \/ BeginTxFails(w) \/ Rollback(w) \/ WaitCancelled(w)
      PROVE  Provenance' /\ rows \subseteq rows'
  <2>1. rows' = rows /\ fresh' = [fresh EXCEPT ![w] = {}]
    BY <1>5 DEF recordStoreAccounting, recordStoreAccountingFails, BeginTxFails, Rollback,
       WaitCancelled, Return
  <2> QED  BY <1>0, <2>1 DEF Provenance
<1>6. CASE Crash
  BY <1>6 DEF Crash, Provenance
<1>7. CASE ListFirstPage \/ ListAfterCursor \/ UNCHANGED vars
  <2>1. rows' = rows /\ fresh' = fresh
    BY <1>7 DEF ListFirstPage, ListAfterCursor
  <2> QED  BY <2>1 DEF Provenance
<1> QED  BY <1>1, <1>2, <1>3, <1>4, <1>5, <1>6, <1>7 DEF Next, Write, StoreCall

\* Only the two queries change what the client has.
LEMMA WritersKeepClient ==
    ASSUME [Next]_vars, ~ListFirstPage, ~ListAfterCursor
    PROVE  UNCHANGED client
<1>1. ASSUME NEW w \in Writers, Write(w) PROVE UNCHANGED client
  BY <1>1 DEF Write, StoreCall, Flush, Retry, GiveUp, Acked, InsertEvent, InsertEventFails,
     recordStoreAccounting, recordStoreAccountingFails, BeginTx, BeginTxFails, insertChunk,
     recordStoreAccountingTx, Commit, CommitAnswerLost, Rollback, WaitCancelled
<1>2. Crash => UNCHANGED client
  BY DEF Crash
<1>3. UNCHANGED vars => UNCHANGED client
  BY DEF vars
<1> QED  BY <1>1, <1>2, <1>3 DEF Next

\* The rows of a page are newer than those left behind, and nothing is left
\* behind when the rows do not exceed the limit.
LEMMA TopIsNewest ==
    ASSUME NEW S, S \subseteq Event, IsFiniteSet(S), NEW n \in Nat
    PROVE  /\ \A last \in Top(S, n), r \in S \ Top(S, n) : Newer(last, r)
           /\ ~(Cardinality(S) > n) => Top(S, n) = S
<1> DEFINE Over(r) == {q \in S : Newer(q, r)}
<1>1. \A r \in S : r \in Top(S, n) <=> Cardinality(Over(r)) < n
  BY DEF Top
<1>2. \A r \in S : Over(r) \subseteq S /\ IsFiniteSet(Over(r)) /\ Cardinality(Over(r)) \in Nat
  BY FS_Subset, FS_CardinalityType
<1>3. Top(S, n) \subseteq S
  BY DEF Top
<1>4. ASSUME NEW last \in Top(S, n), NEW r \in S \ Top(S, n)
      PROVE  Newer(last, r)
  <2>1. last \in Event /\ r \in Event /\ last # r
    BY <1>3
  <2>2. ~Newer(r, last)
    <3> SUFFICES ASSUME Newer(r, last) PROVE FALSE
      OBVIOUS
    <3>1. Over(r) \subseteq Over(last)
      BY <2>1 DEF Newer, Event
    <3>2. IsFiniteSet(Over(last)) /\ Over(r) \in SUBSET Over(last)
      BY <1>2, <1>3, <3>1
    <3>3. Cardinality(Over(r)) <= Cardinality(Over(last))
      <4> HIDE DEF Over
      <4> QED  BY <3>2, FS_Subset
    <3>4. Cardinality(Over(last)) < n /\ ~(Cardinality(Over(r)) < n)
      BY <1>1, <1>3
    <3> HIDE DEF Over
    <3>5. Cardinality(Over(r)) \in Nat /\ Cardinality(Over(last)) \in Nat
      BY <1>2, <1>3
    <3> QED  BY <3>3, <3>4, <3>5
  <2> QED  BY <2>1, <2>2 DEF Newer, Event
<1>5. ASSUME ~(Cardinality(S) > n), NEW r \in S
      PROVE  r \in Top(S, n)
  <2>1. r \notin Over(r)
    BY DEF Newer, Event
  <2>2. Over(r) \in SUBSET S /\ Over(r) # S
    BY <2>1
  <2> HIDE DEF Over
  <2>3. Cardinality(Over(r)) <= Cardinality(S) /\ Cardinality(Over(r)) # Cardinality(S)
    BY <2>2, FS_Subset
  <2>4. Cardinality(S) \in Nat /\ Cardinality(Over(r)) \in Nat
    BY <1>2, FS_CardinalityType
  <2>5. Cardinality(Over(r)) < n
    BY <1>5, <2>3, <2>4
  <2> QED  BY <1>1, <2>5
<1> QED  BY <1>3, <1>4, <1>5

\* With more to come, the cursor is at the last row of the page: the page is not
\* before it, and what is left is behind that row.  At the end nothing is left.
LEMMA PageAndCursor ==
    ASSUME StoreAssumption, NEW S, S \subseteq Event, IsFiniteSet(S), NEW v \in Limits,
           ShowPage(S, clamp(v))
    PROVE  /\ walk' = "more" =>
                 \E last \in Top(S, clamp(v)) :
                    /\ cursor' = last.at
                    /\ \A r \in Top(S, clamp(v)) : r.at >= last.at
                    /\ \A r \in S \ Top(S, clamp(v)) : Newer(last, r)
           /\ walk' = "end" => Top(S, clamp(v)) = S
<1> DEFINE n == clamp(v)
           T == Top(S, n)
<1>1. n \in Nat /\ T \subseteq S
  BY PageOfRows
<1>2. /\ \A last \in T, r \in S \ T : Newer(last, r)
      /\ ~(Cardinality(S) > n) => T = S
  <2> HIDE DEF n
  <2> QED  BY <1>1, TopIsNewest
<1>3. /\ walk' = IF Cardinality(S) > n THEN "more" ELSE "end"
      /\ Cardinality(S) > n =>
            \E last \in T : /\ \A r \in T : r = last \/ Newer(r, last)
                            /\ cursor' = last.at
  BY DEF ShowPage
<1> HIDE DEF T, n
<1>4. CASE Cardinality(S) > n
  <2>1. PICK last \in T : /\ \A r \in T : r = last \/ Newer(r, last)
                          /\ cursor' = last.at
    BY <1>3, <1>4
  <2>2. \A r \in T : r.at >= last.at
    BY <1>1, <2>1 DEF Newer, Event
  <2>3. walk' = "more" /\ "more" # "end"
    BY <1>3, <1>4
  <2> QED  BY <1>2, <2>1, <2>2, <2>3 DEF T, n
<1>5. CASE ~(Cardinality(S) > n)
  <2>1. walk' = "end" /\ T = S /\ "more" # "end"
    BY <1>2, <1>3, <1>5
  <2> QED  BY <2>1 DEF T, n
<1> QED  BY <1>4, <1>5

\* What the two queries read.
LEMMA ListReads ==
    ASSUME StoreAssumption, TableInv, ListingInv, ListFirstPage \/ ListAfterCursor
    PROVE  \E S \in SUBSET rows, v \in Limits :
              /\ IsFiniteSet(S) /\ S \subseteq Event /\ ShowPage(S, clamp(v))
              /\ \/ walk = "none" /\ S = rows /\ start' = rows /\ seen = {}
                 \/ walk = "more" /\ S = {r \in rows : AfterCursor(r)} /\ start' = start
              /\ rows' = rows
<1>1. IsFiniteSet(rows) /\ rows \subseteq Event
  BY DEF TableInv, TypeOK
<1>2. \A S \in SUBSET rows : IsFiniteSet(S) /\ S \subseteq Event
  BY <1>1, FS_Subset
<1>3. CASE ListFirstPage
  BY <1>2, <1>3 DEF ListFirstPage, ListingInv, table
<1>4. CASE ListAfterCursor
  BY <1>2, <1>4 DEF ListAfterCursor, table
<1> QED  BY <1>3, <1>4

LEMMA ListingNext ==
    ASSUME StoreAssumption, TableInv, Provenance, ListingInv, [Next]_vars
    PROVE  ListingInv'
<1>1. rows \subseteq rows'
  BY RowsGrow
<1>2. CASE ListFirstPage \/ ListAfterCursor
  <2>1. PICK S \in SUBSET rows, v \in Limits :
              /\ S \subseteq Event /\ ShowPage(S, clamp(v)) /\ start' \in {rows, start}
              /\ rows' = rows
    BY <1>2, ListReads
  <2>2. seen' \subseteq rows' /\ walk' \in {"more", "end"}
    <3> DEFINE T == Top(S, clamp(v))
    <3>1. seen' = seen \cup T /\ T \subseteq S /\ walk' \in {"more", "end"}
      BY <2>1, PageOfRows
    <3> HIDE DEF T
    <3> QED  BY <2>1, <3>1 DEF ListingInv
  <2> QED  BY <2>1, <2>2 DEF ListingInv
<1>3. CASE ~ListFirstPage /\ ~ListAfterCursor
  BY <1>1, <1>3, WritersKeepClient DEF ListingInv, client
<1> QED  BY <1>2, <1>3

LEMMA InitListing == Init => Provenance /\ ListingInv
BY DEF Init, Provenance, ListingInv

\* The invariants that the two theorems on listings share.
LEMMA ListingInvariant == Spec => [](TableInv /\ Provenance /\ ListingInv)
<1>1. StoreAssumption
  BY StoreAssumption
<1>2. TableInv /\ Provenance /\ ListingInv /\ [Next]_vars
         => (TableInv /\ Provenance /\ ListingInv)'
  BY <1>1, NextTable, RowsGrow, ListingNext
<1> QED  BY <1>1, <1>2, InitTable, InitListing, PTL DEF Spec

\* A listing shows no event twice as long as no event id sorts below the text of
\* the zero time, which the query compares it with: for every order in which rows
\* arrive, for redelivered events and for any mix of page sizes.
THEOREM ListingsDoNotRepeat ==
    ASSUME NoLowIds
    PROVE  Spec => []NoDuplicatesAcrossPages
<1> DEFINE J == NoDuplicatesAcrossPages /\ ShownBeforeCursor
           I == TableInv /\ Provenance /\ ListingInv
<1>1. StoreAssumption
  BY StoreAssumption
<1>2. Init => J
  BY DEF Init, NoDuplicatesAcrossPages, ShownBeforeCursor
<1>3. I /\ J /\ [Next]_vars => J'
  <2> SUFFICES ASSUME I, J, [Next]_vars PROVE J'
    OBVIOUS
  <2>1. CASE ListFirstPage \/ ListAfterCursor
    <3>1. PICK S \in SUBSET rows, v \in Limits :
              /\ IsFiniteSet(S) /\ S \subseteq Event /\ ShowPage(S, clamp(v))
              /\ \/ walk = "none" /\ S = rows /\ start' = rows /\ seen = {}
                 \/ walk = "more" /\ S = {r \in rows : AfterCursor(r)} /\ start' = start
              /\ rows' = rows
      BY <1>1, <2>1, ListReads
    <3> DEFINE T == Top(S, clamp(v))
    <3>2. /\ seen' = seen \cup T /\ T \subseteq S
          /\ repeated' = repeated \cup {r \in T : r.id \in Ids(seen)}
      BY <1>1, <3>1, PageOfRows
    <3>3. walk' = "more" =>
             \E last \in T : /\ cursor' = last.at
                             /\ \A r \in T : r.at >= last.at
      BY <1>1, <3>1, PageAndCursor
    <3> HIDE DEF T
    <3>4. ASSUME walk = "more", NEW r \in S
          PROVE  r.at < cursor
      <4>1. r \in AllEvents /\ r \in Event /\ AfterCursor(r)
        BY <3>1, <3>4 DEF Provenance
      <4>2. r.id >= ZeroTime
        BY <4>1, NoLowIds DEF NoLowIds, AllEvents
      <4> QED  BY <1>1, <4>1, <4>2 DEF AfterCursor, Event, StoreAssumption
    <3>5. ASSUME walk = "more", NEW r \in T, NEW s \in seen
          PROVE  r.id # s.id
      <4>1. r \in rows /\ s \in rows /\ KeyIn(rows) /\ r \in Event /\ s \in Event
        <5>1. rows \subseteq Event /\ KeyIn(rows) /\ seen \subseteq rows
          BY DEF ListingInv, TableInv, TypeOK
        <5>2. r \in rows /\ s \in rows
          BY <3>2, <3>5, <5>1
        <5> QED  BY <5>1, <5>2
      <4>2. r.at < cursor /\ s.at >= cursor /\ cursor \in Nat
        BY <3>2, <3>4, <3>5 DEF ShownBeforeCursor, TableInv, TypeOK
      <4>3. r # s
        BY <4>1, <4>2 DEF Event
      <4> QED  BY <4>1, <4>3 DEF KeyIn
    <3>6. NoDuplicatesAcrossPages'
      <4>1. {r \in T : r.id \in Ids(seen)} = {}
        BY <3>1, <3>5 DEF Ids
      <4> QED  BY <3>2, <4>1 DEF NoDuplicatesAcrossPages
    <3>7. ShownBeforeCursor'
      <4> SUFFICES ASSUME walk' = "more", NEW r \in seen'
                   PROVE  r.at >= cursor'
        BY DEF ShownBeforeCursor
      <4>1. PICK last \in T : cursor' = last.at /\ \A q \in T : q.at >= last.at
        BY <3>3
      <4>2. CASE r \in T
        BY <4>1, <4>2
      <4>3. CASE r \in seen
        <5>1. walk = "more"
          BY <3>1, <4>3
        <5>2. last \in Event /\ r \in Event /\ cursor \in Nat
          BY <3>1, <3>2, <4>3 DEF TableInv, TypeOK
        <5>3. last.at < cursor /\ r.at >= cursor
          BY <3>2, <3>4, <4>3, <5>1 DEF ShownBeforeCursor
        <5> QED  BY <4>1, <5>2, <5>3 DEF Event
      <4> QED  BY <3>2, <4>2, <4>3
    <3> QED  BY <3>6, <3>7
  <2>2. CASE ~ListFirstPage /\ ~ListAfterCursor
    BY <2>2, WritersKeepClient DEF client, NoDuplicatesAcrossPages, ShownBeforeCursor
  <2> QED  BY <2>1, <2>2
<1>4. J => NoDuplicatesAcrossPages
  OBVIOUS
<1> HIDE DEF J, I
<1>5. Spec => []I
  BY ListingInvariant DEF I
<1> QED  BY <1>2, <1>3, <1>4, <1>5, PTL DEF Spec

\* A listing that ends has shown every event it started on, as long as no two
\* events have the same ingested_at.
THEOREM ListingsAreComplete ==
    ASSUME StampsDiffer
    PROVE  Spec => []AllEventsReachable
<1> DEFINE J == AllEventsReachable /\ StartShownOrBehind
           I == TableInv /\ Provenance /\ ListingInv
<1>1. StoreAssumption
  BY StoreAssumption
<1>2. Init => J
  BY DEF Init, AllEventsReachable, StartShownOrBehind
<1>3. I /\ J /\ [Next]_vars => J'
  <2> SUFFICES ASSUME I, J, [Next]_vars PROVE J'
    OBVIOUS
  <2>1. CASE ListFirstPage \/ ListAfterCursor
    <3>1. PICK S \in SUBSET rows, v \in Limits :
              /\ IsFiniteSet(S) /\ S \subseteq Event /\ ShowPage(S, clamp(v))
              /\ \/ walk = "none" /\ S = rows /\ start' = rows /\ seen = {}
                 \/ walk = "more" /\ S = {r \in rows : AfterCursor(r)} /\ start' = start
              /\ rows' = rows
      BY <1>1, <2>1, ListReads
    <3> DEFINE T == Top(S, clamp(v))
    <3>2. seen' = seen \cup T /\ T \subseteq S /\ walk' \in {"more", "end"}
      BY <1>1, <3>1, PageOfRows
    <3>3. /\ walk' = "more" =>
                \E last \in T : /\ cursor' = last.at
                                /\ \A r \in S \ T : Newer(last, r)
          /\ walk' = "end" => T = S
      BY <1>1, <3>1, PageAndCursor
    <3> HIDE DEF T
    <3>4. ASSUME NEW r \in start'
          PROVE  r \in seen \/ r \in S
      <4>1. CASE walk = "none"
        BY <3>1, <3>4, <4>1
      <4>2. CASE walk = "more"
        <5>1. r \in start /\ r \in rows
          BY <3>1, <3>4, <4>2 DEF ListingInv
        <5> QED  BY <3>1, <4>2, <5>1 DEF StartShownOrBehind, AfterCursor
      <4> QED  BY <3>1, <4>1, <4>2
    <3>5. AllEventsReachable'
      BY <3>2, <3>3, <3>4 DEF AllEventsReachable
    <3>6. StartShownOrBehind'
      <4> SUFFICES ASSUME walk' = "more", NEW r \in start', r \notin seen'
                   PROVE  r.at < cursor'
        BY DEF StartShownOrBehind
      <4>1. PICK last \in T : cursor' = last.at /\ \A q \in S \ T : Newer(last, q)
        BY <3>3
      <4>2. r \in S \ T
        BY <3>2, <3>4
      <4>3. /\ r \in Event /\ last \in Event /\ r \in rows /\ last \in rows
            /\ r \in AllEvents /\ last \in AllEvents /\ Newer(last, r)
        BY <3>1, <3>2, <4>1, <4>2 DEF Provenance
      <4>4. last.at # r.at
        <5> SUFFICES ASSUME last.at = r.at PROVE FALSE
          OBVIOUS
        <5>1. last.id = r.id
          BY <4>3, StampsDiffer DEF StampsDiffer, AllEvents
        <5> QED  BY <4>3, <5>1 DEF Newer, Event
      <4> QED  BY <4>1, <4>3, <4>4 DEF Newer, Event
    <3> QED  BY <3>5, <3>6
  <2>2. CASE ~ListFirstPage /\ ~ListAfterCursor
    BY <2>2, WritersKeepClient DEF client, AllEventsReachable, StartShownOrBehind
  <2> QED  BY <2>1, <2>2
<1>4. J => AllEventsReachable
  OBVIOUS
<1> HIDE DEF J, I
<1>5. Spec => []I
  BY ListingInvariant DEF I
<1> QED  BY <1>2, <1>3, <1>4, <1>5, PTL DEF Spec

\* storer.go:73-196: nothing is deleted from the events table and no row
\* of it is replaced, by a store, a retry, a failed statement, a rollback or the
\* death of the process.
THEOREM RowsStay == Spec => RowsAreFinal
<1>1. [Next]_vars => rows \subseteq rows'
  BY DEF Next, Write, StoreCall, Flush, Retry, GiveUp, Acked, WaitCancelled, InsertEvent,
         InsertEventFails, recordStoreAccounting, recordStoreAccountingFails, BeginTx, BeginTxFails,
         insertChunk, recordStoreAccountingTx, Commit, CommitAnswerLost, Committed, Rollback, Crash,
         ListFirstPage, ListAfterCursor, table, vars
<1> QED  BY <1>1, PTL DEF Spec, RowsAreFinal

===============================================================================

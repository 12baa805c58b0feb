------------------------- MODULE SummaryServiceProofs -------------------------
(***************************************************************************)
(* Proofs about SummaryService, for any number of requests and events, any *)
(* providers, configurations, queries and restarts, and any table of       *)
(* summaries the service is started on.                                    *)
(***************************************************************************)
EXTENDS SummaryService, TLAPS, SequenceTheorems, FiniteSetTheorems

-----------------------------------------------------------------------------
(* The inductive invariant.                                                *)

\* The local variables of a request keep their names.
HasTheFields(q) ==
    q \in [asked : {q.asked}, arrived : {q.arrived}, config : {q.config}, key : {q.key},
           stats : {q.stats}, counted : {q.counted}, seen : {q.seen}, evidence : {q.evidence},
           report : {q.report}, hit : {q.hit}, id : {q.id}]

Rows == {summaries[i] : i \in DOMAIN summaries}

Shaped ==
    /\ summaries \in Seq(Rows)
    /\ DOMAIN task = Requests /\ DOMAIN pc = Requests
    /\ task = [r \in Requests |-> task[r]] /\ pc = [r \in Requests |-> pc[r]]
    /\ \A r \in Requests : HasTheFields(task[r])

\* The id a request has read back is the one of the row with its evidence, and
\* no other request has it; a row without an id in a request gets no link.
OwnRow ==
    /\ \A l \in links : l[1] \in DOMAIN summaries
    /\ \A r \in Requests : task[r].id \in 0..Len(summaries)
    /\ \A r, s \in Requests : task[r].id = task[s].id /\ task[r].id # 0 => r = s
    /\ \A r \in Requests : pc[r] = "save" => task[r].report.made.evidence = task[r].evidence
    /\ \A r \in Requests :
          pc[r] = "link" => /\ task[r].id # 0
                            /\ summaries[task[r].id].made.evidence = task[r].evidence
    /\ \A r \in Requests : pc[r] = "done" /\ ~task[r].hit => task[r].id # 0

IInv == Shaped /\ OwnRow /\ LinksBackTheSummary

-----------------------------------------------------------------------------
(* Lemmas about one request's step.                                        *)

LEMMA NoTaskHasTheFields ==
    HasTheFields(NoTask) /\ NoTask.id = 0 /\ NoTask.report = NoReport
  BY DEF NoTask, HasTheFields

\* One request moves on with new local variables.
LEMMA MoveLemma ==
    ASSUME Shaped, NEW r \in Requests, NEW q, NEW label,
           task' = [task EXCEPT ![r] = q], pc' = [pc EXCEPT ![r] = label]
    PROVE  /\ task'[r] = q /\ pc'[r] = label
           /\ \A s \in Requests : s # r => task'[s] = task[s] /\ pc'[s] = pc[s]
           /\ DOMAIN task' = Requests /\ DOMAIN pc' = Requests
           /\ task' = [s \in Requests |-> task'[s]] /\ pc' = [s \in Requests |-> pc'[s]]
  BY DEF Shaped

\* A row is added to the table.
LEMMA AppendLemma ==
    ASSUME Shaped, NEW row, summaries' = Append(summaries, row)
    PROVE  /\ summaries' \in Seq(Rows')
           /\ DOMAIN summaries' = 1..(Len(summaries) + 1) /\ Len(summaries) \in Nat
           /\ DOMAIN summaries = 1..Len(summaries)
           /\ Len(summaries') = Len(summaries) + 1
           /\ \A i \in DOMAIN summaries : summaries'[i] = summaries[i]
           /\ summaries'[Len(summaries) + 1] = row
<1> DEFINE S == Rows \cup {row}
           n == Len(summaries)
<1>1. summaries \in Seq(S) /\ row \in S
  BY SeqMonotonic DEF Shaped
<1> HIDE DEF S
<1>2. /\ n \in Nat /\ DOMAIN summaries = 1..n
      /\ summaries' \in Seq(S) /\ Len(summaries') = n + 1 /\ DOMAIN summaries' = 1..(n + 1)
      /\ \A i \in 1..n : summaries'[i] = summaries[i]
      /\ summaries'[n + 1] = row
  BY <1>1
<1>3. summaries' \in Seq(Rows')
  <2>1. \A i \in 1..Len(summaries') : summaries'[i] \in Rows'
    BY <1>2 DEF Rows
  <2> QED  BY <1>2, <2>1
<1> QED  BY <1>2, <1>3

\* The steps before a report is saved: a request that moves on keeps its id and,
\* unless it is given a report, its report.
LEMMA AggregateLemma ==
    ASSUME Shaped, NEW r \in Requests, Aggregate(r)
    PROVE  \E q : /\ task' = [task EXCEPT ![r] = q] /\ pc' = [pc EXCEPT ![r] = "lookup"]
                  /\ HasTheFields(q) /\ q.id = task[r].id /\ q.report = task[r].report
                  /\ UNCHANGED tables
<1>1. PICK a \in Queries :
          LET since == SinceOf(a)
              stats == AggregateByDomain(a.domain, since)
          IN task' = [task EXCEPT ![r] = [@ EXCEPT
                        !.asked = a, !.arrived = clock, !.config = config,
                        !.stats = stats, !.counted = Counted(a.domain, since),
                        !.key = BuildCacheKey(a.domain, since, config, stats)]]
  BY DEF Aggregate
<1> DEFINE stats == AggregateByDomain(a.domain, SinceOf(a))
           counted == Counted(a.domain, SinceOf(a))
           key == BuildCacheKey(a.domain, SinceOf(a), config, stats)
           q == [task[r] EXCEPT !.asked = a, !.arrived = clock, !.config = config,
                                !.stats = stats, !.counted = counted, !.key = key]
<1>2. task' = [task EXCEPT ![r] = q]
  BY <1>1
<1> HIDE DEF stats, counted, key
<1>3. HasTheFields(q) /\ q.id = task[r].id /\ q.report = task[r].report
  <2> DEFINE old == task[r]
  <2>1. old \in [asked : {old.asked}, arrived : {old.arrived}, config : {old.config},
                 key : {old.key}, stats : {old.stats}, counted : {old.counted},
                 seen : {old.seen}, evidence : {old.evidence}, report : {old.report},
                 hit : {old.hit}, id : {old.id}]
    BY DEF Shaped, HasTheFields
  <2> HIDE DEF old
  <2>2. q = [old EXCEPT !.asked = a, !.arrived = clock, !.config = config,
                        !.stats = stats, !.counted = counted, !.key = key]
    BY DEF old
  <2> HIDE DEF q
  <2>3. /\ q.asked = a /\ q.arrived = clock /\ q.config = config /\ q.stats = stats
        /\ q.counted = counted /\ q.key = key /\ q.seen = old.seen
        /\ q.evidence = old.evidence /\ q.report = old.report /\ q.hit = old.hit
        /\ q.id = old.id
    BY <2>1, <2>2
  <2>4. HasTheFields(q)
    BY <2>1, <2>2, <2>3 DEF HasTheFields
  <2> QED  BY <2>3, <2>4 DEF old
<1> HIDE DEF q
<1> QED  BY <1>2, <1>3 DEF Aggregate, Goto, tables

\* What a report is made of when it is filled in.
LEMMA ReportLemma ==
    ASSUME NEW key, NEW t, NEW r, NEW p, NEW asked
    PROVE  LET made == Made(r, p, asked)
               row == NewReport(key, t, made)
           IN /\ made.by = p /\ made.asked = asked /\ made.evidence = task[r].evidence
              /\ row.made = made /\ row.provider = p /\ row.model = asked.model
              /\ \A x, y : [row EXCEPT !.provider = x, !.model = y].made = made
  BY DEF Made, NewReport

\* The seven kinds of steps a request takes, in terms of what the invariant is
\* about.
Moves(r, q, label) ==
    task' = [task EXCEPT ![r] = q] /\ pc' = [pc EXCEPT ![r] = label] /\ HasTheFields(q)

GoesOn(r, q, label) ==
    /\ Moves(r, q, label) /\ UNCHANGED tables
    /\ label \notin {"save", "link", "done"}
    /\ q.id \in {0, task[r].id} /\ q.report \in {task[r].report, NoReport}

IsGivenARow(r, q, label) ==
    /\ Moves(r, q, label) /\ UNCHANGED tables
    /\ label = "done" /\ q.hit = TRUE /\ q.id = task[r].id /\ q.report \in Rows

HasAReport(r, q, label) ==
    /\ Moves(r, q, label) /\ UNCHANGED tables
    /\ label = "save" /\ q.id = task[r].id
    /\ q.report.made.evidence = q.evidence

Saves(r, q, label) ==
    /\ Moves(r, q, label) /\ UNCHANGED links
    /\ pc[r] = "save" /\ label = IF q.evidence = {} THEN "done" ELSE "link"
    /\ summaries' = Append(summaries, task[r].report) /\ q.id = Len(summaries) + 1
    /\ q.report = task[r].report /\ q.evidence = task[r].evidence

LinksItsRow(r, q, label) ==
    /\ Moves(r, q, label) /\ UNCHANGED summaries
    /\ pc[r] = "link" /\ label = "done" /\ q = task[r]
    /\ links' = links \cup ({task[r].id} \X task[r].evidence)

\* The two failures that leave what was written.
LeavesARow(r, q, label) ==
    /\ Moves(r, q, label) /\ UNCHANGED links
    /\ pc[r] = "save" /\ label = "failed" /\ q = NoTask
    /\ summaries' = Append(summaries, task[r].report)

LeavesLinks(r, q, label) ==
    /\ Moves(r, q, label) /\ UNCHANGED summaries
    /\ pc[r] = "link" /\ label = "failed" /\ q = NoTask
    /\ links' = links \cup ({task[r].id} \X task[r].evidence)

StepOf(r, q, label) ==
    \/ GoesOn(r, q, label) \/ IsGivenARow(r, q, label) \/ HasAReport(r, q, label)
    \/ Saves(r, q, label) \/ LinksItsRow(r, q, label)
    \/ LeavesARow(r, q, label) \/ LeavesLinks(r, q, label)

LEMMA FailsLemma ==
    ASSUME Shaped, NEW r \in Requests, Goto(r, "failed"), Forget({r})
    PROVE  /\ Moves(r, NoTask, "failed")
           /\ UNCHANGED tables => GoesOn(r, NoTask, "failed")
<1>1. task' = [task EXCEPT ![r] = NoTask]
  BY DEF Forget, Shaped
<1> QED  BY <1>1, NoTaskHasTheFields DEF GoesOn, Moves, Goto

LEMMA AnswerLemma ==
    ASSUME Shaped, NEW r \in Requests, NEW resp, Answer(r, resp), UNCHANGED tables
    PROVE  \E q : HasAReport(r, q, "save")
<1> DEFINE made == Made(r, resp.provider, resp.asked)
           report == NewReport(task[r].key, clock, made)
           q == [task[r] EXCEPT !.report = report]
<1>1. HasTheFields(task[r])
  BY DEF Shaped
<1>2. HasTheFields(q) /\ q.report = report /\ q.id = task[r].id /\ q.evidence = task[r].evidence
  BY <1>1 DEF HasTheFields
<1>3. report.made.evidence = task[r].evidence
  BY ReportLemma
<1>4. task' = [task EXCEPT ![r] = q] /\ pc' = [pc EXCEPT ![r] = "save"]
  BY DEF Answer, Goto
<1> HIDE DEF q, report
<1> QED  BY <1>2, <1>3, <1>4 DEF HasAReport, Moves

LEMMA LookupLemma ==
    ASSUME Shaped, NEW r \in Requests, Lookup(r)
    PROVE  \E q, label : StepOf(r, q, label)
<1> DEFINE seen == Len(summaries)
           made == Made(r, Nobody, NotAsked)
           empty == [NewReport(task[r].key, clock, made)
                        EXCEPT !.provider = task[r].key.provider, !.model = task[r].key.model]
<1>1. HasTheFields(task[r]) /\ UNCHANGED tables
  BY DEF Shaped, Lookup, tables
<1>2. ASSUME NEW i \in LatestSummary(task[r].key),
             task' = [task EXCEPT ![r] = [@ EXCEPT
                          !.report = summaries[i], !.hit = TRUE, !.seen = seen]],
             Goto(r, "done")
      PROVE  \E q : IsGivenARow(r, q, "done")
  <2> DEFINE q == [task[r] EXCEPT !.report = summaries[i], !.hit = TRUE, !.seen = seen]
  <2>1. HasTheFields(q) /\ q.report = summaries[i] /\ q.hit = TRUE /\ q.id = task[r].id
    BY <1>1 DEF HasTheFields
  <2>2. summaries[i] \in Rows
    BY DEF LatestSummary, Rows
  <2>3. task' = [task EXCEPT ![r] = q]
    BY <1>2
  <2> HIDE DEF q
  <2> QED  BY <1>1, <1>2, <2>1, <2>2, <2>3 DEF IsGivenARow, Moves, Goto
<1>3. ASSUME task' = [task EXCEPT ![r].seen = seen], Goto(r, "evidence")
      PROVE  \E q : GoesOn(r, q, "evidence")
  <2> DEFINE q == [task[r] EXCEPT !.seen = seen]
  <2>1. HasTheFields(q) /\ q.report = task[r].report /\ q.id = task[r].id
    BY <1>1 DEF HasTheFields
  <2>2. task' = [task EXCEPT ![r] = q]
    BY <1>3
  <2> HIDE DEF q
  <2> QED  BY <1>1, <1>3, <2>1, <2>2 DEF GoesOn, Moves, Goto
<1>4. ASSUME task' = [task EXCEPT ![r] = [@ EXCEPT !.seen = seen, !.report = empty]],
             Goto(r, "save")
      PROVE  \E q : HasAReport(r, q, "save")
  <2> DEFINE q == [task[r] EXCEPT !.seen = seen, !.report = empty]
  <2>1. HasTheFields(q) /\ q.report = empty /\ q.id = task[r].id /\ q.evidence = task[r].evidence
    BY <1>1 DEF HasTheFields
  <2>2. empty.made = made /\ made.evidence = task[r].evidence
    BY ReportLemma
  <2>3. task' = [task EXCEPT ![r] = q]
    BY <1>4
  <2> HIDE DEF q, empty, made
  <2> QED  BY <1>1, <1>4, <2>1, <2>2, <2>3 DEF HasAReport, Moves, Goto
<1> QED  BY <1>2, <1>3, <1>4 DEF Lookup, StepOf

LEMMA SummarizeSteps ==
    ASSUME Shaped, NEW r \in Requests, Summarize(r)
    PROVE  \E q, label : StepOf(r, q, label)
<1>0. HasTheFields(task[r])
  BY DEF Shaped
<1>1. CASE Aggregate(r)
  BY <1>1, AggregateLemma DEF StepOf, GoesOn, Moves
<1>2. CASE Lookup(r)
  BY <1>2, LookupLemma
<1>3. CASE LoadEvidence(r)
  <2>1. PICK E : task' = [task EXCEPT ![r].evidence = E]
    BY <1>3 DEF LoadEvidence
  <2> DEFINE q == [task[r] EXCEPT !.evidence = E]
  <2>2. HasTheFields(q) /\ q.report = task[r].report /\ q.id = task[r].id
    BY <1>0 DEF HasTheFields
  <2>3. task' = [task EXCEPT ![r] = q]
    BY <2>1
  <2> HIDE DEF q
  <2> QED  BY <1>3, <2>2, <2>3 DEF LoadEvidence, Goto, tables, StepOf, GoesOn, Moves
<1>4. CASE CompletePrimary(r)
  <2>1. \/ \E resp : Answer(r, resp)
        \/ Goto(r, "fallback") /\ UNCHANGED task
        \/ Goto(r, "failed") /\ Forget({r})
    BY <1>4 DEF CompletePrimary
  <2>2. UNCHANGED tables
    BY <1>4 DEF CompletePrimary, tables
  <2>3. ASSUME Goto(r, "fallback"), UNCHANGED task
        PROVE  GoesOn(r, task[r], "fallback")
    <3>1. task' = [task EXCEPT ![r] = task[r]]
      BY <2>3 DEF Shaped
    <3> QED  BY <1>0, <2>2, <2>3, <3>1 DEF GoesOn, Moves, Goto
  <2> QED  BY <2>1, <2>2, <2>3, AnswerLemma, FailsLemma DEF StepOf
<1>5. CASE CompleteFallback(r)
  <2>1. (\E resp : Answer(r, resp)) \/ (Goto(r, "failed") /\ Forget({r}))
    BY <1>5 DEF CompleteFallback
  <2>2. UNCHANGED tables
    BY <1>5 DEF CompleteFallback, tables
  <2> QED  BY <2>1, <2>2, AnswerLemma, FailsLemma DEF StepOf
<1>6. CASE SaveSummary(r)
  <2> DEFINE q == [task[r] EXCEPT !.id = Len(summaries) + 1]
  <2>1. /\ HasTheFields(q) /\ q.report = task[r].report /\ q.id = Len(summaries) + 1
        /\ q.evidence = task[r].evidence
    BY <1>0 DEF HasTheFields
  <2>2. task' = [task EXCEPT ![r] = q]
    BY <1>6 DEF SaveSummary
  <2> HIDE DEF q
  <2>3. Saves(r, q, IF task[r].evidence = {} THEN "done" ELSE "link")
    BY <1>6, <2>1, <2>2 DEF SaveSummary, Saves, Moves, Goto
  <2> QED  BY <2>3 DEF StepOf
<1>7. CASE SaveSummaryEvidenceLinks(r)
  <2>1. task' = [task EXCEPT ![r] = task[r]]
    BY <1>7 DEF SaveSummaryEvidenceLinks, Shaped
  <2>2. LinksItsRow(r, task[r], "done")
    BY <1>0, <1>7, <2>1 DEF SaveSummaryEvidenceLinks, LinksItsRow, Moves, Goto
  <2> QED  BY <2>2 DEF StepOf
<1>8. CASE StatementFails(r)
  <2>1. Moves(r, NoTask, "failed") /\ (UNCHANGED tables => GoesOn(r, NoTask, "failed"))
    BY <1>8, FailsLemma DEF StatementFails
  <2>2. \/ UNCHANGED tables
        \/ pc[r] = "save" /\ summaries' = Append(summaries, task[r].report) /\ UNCHANGED links
        \/ /\ pc[r] = "link" /\ links' = links \cup ({task[r].id} \X task[r].evidence)
           /\ UNCHANGED summaries
    BY <1>8 DEF StatementFails
  <2>3. \/ GoesOn(r, NoTask, "failed") \/ LeavesARow(r, NoTask, "failed")
        \/ LeavesLinks(r, NoTask, "failed")
    BY <2>1, <2>2 DEF LeavesARow, LeavesLinks
  <2> QED  BY <2>3 DEF StepOf
<1> QED  BY <1>1, <1>2, <1>3, <1>4, <1>5, <1>6, <1>7, <1>8 DEF Summarize

\* A restart drops the local variables of the requests it loses and keeps the
\* tables.
LEMMA RestartLemma ==
    ASSUME Shaped, Restart
    PROVE  /\ UNCHANGED tables
           /\ \A r \in Requests :
                 \/ task'[r] = task[r] /\ pc'[r] = pc[r]
                 \/ task'[r] = NoTask /\ pc'[r] \in {"lost", "aggregate"}
           /\ DOMAIN task' = Requests /\ DOMAIN pc' = Requests
           /\ task' = [r \in Requests |-> task'[r]] /\ pc' = [r \in Requests |-> pc'[r]]
<1>1. task' = [r \in Requests |-> IF r \in {s \in Requests : pc[s] \in Working}
                                  THEN NoTask ELSE task[r]]
  BY DEF Restart, Forget
<1>2. pc' = [r \in Requests |-> IF pc[r] \in Working \ {"aggregate"} THEN "lost" ELSE pc[r]]
  BY DEF Restart
<1>3. UNCHANGED tables
  BY DEF Restart, tables
<1> QED  BY <1>1, <1>2, <1>3

-----------------------------------------------------------------------------
(* The parts of the inductive invariant.                                   *)

LEMMA ShapedStep ==
    ASSUME Shaped, NEW r \in Requests, NEW q, NEW label, StepOf(r, q, label)
    PROVE  Shaped'
<1>1. Moves(r, q, label)
  BY DEF StepOf, GoesOn, IsGivenARow, HasAReport, Saves, LinksItsRow, LeavesARow,
                LeavesLinks
<1>2. /\ DOMAIN task' = Requests /\ DOMAIN pc' = Requests
      /\ task' = [s \in Requests |-> task'[s]] /\ pc' = [s \in Requests |-> pc'[s]]
  BY <1>1, MoveLemma DEF Moves
<1>3. \A s \in Requests : HasTheFields(task'[s])
  <2>1. task'[r] = q /\ \A s \in Requests : s # r => task'[s] = task[s]
    BY <1>1, MoveLemma DEF Moves
  <2>2. HasTheFields(q)
    BY <1>1 DEF Moves
  <2>3. \A s \in Requests : HasTheFields(task[s])
    BY DEF Shaped
  <2> QED  BY <2>1, <2>2, <2>3
<1>4. summaries' \in Seq(Rows')
  <2>1. CASE UNCHANGED summaries
    BY <2>1 DEF Shaped, Rows
  <2>2. CASE summaries' = Append(summaries, task[r].report)
    BY <2>2, AppendLemma
  <2> QED  BY <2>1, <2>2 DEF StepOf, GoesOn, IsGivenARow, HasAReport, Saves, LinksItsRow,
                             LeavesARow, LeavesLinks, tables
<1> QED  BY <1>2, <1>3, <1>4 DEF Shaped, HasTheFields

LEMMA OwnStep ==
    ASSUME Shaped, OwnRow, NEW r \in Requests, NEW q, NEW label, StepOf(r, q, label)
    PROVE  OwnRow'
<1>1. Moves(r, q, label)
  BY DEF StepOf, GoesOn, IsGivenARow, HasAReport, Saves, LinksItsRow, LeavesARow,
                LeavesLinks
<1>2. /\ task'[r] = q /\ pc'[r] = label
      /\ \A s \in Requests : s # r => task'[s] = task[s] /\ pc'[s] = pc[s]
  BY <1>1, MoveLemma DEF Moves
<1>3. Len(summaries) \in Nat /\ DOMAIN summaries = 1..Len(summaries)
  BY DEF Shaped
<1>4. /\ \A l \in links : l[1] \in DOMAIN summaries
      /\ \A s \in Requests : task[s].id \in 0..Len(summaries)
      /\ \A s, t \in Requests : task[s].id = task[t].id /\ task[s].id # 0 => s = t
      /\ \A s \in Requests : pc[s] = "save" => task[s].report.made.evidence = task[s].evidence
      /\ \A s \in Requests :
            pc[s] = "link" => /\ task[s].id # 0
                              /\ summaries[task[s].id].made.evidence = task[s].evidence
      /\ \A s \in Requests : pc[s] = "done" /\ ~task[s].hit => task[s].id # 0
  BY DEF OwnRow
<1>5. CASE GoesOn(r, q, label)
  <2>1. /\ UNCHANGED <<summaries, links>> /\ label \notin {"save", "link", "done"}
        /\ q.id \in {0, task[r].id}
    BY <1>5 DEF GoesOn, tables
  <2> QED  BY <1>2, <1>3, <1>4, <2>1 DEF OwnRow
<1>6. CASE IsGivenARow(r, q, label)
  <2>1. UNCHANGED <<summaries, links>> /\ label = "done" /\ q.hit = TRUE /\ q.id = task[r].id
    BY <1>6 DEF IsGivenARow, tables
  <2> QED  BY <1>2, <1>3, <1>4, <2>1 DEF OwnRow
<1>7. CASE HasAReport(r, q, label)
  <2>1. /\ UNCHANGED <<summaries, links>> /\ label = "save" /\ q.id = task[r].id
        /\ q.report.made.evidence = q.evidence
    BY <1>7 DEF HasAReport, tables
  <2> QED  BY <1>2, <1>3, <1>4, <2>1 DEF OwnRow
<1>8. CASE Saves(r, q, label)
  <2>1. /\ UNCHANGED links /\ label \in {"done", "link"} /\ pc[r] = "save"
        /\ summaries' = Append(summaries, task[r].report)
        /\ q.id = Len(summaries) + 1 /\ q.evidence = task[r].evidence
    BY <1>8 DEF Saves
  <2>2. /\ DOMAIN summaries' = 1..(Len(summaries) + 1) /\ Len(summaries') = Len(summaries) + 1
        /\ \A i \in DOMAIN summaries : summaries'[i] = summaries[i]
        /\ summaries'[Len(summaries) + 1] = task[r].report
    BY <2>1, AppendLemma
  <2>3. \A l \in links' : l[1] \in DOMAIN summaries'
    BY <1>3, <1>4, <2>1, <2>2
  <2>4. \A s \in Requests : task'[s].id \in 0..Len(summaries')
    BY <1>2, <1>3, <1>4, <2>1, <2>2
  <2>5. \A s, t \in Requests : task'[s].id = task'[t].id /\ task'[s].id # 0 => s = t
    BY <1>2, <1>3, <1>4, <2>1
  <2>6. \A s \in Requests : pc'[s] = "save" => task'[s].report.made.evidence = task'[s].evidence
    BY <1>2, <1>4, <2>1
  <2>7. \A s \in Requests :
           pc'[s] = "link" => /\ task'[s].id # 0
                              /\ summaries'[task'[s].id].made.evidence = task'[s].evidence
    <3>1. task[r].report.made.evidence = task[r].evidence
      BY <1>4, <2>1
    <3> QED  BY <1>2, <1>3, <1>4, <2>1, <2>2, <3>1
  <2>8. \A s \in Requests : pc'[s] = "done" /\ ~task'[s].hit => task'[s].id # 0
    BY <1>2, <1>3, <1>4, <2>1
  <2> QED  BY <2>3, <2>4, <2>5, <2>6, <2>7, <2>8 DEF OwnRow
<1>9. CASE LinksItsRow(r, q, label)
  <2>1. /\ UNCHANGED summaries /\ pc[r] = "link" /\ label = "done" /\ q = task[r]
        /\ links' = links \cup ({task[r].id} \X task[r].evidence)
    BY <1>9 DEF LinksItsRow
  <2>2. task[r].id \in DOMAIN summaries
    BY <1>3, <1>4, <2>1
  <2>3. \A l \in links' : l[1] \in DOMAIN summaries'
    BY <1>4, <2>1, <2>2
  <2> QED  BY <1>2, <1>3, <1>4, <2>1, <2>3 DEF OwnRow
<1>10. CASE LeavesARow(r, q, label)
  <2>1. /\ UNCHANGED links /\ label = "failed" /\ q.id = 0
        /\ summaries' = Append(summaries, task[r].report)
    BY <1>10, NoTaskHasTheFields DEF LeavesARow
  <2>2. /\ DOMAIN summaries' = 1..(Len(summaries) + 1) /\ Len(summaries') = Len(summaries) + 1
        /\ \A i \in DOMAIN summaries : summaries'[i] = summaries[i]
    BY <2>1, AppendLemma
  <2>3. \A l \in links' : l[1] \in DOMAIN summaries'
    BY <1>3, <1>4, <2>1, <2>2
  <2>4. \A s \in Requests : task'[s].id \in 0..Len(summaries')
    BY <1>2, <1>3, <1>4, <2>1, <2>2
  <2>5. \A s, t \in Requests : task'[s].id = task'[t].id /\ task'[s].id # 0 => s = t
    BY <1>2, <1>4, <2>1
  <2>6. \A s \in Requests :
           pc'[s] = "link" => /\ task'[s].id # 0
                              /\ summaries'[task'[s].id].made.evidence = task'[s].evidence
    BY <1>2, <1>3, <1>4, <2>1, <2>2
  <2> QED  BY <1>2, <1>4, <2>1, <2>3, <2>4, <2>5, <2>6 DEF OwnRow
<1>11. CASE LeavesLinks(r, q, label)
  <2>1. /\ UNCHANGED summaries /\ pc[r] = "link" /\ label = "failed" /\ q.id = 0
        /\ links' = links \cup ({task[r].id} \X task[r].evidence)
    BY <1>11, NoTaskHasTheFields DEF LeavesLinks
  <2>2. task[r].id \in DOMAIN summaries
    BY <1>3, <1>4, <2>1
  <2>3. \A l \in links' : l[1] \in DOMAIN summaries'
    BY <1>4, <2>1, <2>2
  <2> QED  BY <1>2, <1>3, <1>4, <2>1, <2>3 DEF OwnRow
<1> QED  BY <1>5, <1>6, <1>7, <1>8, <1>9, <1>10, <1>11 DEF StepOf

LEMMA LinksStep ==
    ASSUME Shaped, OwnRow, LinksBackTheSummary,
           NEW r \in Requests, NEW q, NEW label, StepOf(r, q, label)
    PROVE  LinksBackTheSummary'
<1> DEFINE Linked(i) == {l[2] : l \in {k \in links' : k[1] = i}}
<1>0. ASSUME /\ \A i \in DOMAIN summaries' : Linked(i) \in {{}, summaries'[i].made.evidence}
             /\ \A s \in Requests :
                   pc'[s] = "done" /\ ~task'[s].hit => Linked(task'[s].id) = task'[s].evidence
      PROVE  LinksBackTheSummary'
  BY <1>0 DEF LinksBackTheSummary, LinkedTo
<1> HIDE DEF Linked
<1>1. Moves(r, q, label)
  BY DEF StepOf, GoesOn, IsGivenARow, HasAReport, Saves, LinksItsRow, LeavesARow,
                LeavesLinks
<1>2. /\ task'[r] = q /\ pc'[r] = label
      /\ \A s \in Requests : s # r => task'[s] = task[s] /\ pc'[s] = pc[s]
  BY <1>1, MoveLemma DEF Moves
<1>3. Len(summaries) \in Nat /\ DOMAIN summaries = 1..Len(summaries)
  BY DEF Shaped
<1>4. /\ \A i \in DOMAIN summaries : LinkedTo(i) \in {{}, summaries[i].made.evidence}
      /\ \A s \in Requests :
            pc[s] = "done" /\ ~task[s].hit => LinkedTo(task[s].id) = task[s].evidence
  BY DEF LinksBackTheSummary
<1>5. CASE UNCHANGED <<summaries, links>> /\ (label = "done" => q.hit = TRUE)
  <2>1. \A i : Linked(i) = LinkedTo(i)
    BY <1>5 DEF LinkedTo, Linked
  <2>2. \A i \in DOMAIN summaries' : Linked(i) \in {{}, summaries'[i].made.evidence}
    BY <1>4, <1>5, <2>1
  <2>3. \A s \in Requests :
           pc'[s] = "done" /\ ~task'[s].hit => Linked(task'[s].id) = task'[s].evidence
    BY <1>2, <1>4, <1>5, <2>1
  <2> QED  BY <1>0, <2>2, <2>3
<1>6. CASE Saves(r, q, label) \/ LeavesARow(r, q, label)
  <2>1. /\ UNCHANGED links
        /\ summaries' = Append(summaries, task[r].report)
        /\ label = "done" => q.evidence = {} /\ q.id = Len(summaries) + 1
    BY <1>6 DEF Saves, LeavesARow
  <2>2. /\ DOMAIN summaries' = 1..(Len(summaries) + 1)
        /\ \A i \in DOMAIN summaries : summaries'[i] = summaries[i]
    BY <2>1, AppendLemma
  <2>3. \A i : Linked(i) = LinkedTo(i)
    BY <2>1 DEF LinkedTo, Linked
  <2>4. LinkedTo(Len(summaries) + 1) = {}
    <3>1. \A l \in links : l[1] \in 1..Len(summaries)
      BY <1>3 DEF OwnRow
    <3>2. \A l \in links : l[1] # Len(summaries) + 1
      BY <1>3, <3>1
    <3> QED  BY <3>2 DEF LinkedTo
  <2>5. \A i \in DOMAIN summaries' : Linked(i) \in {{}, summaries'[i].made.evidence}
    BY <1>3, <1>4, <2>2, <2>3, <2>4
  <2>6. \A s \in Requests :
           pc'[s] = "done" /\ ~task'[s].hit => Linked(task'[s].id) = task'[s].evidence
    <3>1. CASE label = "done"
      <4>1. LinkedTo(task'[r].id) = {} /\ task'[r].evidence = {}
        BY <1>2, <2>1, <2>4, <3>1
      <4> QED  BY <1>2, <1>4, <2>3, <4>1
    <3>2. CASE label # "done"
      BY <1>2, <1>4, <2>3, <3>2
    <3> QED  BY <3>1, <3>2
  <2> QED  BY <1>0, <2>5, <2>6
<1>7. CASE LinksItsRow(r, q, label) \/ LeavesLinks(r, q, label)
  <2>0. PICK id, E : id = task[r].id /\ E = task[r].evidence
    OBVIOUS
  <2>1. /\ UNCHANGED summaries /\ pc[r] = "link" /\ (label = "done" => q = task[r])
        /\ links' = links \cup ({id} \X E)
    BY <1>7, <2>0 DEF LinksItsRow, LeavesLinks
  <2>2. id # 0 /\ id \in DOMAIN summaries /\ summaries[id].made.evidence = E
    BY <1>3, <2>0, <2>1 DEF OwnRow
  <2>3. \A i : i # id => Linked(i) = LinkedTo(i)
    <3>1. \A i, l : i # id /\ l[1] = i => (l \in links' <=> l \in links)
      BY <2>1
    <3> QED  BY <3>1 DEF LinkedTo, Linked
  <2>4. Linked(id) = E
    <3>1. Linked(id) = LinkedTo(id) \cup E
      <4>1. ASSUME NEW x \in Linked(id)
            PROVE  x \in LinkedTo(id) \cup E
        <5>1. PICK l \in links' : l[1] = id /\ l[2] = x
          BY <4>1 DEF Linked
        <5>2. CASE l \in links
          BY <5>1, <5>2 DEF LinkedTo
        <5>3. CASE l \in {id} \X E
          BY <5>1, <5>3
        <5> QED  BY <2>1, <5>1, <5>2, <5>3
      <4>2. ASSUME NEW x \in LinkedTo(id)
            PROVE  x \in Linked(id)
        BY <2>1, <4>2 DEF LinkedTo, Linked
      <4>3. ASSUME NEW x \in E
            PROVE  x \in Linked(id)
        <5>1. <<id, x>> \in links' /\ <<id, x>>[1] = id /\ <<id, x>>[2] = x
          BY <2>1, <4>3
        <5> QED  BY <5>1 DEF Linked
      <4> QED  BY <4>1, <4>2, <4>3
    <3>2. LinkedTo(id) \in {{}, E}
      BY <1>4, <2>2
    <3> QED  BY <3>1, <3>2
  <2>5. \A i \in DOMAIN summaries' : Linked(i) \in {{}, summaries'[i].made.evidence}
    BY <1>4, <2>1, <2>2, <2>3, <2>4
  <2>6. \A s \in Requests :
           pc'[s] = "done" /\ ~task'[s].hit => Linked(task'[s].id) = task'[s].evidence
    <3>1. label = "done" => task'[r].id = id /\ task'[r].evidence = E
      BY <1>2, <2>0, <2>1
    <3>2. \A s \in Requests : pc[s] = "done" /\ ~task[s].hit => task[s].id # id \/ s = r
      BY <2>0, <2>2 DEF OwnRow
    <3> QED  BY <1>2, <1>4, <2>3, <2>4, <3>1, <3>2
  <2> QED  BY <1>0, <2>5, <2>6
<1>8. (GoesOn(r, q, label) \/ IsGivenARow(r, q, label) \/ HasAReport(r, q, label))
         => UNCHANGED <<summaries, links>> /\ (label = "done" => q.hit = TRUE)
  BY DEF GoesOn, IsGivenARow, HasAReport, tables
<1> QED  BY <1>5, <1>6, <1>7, <1>8 DEF StepOf

\* Events, time and a restart leave the tables and what the requests know.
LEMMA AroundLemma ==
    ASSUME IInv, StoreEvent \/ Tick \/ Restart \/ UNCHANGED vars
    PROVE  IInv'
<1>1. /\ UNCHANGED <<summaries, links>>
      /\ \A r \in Requests :
            \/ task'[r] = task[r] /\ pc'[r] = pc[r]
            \/ task'[r] = NoTask /\ pc'[r] \in {"lost", "aggregate"}
      /\ DOMAIN task' = Requests /\ DOMAIN pc' = Requests
      /\ task' = [r \in Requests |-> task'[r]] /\ pc' = [r \in Requests |-> pc'[r]]
  <2>1. CASE Restart
    BY <2>1, RestartLemma DEF IInv, tables
  <2>2. CASE StoreEvent \/ Tick \/ UNCHANGED vars
    <3>1. UNCHANGED <<summaries, links, pc, task>>
      BY <2>2 DEF StoreEvent, Tick, vars, tables
    <3> QED  BY <3>1 DEF IInv, Shaped
  <2> QED  BY <2>1, <2>2
<1>2. HasTheFields(NoTask) /\ NoTask.id = 0
  BY NoTaskHasTheFields
<1>3. Shaped'
  <2>1. \A r \in Requests : HasTheFields(task'[r])
    BY <1>1, <1>2 DEF IInv, Shaped
  <2> QED  BY <1>1, <2>1 DEF IInv, Shaped, Rows, HasTheFields
<1>5. OwnRow'
  <2>1. Len(summaries) \in Nat
    BY DEF IInv, Shaped
  <2>2. \A r \in Requests : task'[r].id = task[r].id \/ task'[r].id = 0
    BY <1>1, <1>2
  <2> QED  BY <1>1, <1>2, <2>1, <2>2 DEF IInv, OwnRow
<1>6. LinksBackTheSummary'
  <2>1. \A r \in Requests :
           pc'[r] = "done" => task'[r] = task[r] /\ pc[r] = "done"
    BY <1>1
  <2>2. /\ \A i \in DOMAIN summaries : LinkedTo(i) \in {{}, summaries[i].made.evidence}
        /\ \A r \in Requests :
              pc[r] = "done" /\ ~task[r].hit => LinkedTo(task[r].id) = task[r].evidence
    BY DEF IInv, LinksBackTheSummary
  <2> DEFINE Linked(i) == {l[2] : l \in {k \in links' : k[1] = i}}
  <2>3. \A i : Linked(i) = LinkedTo(i)
    BY <1>1 DEF LinkedTo
  <2>4. /\ \A i \in DOMAIN summaries' : Linked(i) \in {{}, summaries'[i].made.evidence}
        /\ \A r \in Requests :
              pc'[r] = "done" /\ ~task'[r].hit => Linked(task'[r].id) = task'[r].evidence
    <3> HIDE DEF Linked
    <3> QED  BY <1>1, <2>1, <2>2, <2>3
  <2> QED  BY <2>4 DEF LinksBackTheSummary, LinkedTo
<1> QED  BY <1>3, <1>5, <1>6 DEF IInv

LEMMA InitInductive == Init => IInv
<1> SUFFICES ASSUME Init PROVE IInv
  OBVIOUS
<1>1. PICK old \in OldSummaries : summaries = runMigrations(old)
  BY DEF Init
<1>2. DOMAIN old = 1..Len(old) /\ Len(old) \in Nat
  BY SummaryAssumption
<1>3. /\ DOMAIN summaries = 1..Len(old)
      /\ summaries = [i \in 1..Len(old) |-> summaries[i]]
  BY <1>1, <1>2 DEF runMigrations
<1>4. summaries \in Seq(Rows)
  BY <1>2, <1>3, IsASeq DEF Rows
<1>5. /\ task = [r \in Requests |-> NoTask] /\ pc = [r \in Requests |-> "aggregate"]
      /\ links = {}
  BY DEF Init
<1>6. Shaped
  BY <1>4, <1>5, NoTaskHasTheFields DEF Shaped
<1>8. OwnRow
  <2>1. Len(summaries) \in Nat
    BY <1>4
  <2> QED  BY <1>5, <2>1, NoTaskHasTheFields DEF OwnRow
<1>9. LinksBackTheSummary
  BY <1>5 DEF LinksBackTheSummary, LinkedTo
<1> QED  BY <1>6, <1>8, <1>9 DEF IInv

LEMMA NextInductive == IInv /\ [Next]_vars => IInv'
<1> SUFFICES ASSUME IInv, [Next]_vars PROVE IInv'
  OBVIOUS
<1>1. ASSUME NEW r \in Requests, Summarize(r)
      PROVE  IInv'
  <2>1. PICK q, label : StepOf(r, q, label)
    BY <1>1, SummarizeSteps DEF IInv
  <2> QED  BY <2>1, ShapedStep, OwnStep, LinksStep DEF IInv
<1> QED  BY <1>1, AroundLemma DEF Next

-----------------------------------------------------------------------------
(* The theorems.                                                           *)

\* Every reachable state satisfies the inductive invariant.
THEOREM Invariance == Spec => []IInv
<1>1. Init => IInv
  BY InitInductive
<1>2. IInv /\ [Next]_vars => IInv'
  BY NextInductive
<1> QED  BY <1>1, <1>2, PTL DEF Spec

\* storer.go:434-492, service.go:170-190: a summary is linked to all of the events
\* its prompt listed or to none, also when two requests save at the same time,
\* a save fails, or the process restarts between the save and the links.
THEOREM LinksAreWhole == Spec => []LinksBackTheSummary
<1>1. IInv => LinksBackTheSummary
  BY DEF IInv
<1> QED  BY <1>1, Invariance, PTL

-----------------------------------------------------------------------------
(* The second invariant: what a request has read and what a row was made   *)
(* from.                                                                   *)

\* handleGetSummary's window for a request that arrived then.
WindowFor(since, arrived) ==
    IF since # NoSince THEN since ELSE (arrived \div Hour) * Hour - Window

Keyed(q) ==
    q.key = BuildCacheKey(q.asked.domain, WindowFor(q.asked.since, q.arrived), q.config, q.stats)

\* From the statistics to the end a request runs under one configuration: a
\* restart, which reads another, loses it.
RequestsAreKeyed ==
    /\ clock \in Int /\ Start <= clock
    /\ config \in Configs /\ stored \subseteq Events
    /\ \A r \in Requests :
          pc[r] \in Working \ {"aggregate"} =>
              /\ Keyed(task[r]) /\ task[r].config = config
              /\ task[r].arrived \in Int /\ task[r].arrived <= clock
    /\ \A r \in Requests :
          pc[r] \in {"lookup", "evidence"} =>
              task[r].counted \subseteq Counted(task[r].asked.domain, task[r].key.window_from)

\* The columns of a row tell what its content was made from, unless the row is
\* older than the columns.
TellsItsOrigin(row) ==
    row.provider # None =>
        /\ row.created_at \in Int /\ row.created_at <= clock
        /\ row.made.since = row.window_from
        /\ row.made.byDefault => row.window_from = WindowFor(NoSince, row.made.arrived)
        /\ \E c \in Configs :
              /\ row.input_hash = ComputeInputHash(row.made.stats, c.temperature, c.maxTokens)
              /\ row.made.stats # {} =>
                    /\ row.made.by = row.provider
                    /\ row.made.asked = Sent(row.provider, CompletionRequest(c))
                    /\ row.model = row.made.asked.model /\ row.model # None

RowsTellTheirOrigin ==
    /\ \A i \in DOMAIN summaries : TellsItsOrigin(summaries[i])
    /\ \A r \in Requests : pc[r] = "save" => TellsItsOrigin(task[r].report)

OnlyFinishedWithARow == \A r \in Requests : task[r].hit => pc[r] = "done"

\* Where the misses of the table are.
SeenIsSaved == \A r \in Requests : task[r].seen \in 0..Len(summaries)

KInv ==
    /\ RequestsAreKeyed /\ RowsTellTheirOrigin /\ OnlyFinishedWithARow /\ SeenIsSaved
    /\ CachedAnswersFitTheRequest /\ EvidenceCoversTheStatistics

-----------------------------------------------------------------------------
(* What each step of a request does to what the second invariant is about. *)

\* The request keeps what it was asked and has read, and its outcome so far.
Keeps(r) ==
    LET q == task'[r]
        t == task[r]
    IN /\ q.asked = t.asked /\ q.arrived = t.arrived /\ q.config = t.config
       /\ q.key = t.key /\ q.stats = t.stats /\ q.counted = t.counted /\ q.hit = t.hit

KeepsEvidence(r) == task'[r].evidence = task[r].evidence /\ task'[r].seen = task[r].seen

Counts(r) ==
    /\ pc[r] = "aggregate" /\ pc'[r] = "lookup" /\ UNCHANGED summaries
    /\ task'[r].hit = task[r].hit /\ task'[r].seen = task[r].seen
    /\ \E a \in Queries :
          LET stats == AggregateByDomain(a.domain, SinceOf(a)) IN
          /\ task'[r].asked = a /\ task'[r].arrived = clock /\ task'[r].config = config
          /\ task'[r].stats = stats /\ task'[r].counted = Counted(a.domain, SinceOf(a))
          /\ task'[r].key = BuildCacheKey(a.domain, SinceOf(a), config, stats)

Finds(r) ==
    /\ pc[r] = "lookup" /\ pc'[r] = "done" /\ UNCHANGED summaries
    /\ LET q == task'[r]
           t == task[r]
       IN /\ q.asked = t.asked /\ q.config = t.config /\ q.key = t.key /\ q.stats = t.stats
          /\ q.seen = Len(summaries)
          /\ \E i \in LatestSummary(t.key) : q.report = summaries[i]

Misses(r) ==
    /\ pc[r] = "lookup" /\ pc'[r] = "evidence" /\ UNCHANGED summaries
    /\ Keeps(r) /\ task'[r].seen = Len(summaries) /\ LatestSummary(task[r].key) = {}

HasNothingToAsk(r) ==
    /\ pc[r] = "lookup" /\ pc'[r] = "save" /\ UNCHANGED summaries
    /\ Keeps(r) /\ task'[r].seen = Len(summaries) /\ task[r].stats = {}
    /\ LET made == Made(r, Nobody, NotAsked) IN
       task'[r].report = [NewReport(task[r].key, clock, made)
                            EXCEPT !.provider = task[r].key.provider, !.model = task[r].key.model]

ListsEvidence(r) ==
    /\ pc[r] = "evidence" /\ pc'[r] = "complete" /\ UNCHANGED summaries
    /\ Keeps(r) /\ task'[r].seen = task[r].seen
    /\ task'[r].evidence \in
           ListSummaryEvidence(task[r].asked.domain, task[r].key.window_from)

IsAnswered(r) ==
    /\ pc[r] \in {"complete", "fallback"} /\ pc'[r] = "save" /\ UNCHANGED summaries
    /\ Keeps(r) /\ KeepsEvidence(r)
    /\ \E p : LET asked == Sent(p, CompletionRequest(config)) IN
             /\ asked.model # None
             /\ task'[r].report = NewReport(task[r].key, clock, Made(r, p, asked))

Continues(r) ==
    /\ <<pc[r], pc'[r]>> \in {<<"complete", "fallback">>, <<"link", "done">>}
    /\ UNCHANGED summaries /\ Keeps(r) /\ KeepsEvidence(r)

SavesItsReport(r) ==
    /\ pc[r] = "save" /\ pc'[r] \in {"done", "link"}
    /\ summaries' = Append(summaries, task[r].report)
    /\ Keeps(r) /\ KeepsEvidence(r)

Fails(r) == pc'[r] = "failed" /\ task'[r] = NoTask /\ UNCHANGED summaries

FailsToSave(r) ==
    /\ pc[r] = "save" /\ pc'[r] = "failed" /\ task'[r] = NoTask
    /\ summaries' = Append(summaries, task[r].report)

KindOfStep(r) ==
    \/ Counts(r) \/ Finds(r) \/ Misses(r) \/ HasNothingToAsk(r) \/ ListsEvidence(r)
    \/ IsAnswered(r) \/ Continues(r) \/ SavesItsReport(r) \/ Fails(r)
    \/ FailsToSave(r)

LEMMA CountsLemma ==
    ASSUME Shaped, NEW r \in Requests, Aggregate(r)
    PROVE  Counts(r)
<1>1. PICK a \in Queries :
          LET since == SinceOf(a)
              stats == AggregateByDomain(a.domain, since)
          IN task' = [task EXCEPT ![r] = [@ EXCEPT
                        !.asked = a, !.arrived = clock, !.config = config,
                        !.stats = stats, !.counted = Counted(a.domain, since),
                        !.key = BuildCacheKey(a.domain, since, config, stats)]]
  BY DEF Aggregate
<1> DEFINE stats == AggregateByDomain(a.domain, SinceOf(a))
           counted == Counted(a.domain, SinceOf(a))
           key == BuildCacheKey(a.domain, SinceOf(a), config, stats)
           q == [task[r] EXCEPT !.asked = a, !.arrived = clock, !.config = config,
                                !.stats = stats, !.counted = counted, !.key = key]
<1>2. task' = [task EXCEPT ![r] = q]
  BY <1>1
<1>3. pc[r] = "aggregate" /\ pc' = [pc EXCEPT ![r] = "lookup"] /\ UNCHANGED summaries
  BY DEF Aggregate, Goto, tables
<1> HIDE DEF q
<1>4. task'[r] = q /\ pc'[r] = "lookup"
  BY <1>2, <1>3 DEF Shaped
<1>5. HasTheFields(task[r])
  BY DEF Shaped
<1> USE DEF q
<1> HIDE DEF stats, counted, key
<1>6. /\ q.asked = a /\ q.arrived = clock /\ q.config = config /\ q.stats = stats
      /\ q.counted = counted /\ q.key = key /\ q.hit = task[r].hit /\ q.seen = task[r].seen
  BY <1>5 DEF HasTheFields
<1> HIDE DEF q
<1> QED  BY <1>3, <1>4, <1>6 DEF Counts, stats, counted, key

\* The successor of one request after its local variables were updated.
LEMMA UpdateLemma ==
    ASSUME Shaped, NEW r \in Requests, NEW q, NEW label,
           task' = [task EXCEPT ![r] = q], Goto(r, label)
    PROVE  task'[r] = q /\ pc'[r] = label
  BY DEF Shaped, Goto

LEMMA LookupKinds ==
    ASSUME Shaped, NEW r \in Requests, Lookup(r)
    PROVE  Finds(r) \/ Misses(r) \/ HasNothingToAsk(r)
<1> DEFINE seen == Len(summaries)
           empty == [NewReport(task[r].key, clock, Made(r, Nobody, NotAsked))
                        EXCEPT !.provider = task[r].key.provider, !.model = task[r].key.model]
<1> HIDE DEF seen, empty
<1>1. HasTheFields(task[r]) /\ UNCHANGED summaries /\ pc[r] = "lookup"
  BY DEF Shaped, Lookup, tables
<1>2. ASSUME NEW i \in LatestSummary(task[r].key),
             task' = [task EXCEPT ![r] = [@ EXCEPT
                          !.report = summaries[i], !.hit = TRUE, !.seen = seen]],
             Goto(r, "done")
      PROVE  Finds(r)
  <2> DEFINE q == [task[r] EXCEPT !.report = summaries[i], !.hit = TRUE, !.seen = seen]
  <2>1. /\ q.asked = task[r].asked /\ q.config = task[r].config /\ q.key = task[r].key
        /\ q.stats = task[r].stats /\ q.seen = seen /\ q.report = summaries[i]
    BY <1>1 DEF HasTheFields
  <2>2. task' = [task EXCEPT ![r] = q]
    BY <1>2
  <2> HIDE DEF q
  <2>3. task'[r] = q /\ pc'[r] = "done"
    BY <1>2, <2>2, UpdateLemma
  <2> QED  BY <1>1, <2>1, <2>3 DEF Finds, seen
<1>3. ASSUME LatestSummary(task[r].key) = {},
             task' = [task EXCEPT ![r].seen = seen], Goto(r, "evidence")
      PROVE  Misses(r)
  <2> DEFINE q == [task[r] EXCEPT !.seen = seen]
  <2>1. /\ q.asked = task[r].asked /\ q.arrived = task[r].arrived
        /\ q.config = task[r].config /\ q.key = task[r].key /\ q.stats = task[r].stats
        /\ q.counted = task[r].counted /\ q.hit = task[r].hit /\ q.seen = seen
    BY <1>1 DEF HasTheFields
  <2>2. task' = [task EXCEPT ![r] = q]
    BY <1>3
  <2> HIDE DEF q
  <2>3. task'[r] = q /\ pc'[r] = "evidence"
    BY <1>3, <2>2, UpdateLemma
  <2> QED  BY <1>1, <1>3, <2>1, <2>3 DEF Misses, Keeps, seen
<1>4. ASSUME task[r].stats = {},
             task' = [task EXCEPT ![r] = [@ EXCEPT !.seen = seen, !.report = empty]],
             Goto(r, "save")
      PROVE  HasNothingToAsk(r)
  <2> DEFINE q == [task[r] EXCEPT !.seen = seen, !.report = empty]
  <2>1. /\ q.asked = task[r].asked /\ q.arrived = task[r].arrived
        /\ q.config = task[r].config /\ q.key = task[r].key /\ q.stats = task[r].stats
        /\ q.counted = task[r].counted /\ q.hit = task[r].hit /\ q.seen = seen
        /\ q.report = empty
    BY <1>1 DEF HasTheFields
  <2>2. task' = [task EXCEPT ![r] = q]
    BY <1>4
  <2> HIDE DEF q
  <2>3. task'[r] = q /\ pc'[r] = "save"
    BY <1>4, <2>2, UpdateLemma
  <2> QED  BY <1>1, <1>4, <2>1, <2>3 DEF HasNothingToAsk, Keeps, seen, empty
<1> QED  BY <1>2, <1>3, <1>4 DEF Lookup, seen, empty

LEMMA AnswersKind ==
    ASSUME Shaped, NEW r \in Requests, NEW p, NEW x,
           pc[r] \in {"complete", "fallback"}, UNCHANGED summaries,
           LET resp == Complete(p, CompletionRequest(config), x)
           IN resp.err = NoError /\ Answer(r, resp)
    PROVE  IsAnswered(r)
<1> DEFINE req == CompletionRequest(config)
           asked == Sent(p, req)
           report == NewReport(task[r].key, clock, Made(r, p, asked))
           q == [task[r] EXCEPT !.report = report]
<1>1. asked.model # None
  BY DEF Complete, CompleteError, NoError, ErrUnsupportedOperation
<1>2. task' = [task EXCEPT ![r] = q] /\ Goto(r, "save")
  BY DEF Answer, Complete
<1>3. HasTheFields(task[r])
  BY DEF Shaped
<1> HIDE DEF req, asked, report
<1>4. /\ q.asked = task[r].asked /\ q.arrived = task[r].arrived
      /\ q.config = task[r].config /\ q.key = task[r].key /\ q.stats = task[r].stats
      /\ q.counted = task[r].counted /\ q.hit = task[r].hit /\ q.seen = task[r].seen
      /\ q.evidence = task[r].evidence /\ q.report = report
  BY <1>3 DEF HasTheFields
<1> HIDE DEF q
<1>5. task'[r] = q /\ pc'[r] = "save"
  BY <1>2, UpdateLemma
<1>6. Keeps(r) /\ KeepsEvidence(r)
  BY <1>4, <1>5 DEF Keeps, KeepsEvidence
<1>7. task'[r].report = report
  BY <1>4, <1>5
<1> QED  BY <1>1, <1>5, <1>6, <1>7 DEF IsAnswered, report, asked, req

LEMMA FailsKind ==
    ASSUME Shaped, NEW r \in Requests, Goto(r, "failed"), Forget({r})
    PROVE  /\ pc'[r] = "failed" /\ task'[r] = NoTask
           /\ UNCHANGED summaries => Fails(r)
  BY DEF Goto, Forget, Shaped, Fails

\* Every step of a request is of one of the kinds, and touches no other
\* request, no event, and neither the clock nor the configuration.
LEMMA SummarizeKinds ==
    ASSUME Shaped, NEW r \in Requests, Summarize(r)
    PROVE  KindOfStep(r)
<1>0. HasTheFields(task[r])
  BY DEF Shaped
<1>1. CASE Aggregate(r)
  BY <1>1, CountsLemma DEF KindOfStep
<1>2. CASE Lookup(r)
  BY <1>2, LookupKinds DEF KindOfStep
<1>3. CASE LoadEvidence(r)
  <2>1. PICK E \in ListSummaryEvidence(task[r].asked.domain, task[r].key.window_from) :
             task' = [task EXCEPT ![r].evidence = E]
    BY <1>3 DEF LoadEvidence
  <2> DEFINE q == [task[r] EXCEPT !.evidence = E]
  <2>2. /\ q.asked = task[r].asked /\ q.arrived = task[r].arrived
        /\ q.config = task[r].config /\ q.key = task[r].key /\ q.stats = task[r].stats
        /\ q.counted = task[r].counted /\ q.hit = task[r].hit /\ q.seen = task[r].seen
        /\ q.evidence = E
    BY <1>0 DEF HasTheFields
  <2>3. task' = [task EXCEPT ![r] = q]
    BY <2>1
  <2> HIDE DEF q
  <2>4. pc[r] = "evidence" /\ Goto(r, "complete") /\ UNCHANGED summaries
    BY <1>3 DEF LoadEvidence, tables
  <2>5. task'[r] = q /\ pc'[r] = "complete"
    BY <2>3, <2>4, UpdateLemma
  <2>6. ListsEvidence(r)
    BY <2>1, <2>2, <2>4, <2>5 DEF ListsEvidence, Keeps
  <2> QED  BY <2>6 DEF KindOfStep
<1>4. CASE CompletePrimary(r)
  <2> DEFINE primary == selectProvider(None, RouterConfig.completion)
  <2>1. pc[r] = "complete" /\ UNCHANGED summaries
    BY <1>4 DEF CompletePrimary, tables
  <2>2. \/ \E x \in Exchanges :
              LET resp == Complete(primary, CompletionRequest(config), x)
              IN resp.err = NoError /\ Answer(r, resp)
        \/ Goto(r, "fallback") /\ UNCHANGED task
        \/ Goto(r, "failed") /\ Forget({r})
    BY <1>4 DEF CompletePrimary
  <2> HIDE DEF primary
  <2>3. ASSUME Goto(r, "fallback"), UNCHANGED task
        PROVE  Continues(r)
    BY <2>1, <2>3 DEF Goto, Shaped, Continues, Keeps, KeepsEvidence
  <2>4. ASSUME NEW x \in Exchanges,
               LET resp == Complete(primary, CompletionRequest(config), x)
               IN resp.err = NoError /\ Answer(r, resp)
        PROVE  IsAnswered(r)
    BY <2>1, <2>4, AnswersKind
  <2> QED  BY <2>1, <2>2, <2>3, <2>4, FailsKind DEF KindOfStep
<1>5. CASE CompleteFallback(r)
  <2> DEFINE next == fallbackFor(RouterConfig.completion, ErrUnavailableProvider)
  <2>1. pc[r] = "fallback" /\ UNCHANGED summaries
    BY <1>5 DEF CompleteFallback, tables
  <2>2. \/ \E x \in Exchanges :
              LET resp == Complete(next, CompletionRequest(config), x)
              IN resp.err = NoError /\ Answer(r, resp)
        \/ Goto(r, "failed") /\ Forget({r})
    BY <1>5 DEF CompleteFallback
  <2> HIDE DEF next
  <2>3. ASSUME NEW x \in Exchanges,
               LET resp == Complete(next, CompletionRequest(config), x)
               IN resp.err = NoError /\ Answer(r, resp)
        PROVE  IsAnswered(r)
    BY <2>1, <2>3, AnswersKind
  <2> QED  BY <2>1, <2>2, <2>3, FailsKind DEF KindOfStep
<1>6. CASE SaveSummary(r)
  <2> DEFINE q == [task[r] EXCEPT !.id = Len(summaries) + 1]
  <2>1. /\ q.asked = task[r].asked /\ q.arrived = task[r].arrived
        /\ q.config = task[r].config /\ q.key = task[r].key /\ q.stats = task[r].stats
        /\ q.counted = task[r].counted /\ q.hit = task[r].hit /\ q.seen = task[r].seen
        /\ q.evidence = task[r].evidence
    BY <1>0 DEF HasTheFields
  <2>2. /\ task' = [task EXCEPT ![r] = q] /\ pc[r] = "save"
        /\ summaries' = Append(summaries, task[r].report)
        /\ Goto(r, IF task[r].evidence = {} THEN "done" ELSE "link")
    BY <1>6 DEF SaveSummary
  <2> HIDE DEF q
  <2>3. task'[r] = q /\ pc'[r] \in {"done", "link"}
    BY <2>2, UpdateLemma
  <2>4. SavesItsReport(r)
    BY <2>1, <2>2, <2>3 DEF SavesItsReport, Keeps, KeepsEvidence
  <2> QED  BY <2>4 DEF KindOfStep
<1>7. CASE SaveSummaryEvidenceLinks(r)
  <2>1. Continues(r)
    BY <1>7 DEF SaveSummaryEvidenceLinks, Goto, Shaped, Continues, Keeps, KeepsEvidence
  <2> QED  BY <2>1 DEF KindOfStep
<1>8. CASE StatementFails(r)
  <2>1. /\ pc'[r] = "failed" /\ task'[r] = NoTask
        /\ UNCHANGED summaries => Fails(r)
    BY <1>8, FailsKind DEF StatementFails
  <2>2. UNCHANGED summaries \/ (pc[r] = "save" /\ summaries' = Append(summaries, task[r].report))
    BY <1>8 DEF StatementFails, tables
  <2> QED  BY <2>1, <2>2 DEF KindOfStep, FailsToSave
<1> QED  BY <1>1, <1>2, <1>3, <1>4, <1>5, <1>6, <1>7, <1>8 DEF Summarize

LEMMA OthersStay ==
    ASSUME Shaped, NEW r \in Requests, Summarize(r)
    PROVE  /\ UNCHANGED environment
           /\ \A s \in Requests : s # r => task'[s] = task[s] /\ pc'[s] = pc[s]
<1>1. UNCHANGED environment
  BY DEF Summarize, Aggregate, Lookup, LoadEvidence, CompletePrimary, CompleteFallback,
         SaveSummary, SaveSummaryEvidenceLinks, StatementFails
<1>2. PICK q, label : StepOf(r, q, label)
  BY SummarizeSteps
<1>3. Moves(r, q, label)
  BY <1>2 DEF StepOf, GoesOn, IsGivenARow, HasAReport, Saves, LinksItsRow, LeavesARow,
                LeavesLinks
<1> QED  BY <1>1, <1>3, MoveLemma DEF Moves

-----------------------------------------------------------------------------
(* The parts of the second invariant, one step of a request at a time.     *)

\* The table of summaries grows at its end.
LEMMA GrowthLemma ==
    ASSUME Shaped, NEW r \in Requests, KindOfStep(r)
    PROVE  /\ Len(summaries) \in Nat /\ Len(summaries') \in Nat
           /\ DOMAIN summaries = 1..Len(summaries) /\ DOMAIN summaries' = 1..Len(summaries')
           /\ Len(summaries) <= Len(summaries')
           /\ \A i \in DOMAIN summaries : summaries'[i] = summaries[i]
<1>1. Len(summaries) \in Nat /\ DOMAIN summaries = 1..Len(summaries)
  BY DEF Shaped
<1>2. CASE UNCHANGED summaries
  BY <1>1, <1>2
<1>3. CASE SavesItsReport(r) \/ FailsToSave(r)
  BY <1>1, <1>3, AppendLemma DEF SavesItsReport, FailsToSave
<1> QED
  BY <1>2, <1>3 DEF KindOfStep, Counts, Finds, Misses, HasNothingToAsk, ListsEvidence, IsAnswered,
                    Continues, Fails

\* The key of a request is the one of its window.
LEMMA CountsAreKeyed ==
    ASSUME NEW r \in Requests, Counts(r)
    PROVE  /\ Keyed(task'[r]) /\ task'[r].config = config /\ task'[r].arrived = clock
           /\ task'[r].counted = Counted(task'[r].asked.domain, task'[r].key.window_from)
<1>1. PICK a \in Queries :
          LET stats == AggregateByDomain(a.domain, SinceOf(a)) IN
          /\ task'[r].asked = a /\ task'[r].arrived = clock /\ task'[r].config = config
          /\ task'[r].stats = stats /\ task'[r].counted = Counted(a.domain, SinceOf(a))
          /\ task'[r].key = BuildCacheKey(a.domain, SinceOf(a), config, stats)
  BY DEF Counts
<1>2. SinceOf(a) = WindowFor(a.since, clock)
  BY DEF SinceOf, WindowFor
<1> DEFINE stats == AggregateByDomain(a.domain, SinceOf(a))
<1>3. /\ task'[r].asked = a /\ task'[r].arrived = clock /\ task'[r].config = config
      /\ task'[r].stats = stats /\ task'[r].counted = Counted(a.domain, SinceOf(a))
      /\ task'[r].key = BuildCacheKey(a.domain, SinceOf(a), config, stats)
  BY <1>1
<1> HIDE DEF stats
<1>4. BuildCacheKey(a.domain, SinceOf(a), config, stats).window_from = SinceOf(a)
  BY DEF BuildCacheKey
<1> QED  BY <1>2, <1>3, <1>4 DEF Keyed

LEMMA KeysStep ==
    ASSUME Shaped, RequestsAreKeyed, NEW r \in Requests, Summarize(r)
    PROVE  RequestsAreKeyed'
<1>1. KindOfStep(r)
  BY SummarizeKinds
<1>2. /\ clock' = clock /\ config' = config /\ stored' = stored
      /\ \A s \in Requests : s # r => task'[s] = task[s] /\ pc'[s] = pc[s]
  BY OthersStay DEF environment
<1>3. /\ clock \in Int /\ Start <= clock
      /\ config \in Configs /\ stored \subseteq Events
      /\ \A s \in Requests :
            pc[s] \in Working \ {"aggregate"} =>
                /\ Keyed(task[s]) /\ task[s].config = config
                /\ task[s].arrived \in Int /\ task[s].arrived <= clock
      /\ \A s \in Requests :
            pc[s] \in {"lookup", "evidence"} =>
                task[s].counted \subseteq Counted(task[s].asked.domain, task[s].key.window_from)
  BY DEF RequestsAreKeyed
<1>4. pc'[r] \in Working \ {"aggregate"} =>
          /\ Keyed(task'[r]) /\ task'[r].config = config
          /\ task'[r].arrived \in Int /\ task'[r].arrived <= clock
  <2>1. CASE Counts(r)
    BY <1>3, <2>1, CountsAreKeyed
  <2>2. CASE Keeps(r) /\ pc[r] \in Working \ {"aggregate"}
    BY <1>3, <2>2 DEF Keeps, Keyed
  <2>3. CASE Finds(r) \/ Fails(r) \/ FailsToSave(r)
    BY <2>3 DEF Finds, Fails, FailsToSave, Working
  <2> QED
    BY <1>1, <2>1, <2>2, <2>3 DEF KindOfStep, Misses, HasNothingToAsk, ListsEvidence, IsAnswered,
                                  Continues, SavesItsReport, Working
<1>5. pc'[r] \in {"lookup", "evidence"} =>
          task'[r].counted \subseteq Counted(task'[r].asked.domain, task'[r].key.window_from)
  <2>1. CASE Counts(r)
    BY <2>1, CountsAreKeyed
  <2>2. CASE Misses(r)
    BY <1>3, <2>2 DEF Misses, Keeps
  <2> QED
    BY <1>1, <2>1, <2>2 DEF KindOfStep, Finds, HasNothingToAsk, ListsEvidence, IsAnswered,
                            Continues, SavesItsReport, Fails, FailsToSave
<1>6. \A s \in Requests :
          pc'[s] \in Working \ {"aggregate"} =>
              /\ Keyed(task'[s]) /\ task'[s].config = config'
              /\ task'[s].arrived \in Int /\ task'[s].arrived <= clock'
  BY <1>2, <1>3, <1>4
<1>7. \A s \in Requests :
          pc'[s] \in {"lookup", "evidence"} =>
              task'[s].counted \subseteq Counted(task'[s].asked.domain, task'[s].key.window_from)
  BY <1>2, <1>3, <1>5
<1>8. \A s \in Requests :
          pc'[s] \in {"lookup", "evidence"} =>
              task'[s].counted \subseteq Counted(task[s].asked.domain, task[s].key.window_from)'
  BY <1>2, <1>7 DEF Counted
<1> QED  BY <1>2, <1>3, <1>6, <1>8 DEF RequestsAreKeyed, Keyed

\* A report fits the key it was made for.
LEMMA KeyFields ==
    ASSUME NEW r \in Requests, Keyed(task[r]), task[r].config = config
    PROVE  LET key == task[r].key IN
           /\ key.window_from = WindowFor(task[r].asked.since, task[r].arrived)
           /\ key.input_hash = ComputeInputHash(task[r].stats, config.temperature, config.maxTokens)
           /\ key.domain = task[r].asked.domain /\ key.provider = RouterConfig.completion
           /\ key.model = config.model /\ key.prompt_version = SummaryPromptVersion
           /\ DOMAIN key = {"domain", "window_from", "provider", "model", "prompt_version",
                            "input_hash"}
  BY DEF Keyed, BuildCacheKey

LEMMA MadeFields ==
    ASSUME NEW r, NEW p, NEW asked
    PROVE  LET made == Made(r, p, asked) IN
           /\ made.since = task[r].key.window_from /\ made.arrived = task[r].arrived
           /\ made.byDefault = (task[r].asked.since = NoSince)
           /\ made.stats = task[r].stats /\ made.asked = asked /\ made.by = p
  BY DEF Made

LEMMA ReportFields ==
    ASSUME NEW key, NEW t, NEW made
    PROVE  LET row == NewReport(key, t, made) IN
           /\ row.window_from = key.window_from /\ row.provider = made.by
           /\ row.model = made.asked.model /\ row.input_hash = key.input_hash
           /\ row.created_at = t /\ row.made = made
           /\ \A x, y : LET other == [row EXCEPT !.provider = x, !.model = y] IN
                 /\ other.window_from = key.window_from /\ other.provider = x /\ other.model = y
                 /\ other.input_hash = key.input_hash /\ other.created_at = t
                 /\ other.made = made
  BY DEF NewReport

LEMMA NewReportsTell ==
    ASSUME RequestsAreKeyed, NEW r \in Requests, IsAnswered(r) \/ HasNothingToAsk(r)
    PROVE  TellsItsOrigin(task'[r].report)
<1> DEFINE key == task[r].key
           row == task'[r].report
<1>1. pc[r] \in Working \ {"aggregate"}
  BY DEF IsAnswered, HasNothingToAsk, Working
<1>2. Keyed(task[r]) /\ task[r].config = config /\ config \in Configs /\ clock \in Int
  BY <1>1 DEF RequestsAreKeyed
<1>3. /\ key.window_from = WindowFor(task[r].asked.since, task[r].arrived)
      /\ key.input_hash = ComputeInputHash(task[r].stats, config.temperature, config.maxTokens)
  BY <1>2, KeyFields
<1>4. PICK made :
          /\ row.window_from = key.window_from /\ row.input_hash = key.input_hash
          /\ row.created_at = clock /\ row.made = made
          /\ made.since = key.window_from /\ made.arrived = task[r].arrived
          /\ made.byDefault = (task[r].asked.since = NoSince)
          /\ made.stats = task[r].stats
          /\ made.stats # {} =>
                /\ row.provider = made.by /\ row.model = made.asked.model /\ row.model # None
                /\ made.asked = Sent(made.by, CompletionRequest(config))
  <2>1. CASE IsAnswered(r)
    <3>1. PICK p : LET asked == Sent(p, CompletionRequest(config)) IN
                   /\ asked.model # None
                   /\ row = NewReport(key, clock, Made(r, p, asked))
      BY <2>1 DEF IsAnswered
    <3> DEFINE asked == Sent(p, CompletionRequest(config))
               made == Made(r, p, asked)
    <3>2. asked.model # None /\ row = NewReport(key, clock, made)
      BY <3>1
    <3>3. asked = Sent(p, CompletionRequest(config))
      OBVIOUS
    <3> HIDE DEF asked
    <3>4. /\ made.since = key.window_from /\ made.arrived = task[r].arrived
          /\ made.byDefault = (task[r].asked.since = NoSince)
          /\ made.stats = task[r].stats /\ made.asked = asked /\ made.by = p
      BY MadeFields
    <3> HIDE DEF made, key, row
    <3>5. /\ row.window_from = key.window_from /\ row.provider = made.by
          /\ row.model = made.asked.model /\ row.input_hash = key.input_hash
          /\ row.created_at = clock /\ row.made = made
      BY <3>2, ReportFields
    <3> QED  BY <3>2, <3>3, <3>4, <3>5
  <2>2. CASE HasNothingToAsk(r)
    <3> DEFINE made == Made(r, Nobody, NotAsked)
    <3>1. /\ task[r].stats = {}
          /\ row = [NewReport(key, clock, made)
                      EXCEPT !.provider = key.provider, !.model = key.model]
      BY <2>2 DEF HasNothingToAsk
    <3>2. /\ made.since = key.window_from /\ made.arrived = task[r].arrived
          /\ made.byDefault = (task[r].asked.since = NoSince) /\ made.stats = task[r].stats
      BY MadeFields
    <3> HIDE DEF made, key, row
    <3>3. /\ row.window_from = key.window_from /\ row.input_hash = key.input_hash
          /\ row.created_at = clock /\ row.made = made
      BY <3>1, ReportFields
    <3> QED  BY <3>1, <3>2, <3>3
  <2> QED  BY <2>1, <2>2
<1> HIDE DEF key, row
<1>5. made.byDefault => row.window_from = WindowFor(NoSince, made.arrived)
  BY <1>3, <1>4
<1>6. row.input_hash = ComputeInputHash(made.stats, config.temperature, config.maxTokens)
  BY <1>3, <1>4
<1>7. TellsItsOrigin(row)
  BY <1>2, <1>4, <1>5, <1>6 DEF TellsItsOrigin
<1> QED  BY <1>7 DEF row

LEMMA RowsStep ==
    ASSUME Shaped, RequestsAreKeyed, RowsTellTheirOrigin, NEW r \in Requests, Summarize(r)
    PROVE  RowsTellTheirOrigin'
<1>1. KindOfStep(r)
  BY SummarizeKinds
<1>2. /\ clock' = clock
      /\ \A s \in Requests : s # r => task'[s] = task[s] /\ pc'[s] = pc[s]
  BY OthersStay DEF environment
<1>3. /\ \A i \in DOMAIN summaries : TellsItsOrigin(summaries[i])
      /\ \A s \in Requests : pc[s] = "save" => TellsItsOrigin(task[s].report)
  BY DEF RowsTellTheirOrigin
<1>4. \A i \in DOMAIN summaries' : TellsItsOrigin(summaries'[i])
  <2>1. CASE UNCHANGED summaries
    BY <1>3, <2>1
  <2>2. CASE SavesItsReport(r) \/ FailsToSave(r)
    <3>1. /\ DOMAIN summaries' = 1..(Len(summaries) + 1) /\ Len(summaries) \in Nat
          /\ DOMAIN summaries = 1..Len(summaries)
          /\ \A i \in DOMAIN summaries : summaries'[i] = summaries[i]
          /\ summaries'[Len(summaries) + 1] = task[r].report
      BY <2>2, AppendLemma DEF SavesItsReport, FailsToSave
    <3> QED  BY <1>3, <2>2, <3>1 DEF SavesItsReport, FailsToSave
  <2> QED
    BY <1>1, <2>1, <2>2 DEF KindOfStep, Counts, Finds, Misses, HasNothingToAsk, ListsEvidence,
                            IsAnswered, Continues, Fails
<1>5. pc'[r] = "save" => TellsItsOrigin(task'[r].report)
  <2>1. CASE IsAnswered(r) \/ HasNothingToAsk(r)
    BY <2>1, NewReportsTell
  <2> QED
    BY <1>1, <2>1 DEF KindOfStep, Counts, Finds, Misses, ListsEvidence, Continues,
                      SavesItsReport, Fails, FailsToSave
<1>6. \A s \in Requests : pc'[s] = "save" => TellsItsOrigin(task'[s].report)
  BY <1>2, <1>3, <1>5
<1>7. \A i \in DOMAIN summaries' : TellsItsOrigin(summaries[i])'
  BY <1>2, <1>4 DEF TellsItsOrigin
<1>8. \A s \in Requests : pc'[s] = "save" => TellsItsOrigin(task[s].report)'
  BY <1>2, <1>6 DEF TellsItsOrigin
<1> QED  BY <1>7, <1>8 DEF RowsTellTheirOrigin

\* A row of the key the request has built is made from what the request reads.
LEMMA MatchesFit ==
    ASSUME RequestsAreKeyed, RowsTellTheirOrigin, NEW r \in Requests,
           pc[r] = "lookup", NEW i \in LatestSummary(task[r].key)
    PROVE  LET row == summaries[i] IN
           /\ row.domain = task[r].asked.domain
           /\ row.made.since = task[r].key.window_from
           /\ row.made.stats = task[r].stats
           /\ task[r].stats # {} =>
                 /\ row.made.by = RouterConfig.completion
                 /\ row.made.asked = Sent(row.made.by, CompletionRequest(task[r].config))
<1> DEFINE row == summaries[i]
           key == task[r].key
           d == task[r].config
<1>1. /\ Keyed(task[r]) /\ d = config /\ config \in Configs
  BY DEF RequestsAreKeyed, Working
<1>2. i \in DOMAIN summaries /\ \A f \in DOMAIN key : row[f] = key[f]
  BY DEF LatestSummary, Matches
<1>3. /\ key.input_hash = ComputeInputHash(task[r].stats, d.temperature, d.maxTokens)
      /\ key.domain = task[r].asked.domain /\ key.provider = RouterConfig.completion
      /\ key.model = d.model
      /\ DOMAIN key = {"domain", "window_from", "provider", "model", "prompt_version",
                       "input_hash"}
  BY <1>1, KeyFields
<1>4. /\ row.domain = task[r].asked.domain /\ row.window_from = key.window_from
      /\ row.provider = RouterConfig.completion /\ row.model = d.model
      /\ row.input_hash = ComputeInputHash(task[r].stats, d.temperature, d.maxTokens)
  BY <1>2, <1>3
<1>5. row.provider # None
  BY <1>4, SummaryAssumption, ProvidersAssumption
<1>6. row.made.since = row.window_from
  BY <1>2, <1>5 DEF RowsTellTheirOrigin, TellsItsOrigin
<1>7. PICK c \in Configs :
          /\ row.input_hash = ComputeInputHash(row.made.stats, c.temperature, c.maxTokens)
          /\ row.made.stats # {} =>
                /\ row.made.by = row.provider
                /\ row.made.asked = Sent(row.provider, CompletionRequest(c))
                /\ row.model = row.made.asked.model /\ row.model # None
  BY <1>2, <1>5 DEF RowsTellTheirOrigin, TellsItsOrigin
<1> HIDE DEF row, key, d
<1>8. row.made.stats = task[r].stats /\ c.temperature = d.temperature /\ c.maxTokens = d.maxTokens
  BY <1>4, <1>7 DEF ComputeInputHash
<1>9. task[r].stats # {} =>
          /\ row.made.by = RouterConfig.completion
          /\ row.made.asked = Sent(row.made.by, CompletionRequest(d))
  <2> SUFFICES ASSUME task[r].stats # {}
               PROVE  /\ row.made.by = RouterConfig.completion
                      /\ row.made.asked = Sent(row.made.by, CompletionRequest(d))
    OBVIOUS
  <2> DEFINE p == RouterConfig.completion
  <2>1. /\ row.made.by = p /\ row.made.asked = Sent(p, CompletionRequest(c))
        /\ d.model = Sent(p, CompletionRequest(c)).model /\ d.model # None
    BY <1>4, <1>7, <1>8
  <2>2. Sent(p, CompletionRequest(c)) = Sent(p, CompletionRequest(d))
    BY <1>8, <2>1 DEF Sent, CompletionRequest
  <2> QED  BY <2>1, <2>2
<1> QED  BY <1>4, <1>6, <1>8, <1>9 DEF row, key, d

LEMMA OutcomeStep ==
    ASSUME Shaped, OnlyFinishedWithARow, SeenIsSaved, NEW r \in Requests, Summarize(r)
    PROVE  OnlyFinishedWithARow' /\ SeenIsSaved'
<1>1. KindOfStep(r)
  BY SummarizeKinds
<1>2. \A s \in Requests : s # r => task'[s] = task[s] /\ pc'[s] = pc[s]
  BY OthersStay
<1>3. Len(summaries) \in Nat /\ Len(summaries') \in Nat /\ Len(summaries) <= Len(summaries')
  BY <1>1, GrowthLemma
<1>4. NoTask.hit = FALSE /\ NoTask.seen = 0
  BY DEF NoTask
<1>5. task'[r].hit => pc'[r] = "done"
  <2>1. CASE pc'[r] = "done"
    BY <2>1
  <2>2. CASE Fails(r) \/ FailsToSave(r)
    BY <1>4, <2>2 DEF Fails, FailsToSave
  <2>3. CASE task'[r].hit = task[r].hit /\ pc[r] # "done"
    BY <2>3 DEF OnlyFinishedWithARow
  <2> QED
    BY <1>1, <2>1, <2>2, <2>3 DEF KindOfStep, Counts, Finds, Misses, HasNothingToAsk,
                                  ListsEvidence, IsAnswered, Continues, SavesItsReport, Keeps
<1>6. task'[r].seen \in 0..Len(summaries')
  <2>1. CASE task'[r].seen = task[r].seen
    BY <1>3, <2>1 DEF SeenIsSaved
  <2>2. CASE task'[r].seen \in {0, Len(summaries)}
    BY <1>3, <2>2
  <2> QED
    BY <1>1, <1>4, <2>1, <2>2 DEF KindOfStep, Counts, Finds, Misses, HasNothingToAsk,
                      ListsEvidence, IsAnswered, Continues, SavesItsReport, KeepsEvidence, Fails,
                      FailsToSave
<1>7. OnlyFinishedWithARow'
  BY <1>2, <1>5 DEF OnlyFinishedWithARow
<1>8. SeenIsSaved'
  <2>1. \A s \in Requests : task[s].seen \in 0..Len(summaries')
    BY <1>3 DEF SeenIsSaved
  <2> QED  BY <1>2, <1>6, <2>1 DEF SeenIsSaved
<1> QED  BY <1>7, <1>8

\* What CachedAnswersFitTheRequest says of one request.
IsGivenWhatItAsked(q) ==
    q.hit =>
        /\ q.report.domain = q.asked.domain
        /\ q.report.made.since = q.key.window_from
        /\ q.report.made.stats = q.stats
        /\ q.stats # {} =>
              /\ q.report.made.by = RouterConfig.completion
              /\ q.report.made.asked = Sent(q.report.made.by, CompletionRequest(q.config))

LEMMA CachedForEach ==
    CachedAnswersFitTheRequest <=> \A r \in Requests : IsGivenWhatItAsked(task[r])
  BY DEF CachedAnswersFitTheRequest, IsGivenWhatItAsked

LEMMA CachedStep ==
    ASSUME Shaped, RequestsAreKeyed, RowsTellTheirOrigin, OnlyFinishedWithARow,
           CachedAnswersFitTheRequest, NEW r \in Requests, Summarize(r)
    PROVE  CachedAnswersFitTheRequest'
<1>1. KindOfStep(r)
  BY SummarizeKinds
<1>2. \A s \in Requests : s # r => task'[s] = task[s] /\ pc'[s] = pc[s]
  BY OthersStay
<1>3. \A s \in Requests : IsGivenWhatItAsked(task[s])
  BY CachedForEach
<1>4. IsGivenWhatItAsked(task'[r])
  <2>1. CASE Finds(r)
    BY <2>1, MatchesFit DEF Finds, IsGivenWhatItAsked
  <2>2. CASE task'[r].hit = FALSE
    BY <2>2 DEF IsGivenWhatItAsked
  <2>3. CASE task'[r].hit = task[r].hit /\ pc[r] # "done"
    BY <2>3 DEF OnlyFinishedWithARow, IsGivenWhatItAsked
  <2>4. NoTask.hit = FALSE
    BY DEF NoTask
  <2> QED
    BY <1>1, <2>1, <2>2, <2>3, <2>4 DEF KindOfStep, Counts, Misses, HasNothingToAsk,
                      ListsEvidence, IsAnswered, Continues, SavesItsReport, Fails, FailsToSave,
                      Keeps
<1>5. \A s \in Requests : IsGivenWhatItAsked(task'[s])
  BY <1>2, <1>3, <1>4
<1> QED  BY <1>5 DEF CachedAnswersFitTheRequest, IsGivenWhatItAsked

\* Of a window read newest first, what is left out is not newer, and is left
\* out only when the limit is reached.
LEMMA NewestLemma ==
    ASSUME NEW S, IsFiniteSet(S), NEW n \in Nat, NEW E \in Newest(S, n), NEW e \in S, e \notin E
    PROVE  Cardinality(E) = n /\ \A f \in E : OccurredAt[f] >= OccurredAt[e]
<1>1. /\ E \in SUBSET S
      /\ Cardinality(E) = IF Cardinality(S) < n THEN Cardinality(S) ELSE n
      /\ \A f \in E, g \in S \ E : OccurredAt[f] >= OccurredAt[g]
  BY DEF Newest
<1>2. Cardinality(S) = Cardinality(E) => S = E
  BY <1>1, FS_Subset
<1> QED  BY <1>1, <1>2

\* What EvidenceCoversTheStatistics says of one request.
Covered(q) ==
    q.stats # {} =>
        \A e \in q.counted : OccurredAt[e] <= q.arrived =>
            \/ e \in q.evidence
            \/ /\ Cardinality(q.evidence) = MaxEvidence
               /\ \A f \in q.evidence : OccurredAt[f] >= OccurredAt[e]

LEMMA EvidenceStep ==
    ASSUME Shaped, RequestsAreKeyed, EvidenceCoversTheStatistics, NEW r \in Requests, Summarize(r)
    PROVE  EvidenceCoversTheStatistics'
<1>1. KindOfStep(r)
  BY SummarizeKinds
<1>2. \A s \in Requests : s # r => task'[s] = task[s] /\ pc'[s] = pc[s]
  BY OthersStay
<1>3. \A s \in Requests :
          pc[s] \in {"complete", "fallback", "save", "link"} => Covered(task[s])
  BY DEF EvidenceCoversTheStatistics, Covered
<1>4. pc'[r] \in {"complete", "fallback", "save", "link"} => Covered(task'[r])
  <2>1. CASE ListsEvidence(r)
    <3> DEFINE q == task[r]
               since == q.key.window_from
               S == InWindow(q.asked.domain, since, clock)
               E == task'[r].evidence
    <3>1. /\ q.arrived \in Int /\ q.arrived <= clock /\ clock \in Int /\ stored \subseteq Events
          /\ q.counted \subseteq Counted(q.asked.domain, since)
      BY <2>1 DEF ListsEvidence, RequestsAreKeyed, Working
    <3>2. E \in Newest(S, MaxEvidence)
      BY <2>1 DEF ListsEvidence, ListSummaryEvidence
    <3>3. IsFiniteSet(S)
      <4>1. S \in SUBSET Events
        BY <3>1 DEF InWindow
      <4> QED  BY <4>1, FS_Subset, SummaryAssumption
    <3>4. task'[r].counted = q.counted /\ task'[r].arrived = q.arrived
      BY <2>1 DEF ListsEvidence, Keeps
    <3>5. ASSUME NEW e \in q.counted, OccurredAt[e] <= q.arrived
          PROVE  e \in S
      <4>1. e \in Counted(q.asked.domain, since)
        BY <3>1, <3>5
      <4>2. e \in stored /\ OccurredAt[e] >= since /\ q.asked.domain \in {None, Domain[e]}
        BY <4>1 DEF Counted
      <4>3. OccurredAt[e] \in Int
        BY <3>1, <4>2, SummaryAssumption
      <4>4. OccurredAt[e] <= clock
        BY <3>1, <3>5, <4>3
      <4> QED  BY <4>2, <4>4 DEF InWindow
    <3> HIDE DEF S, E, q, since
    <3>6. MaxEvidence \in Nat
      BY SummaryAssumption
    <3>7. ASSUME NEW e \in q.counted, OccurredAt[e] <= q.arrived
          PROVE  \/ e \in E
                 \/ /\ Cardinality(E) = MaxEvidence
                    /\ \A f \in E : OccurredAt[f] >= OccurredAt[e]
      BY <3>2, <3>3, <3>5, <3>6, <3>7, NewestLemma
    <3> QED  BY <3>4, <3>7 DEF Covered, E
  <2>2. CASE HasNothingToAsk(r)
    BY <2>2 DEF HasNothingToAsk, Keeps, Covered
  <2>3. CASE Keeps(r) /\ KeepsEvidence(r)
             /\ pc[r] \in {"complete", "fallback", "save", "link"}
    BY <1>3, <2>3 DEF Keeps, KeepsEvidence, Covered
  <2> QED
    BY <1>1, <2>1, <2>2, <2>3 DEF KindOfStep, Counts, Finds, Misses, IsAnswered, Continues,
                                  SavesItsReport, Fails, FailsToSave
<1>5. \A s \in Requests :
          pc'[s] \in {"complete", "fallback", "save", "link"} => Covered(task'[s])
  BY <1>2, <1>3, <1>4
<1> QED  BY <1>5 DEF EvidenceCoversTheStatistics, Covered

\* What goes on around the requests: events are added, time passes, and a
\* restart, with whatever configuration, loses every request that has read one.
LEMMA AroundKinds ==
    ASSUME Shaped, RequestsAreKeyed, StoreEvent \/ Tick \/ Restart \/ UNCHANGED vars
    PROVE  /\ UNCHANGED summaries
           /\ clock' \in Int /\ clock <= clock'
           /\ stored \subseteq stored' /\ stored' \subseteq Events /\ config' \in Configs
           /\ \A r \in Requests :
                 \/ /\ task'[r] = task[r] /\ pc'[r] = pc[r]
                    /\ pc[r] \in Working \ {"aggregate"} => config' = config
                 \/ task'[r] = NoTask /\ pc'[r] \in {"lost", "aggregate"}
<1>1. clock \in Int /\ config \in Configs /\ stored \subseteq Events
  BY DEF RequestsAreKeyed
<1>2. CASE StoreEvent
  BY <1>1, <1>2 DEF StoreEvent, tables
<1>3. CASE Tick
  BY <1>1, <1>3 DEF Tick, tables
<1>4. CASE Restart
  <2>1. /\ UNCHANGED <<summaries, clock, stored>> /\ config' \in Configs
        /\ pc' = [r \in Requests |-> IF pc[r] \in Working \ {"aggregate"} THEN "lost" ELSE pc[r]]
        /\ task' = [r \in Requests |-> IF r \in {s \in Requests : pc[s] \in Working}
                                       THEN NoTask ELSE task[r]]
    BY <1>4 DEF Restart, Forget, tables
  <2>2. ASSUME NEW r \in Requests
        PROVE  \/ /\ task'[r] = task[r] /\ pc'[r] = pc[r]
                  /\ pc[r] \in Working \ {"aggregate"} => config' = config
               \/ task'[r] = NoTask /\ pc'[r] \in {"lost", "aggregate"}
    <3>1. CASE pc[r] \in Working
      BY <2>1, <3>1
    <3>2. CASE pc[r] \notin Working
      BY <2>1, <3>2
    <3> QED  BY <3>1, <3>2
  <2> QED  BY <1>1, <2>1, <2>2
<1>5. CASE UNCHANGED vars
  BY <1>1, <1>5 DEF vars
<1> QED  BY <1>2, <1>3, <1>4, <1>5

LEMMA AroundKInv ==
    ASSUME Shaped, KInv, StoreEvent \/ Tick \/ Restart \/ UNCHANGED vars
    PROVE  KInv'
<1>1. /\ summaries' = summaries
      /\ clock' \in Int /\ clock <= clock'
      /\ stored \subseteq stored' /\ stored' \subseteq Events /\ config' \in Configs
      /\ \A r \in Requests :
            \/ /\ task'[r] = task[r] /\ pc'[r] = pc[r]
               /\ pc[r] \in Working \ {"aggregate"} => config' = config
            \/ task'[r] = NoTask /\ pc'[r] \in {"lost", "aggregate"}
  BY AroundKinds DEF KInv
<1>2. \A r \in Requests :
          \/ task'[r] = task[r] /\ pc'[r] = pc[r]
          \/ /\ task'[r] = NoTask
             /\ pc'[r] \notin {"lookup", "evidence", "complete", "fallback", "save", "link"}
  BY <1>1
<1>3. NoTask.hit = FALSE /\ NoTask.seen = 0
  BY DEF NoTask
<1>4. RequestsAreKeyed'
  <2>1. \A r \in Requests :
            pc'[r] \in Working \ {"aggregate"} =>
                /\ task'[r] = task[r] /\ pc'[r] = pc[r] /\ config' = config
    BY <1>1 DEF Working
  <2>2. clock \in Int /\ Start \in Int /\ Start <= clock
    BY SummaryAssumption DEF KInv, RequestsAreKeyed
  <2>3. \A r \in Requests :
            pc'[r] \in Working \ {"aggregate"} =>
                /\ Keyed(task'[r]) /\ task'[r].config = config'
                /\ task'[r].arrived \in Int /\ task'[r].arrived <= clock'
    BY <1>1, <2>1, <2>2 DEF KInv, RequestsAreKeyed
  <2>4. \A d, w : Counted(d, w) \subseteq Counted(d, w)'
    BY <1>1 DEF Counted
  <2>5. \A r \in Requests :
            pc'[r] \in {"lookup", "evidence"} =>
                /\ pc[r] \in {"lookup", "evidence"} /\ task'[r] = task[r]
                /\ task[r].counted \subseteq Counted(task[r].asked.domain, task[r].key.window_from)
    BY <1>1 DEF KInv, RequestsAreKeyed
  <2>6. \A r \in Requests :
            pc'[r] \in {"lookup", "evidence"} =>
                task'[r].counted
                    \subseteq Counted(task[r].asked.domain, task[r].key.window_from)'
    BY <1>1, <2>5 DEF Counted
  <2>7. Start <= clock'
    BY <1>1, <2>2
  <2> QED  BY <1>1, <2>3, <2>6, <2>7 DEF RequestsAreKeyed, Keyed
<1>5. RowsTellTheirOrigin'
  <2>1. clock \in Int
    BY DEF KInv, RequestsAreKeyed
  <2>2. ASSUME NEW row, TellsItsOrigin(row)
        PROVE  row.provider # None => row.created_at \in Int /\ row.created_at <= clock'
    BY <1>1, <2>1, <2>2 DEF TellsItsOrigin
  <2>3. \A i \in DOMAIN summaries' : TellsItsOrigin(summaries[i])'
    BY <1>1, <2>2 DEF KInv, RowsTellTheirOrigin, TellsItsOrigin
  <2>4. \A r \in Requests : pc'[r] = "save" => TellsItsOrigin(task[r].report)'
    <3>1. \A r \in Requests :
              pc'[r] = "save" => task'[r] = task[r] /\ TellsItsOrigin(task[r].report)
      BY <1>2 DEF KInv, RowsTellTheirOrigin
    <3> QED  BY <2>2, <3>1 DEF TellsItsOrigin
  <2> QED  BY <2>3, <2>4 DEF RowsTellTheirOrigin
<1>6. OnlyFinishedWithARow'
  BY <1>2, <1>3 DEF KInv, OnlyFinishedWithARow
<1>7. SeenIsSaved'
  <2>1. Len(summaries) \in Nat
    BY DEF Shaped
  <2> QED  BY <1>1, <1>3, <2>1 DEF KInv, SeenIsSaved
<1>8. CachedAnswersFitTheRequest'
  <2>1. \A r \in Requests : IsGivenWhatItAsked(task'[r])
    BY <1>2, <1>3, CachedForEach DEF KInv, IsGivenWhatItAsked
  <2> QED  BY <2>1 DEF CachedAnswersFitTheRequest, IsGivenWhatItAsked
<1>9. EvidenceCoversTheStatistics'
  <2>1. \A r \in Requests :
            pc[r] \in {"complete", "fallback", "save", "link"} => Covered(task[r])
    BY DEF KInv, EvidenceCoversTheStatistics, Covered
  <2>2. \A r \in Requests :
            pc'[r] \in {"complete", "fallback", "save", "link"} => Covered(task'[r])
    BY <1>2, <2>1
  <2> QED  BY <2>2 DEF EvidenceCoversTheStatistics, Covered
<1> QED  BY <1>4, <1>5, <1>6, <1>7, <1>8, <1>9 DEF KInv

LEMMA InitKInv == Init => KInv
<1> SUFFICES ASSUME Init PROVE KInv
  OBVIOUS
<1>1. /\ task = [r \in Requests |-> NoTask] /\ pc = [r \in Requests |-> "aggregate"]
      /\ clock = Start /\ config \in Configs /\ stored = {}
  BY DEF Init
<1>2. NoTask.hit = FALSE /\ NoTask.seen = 0
  BY DEF NoTask
<1>3. RequestsAreKeyed
  BY <1>1, SummaryAssumption DEF RequestsAreKeyed
<1>4. RowsTellTheirOrigin
  <2>1. PICK old \in OldSummaries : summaries = runMigrations(old)
    BY DEF Init
  <2>2. \A i \in DOMAIN summaries : summaries[i].provider = None
    BY <2>1 DEF runMigrations
  <2> QED  BY <1>1, <2>2 DEF RowsTellTheirOrigin, TellsItsOrigin
<1>5. OnlyFinishedWithARow /\ CachedAnswersFitTheRequest
  BY <1>1, <1>2 DEF OnlyFinishedWithARow, CachedAnswersFitTheRequest
<1>6. SeenIsSaved
  <2>1. Shaped
    BY InitInductive DEF IInv
  <2> QED  BY <1>1, <1>2, <2>1 DEF Shaped, SeenIsSaved
<1>7. EvidenceCoversTheStatistics
  BY <1>1 DEF EvidenceCoversTheStatistics
<1> QED  BY <1>3, <1>4, <1>5, <1>6, <1>7 DEF KInv

LEMMA NextKInv == Shaped /\ KInv /\ [Next]_vars => KInv'
<1> SUFFICES ASSUME Shaped, KInv, [Next]_vars PROVE KInv'
  OBVIOUS
<1>1. ASSUME NEW r \in Requests, Summarize(r)
      PROVE  KInv'
  BY <1>1, KeysStep, RowsStep, OutcomeStep, CachedStep, EvidenceStep DEF KInv
<1> QED  BY <1>1, AroundKInv DEF Next

\* Every reachable state satisfies the second invariant.
THEOREM Knowledge == Spec => []KInv
<1>1. Init => KInv
  BY InitKInv
<1>2. IInv => Shaped
  BY DEF IInv
<1>3. Shaped /\ KInv /\ [Next]_vars => KInv'
  BY NextKInv
<1> QED  BY <1>1, <1>2, <1>3, Invariance, PTL DEF Spec

\* cache_key.go:42-98, storer.go:393-430: an answer from the table was made for
\* the domain, the window and the statistics the request has read, by the
\* configured provider with the running configuration's model and parameters,
\* whatever configurations the process was restarted with before.
THEOREM CachedAnswersFit == Spec => []CachedAnswersFitTheRequest
<1>1. KInv => CachedAnswersFitTheRequest
  BY DEF KInv
<1> QED  BY <1>1, Knowledge, PTL

\* service.go:110-126: the events the model is shown are, of those the statistics
\* count, all or the newest that fit, also when events are stored between the
\* two queries.
THEOREM EvidenceCovers == Spec => []EvidenceCoversTheStatistics
<1>1. KInv => EvidenceCoversTheStatistics
  BY DEF KInv
<1> QED  BY <1>1, Knowledge, PTL

-----------------------------------------------------------------------------
(* A saved summary is found again.                                         *)

\* Natural numbers have a least one in every set that is not empty.
LEMMA LeastNumber ==
    ASSUME NEW T, T \subseteq Nat, T # {}
    PROVE  \E x \in T : \A y \in T : x <= y
<1> DEFINE R == OpToRel(<, Nat)
<1>1. IsWellFoundedOn(R, Nat)
  BY NatLessThanWellFounded
<1>2. \A x, y \in Nat : y < x => <<y, x>> \in R
  BY DEF OpToRel
<1> HIDE DEF R
<1>3. PICK x \in T : \A y \in T : ~ (<<y, x>> \in R)
  BY <1>1, WFMin
<1>4. ASSUME NEW y \in T
      PROVE  x <= y
  <2>1. x \in Nat /\ y \in Nat /\ ~ (<<y, x>> \in R)
    BY <1>3
  <2>2. ~ (y < x)
    BY <1>2, <2>1
  <2> QED  BY <2>1, <2>2
<1> QED  BY <1>4

LEMMA LatestExists ==
    ASSUME Shaped, RequestsAreKeyed, RowsTellTheirOrigin,
           NEW key, DOMAIN key = {"domain", "window_from", "provider", "model",
                                  "prompt_version", "input_hash"}, key.provider # None,
           NEW i \in DOMAIN summaries, Matches(summaries[i], key)
    PROVE  LatestSummary(key) # {}
<1> DEFINE M == {j \in DOMAIN summaries : Matches(summaries[j], key)}
           T == {clock - summaries[j].created_at : j \in M}
<1>1. clock \in Int /\ M # {}
  BY DEF RequestsAreKeyed
<1>2. ASSUME NEW j \in M
      PROVE  summaries[j].created_at \in Int /\ clock - summaries[j].created_at \in Nat
  <2>1. summaries[j].provider = key.provider
    BY DEF Matches
  <2>2. summaries[j].created_at \in Int /\ summaries[j].created_at <= clock
    BY <2>1 DEF RowsTellTheirOrigin, TellsItsOrigin
  <2> HIDE DEF M
  <2> QED  BY <1>1, <2>2
<1>3. T \subseteq Nat /\ T # {}
  BY <1>1, <1>2
<1>4. PICK x \in T : \A y \in T : x <= y
  BY <1>3, LeastNumber
<1>5. PICK k \in M : x = clock - summaries[k].created_at
  BY <1>4
<1>6. ASSUME NEW j \in M
      PROVE  summaries[j].created_at <= summaries[k].created_at
  <2>1. clock - summaries[k].created_at <= clock - summaries[j].created_at
    BY <1>4, <1>5, <1>6
  <2>2. summaries[k].created_at \in Int /\ summaries[j].created_at \in Int
    BY <1>2, <1>6
  <2> HIDE DEF M, T
  <2> QED  BY <1>1, <2>1, <2>2
<1>7. k \in LatestSummary(key)
  BY <1>6 DEF LatestSummary
<1> QED  BY <1>7

\* The default provider is sent the parameters that the llm section names:
\* main.go:186-193 gives the client the section's own values as its defaults.
SentAsConfigured ==
    \A c \in Configs :
        LET asked == Sent(RouterConfig.completion, CompletionRequest(c))
        IN asked.maxTokens = c.maxTokens /\ asked.temperature = c.temperature

\* What AnswersAreReused says of a row and a request.
CouldBeGiven(row, q) ==
    /\ row.provider = RouterConfig.completion /\ row.model = q.config.model
    /\ row.prompt_version = SummaryPromptVersion /\ row.domain = q.asked.domain
    /\ row.made.stats = q.stats
    /\ row.made.asked = Sent(row.provider, CompletionRequest(q.config))
    /\ IF q.asked.since # NoSince THEN row.window_from = q.asked.since
       ELSE row.made.byDefault /\ row.made.arrived \div Hour = q.arrived \div Hour

Reuses(r) ==
    pc[r] \in {"evidence", "complete", "fallback", "save", "link"} /\ task[r].stats # {} =>
        ~ \E i \in 1..task[r].seen : CouldBeGiven(summaries[i], task[r])

LEMMA ReusesForEach == AnswersAreReused <=> \A r \in Requests : Reuses(r)
  BY DEF AnswersAreReused, Reuses, CouldBeGiven

\* What could be given matches the key: the parameters of the request that
\* made the row are those of its key.
LEMMA CouldBeGivenMatches ==
    ASSUME SentAsConfigured, RequestsAreKeyed, RowsTellTheirOrigin,
           NEW r \in Requests, pc[r] = "lookup", task[r].stats # {},
           NEW i \in DOMAIN summaries, CouldBeGiven(summaries[i], task[r])
    PROVE  Matches(summaries[i], task[r].key)
<1> DEFINE row == summaries[i]
           q == task[r]
           key == q.key
           p == RouterConfig.completion
<1>1. Keyed(q) /\ q.config = config /\ config \in Configs
  BY DEF RequestsAreKeyed, Working
<1>2. /\ key.window_from = WindowFor(q.asked.since, q.arrived)
      /\ key.input_hash = ComputeInputHash(q.stats, config.temperature, config.maxTokens)
      /\ key.domain = q.asked.domain /\ key.provider = p
      /\ key.model = config.model /\ key.prompt_version = SummaryPromptVersion
      /\ DOMAIN key = {"domain", "window_from", "provider", "model", "prompt_version",
                       "input_hash"}
  BY <1>1, KeyFields
<1>3. p # None
  BY SummaryAssumption, ProvidersAssumption
<1>4. /\ row.provider = p /\ row.model = config.model
      /\ row.prompt_version = SummaryPromptVersion /\ row.domain = q.asked.domain
      /\ row.made.stats = q.stats
      /\ row.made.asked = Sent(p, CompletionRequest(config))
      /\ IF q.asked.since # NoSince THEN row.window_from = q.asked.since
         ELSE row.made.byDefault /\ row.made.arrived \div Hour = q.arrived \div Hour
  BY <1>1 DEF CouldBeGiven
<1>5. /\ row.made.byDefault => row.window_from = WindowFor(NoSince, row.made.arrived)
      /\ \E c \in Configs :
            /\ row.input_hash = ComputeInputHash(row.made.stats, c.temperature, c.maxTokens)
            /\ row.made.stats # {} => row.made.asked = Sent(row.provider, CompletionRequest(c))
  BY <1>3, <1>4 DEF RowsTellTheirOrigin, TellsItsOrigin
<1>6. PICK c \in Configs :
          /\ row.input_hash = ComputeInputHash(row.made.stats, c.temperature, c.maxTokens)
          /\ row.made.stats # {} => row.made.asked = Sent(row.provider, CompletionRequest(c))
  BY <1>5
<1> HIDE DEF row, q, key, p
<1>7. row.window_from = key.window_from
  <2>1. CASE q.asked.since # NoSince
    BY <1>2, <1>4, <2>1 DEF WindowFor
  <2>2. CASE q.asked.since = NoSince
    <3>1. /\ row.window_from = (row.made.arrived \div Hour) * Hour - Window
          /\ key.window_from = (q.arrived \div Hour) * Hour - Window
      BY <1>2, <1>4, <1>5, <2>2 DEF WindowFor
    <3>2. row.made.arrived \div Hour = q.arrived \div Hour
      BY <1>4, <2>2
    <3> QED  BY <3>1, <3>2
  <2> QED  BY <2>1, <2>2
<1>8. row.input_hash = key.input_hash
  <2>1. q.stats # {}
    BY DEF q
  <2>2. Sent(p, CompletionRequest(c)) = Sent(p, CompletionRequest(config))
    BY <1>4, <1>6, <2>1
  <2>3. c.temperature = config.temperature /\ c.maxTokens = config.maxTokens
    BY <1>1, <2>2 DEF SentAsConfigured, p
  <2> QED  BY <1>2, <1>4, <1>6, <2>3
<1>9. \A f \in DOMAIN key : row[f] = key[f]
  BY <1>2, <1>4, <1>7, <1>8
<1> QED  BY <1>9 DEF Matches, row, key, q

LEMMA ReuseStep ==
    ASSUME SentAsConfigured, Shaped, RequestsAreKeyed, RowsTellTheirOrigin, SeenIsSaved,
           AnswersAreReused, NEW r \in Requests, Summarize(r)
    PROVE  AnswersAreReused'
<1> DEFINE Asking == {"evidence", "complete", "fallback", "save", "link"}
<1>1. KindOfStep(r)
  BY SummarizeKinds
<1>2. \A s \in Requests : s # r => task'[s] = task[s] /\ pc'[s] = pc[s]
  BY OthersStay
<1>3. \A s \in Requests :
          pc[s] \in Asking /\ task[s].stats # {} =>
              ~ \E i \in 1..task[s].seen : CouldBeGiven(summaries[i], task[s])
  BY ReusesForEach DEF Reuses
<1>4. /\ Len(summaries) \in Nat /\ DOMAIN summaries = 1..Len(summaries)
      /\ \A i \in DOMAIN summaries : summaries'[i] = summaries[i]
  BY <1>1, GrowthLemma
<1>5. \A s \in Requests : \A i \in 1..task[s].seen : summaries'[i] = summaries[i]
  BY <1>4 DEF SeenIsSaved
<1>6. pc'[r] \in Asking /\ task'[r].stats # {} =>
          ~ \E i \in 1..task'[r].seen : CouldBeGiven(summaries'[i], task'[r])
  <2>1. CASE Misses(r)
    <3> DEFINE key == task[r].key
    <3>1. /\ pc[r] = "lookup" /\ LatestSummary(key) = {}
          /\ task'[r].stats = task[r].stats /\ task'[r].asked = task[r].asked
          /\ task'[r].config = task[r].config /\ task'[r].arrived = task[r].arrived
          /\ task'[r].seen = Len(summaries)
      BY <2>1 DEF Misses, Keeps
    <3>2. Keyed(task[r]) /\ task[r].config = config
      BY <3>1 DEF RequestsAreKeyed, Working
    <3>3. /\ key.provider # None
          /\ DOMAIN key = {"domain", "window_from", "provider", "model", "prompt_version",
                           "input_hash"}
      BY <3>2, KeyFields, SummaryAssumption, ProvidersAssumption
    <3>4. ASSUME task[r].stats # {}, NEW i \in DOMAIN summaries,
                 CouldBeGiven(summaries[i], task[r])
          PROVE  FALSE
      <4>1. Matches(summaries[i], key)
        BY <3>1, <3>4, CouldBeGivenMatches
      <4> HIDE DEF key
      <4> QED  BY <3>1, <3>3, <4>1, LatestExists
    <3>5. \A row : CouldBeGiven(row, task'[r]) <=> CouldBeGiven(row, task[r])
      BY <3>1 DEF CouldBeGiven
    <3> QED  BY <1>4, <3>1, <3>4, <3>5
  <2>2. CASE Keeps(r) /\ task'[r].seen = task[r].seen /\ pc[r] \in Asking
    <3>1. /\ task'[r].stats = task[r].stats
          /\ \A row : CouldBeGiven(row, task'[r]) <=> CouldBeGiven(row, task[r])
      BY <2>2 DEF Keeps, CouldBeGiven
    <3> QED  BY <1>3, <1>5, <2>2, <3>1
  <2>3. CASE HasNothingToAsk(r)
    BY <2>3 DEF HasNothingToAsk, Keeps
  <2> QED
    BY <1>1, <2>1, <2>2, <2>3 DEF KindOfStep, Counts, Finds, ListsEvidence, IsAnswered,
                                  Continues, SavesItsReport, KeepsEvidence, Fails,
                      FailsToSave
<1>7. \A s \in Requests :
          pc'[s] \in Asking /\ task'[s].stats # {} =>
              ~ \E i \in 1..task'[s].seen : CouldBeGiven(summaries'[i], task'[s])
  BY <1>2, <1>3, <1>5, <1>6
<1> QED  BY <1>7 DEF AnswersAreReused, CouldBeGiven

LEMMA AroundReuse ==
    ASSUME Shaped, RequestsAreKeyed, AnswersAreReused,
           StoreEvent \/ Tick \/ Restart \/ UNCHANGED vars
    PROVE  AnswersAreReused'
<1>1. /\ summaries' = summaries
      /\ \A r \in Requests :
            \/ task'[r] = task[r] /\ pc'[r] = pc[r]
            \/ pc'[r] \in {"lost", "aggregate"}
  BY AroundKinds
<1> QED  BY <1>1 DEF AnswersAreReused

\* handler.go:125, service.go:82-97: once a summary is saved, a request with its
\* key does not call the model again, where the parameters of the llm section
\* are those the default provider is sent.
THEOREM AnswersReused == ASSUME SentAsConfigured PROVE Spec => []AnswersAreReused
<1>1. Init => AnswersAreReused
  BY DEF Init, AnswersAreReused
<1>2. ASSUME Shaped, KInv, AnswersAreReused, [Next]_vars
      PROVE  AnswersAreReused'
  <2>1. ASSUME NEW r \in Requests, Summarize(r)
        PROVE  AnswersAreReused'
    BY <1>2, <2>1, ReuseStep DEF KInv
  <2> QED  BY <1>2, <2>1, AroundReuse DEF Next, KInv
<1>3. IInv => Shaped
  BY DEF IInv
<1> QED  BY <1>1, <1>2, <1>3, Invariance, Knowledge, PTL DEF Spec

=============================================================================

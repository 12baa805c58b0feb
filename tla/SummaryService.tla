--------------------------- MODULE SummaryService ---------------------------
(***************************************************************************)
(* GET /v1/summary: the handler, the summary service and the statements it *)
(* runs on the database that the topics are writing to.  A request is a    *)
(* process; a step is one statement (the database has one connection) or   *)
(* one model call.  Between two steps other requests run, events arrive,   *)
(* time passes, and the process may be restarted with another llm section  *)
(* of the configuration, which keeps the tables and loses the requests.    *)
(*                                                                         *)
(* A summary's text is not modelled.  What a row's content was made from   *)
(* is: the field made, which is no column and which no step reads.         *)
(***************************************************************************)
EXTENDS ModelProviders, FiniteSets

CONSTANTS
    Events, Domain, EventType,  \* the events that may be stored, and their columns
    OccurredAt,     \* the occurred_at column as text compares: the wall clock it was written with
    Requests,
    Queries,        \* what a request may ask: domain (None for all), since (NoSince if absent)
    NoSince,
    Configs,        \* the llm configurations: model, maxTokens, temperature
    OldSummaries,   \* tables of summaries this version may be started on
    MaxEvidence,    \* api.DefaultMaxEvidenceEvents
    Hour, Window,   \* the handler's rounding and its default window
    Start, MaxTime, \* bounds of the clock
    MaxRestarts     \* bound on restarts

Times == Start..MaxTime
SummaryPromptVersion == "summary.v1"
Nobody == "nobody"

ASSUME SummaryAssumption ==
    /\ IsFiniteSet(Events)
    /\ OccurredAt \in [Events -> Int]
    /\ DOMAIN Domain = Events /\ DOMAIN EventType = Events
    /\ None \notin {Domain[e] : e \in Events}
    /\ RouterConfig.completion \in Providers /\ Nobody \notin Providers
    /\ MaxEvidence \in Nat \ {0} /\ Hour \in Nat \ {0} /\ Window \in Nat
    /\ Start \in Nat /\ MaxTime \in Nat /\ Start <= MaxTime /\ MaxRestarts \in Nat
    /\ Configs # {} /\ Queries # {} /\ OldSummaries # {}
    /\ \A old \in OldSummaries : DOMAIN old = 1..Len(old) /\ Len(old) \in Nat

VARIABLES
    clock, config, restarts,
    stored,      \* the events table
    summaries,   \* the summaries table; a row's id is its index
    links,       \* intelligence_summary_events: <<summary id, event>>
    pc, task     \* where each request is, and its local variables

vars == <<clock, config, restarts, stored, summaries, links, pc, task>>

Working == {"aggregate", "lookup", "evidence", "complete", "fallback", "save", "link"}
Finished == {"done", "failed", "lost"}

(***************************************************************************)
(* The queries.                                                            *)
(***************************************************************************)
\* SummarizeByDomain, and Summarize's filter on the domain.
Counted(domain, since) == {e \in stored : OccurredAt[e] >= since /\ domain \in {None, Domain[e]}}

AggregateByDomain(domain, since) ==
    LET counted == Counted(domain, since)
        group(d, t) == {e \in counted : Domain[e] = d /\ EventType[e] = t}
    IN {[domain |-> Domain[e], event_type |-> EventType[e],
         count |-> Cardinality(group(Domain[e], EventType[e])),
         first_seen |-> CHOOSE x \in {OccurredAt[f] : f \in group(Domain[e], EventType[e])} :
                            \A f \in group(Domain[e], EventType[e]) : x <= OccurredAt[f],
         last_seen |-> CHOOSE x \in {OccurredAt[f] : f \in group(Domain[e], EventType[e])} :
                            \A f \in group(Domain[e], EventType[e]) : x >= OccurredAt[f]]
           : e \in counted}

InWindow(domain, since, until) ==
    {e \in stored : /\ domain \in {None, Domain[e]}
                    /\ OccurredAt[e] >= since /\ OccurredAt[e] <= until}

\* ORDER BY occurred_at DESC LIMIT n: any choice among equals.
Newest(S, n) ==
    {E \in SUBSET S : /\ Cardinality(E) = IF Cardinality(S) < n THEN Cardinality(S) ELSE n
                      /\ \A e \in E, f \in S \ E : OccurredAt[e] >= OccurredAt[f]}

\* Mutated form: ListSummaryEvidence orders the window oldest first.
ListSummaryEvidence_oldestFirst(domain, since) ==
    LET S == InWindow(domain, since, clock)
    IN {S \ E : E \in Newest(S, IF Cardinality(S) > MaxEvidence
                                THEN Cardinality(S) - MaxEvidence ELSE 0)}

ListSummaryEvidence(domain, since) == Newest(InWindow(domain, since, clock), MaxEvidence)

(***************************************************************************)
(* The cache key, the lookup and the two writes.                           *)
(***************************************************************************)
\* Mutated form: the temperature is left out of the hash.
ComputeInputHash_noTemperature(stats, temperature, maxTokens) == <<0, maxTokens, stats>>

\* SHA-256 of the sorted statistics and the two parameters: a hash is equal
\* exactly when they are.
ComputeInputHash(stats, temperature, maxTokens) == <<temperature, maxTokens, stats>>

BuildCacheKey(domain, since, c, stats) ==
    [domain |-> domain, window_from |-> since, provider |-> RouterConfig.completion,
     model |-> c.model, prompt_version |-> SummaryPromptVersion,
     input_hash |-> ComputeInputHash(stats, c.temperature, c.maxTokens)]

Matches(row, key) == \A f \in DOMAIN key : row[f] = key[f]

LatestSummary(key) ==
    {i \in DOMAIN summaries :
        /\ Matches(summaries[i], key)
        /\ \A j \in DOMAIN summaries :
               Matches(summaries[j], key) => summaries[j].created_at <= summaries[i].created_at}

\* A row written before the columns existed gets NULL in them.
runMigrations(table) ==
    [i \in DOMAIN table |->
        [domain |-> table[i].domain, window_from |-> table[i].window_from,
         model |-> table[i].model, created_at |-> table[i].created_at,
         provider |-> None, prompt_version |-> None, input_hash |-> << >>,
         made |-> table[i].made]]

\* Mutated form: the default window starts at the instant of the request.
SinceOf_notTruncated(q) ==
    IF q.since # NoSince THEN q.since ELSE clock - Window

\* handleGetSummary: without since, the window starts at the full hour.
SinceOf(q) ==
    IF q.since # NoSince THEN q.since ELSE (clock \div Hour) * Hour - Window

(***************************************************************************)
(* Init and the steps of a request.                                        *)
(***************************************************************************)
NoKey == [domain |-> None, window_from |-> 0, provider |-> None, model |-> None,
          prompt_version |-> None, input_hash |-> << >>]

\* A call that reads nothing back: the model was not asked.
NotAsked == [model |-> None, maxTokens |-> 0, temperature |-> 0]

NewReport(key, t, made) ==
    [domain |-> key.domain, window_from |-> key.window_from, provider |-> made.by,
     model |-> made.asked.model, prompt_version |-> key.prompt_version,
     input_hash |-> key.input_hash, created_at |-> t, made |-> made]

NoMade == [since |-> 0, arrived |-> Start, byDefault |-> FALSE, stats |-> {}, evidence |-> {},
           asked |-> NotAsked, by |-> Nobody]
NoReport == NewReport(NoKey, Start, NoMade)

NoTask ==
    [asked |-> CHOOSE q \in Queries : TRUE, arrived |-> Start, config |-> CHOOSE c \in Configs : TRUE,
     key |-> NoKey, stats |-> {}, counted |-> {}, seen |-> 0, evidence |-> {},
     report |-> NoReport, hit |-> FALSE, id |-> 0]

Init ==
    /\ clock = Start /\ restarts = 0
    /\ config \in Configs
    /\ stored = {} /\ links = {}
    /\ \E old \in OldSummaries : summaries = runMigrations(old)
    /\ pc = [r \in Requests |-> "aggregate"]
    /\ task = [r \in Requests |-> NoTask]

Goto(r, label) == pc' = [pc EXCEPT ![r] = label]
\* The local variables of requests that end without a report.
Forget(R) == task' = [r \in Requests |-> IF r \in R THEN NoTask ELSE task[r]]
environment == <<clock, config, restarts, stored>>
tables == <<summaries, links>>

Aggregate(r) ==
    /\ pc[r] = "aggregate"
    /\ \E q \in Queries :
          LET since == SinceOf(q)
              stats == AggregateByDomain(q.domain, since)
          IN task' = [task EXCEPT ![r] = [@ EXCEPT
                        !.asked = q, !.arrived = clock, !.config = config,
                        !.stats = stats, !.counted = Counted(q.domain, since),
                        !.key = BuildCacheKey(q.domain, since, config, stats)]]
    /\ Goto(r, "lookup")
    /\ UNCHANGED <<environment, tables>>

\* What the report of r is made from when p was asked with the parameters.
Made(r, p, asked) ==
    [since |-> task[r].key.window_from, arrived |-> task[r].arrived,
     byDefault |-> task[r].asked.since = NoSince, stats |-> task[r].stats,
     evidence |-> task[r].evidence, asked |-> asked, by |-> p]

\* A hit is the answer.  A miss without statistics is answered, under the
\* configured names, without a model call.
Lookup(r) ==
    LET found == LatestSummary(task[r].key) IN
    /\ pc[r] = "lookup"
    /\ \/ /\ \E i \in found :
               task' = [task EXCEPT ![r] = [@ EXCEPT
                            !.report = summaries[i], !.hit = TRUE, !.seen = Len(summaries)]]
          /\ Goto(r, "done")
       \/ /\ found = {} /\ task[r].stats # {}
          /\ task' = [task EXCEPT ![r].seen = Len(summaries)]
          /\ Goto(r, "evidence")
       \/ /\ found = {} /\ task[r].stats = {}
          /\ task' = [task EXCEPT ![r] = [@ EXCEPT
                        !.seen = Len(summaries),
                        !.report = [NewReport(task[r].key, clock, Made(r, Nobody, NotAsked))
                                      EXCEPT !.provider = task[r].key.provider,
                                             !.model = task[r].key.model]]]
          /\ Goto(r, "save")
    /\ UNCHANGED <<environment, tables>>

LoadEvidence(r) ==
    /\ pc[r] = "evidence"
    /\ \E E \in ListSummaryEvidence(task[r].asked.domain, task[r].key.window_from) :
           task' = [task EXCEPT ![r].evidence = E]
    /\ Goto(r, "complete")
    /\ UNCHANGED <<environment, tables>>

\* BuildSummaryPrompt is never empty; it names the domain, the statistics and
\* the evidence, and Made holds the same three.
CompletionRequest(c) ==
    [model |-> c.model, maxTokens |-> c.maxTokens, temperature |-> c.temperature,
     emptyPrompt |-> FALSE]

\* The report carries the names of the client that answered.
Answer(r, resp) ==
    /\ task' = [task EXCEPT ![r].report =
                    NewReport(task[r].key, clock, Made(r, resp.provider, resp.asked))]
    /\ Goto(r, "save")

\* Router.Complete: the provider a caller may name in Metadata["provider"] is
\* not named by Summarize, so the default one is asked.
CompletePrimary(r) ==
    LET primary == selectProvider(None, RouterConfig.completion) IN
    /\ pc[r] = "complete"
    /\ \E x \in Exchanges :
          LET resp == Complete(primary, CompletionRequest(config), x)
              next == fallbackFor(primary, resp.err)
          IN \/ resp.err = NoError /\ Answer(r, resp)
             \/ resp.err # NoError /\ next # None /\ Goto(r, "fallback") /\ UNCHANGED task
             \/ resp.err # NoError /\ next = None /\ Goto(r, "failed") /\ Forget({r})
    /\ UNCHANGED <<environment, tables>>

\* Mutated form: an unavailable fallback is replaced by its own fallback.
CompleteFallback_again(r) ==
    LET next == fallbackFor(RouterConfig.completion, ErrUnavailableProvider) IN
    /\ pc[r] = "fallback"
    /\ \E x \in Exchanges :
          LET resp == Complete(next, CompletionRequest(config), x)
          IN \/ resp.err = NoError /\ Answer(r, resp)
             \/ /\ fallbackFor(next, resp.err) # None
                /\ Goto(r, "complete") /\ UNCHANGED task
             \/ /\ resp.err # NoError /\ fallbackFor(next, resp.err) = None
                /\ Goto(r, "failed") /\ Forget({r})
    /\ UNCHANGED <<environment, tables>>

CompleteFallback(r) ==
    LET next == fallbackFor(RouterConfig.completion, ErrUnavailableProvider) IN
    /\ pc[r] = "fallback"
    /\ \E x \in Exchanges :
          LET resp == Complete(next, CompletionRequest(config), x)
          IN \/ resp.err = NoError /\ Answer(r, resp)
             \/ resp.err # NoError /\ Goto(r, "failed") /\ Forget({r})
    /\ UNCHANGED <<environment, tables>>

SaveSummary(r) ==
    /\ pc[r] = "save"
    /\ summaries' = Append(summaries, task[r].report)
    /\ task' = [task EXCEPT ![r].id = Len(summaries) + 1]
    /\ Goto(r, IF task[r].evidence = {} THEN "done" ELSE "link")
    /\ UNCHANGED <<environment, links>>

\* Mutated form: the links go to the newest summary.
SaveSummaryEvidenceLinks_newest(r) ==
    /\ pc[r] = "link"
    /\ links' = links \cup ({Len(summaries)} \X task[r].evidence)
    /\ Goto(r, "done")
    /\ UNCHANGED <<environment, summaries, task>>

\* One transaction for all the links of a summary.
SaveSummaryEvidenceLinks(r) ==
    /\ pc[r] = "link"
    /\ links' = links \cup ({task[r].id} \X task[r].evidence)
    /\ Goto(r, "done")
    /\ UNCHANGED <<environment, summaries, task>>

\* A statement fails, or the client is gone and its context with it.  What a
\* save or the links would have written is not there, or is when the commit did
\* its work before it failed.
StatementFails(r) ==
    /\ pc[r] \in {"aggregate", "lookup", "evidence", "save", "link"}
    /\ Goto(r, "failed") /\ Forget({r})
    /\ \/ UNCHANGED tables
       \/ pc[r] = "save" /\ summaries' = Append(summaries, task[r].report) /\ UNCHANGED links
       \/ /\ pc[r] = "link" /\ links' = links \cup ({task[r].id} \X task[r].evidence)
          /\ UNCHANGED summaries
    /\ UNCHANGED environment

Summarize(r) ==
    \/ Aggregate(r) \/ Lookup(r) \/ LoadEvidence(r) \/ CompletePrimary(r)
    \/ CompleteFallback(r) \/ SaveSummary(r) \/ SaveSummaryEvidenceLinks(r)
    \/ StatementFails(r)

(***************************************************************************)
(* What goes on around the requests.                                       *)
(***************************************************************************)
StoreEvent ==
    /\ \E e \in Events \ stored : stored' = stored \cup {e}
    /\ UNCHANGED <<clock, config, restarts, tables, pc, task>>

Tick ==
    /\ clock < MaxTime
    /\ clock' = clock + 1
    /\ UNCHANGED <<config, restarts, stored, tables, pc, task>>

\* The process ends at any point and starts with a configuration; a request
\* that had arrived gets no answer.
Restart ==
    /\ restarts < MaxRestarts
    /\ restarts' = restarts + 1
    /\ config' \in Configs
    /\ pc' = [r \in Requests |-> IF pc[r] \in Working \ {"aggregate"} THEN "lost" ELSE pc[r]]
    /\ Forget({r \in Requests : pc[r] \in Working})
    /\ UNCHANGED <<clock, stored, tables>>

Next == (\E r \in Requests : Summarize(r)) \/ StoreEvent \/ Tick \/ Restart

Spec == Init /\ [][Next]_vars

\* The server runs every request on a goroutine of its own, a statement waits
\* at most busy_timeout and a model call at most the client's timeout.
FairSpec == Spec /\ \A r \in Requests : WF_vars(Summarize(r))

(***************************************************************************)
(* Properties.                                                             *)
(***************************************************************************)
\* "Two requests with the same key should return the same model output": a
\* cached answer was made for the domain, the window and the statistics the
\* request has just read, by the configured provider and with the model and
\* the parameters of the running configuration (cache_key.go:15,
\* api/server.go:34).
CachedAnswersFitTheRequest ==
    \A r \in Requests : task[r].hit =>
        LET row == task[r].report
            key == task[r].key
        IN /\ row.domain = task[r].asked.domain
           /\ row.made.since = key.window_from
           /\ row.made.stats = task[r].stats
           /\ task[r].stats # {} =>
                 /\ row.made.by = RouterConfig.completion
                 /\ row.made.asked = Sent(row.made.by, CompletionRequest(task[r].config))

\* A request calls the model only if no summary it could have been given was
\* saved when it looked: one by the configured provider and model, for the same
\* domain, statistics and parameters, and for the same since or, without one,
\* by a request that arrived in the same hour (handler.go:125).  Two requests
\* that miss together both call it.
AnswersAreReused ==
    \A r \in Requests :
        pc[r] \in {"evidence", "complete", "fallback", "save", "link"} /\ task[r].stats # {} =>
            ~ \E i \in 1..task[r].seen :
                LET row == summaries[i] IN
                /\ row.provider = RouterConfig.completion /\ row.model = task[r].config.model
                /\ row.prompt_version = SummaryPromptVersion /\ row.domain = task[r].asked.domain
                /\ row.made.stats = task[r].stats
                /\ row.made.asked = Sent(row.provider, CompletionRequest(task[r].config))
                /\ IF task[r].asked.since # NoSince THEN row.window_from = task[r].asked.since
                   ELSE row.made.byDefault /\ row.made.arrived \div Hour = task[r].arrived \div Hour

LinkedTo(i) == {l[2] : l \in {k \in links : k[1] = i}}

\* The links of a summary are all the events its prompt listed, or none of
\* them after a failure between the save and the links, and a fresh answer
\* without an error has them, however the saves of requests interleave
\* (service.go:170-190).
LinksBackTheSummary ==
    /\ \A i \in DOMAIN summaries : LinkedTo(i) \in {{}, summaries[i].made.evidence}
    /\ \A r \in Requests : pc[r] = "done" /\ ~task[r].hit => LinkedTo(task[r].id) = task[r].evidence

\* The evidence covers the statistics it is shown with, although events are
\* stored between the two queries: an event the statistics count, unless its
\* time is still to come, is in the evidence or the evidence is full of events
\* that are not older.
EvidenceCoversTheStatistics ==
    \A r \in Requests :
        pc[r] \in {"complete", "fallback", "save", "link"} /\ task[r].stats # {} =>
            \A e \in task[r].counted : OccurredAt[e] <= task[r].arrived =>
                \/ e \in task[r].evidence
                \/ /\ Cardinality(task[r].evidence) = MaxEvidence
                   /\ \A f \in task[r].evidence : OccurredAt[f] >= OccurredAt[e]

\* Every request is answered, with a report or an error, unless the process
\* ends: the fallback is one hop, also where fallbacks form a cycle.
EveryRequestIsAnswered == \A r \in Requests : <>(pc[r] \in Finished)

(***************************************************************************)
(* EventSummary.ValidateAgainstEvidence, which nothing calls: a structured *)
(* answer is accepted when it cites events of its evidence only.  notable  *)
(* is a sequence of event ids and actions a sequence of such sequences.    *)
(***************************************************************************)
ValidateAgainstEvidence(notable, actions, allowed) ==
    IF allowed = {}
    THEN notable = << >> /\ \A a \in DOMAIN actions : actions[a] = << >>
    ELSE /\ \A i \in DOMAIN notable : notable[i] \in allowed
         /\ \A a \in DOMAIN actions : \A j \in DOMAIN actions[a] : actions[a][j] \in allowed

=============================================================================

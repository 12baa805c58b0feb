------------------------------ MODULE Platform ------------------------------
(***************************************************************************)
(* main of cmd/main.go as one process: the errgroup with the goroutine     *)
(* that waits for a signal, a pipeline and a stats runner for every topic, *)
(* the HTTP server and the goroutine that shuts down, the requests the     *)
(* server runs, the probes they ask, and what they share: the database,    *)
(* the consumers, the rate limiter.  A pipeline is reduced to when it      *)
(* polls and when it returns (IngestPipeline and Ingestion have the rest), *)
(* a handler to its one read (EventStore, SummaryService has them).        *)
(***************************************************************************)
EXTENDS HttpApi, Sequences, FiniteSets

CONSTANTS
    Topics,
    Probes,        \* the probes in the order CheckAll asks them: "db", then the topics
    Requests,
    Calls,         \* Calls[r]: what request r may ask
    Burst, Rps,    \* rate_limit: the size of the bucket, tokens per unit of the clock
    MaxStale,      \* the age of the last poll from which a consumer is stale
    MaxTime        \* bound of the clock

ASSUME PlatformAssumption ==
    /\ IsFiniteSet(Topics) /\ "db" \notin Topics
    /\ Probes \in Seq({"db"} \cup Topics)
    /\ \A p \in {"db"} \cup Topics : \E k \in DOMAIN Probes : Probes[k] = p
    /\ \A i, j \in DOMAIN Probes : Probes[i] = Probes[j] => i = j
    /\ \A r \in Requests : \A call \in Calls[r] : call.token.exp \in Nat /\ call.token.nbf \in Nat
    /\ Burst \in Nat \ {0} /\ Rps \in Nat /\ MaxStale \in Nat /\ MaxTime \in Nat

VARIABLES
    clock,
    cancelled,            \* the group's context
    signal, server, shutdown, stats, pipeline,   \* the goroutines of the group
    main,                 \* main itself: waiting for the group, closing, exited or crashed
    db, consumer,         \* "open" or "closed"; consumer[t]
    deadline,             \* Shutdown gave up on handlers at its deadline
    lastPoll,             \* lastPoll[t]
    tokens, admitted,     \* the limiter's bucket; calls it let through at each time
    req                   \* the requests

group == <<cancelled, signal, server, shutdown, stats, pipeline>>
resources == <<db, consumer, deadline, lastPoll>>
limiter == <<tokens, admitted>>
vars == <<clock, group, main, resources, limiter, req>>

Returned(g) == g = "returned"

\* Mutated form: main does not wait for the pipelines.
GroupReturned_serverOnly == Returned(signal) /\ Returned(server) /\ Returned(shutdown)

GroupReturned ==
    /\ Returned(signal) /\ Returned(server) /\ Returned(shutdown)
    /\ \A t \in Topics : Returned(stats[t]) /\ Returned(pipeline[t])

NewRequest == [pc |-> "new", call |-> [route |-> None], at |-> 0, next |-> 1,
               checks |-> [n \in {} |-> None], allOK |-> TRUE, late |-> FALSE,
               passed |-> {}, status |-> None]
InFlight == {r \in Requests : req[r].pc \in {"read", "probe"}}

Init ==
    /\ clock = 0
    /\ cancelled = FALSE
    /\ signal = "waiting" /\ server = "starting" /\ shutdown = "waiting" /\ main = "waiting"
    /\ stats = [t \in Topics |-> "running"]
    /\ pipeline = [t \in Topics |-> "running"]
    /\ db = "open" /\ consumer = [t \in Topics |-> "open"] /\ deadline = FALSE
    /\ lastPoll = [t \in Topics |-> 0]
    /\ tokens = Burst /\ admitted = [i \in 0..MaxTime |-> 0]
    /\ req = [r \in Requests |-> NewRequest]

(***************************************************************************)
(* The errgroup: a goroutine that returns an error cancels the context, and *)
(* so does a signal, whose goroutine also returns once the context is done. *)
(***************************************************************************)
Signal ==
    /\ signal = "waiting"
    /\ cancelled' = TRUE /\ signal' = "returned"
    /\ UNCHANGED <<clock, server, shutdown, stats, pipeline, main, resources, limiter, req>>

\* StatsRunner.Run returns no error of its own: ReadStats fails only with the
\* context's.
StatsRunner(t) ==
    /\ stats[t] = "running" /\ cancelled
    /\ stats' = [stats EXCEPT ![t] = "returned"]
    /\ UNCHANGED <<clock, cancelled, signal, server, shutdown, pipeline, main, resources, limiter, req>>

(***************************************************************************)
(* A topic's pipeline.                                                     *)
(***************************************************************************)
pipelineUnchanged ==
    UNCHANGED <<clock, cancelled, signal, server, shutdown, stats, main, db, consumer,
                deadline, limiter, req>>

\* A message is polled, which marks the consumer, and ends in the database: at
\* once, or in the batcher's drain once the context is done.  Only a fetch that
\* brings a message marks the consumer.
Poll(t) ==
    /\ pipeline[t] = "running" /\ ~cancelled
    /\ lastPoll' = [lastPoll EXCEPT ![t] = clock]
    /\ UNCHANGED pipeline /\ pipelineUnchanged

\* With the context done the pipeline returns, whatever it held, and no error.
PipelineReturns(t) ==
    /\ cancelled /\ ~Returned(pipeline[t])
    /\ pipeline' = [pipeline EXCEPT ![t] = "returned"]
    /\ UNCHANGED lastPoll /\ pipelineUnchanged

\* The process ends as `how', and the handlers it still runs end with it.
Ends(how) ==
    /\ main' = how
    /\ req' = [r \in Requests |-> IF r \in InFlight THEN [NewRequest EXCEPT !.pc = "killed"] ELSE req[r]]
    /\ UNCHANGED <<clock, group, resources, limiter>>

\* Until it has returned, also while it drains, a worker of the pipeline may
\* meet a payload that decodes to nothing and panic on it.  Nobody recovers: the
\* other pipelines, the server and its handlers end there too, and nothing is
\* shut down or closed.
Panic(t) == pipeline[t] = "running" /\ Ends("crashed")

(***************************************************************************)
(* The HTTP server.                                                        *)
(***************************************************************************)
serverUnchanged ==
    UNCHANGED <<clock, signal, shutdown, stats, pipeline, main, resources, limiter, req>>

\* Start: the listener fails, or Serve begins unless Shutdown was there first.
Start ==
    /\ server = "starting"
    /\ \/ server' = "returned" /\ cancelled' = TRUE
       \/ /\ server' = IF shutdown = "waiting" THEN "serving" ELSE "returned"
          /\ UNCHANGED cancelled
    /\ serverUnchanged

\* Serve returns at once when Shutdown begins, before the handlers have.
ServeReturns ==
    /\ server = "serving"
    /\ \/ shutdown # "waiting" /\ UNCHANGED cancelled
       \/ shutdown = "waiting" /\ cancelled' = TRUE
    /\ server' = "returned"
    /\ serverUnchanged

requestUnchanged == UNCHANGED <<clock, group, main, resources>>

\* What the request was about ends with its answer.
Answer(r, status) == req' = [req EXCEPT ![r] = [NewRequest EXCEPT !.pc = "answered", !.status = status]]

\* A call up to the first thing it waits for.  The limiter is in front of
\* authentication, one bucket for all clients, and not in front of the probes.
Arrive(r) ==
    /\ req[r].pc = "new" /\ server = "serving" /\ shutdown = "waiting"
    /\ \E call \in Calls[r] :
          LET q == [req[r] EXCEPT !.call = call]
              limited == Routed(call) /\ call.route \in Chained
          IN \/ ~Routed(call) /\ Answer(r, Unrouted(call)) /\ UNCHANGED limiter
             \/ /\ Routed(call) /\ call.route \in Open \ Probed
                /\ Answer(r, "200") /\ UNCHANGED limiter
             \/ /\ Routed(call) /\ call.route \in Probed
                /\ req' = [req EXCEPT ![r] = [q EXCEPT !.pc = "probe"]] /\ UNCHANGED limiter
             \/ limited /\ tokens = 0 /\ Answer(r, "429") /\ UNCHANGED limiter
             \/ /\ limited /\ tokens > 0
                /\ tokens' = tokens - 1
                /\ admitted' = [admitted EXCEPT ![clock] = @ + 1]
                /\ IF Handle(call, clock) # None THEN Answer(r, Handle(call, clock))
                   ELSE req' = [req EXCEPT ![r] = [q EXCEPT !.pc = "read", !.at = clock]]
    /\ requestUnchanged

\* The handler's read.  It is still running when Shutdown has given up on it,
\* and finds the database closed when main was faster.
Read(r) ==
    /\ req[r].pc = "read"
    /\ \E outcome \in IF db = "open" THEN Outcomes ELSE {"error"} :
          Answer(r, httpStatus(req[r].call, outcome))
    /\ UNCHANGED limiter /\ requestUnchanged

\* CheckAll: one probe after the other under one timeout, the results keyed by
\* name, which is "kafka" for every consumer.
Name(p) == IF p = "db" THEN "db" ELSE "kafka"
Stale(t) == clock - lastPoll[t] > MaxStale

Check(p, reachable) == reachable /\ IF p = "db" THEN db = "open" ELSE ~Stale(p)

Probe(r) ==
    LET q == req[r]
        p == Probes[q.next]
    IN /\ q.pc = "probe" /\ q.next <= Len(Probes)
       /\ \E late \in {q.late, TRUE}, reachable \in BOOLEAN :
             LET ok == ~late /\ Check(p, reachable)
                 result == [q EXCEPT
                    !.late = late, !.next = @ + 1, !.allOK = @ /\ ok,
                    !.passed = IF ok THEN @ \cup {p} ELSE @,
                    !.checks = [n \in DOMAIN @ \cup {Name(p)} |->
                                   IF n # Name(p) THEN @[n] ELSE IF ok THEN "ok" ELSE "failed"]]
             IN req' = [req EXCEPT ![r] = result]
       /\ UNCHANGED limiter /\ requestUnchanged

\* Mutated form: the status is read off the results by name.
Verdict_byName(q) == IF \A n \in DOMAIN q.checks : q.checks[n] = "ok" THEN "200" ELSE "503"

Verdict(q) == IF q.allOK THEN "200" ELSE "503"

Readyz(r) ==
    /\ req[r].pc = "probe" /\ req[r].next > Len(Probes)
    /\ Answer(r, Verdict(req[r]))
    /\ UNCHANGED limiter /\ requestUnchanged

\* Mutated form: the bucket is not capped at its size.
Refill_noCap(n) == n + Rps

Refill(n) == IF n + Rps > Burst THEN Burst ELSE n + Rps

\* The clock is only needed while the platform serves: it stops with the group.
Tick ==
    /\ clock < MaxTime /\ ~cancelled
    /\ clock' = clock + 1
    /\ tokens' = Refill(tokens)
    /\ UNCHANGED <<group, main, resources, admitted, req>>

(***************************************************************************)
(* The goroutine that shuts down, and the end of main.                     *)
(***************************************************************************)
shutdownUnchanged ==
    UNCHANGED <<clock, cancelled, signal, server, stats, pipeline, main, db, lastPoll,
                limiter, req>>

\* From here on the server takes no call, and shutdownCtx runs.
BeginShutdown ==
    /\ shutdown = "waiting" /\ cancelled
    /\ shutdown' = "http"
    /\ UNCHANGED <<consumer, deadline>> /\ shutdownUnchanged

\* Mutated form: Shutdown waits for the handlers without a deadline.
StopServer_noDeadline ==
    /\ shutdown = "http" /\ InFlight = {}
    /\ shutdown' = "consumers"
    /\ UNCHANGED <<consumer, deadline>> /\ shutdownUnchanged

\* Shutdown returns when no handler runs, or at the deadline of its context.
StopServer ==
    /\ shutdown = "http"
    /\ deadline' = (InFlight # {})
    /\ shutdown' = "consumers"
    /\ UNCHANGED consumer /\ shutdownUnchanged

\* The consumers are closed, in one step here, although their pipelines may
\* still be draining.  The writer of the dead letters is not: its logging
\* wrapper has no Close.
CloseConsumers ==
    /\ shutdown = "consumers"
    /\ consumer' = [t \in Topics |-> "closed"]
    /\ shutdown' = "returned"
    /\ UNCHANGED deadline /\ shutdownUnchanged

CloseDatabase ==
    /\ main = "waiting" /\ GroupReturned
    /\ db' = "closed" /\ main' = "closing"
    /\ UNCHANGED <<clock, group, consumer, deadline, lastPoll, limiter, req>>

\* main returns, after the deferred Shutdown of the metrics and trace providers,
\* which has no deadline: that it ends is part of the fairness of this action.
Exit == main = "closing" /\ Ends("exited")

\* What only a process that still runs does.
Alive(A) == main \in {"waiting", "closing"} /\ A

Goroutines ==
    \/ \E t \in Topics : StatsRunner(t) \/ PipelineReturns(t)
    \/ Start \/ ServeReturns
    \/ BeginShutdown \/ StopServer \/ CloseConsumers
    \/ CloseDatabase \/ Exit

Next ==
    Alive(\/ Goroutines \/ Signal
          \/ \E t \in Topics : Poll(t) \/ Panic(t)
          \/ \E r \in Requests : Arrive(r) \/ Read(r) \/ Probe(r) \/ Readyz(r)
          \/ Tick)

Spec == Init /\ [][Next]_vars

\* Every goroutine of the group runs when it can, and Shutdown returns in time.
\* Nothing is assumed of the handlers, of signals that do not come, or of
\* traffic.
FairSpec ==
    /\ Spec
    /\ WF_vars(Alive(cancelled /\ Signal))
    /\ \A t \in Topics : WF_vars(Alive(StatsRunner(t))) /\ WF_vars(Alive(PipelineReturns(t)))
    /\ WF_vars(Alive(Start)) /\ WF_vars(Alive(shutdown # "waiting" /\ ServeReturns))
    /\ WF_vars(Alive(BeginShutdown)) /\ WF_vars(Alive(StopServer))
    /\ WF_vars(Alive(CloseConsumers)) /\ WF_vars(Alive(CloseDatabase)) /\ WF_vars(Alive(Exit))

(***************************************************************************)
(* Properties.                                                             *)
(***************************************************************************)
Statuses == {None, "200", "401", "403", "404", "405", "429", "500", "503"}

RequestType ==
    [pc     : {"new", "read", "probe", "answered", "killed"},
     call   : {[route |-> None]} \cup UNION {Calls[r] : r \in Requests},
     at     : 0..MaxTime,
     next   : 1..(Len(Probes) + 1),
     checks : UNION {[N -> {"ok", "failed"}] : N \in SUBSET {"db", "kafka"}},
     allOK  : BOOLEAN,
     late   : BOOLEAN,
     passed : SUBSET ({"db"} \cup Topics),
     status : Statuses]

\* The variables keep their types.
TypeOK ==
    /\ clock \in 0..MaxTime
    /\ cancelled \in BOOLEAN
    /\ signal \in {"waiting", "returned"} /\ server \in {"starting", "serving", "returned"}
    /\ shutdown \in {"waiting", "http", "consumers", "returned"}
    /\ main \in {"waiting", "closing", "exited", "crashed"}
    /\ stats \in [Topics -> {"running", "returned"}]
    /\ pipeline \in [Topics -> {"running", "returned"}]
    /\ db \in {"open", "closed"} /\ consumer \in [Topics -> {"open", "closed"}]
    /\ deadline \in BOOLEAN
    /\ lastPoll \in [Topics -> 0..MaxTime]
    /\ tokens \in 0..Burst /\ admitted \in [0..MaxTime -> Nat]
    /\ req \in [Requests -> RequestType]

\* The database outlives the group, so no drain writes to a closed database,
\* and outlives the handlers unless Shutdown gave up on them.  A consumer has
\* less: its pipeline has been told to stop and no handler runs that Shutdown
\* waits for, but the pipeline may still be draining (main.go:251-307).
ResourcesOutliveTheirUsers ==
    /\ db = "closed" =>
          /\ \A t \in Topics : Returned(pipeline[t])
          /\ InFlight # {} => deadline
    /\ \A t \in Topics : consumer[t] = "closed" => cancelled /\ (InFlight # {} => deadline)

\* Ready is answered exactly when every probe passed while the request ran,
\* although the consumers share one name in the results.  The probes share one
\* timeout too (health.go:33-67), where Readme.md:62 gives each probe its own: one
\* that is late fails every later one, and the answer is 503 all the same.
ReadyIsEarned ==
    [][\A r \in Requests :
          req[r].pc = "probe" /\ req'[r].pc = "answered" =>
             (req'[r].status = "200" <=> req[r].passed = {"db"} \cup Topics)]_vars

AdmittedBetween(a, b) ==
    LET upTo[i \in (a - 1)..b] == IF i < a THEN 0 ELSE upTo[i - 1] + admitted[i] IN upTo[b]

\* In no interval does the limiter let through more than its burst and the
\* rate times the length of the interval.
RateIsBounded ==
    \A a \in 0..clock : \A b \in a..clock : AdmittedBetween(a, b) <= Burst + Rps * (b - a)

\* Only a call whose token was, when it arrived, well signed, unexpired, for
\* this issuer and audience, of a named subject and client, and with the scope
\* of reading, gets as far as a read of the store.
OnlyTheEntitledRead ==
    \A r \in Requests :
        LET q == req[r]
            t == q.call.token
        IN q.pc = "read" =>
              /\ q.call.header = "bearer"
              /\ t.alg = "HMAC" /\ t.signed /\ t.exp > q.at /\ t.nbf <= q.at
              /\ t.iss = Issuer /\ t.aud = Audience /\ t.sub # None /\ t.client # None
              /\ t.scope.form \in {"string", "list"} /\ ReadScope \in t.scope.names

\* Once it stops, it stops: main exits although a handler never returns, unless
\* a pipeline that drains takes the process down.
EverythingStops == cancelled ~> main \in {"exited", "crashed"}

=============================================================================

---------------------------- MODULE PlatformProofs ----------------------------
(***************************************************************************)
(* Proofs about Platform, for any number of topics and requests, any       *)
(* calls, limits and probes.                                               *)
(***************************************************************************)
EXTENDS Platform, TLAPS, WellFoundedInduction

-----------------------------------------------------------------------------
(* The inductive invariant.                                                *)

\* The order of an end: the goroutine that shuts down waits for the
\* cancellation, the pipelines return after it, the handlers that survive
\* Shutdown are the ones it gave up on, and main comes last.
EndsInOrder ==
    /\ shutdown # "waiting" => cancelled
    /\ \A t \in Topics : Returned(pipeline[t]) => cancelled
    /\ \A t \in Topics : consumer[t] = "closed" => shutdown = "returned"
    /\ shutdown \in {"consumers", "returned"} => (InFlight # {} => deadline)
    /\ db = "closed" => Returned(shutdown) /\ \A t \in Topics : Returned(pipeline[t])

\* A request that reads came through the chain when it arrived.
CameThroughTheChain ==
    \A r \in Requests :
        req[r].pc = "read" => req[r].call \in Calls[r] /\ Handle(req[r].call, req[r].at) = None

Asked(q) == {Probes[k] : k \in 1..(q.next - 1)}

\* The verdict so far is about every probe asked so far.
VerdictSoFar ==
    \A r \in Requests :
        /\ req[r].passed \subseteq Asked(req[r])
        /\ req[r].allOK <=> req[r].passed = Asked(req[r])

IInv == TypeOK /\ EndsInOrder /\ CameThroughTheChain /\ VerdictSoFar

-----------------------------------------------------------------------------
(* Lemmas about a request.                                                 *)

\* A request before its call and after its answer is typed.
LEMMA NewRequestTyped == NewRequest \in RequestType
<1>1. 1 \in 1..(Len(Probes) + 1) /\ 0 \in 0..MaxTime
  BY PlatformAssumption
<1>2. [n \in {} |-> None] \in [{} -> {"ok", "failed"}]
  OBVIOUS
<1>3. {} \in SUBSET {"db", "kafka"}
  OBVIOUS
<1>4. [n \in {} |-> None] \in UNION {[N -> {"ok", "failed"}] : N \in SUBSET {"db", "kafka"}}
  BY <1>2, <1>3
<1> QED  BY <1>1, <1>4 DEF NewRequest, RequestType, Statuses

\* What an answer does: the request is a new one again but for two fields, and
\* no other request changes.
LEMMA AnswerLemma ==
    ASSUME TypeOK, NEW r \in Requests, NEW status \in Statuses, Answer(r, status)
    PROVE  /\ req' \in [Requests -> RequestType]
           /\ \A s \in Requests : s # r => req'[s] = req[s]
           /\ req'[r].pc = "answered" /\ req'[r].status = status
           /\ req'[r].passed = {} /\ req'[r].allOK = TRUE /\ req'[r].next = 1
<1> DEFINE new == [NewRequest EXCEPT !.pc = "answered", !.status = status]
<1>1. new \in RequestType
  BY NewRequestTyped DEF RequestType, Statuses
<1>2. /\ new.pc = "answered" /\ new.status = status
      /\ new.passed = {} /\ new.allOK = TRUE /\ new.next = 1
  BY DEF NewRequest
<1>3. req \in [Requests -> RequestType] /\ req' = [req EXCEPT ![r] = new]
  BY DEF TypeOK, Answer
<1> HIDE DEF new
<1> QED  BY <1>1, <1>2, <1>3

\* Nothing was asked of a request that is not being probed.
LEMMA NothingAsked ==
    ASSUME NEW q, q.next = 1, q.passed = {}, q.allOK = TRUE
    PROVE  q.passed \subseteq Asked(q) /\ (q.allOK <=> q.passed = Asked(q))
  BY DEF Asked

\* The chain lets a call through for what OnlyTheEntitledRead says of its token.
LEMMA ChainLemma ==
    ASSUME NEW call, NEW now \in Nat, call.token.exp \in Nat, call.token.nbf \in Nat,
           Handle(call, now) = None
    PROVE  /\ call.header = "bearer"
           /\ call.token.alg = "HMAC" /\ call.token.signed
           /\ call.token.exp > now /\ call.token.nbf <= now
           /\ call.token.iss = Issuer /\ call.token.aud = Audience
           /\ call.token.sub # None /\ call.token.client # None
           /\ call.token.scope.form \in {"string", "list"}
           /\ ReadScope \in call.token.scope.names
<1>1. authenticate(call, now) = None /\ authorize(call) = None
  BY DEF Handle, authenticate, None
<1>2. call.header = "bearer" /\ ValidationError(call.token, now) = None
  BY <1>1 DEF authenticate, Validate, None
<1>3. ReadScope \in parseScopes(call.token)
  BY <1>1 DEF authorize, None
<1>4. call.token.scope.form \in {"string", "list"} /\ ReadScope \in call.token.scope.names
  BY <1>3 DEF parseScopes
<1>5. call.token.alg = "HMAC" /\ call.token.signed
  BY <1>2 DEF ValidationError, None
<1>6. /\ ~(call.token.exp # 0 /\ call.token.exp <= now) /\ ~(call.token.nbf > now)
      /\ call.token.iss = Issuer /\ call.token.aud = Audience /\ call.token.exp # 0
      /\ call.token.sub # None /\ call.token.client # None
  BY <1>2, <1>5 DEF ValidationError, None
<1> QED  BY <1>2, <1>4, <1>5, <1>6

-----------------------------------------------------------------------------
(* Type correctness.                                                       *)

LEMMA HandleAnswers ==
    ASSUME NEW call, NEW now
    PROVE  Handle(call, now) \in Statuses
  BY DEF Handle, authenticate, authorize, Statuses, None

LEMMA InitTyped == Init => TypeOK
<1> SUFFICES ASSUME Init PROVE TypeOK
  OBVIOUS
<1>1. 0 \in 0..MaxTime /\ Burst \in 0..Burst
  BY PlatformAssumption
<1>2. req \in [Requests -> RequestType]
  BY NewRequestTyped DEF Init
<1>3. lastPoll \in [Topics -> 0..MaxTime] /\ admitted \in [0..MaxTime -> Nat]
  BY <1>1 DEF Init
<1>4. /\ stats \in [Topics -> {"running", "returned"}]
      /\ pipeline \in [Topics -> {"running", "returned"}]
      /\ consumer \in [Topics -> {"open", "closed"}]
  BY DEF Init
<1> QED  BY <1>1, <1>2, <1>3, <1>4 DEF Init, TypeOK

\* A call leaves the requests typed, and the bucket and the counts.
LEMMA ArriveTyped ==
    ASSUME TypeOK, NEW r \in Requests, Arrive(r)
    PROVE  /\ req' \in [Requests -> RequestType]
           /\ tokens' \in 0..Burst /\ admitted' \in [0..MaxTime -> Nat]
<1>1. PICK call \in Calls[r] :
          LET q == [req[r] EXCEPT !.call = call]
              limited == Routed(call) /\ call.route \in Chained
          IN \/ ~Routed(call) /\ Answer(r, Unrouted(call)) /\ UNCHANGED limiter
             \/ /\ Routed(call) /\ call.route \in Open \ Probed
                /\ Answer(r, "200") /\ UNCHANGED limiter
             \/ /\ Routed(call) /\ call.route \in Probed
                /\ req' = [req EXCEPT ![r] = [q EXCEPT !.pc = "probe"]] /\ UNCHANGED limiter
             \/ limited /\ tokens = 0 /\ Answer(r, "429") /\ UNCHANGED limiter
             \/ /\ limited /\ tokens > 0
                /\ tokens' = tokens - 1
                /\ admitted' = [admitted EXCEPT ![clock] = @ + 1]
                /\ IF Handle(call, clock) # None THEN Answer(r, Handle(call, clock))
                   ELSE req' = [req EXCEPT ![r] = [q EXCEPT !.pc = "read", !.at = clock]]
  BY DEF Arrive
<1> DEFINE q == [req[r] EXCEPT !.call = call]
<1>2. /\ call \in {[route |-> None]} \cup UNION {Calls[s] : s \in Requests}
      /\ req[r] \in RequestType /\ req \in [Requests -> RequestType] /\ clock \in 0..MaxTime
  BY DEF TypeOK
<1>3. [q EXCEPT !.pc = "probe"] \in RequestType
      /\ [q EXCEPT !.pc = "read", !.at = clock] \in RequestType
  BY <1>2 DEF RequestType
<1> HIDE DEF q
<1>4. \/ \E status \in Statuses : Answer(r, status)
      \/ req' = [req EXCEPT ![r] = [q EXCEPT !.pc = "probe"]]
      \/ req' = [req EXCEPT ![r] = [q EXCEPT !.pc = "read", !.at = clock]]
  <2>1. {"200", "429"} \subseteq Statuses /\ Unrouted(call) \in Statuses
    BY DEF Unrouted, Statuses
  <2> QED  BY <1>1, <2>1, HandleAnswers DEF q
<1>5. req' \in [Requests -> RequestType]
  BY <1>2, <1>3, <1>4, AnswerLemma
<1>6. \/ UNCHANGED limiter
      \/ tokens > 0 /\ tokens' = tokens - 1 /\ admitted' = [admitted EXCEPT ![clock] = @ + 1]
  BY <1>1
<1>7. tokens' \in 0..Burst /\ admitted' \in [0..MaxTime -> Nat]
  BY <1>2, <1>6, PlatformAssumption DEF TypeOK, limiter
<1> QED  BY <1>5, <1>7

LEMMA ReadTyped ==
    ASSUME TypeOK, NEW r \in Requests, Read(r)
    PROVE  \E status \in Statuses : Answer(r, status)
<1>1. \A outcome : httpStatus(req[r].call, outcome) \in Statuses
  BY DEF httpStatus, Statuses
<1> QED  BY <1>1 DEF Read

\* What a probe does to its request.
LEMMA ProbeLemma ==
    ASSUME TypeOK, NEW r \in Requests, Probe(r)
    PROVE  /\ req' \in [Requests -> RequestType]
           /\ \A s \in Requests : s # r => req'[s] = req[s]
           /\ req[r].pc = "probe" /\ req'[r].pc = "probe"
           /\ req[r].next \in 1..Len(Probes) /\ req'[r].next = req[r].next + 1
           /\ \E ok \in BOOLEAN :
                 /\ req'[r].allOK = (req[r].allOK /\ ok)
                 /\ req'[r].passed = IF ok THEN req[r].passed \cup {Probes[req[r].next]}
                                     ELSE req[r].passed
<1> DEFINE q == req[r]
           p == Probes[q.next]
<1>1. PICK late \in {q.late, TRUE}, reachable \in BOOLEAN :
          LET ok == ~late /\ Check(p, reachable)
              result == [q EXCEPT
                 !.late = late, !.next = @ + 1, !.allOK = @ /\ ok,
                 !.passed = IF ok THEN @ \cup {p} ELSE @,
                 !.checks = [n \in DOMAIN @ \cup {Name(p)} |->
                                IF n # Name(p) THEN @[n] ELSE IF ok THEN "ok" ELSE "failed"]]
          IN req' = [req EXCEPT ![r] = result]
  BY DEF Probe
<1> DEFINE ok == ~late /\ Check(p, reachable)
           checks == [n \in DOMAIN q.checks \cup {Name(p)} |->
                        IF n # Name(p) THEN q.checks[n] ELSE IF ok THEN "ok" ELSE "failed"]
           passed == IF ok THEN q.passed \cup {p} ELSE q.passed
           allOK == q.allOK /\ ok
           result == [q EXCEPT !.late = late, !.next = @ + 1, !.allOK = allOK,
                               !.passed = passed, !.checks = checks]
<1>2. q \in RequestType /\ req \in [Requests -> RequestType]
  BY DEF TypeOK
<1>3. q.pc = "probe" /\ q.next \in 1..Len(Probes)
  BY <1>2 DEF Probe, RequestType
<1>4. p \in {"db"} \cup Topics
  BY <1>3, PlatformAssumption
<1>5. ok \in BOOLEAN /\ late \in BOOLEAN
  BY <1>2 DEF RequestType, Check, Stale
<1>6. checks \in UNION {[N -> {"ok", "failed"}] : N \in SUBSET {"db", "kafka"}}
  <2>1. PICK N \in SUBSET {"db", "kafka"} : q.checks \in [N -> {"ok", "failed"}]
    BY <1>2 DEF RequestType
  <2>2. Name(p) \in {"db", "kafka"}
    BY DEF Name
  <2> DEFINE M == N \cup {Name(p)}
  <2>3. M \in SUBSET {"db", "kafka"}
    BY <2>2
  <2>4. checks = [n \in M |-> IF n # Name(p) THEN q.checks[n]
                              ELSE IF ok THEN "ok" ELSE "failed"]
    BY <2>1
  <2> HIDE DEF ok, q, p
  <2>5. checks \in [M -> {"ok", "failed"}]
    BY <2>1, <2>4
  <2> QED  BY <2>3, <2>5
<1>7. passed \in SUBSET ({"db"} \cup Topics)
  BY <1>2, <1>4 DEF RequestType
<1>8. req' = [req EXCEPT ![r] = result]
  BY <1>1
<1>9. allOK \in BOOLEAN
  BY <1>2 DEF RequestType
<1>10. q.next + 1 \in 1..(Len(Probes) + 1)
  BY <1>3, PlatformAssumption
<1>11. allOK = (req[r].allOK /\ ok)
  OBVIOUS
<1> HIDE DEF ok, checks, passed, allOK
<1>12. result \in RequestType
  BY <1>2, <1>5, <1>6, <1>7, <1>9, <1>10 DEF RequestType
<1>13. /\ result.pc = "probe" /\ result.next = q.next + 1
       /\ result.allOK = allOK /\ result.passed = passed
  BY <1>2, <1>3 DEF RequestType
<1> HIDE DEF result
<1>14. req' \in [Requests -> RequestType] /\ \A s \in Requests : s # r => req'[s] = req[s]
  BY <1>2, <1>8, <1>12
<1>15. req'[r] = result
  BY <1>2, <1>8
<1>16. passed = IF ok THEN req[r].passed \cup {Probes[req[r].next]} ELSE req[r].passed
  BY DEF passed
<1> QED  BY <1>3, <1>5, <1>13, <1>14, <1>15, <1>16, <1>11

\* Every step keeps the types.
LEMMA NextTyped ==
    ASSUME TypeOK, [Next]_vars
    PROVE  TypeOK'
<1> USE DEF TypeOK
<1>1. CASE Signal
  BY <1>1 DEF Signal, resources, limiter
<1>2. ASSUME NEW t \in Topics, StatsRunner(t)
      PROVE  TypeOK'
  BY <1>2 DEF StatsRunner, resources, limiter
<1>3. ASSUME NEW t \in Topics, Poll(t)
      PROVE  TypeOK'
  BY <1>3 DEF Poll, pipelineUnchanged, limiter
<1>4. ASSUME NEW t \in Topics, PipelineReturns(t)
      PROVE  TypeOK'
  BY <1>4 DEF PipelineReturns, pipelineUnchanged, limiter
<1>5. CASE Start
  BY <1>5 DEF Start, serverUnchanged, resources, limiter
<1>6. CASE ServeReturns
  BY <1>6 DEF ServeReturns, serverUnchanged, resources, limiter
<1>7. ASSUME NEW r \in Requests, Arrive(r)
      PROVE  TypeOK'
  <2>1. UNCHANGED <<clock, group, main, resources>>
    BY <1>7 DEF Arrive, requestUnchanged
  <2> QED  BY <1>7, <2>1, ArriveTyped DEF group, resources
<1>8. ASSUME NEW r \in Requests, \E status \in Statuses : Answer(r, status),
             UNCHANGED <<clock, group, main, resources, limiter>>
      PROVE  TypeOK'
  <2>1. req' \in [Requests -> RequestType]
    BY <1>8, AnswerLemma
  <2> QED  BY <1>8, <2>1 DEF group, resources, limiter
<1>9. ASSUME NEW r \in Requests, Read(r)
      PROVE  TypeOK'
  BY <1>8, <1>9, ReadTyped DEF Read, requestUnchanged, group, resources, limiter
<1>10. ASSUME NEW r \in Requests, Probe(r)
       PROVE  TypeOK'
  <2>1. UNCHANGED <<clock, group, main, resources, limiter>>
    BY <1>10 DEF Probe, requestUnchanged
  <2>2. req' \in [Requests -> RequestType]
    BY <1>10, ProbeLemma
  <2> QED  BY <2>1, <2>2 DEF group, resources, limiter
<1>11. ASSUME NEW r \in Requests, Readyz(r)
       PROVE  TypeOK'
  <2>1. Verdict(req[r]) \in Statuses
    BY DEF Verdict, Statuses
  <2> QED  BY <1>8, <1>11, <2>1 DEF Readyz, requestUnchanged, group, resources, limiter
<1>12. CASE Tick
  <2>1. Refill(tokens) \in 0..Burst
    BY PlatformAssumption DEF Refill
  <2>2. clock + 1 \in 0..MaxTime
    BY <1>12, PlatformAssumption DEF Tick
  <2> QED  BY <1>12, <2>1, <2>2 DEF Tick, group, resources
<1>13. CASE BeginShutdown
  BY <1>13 DEF BeginShutdown, shutdownUnchanged, limiter
<1>14. CASE StopServer
  BY <1>14 DEF StopServer, shutdownUnchanged, limiter
<1>15. CASE CloseConsumers
  BY <1>15 DEF CloseConsumers, shutdownUnchanged, limiter
<1>16. CASE CloseDatabase
  BY <1>16 DEF CloseDatabase, group, limiter
<1>17. ASSUME NEW how \in {"exited", "crashed"}, Ends(how)
       PROVE  TypeOK'
  <2>1. [NewRequest EXCEPT !.pc = "killed"] \in RequestType
    BY NewRequestTyped DEF RequestType
  <2>2. req' \in [Requests -> RequestType]
    BY <1>17, <2>1 DEF Ends
  <2> QED  BY <1>17, <2>2 DEF Ends, group, resources, limiter
<1>18. CASE UNCHANGED vars
  BY <1>18 DEF vars, group, resources, limiter
<1> QED
  BY <1>1, <1>2, <1>3, <1>4, <1>5, <1>6, <1>7, <1>9, <1>10, <1>11, <1>12, <1>13, <1>14, <1>15,
     <1>16, <1>17, <1>18 DEF Next, Alive, Goroutines, Exit, Panic

-----------------------------------------------------------------------------
(* The parts of the inductive invariant.                                   *)

\* A handler that ends or goes on is no new one.
LEMMA HandlersEnd ==
    ASSUME TypeOK, NEW r \in Requests, Read(r) \/ Probe(r) \/ Readyz(r)
    PROVE  InFlight' \subseteq InFlight
<1>1. CASE Probe(r)
  BY <1>1, ProbeLemma DEF InFlight
<1>2. CASE \E status \in Statuses : Answer(r, status)
  BY <1>2, AnswerLemma DEF InFlight
<1>3. CASE Read(r)
  BY <1>2, <1>3, ReadTyped
<1>4. CASE Readyz(r)
  <2>1. Verdict(req[r]) \in Statuses
    BY DEF Verdict, Statuses
  <2> QED  BY <1>2, <1>4, <2>1 DEF Readyz
<1> QED  BY <1>1, <1>3, <1>4

LEMMA OrderNext ==
    ASSUME TypeOK, EndsInOrder, [Next]_vars
    PROVE  EndsInOrder'
<1> USE DEF EndsInOrder, Returned
<1>1. CASE Signal
  <2>1. UNCHANGED InFlight
    BY <1>1 DEF Signal, InFlight
  <2> QED  BY <1>1, <2>1 DEF Signal, resources
<1>2. ASSUME NEW t \in Topics, StatsRunner(t)
      PROVE  EndsInOrder'
  <2>1. UNCHANGED InFlight
    BY <1>2 DEF StatsRunner, InFlight
  <2> QED  BY <1>2, <2>1 DEF StatsRunner, resources
<1>3. ASSUME NEW t \in Topics, Poll(t)
      PROVE  EndsInOrder'
  <2>1. UNCHANGED InFlight
    BY <1>3 DEF Poll, pipelineUnchanged, InFlight
  <2> QED  BY <1>3, <2>1 DEF Poll, pipelineUnchanged
<1>4. ASSUME NEW t \in Topics, PipelineReturns(t)
      PROVE  EndsInOrder'
  <2>1. UNCHANGED InFlight
    BY <1>4 DEF PipelineReturns, pipelineUnchanged, InFlight
  <2>2. \A u \in Topics : pipeline'[u] = "returned" => cancelled'
    BY <1>4 DEF PipelineReturns, pipelineUnchanged
  <2>3. \A u \in Topics : pipeline[u] = "returned" => pipeline'[u] = "returned"
    BY <1>4 DEF PipelineReturns, TypeOK
  <2> QED  BY <1>4, <2>1, <2>2, <2>3 DEF PipelineReturns, pipelineUnchanged
<1>5. CASE Start
  <2>1. UNCHANGED InFlight
    BY <1>5 DEF Start, serverUnchanged, InFlight
  <2> QED  BY <1>5, <2>1 DEF Start, serverUnchanged, resources
<1>6. CASE ServeReturns
  <2>1. UNCHANGED InFlight
    BY <1>6 DEF ServeReturns, serverUnchanged, InFlight
  <2> QED  BY <1>6, <2>1 DEF ServeReturns, serverUnchanged, resources
<1>7. ASSUME NEW r \in Requests, Arrive(r)
      PROVE  EndsInOrder'
  <2>1. shutdown = "waiting" /\ UNCHANGED <<group, main, resources>>
    BY <1>7 DEF Arrive, requestUnchanged
  <2> QED  BY <2>1 DEF group, resources
<1>8. ASSUME NEW r \in Requests, Read(r) \/ Probe(r) \/ Readyz(r)
      PROVE  EndsInOrder'
  <2>1. UNCHANGED <<group, main, resources>>
    BY <1>8 DEF Read, Probe, Readyz, requestUnchanged
  <2>2. InFlight' \subseteq InFlight
    BY <1>8, HandlersEnd
  <2> QED  BY <2>1, <2>2 DEF group, resources
<1>9. CASE Tick
  <2>1. UNCHANGED InFlight
    BY <1>9 DEF Tick, InFlight
  <2> QED  BY <1>9, <2>1 DEF Tick, group, resources
<1>10. CASE BeginShutdown
  BY <1>10 DEF BeginShutdown, shutdownUnchanged
<1>11. CASE StopServer
  <2>1. UNCHANGED InFlight
    BY <1>11 DEF StopServer, shutdownUnchanged, InFlight
  <2> QED  BY <1>11, <2>1 DEF StopServer, shutdownUnchanged
<1>12. CASE CloseConsumers
  <2>1. UNCHANGED InFlight
    BY <1>12 DEF CloseConsumers, shutdownUnchanged, InFlight
  <2> QED  BY <1>12, <2>1 DEF CloseConsumers, shutdownUnchanged
<1>13. CASE CloseDatabase
  <2>1. UNCHANGED InFlight
    BY <1>13 DEF CloseDatabase, InFlight
  <2> QED  BY <1>13, <2>1 DEF CloseDatabase, GroupReturned, group
<1>14. ASSUME NEW how \in {"exited", "crashed"}, Ends(how)
       PROVE  EndsInOrder'
  <2>1. InFlight' \subseteq InFlight
    <3>1. [NewRequest EXCEPT !.pc = "killed"].pc = "killed"
      BY DEF NewRequest
    <3> QED  BY <1>14, <3>1 DEF Ends, InFlight
  <2> QED  BY <1>14, <2>1 DEF Ends, group, resources
<1>15. CASE UNCHANGED vars
  <2>1. UNCHANGED InFlight
    BY <1>15 DEF vars, InFlight
  <2> QED  BY <1>15, <2>1 DEF vars, group, resources
<1> QED
  BY <1>1, <1>2, <1>3, <1>4, <1>5, <1>6, <1>7, <1>8, <1>9, <1>10, <1>11, <1>12, <1>13, <1>14,
     <1>15 DEF Next, Alive, Goroutines, Exit, Panic

\* What becomes of the requests in a step.
LEMMA RequestSteps ==
    ASSUME [Next]_vars
    PROVE  \/ UNCHANGED req
           \/ \E r \in Requests : Arrive(r) \/ Read(r) \/ Probe(r) \/ Readyz(r)
           \/ \E how \in {"exited", "crashed"} : Ends(how)
<1>1. CASE \/ Signal \/ Start \/ ServeReturns \/ Tick \/ CloseDatabase \/ UNCHANGED vars
           \/ BeginShutdown \/ StopServer \/ CloseConsumers
  BY <1>1 DEF Signal, Start, ServeReturns, serverUnchanged, Tick, CloseDatabase, vars,
              BeginShutdown, StopServer, CloseConsumers, shutdownUnchanged
<1>2. ASSUME NEW t \in Topics, StatsRunner(t) \/ Poll(t) \/ PipelineReturns(t)
      PROVE  UNCHANGED req
  BY <1>2 DEF StatsRunner, Poll, PipelineReturns, pipelineUnchanged
<1> QED  BY <1>1, <1>2 DEF Next, Alive, Goroutines, Exit, Panic

\* A call is answered, probed, or let through; no other request changes.
LEMMA ArriveLemma ==
    ASSUME TypeOK, NEW r \in Requests, Arrive(r)
    PROVE  /\ req[r].pc = "new"
           /\ \/ \E status \in Statuses : Answer(r, status)
              \/ \E call \in Calls[r] :
                    req' = [req EXCEPT ![r] = [[req[r] EXCEPT !.call = call] EXCEPT !.pc = "probe"]]
              \/ \E call \in Calls[r] :
                    /\ Handle(call, clock) = None
                    /\ req' = [req EXCEPT ![r] = [[req[r] EXCEPT !.call = call]
                                                    EXCEPT !.pc = "read", !.at = clock]]
<1>1. {"200", "429"} \subseteq Statuses /\ (\A call : Unrouted(call) \in Statuses)
  BY DEF Unrouted, Statuses
<1> QED  BY <1>1, HandleAnswers DEF Arrive

LEMMA ChainNext ==
    ASSUME TypeOK, CameThroughTheChain, [Next]_vars
    PROVE  CameThroughTheChain'
<1> USE DEF CameThroughTheChain
<1>1. CASE UNCHANGED req
  BY <1>1
<1>2. ASSUME NEW r \in Requests, \E status \in Statuses : Answer(r, status)
      PROVE  CameThroughTheChain'
  BY <1>2, AnswerLemma
<1>3. ASSUME NEW r \in Requests, Arrive(r)
      PROVE  CameThroughTheChain'
  <2>1. req \in [Requests -> RequestType] /\ req[r] \in RequestType
    BY DEF TypeOK
  <2>2. ASSUME NEW call \in Calls[r],
               req' = [req EXCEPT ![r] = [[req[r] EXCEPT !.call = call] EXCEPT !.pc = "probe"]]
        PROVE  CameThroughTheChain'
    BY <2>1, <2>2 DEF RequestType
  <2>3. ASSUME NEW call \in Calls[r], Handle(call, clock) = None,
               req' = [req EXCEPT ![r] = [[req[r] EXCEPT !.call = call]
                                             EXCEPT !.pc = "read", !.at = clock]]
        PROVE  CameThroughTheChain'
    <3>1. req'[r].call = call /\ req'[r].at = clock
      BY <2>1, <2>3 DEF RequestType
    <3>2. \A s \in Requests : s # r => req'[s] = req[s]
      BY <2>1, <2>3
    <3> QED  BY <2>3, <3>1, <3>2
  <2> QED  BY <1>2, <1>3, <2>2, <2>3, ArriveLemma
<1>4. ASSUME NEW r \in Requests, Read(r)
      PROVE  CameThroughTheChain'
  BY <1>2, <1>4, ReadTyped
<1>5. ASSUME NEW r \in Requests, Readyz(r)
      PROVE  CameThroughTheChain'
  <2>1. Verdict(req[r]) \in Statuses
    BY DEF Verdict, Statuses
  <2> QED  BY <1>2, <1>5, <2>1 DEF Readyz
<1>6. ASSUME NEW r \in Requests, Probe(r)
      PROVE  CameThroughTheChain'
  BY <1>6, ProbeLemma
<1>7. ASSUME NEW how, Ends(how)
      PROVE  CameThroughTheChain'
  <2>1. [NewRequest EXCEPT !.pc = "killed"].pc = "killed"
    BY DEF NewRequest
  <2>2. \A r \in Requests : req'[r].pc # "read" \/ req'[r] = req[r]
    BY <1>7, <2>1 DEF Ends
  <2> QED  BY <2>2
<1> QED  BY <1>1, <1>3, <1>4, <1>5, <1>6, <1>7, RequestSteps

\* One more probe that passes completes the probes asked so far exactly when
\* all the ones before it passed, because no probe is asked twice.
LEMMA OneMoreProbe ==
    ASSUME NEW n \in 1..Len(Probes), NEW passed, NEW all \in BOOLEAN, NEW ok \in BOOLEAN,
           passed \subseteq {Probes[k] : k \in 1..(n - 1)},
           all <=> passed = {Probes[k] : k \in 1..(n - 1)},
           NEW new, new = IF ok THEN passed \cup {Probes[n]} ELSE passed
    PROVE  /\ new \subseteq {Probes[k] : k \in 1..n}
           /\ (all /\ ok) <=> new = {Probes[k] : k \in 1..n}
<1> DEFINE A == {Probes[k] : k \in 1..(n - 1)}
           B == {Probes[k] : k \in 1..n}
<1>1. Len(Probes) \in Nat /\ DOMAIN Probes = 1..Len(Probes)
  BY PlatformAssumption
<1>2. B = A \cup {Probes[n]}
  <2>1. 1..n = (1..(n - 1)) \cup {n}
    BY <1>1
  <2> QED  BY <2>1
<1>3. Probes[n] \notin A
  <2>1. \A k \in 1..(n - 1) : k \in DOMAIN Probes /\ n \in DOMAIN Probes /\ k # n
    BY <1>1
  <2> QED  BY <2>1, PlatformAssumption
<1>4. passed \subseteq A /\ (all <=> passed = A)
  OBVIOUS
<1> HIDE DEF A, B
<1>5. new \subseteq B /\ ((all /\ ok) <=> new = B)
  <2>1. CASE ok = TRUE
    BY <1>2, <1>3, <1>4, <2>1
  <2>2. CASE ok = FALSE
    BY <1>2, <1>3, <1>4, <2>2
  <2> QED  BY <2>1, <2>2
<1> QED  BY <1>5 DEF B

LEMMA VerdictNext ==
    ASSUME TypeOK, VerdictSoFar, [Next]_vars
    PROVE  VerdictSoFar'
<1> USE DEF VerdictSoFar
<1>1. CASE UNCHANGED req
  BY <1>1 DEF Asked
<1>2. ASSUME NEW r \in Requests, \E status \in Statuses : Answer(r, status)
      PROVE  VerdictSoFar'
  <2>1. PICK status \in Statuses : Answer(r, status)
    BY <1>2
  <2>2. /\ req'[r].next = 1 /\ req'[r].passed = {} /\ req'[r].allOK = TRUE
        /\ \A s \in Requests : s # r => req'[s] = req[s]
    BY <2>1, AnswerLemma
  <2> QED  BY <2>2, NothingAsked DEF Asked
<1>3. ASSUME NEW r \in Requests, Arrive(r)
      PROVE  VerdictSoFar'
  <2>1. req \in [Requests -> RequestType] /\ req[r] \in RequestType
    BY DEF TypeOK
  <2>2. ASSUME NEW new, req' = [req EXCEPT ![r] = new], new.next = req[r].next,
               new.passed = req[r].passed, new.allOK = req[r].allOK
        PROVE  VerdictSoFar'
    BY <2>1, <2>2 DEF Asked
  <2>3. ASSUME NEW call \in Calls[r],
               req' = [req EXCEPT ![r] = [[req[r] EXCEPT !.call = call] EXCEPT !.pc = "probe"]]
        PROVE  VerdictSoFar'
    <3> DEFINE new == [[req[r] EXCEPT !.call = call] EXCEPT !.pc = "probe"]
    <3>1. /\ new.next = req[r].next /\ new.passed = req[r].passed
          /\ new.allOK = req[r].allOK
      BY <2>1 DEF RequestType
    <3>2. req' = [req EXCEPT ![r] = new]
      BY <2>3
    <3> HIDE DEF new
    <3> QED  BY <2>2, <3>1, <3>2
  <2>4. ASSUME NEW call \in Calls[r],
               req' = [req EXCEPT ![r] = [[req[r] EXCEPT !.call = call]
                                             EXCEPT !.pc = "read", !.at = clock]]
        PROVE  VerdictSoFar'
    <3> DEFINE new == [[req[r] EXCEPT !.call = call] EXCEPT !.pc = "read", !.at = clock]
    <3>1. /\ new.next = req[r].next /\ new.passed = req[r].passed
          /\ new.allOK = req[r].allOK
      BY <2>1 DEF RequestType
    <3>2. req' = [req EXCEPT ![r] = new]
      BY <2>4
    <3> HIDE DEF new
    <3> QED  BY <2>2, <3>1, <3>2
  <2> QED  BY <1>2, <1>3, <2>3, <2>4, ArriveLemma
<1>4. ASSUME NEW r \in Requests, Read(r)
      PROVE  VerdictSoFar'
  BY <1>2, <1>4, ReadTyped
<1>5. ASSUME NEW r \in Requests, Readyz(r)
      PROVE  VerdictSoFar'
  <2>1. Verdict(req[r]) \in Statuses
    BY DEF Verdict, Statuses
  <2> QED  BY <1>2, <1>5, <2>1 DEF Readyz
<1>6. ASSUME NEW r \in Requests, Probe(r)
      PROVE  VerdictSoFar'
  <2> DEFINE n == req[r].next
  <2>1. PICK ok \in BOOLEAN :
           /\ req'[r].allOK = (req[r].allOK /\ ok)
           /\ req'[r].passed = IF ok THEN req[r].passed \cup {Probes[n]} ELSE req[r].passed
    BY <1>6, ProbeLemma
  <2>2. /\ n \in 1..Len(Probes) /\ req'[r].next = n + 1
        /\ \A s \in Requests : s # r => req'[s] = req[s]
    BY <1>6, ProbeLemma
  <2>3. req[r].allOK \in BOOLEAN
    BY DEF TypeOK, RequestType
  <2>4. Asked(req[r]) = {Probes[k] : k \in 1..(n - 1)}
    BY DEF Asked
  <2>5. Asked(req'[r]) = {Probes[k] : k \in 1..n}
    BY <2>2, PlatformAssumption DEF Asked
  <2>6. /\ req'[r].passed \subseteq Asked(req'[r])
        /\ req'[r].allOK <=> req'[r].passed = Asked(req'[r])
    <3>1. /\ req[r].passed \subseteq {Probes[k] : k \in 1..(n - 1)}
          /\ req[r].allOK <=> req[r].passed = {Probes[k] : k \in 1..(n - 1)}
      BY <2>4
    <3>2. /\ req'[r].passed \subseteq {Probes[k] : k \in 1..n}
          /\ (req[r].allOK /\ ok) <=> req'[r].passed = {Probes[k] : k \in 1..n}
      <4> DEFINE passed == req[r].passed
                 all == req[r].allOK
                 new == req'[r].passed
      <4>1. all \in BOOLEAN
        BY <2>3
      <4> HIDE DEF n, passed, all, new
      <4>2. new = IF ok THEN passed \cup {Probes[n]} ELSE passed
        BY <2>1 DEF passed, new
      <4>3. n \in 1..Len(Probes)
        BY <2>2
      <4>4. /\ passed \subseteq {Probes[k] : k \in 1..(n - 1)}
            /\ all <=> passed = {Probes[k] : k \in 1..(n - 1)}
        BY <3>1 DEF passed, all
      <4>5. /\ new \subseteq {Probes[k] : k \in 1..n}
            /\ (all /\ ok) <=> new = {Probes[k] : k \in 1..n}
        BY <4>1, <4>2, <4>3, <4>4, OneMoreProbe
      <4> QED  BY <4>5 DEF new, all
    <3> QED  BY <2>1, <2>5, <3>2
  <2>7. \A s \in Requests : s # r => Asked(req'[s]) = Asked(req[s])
    BY <2>2
  <2> QED  BY <2>2, <2>6, <2>7 DEF Asked
<1>7. ASSUME NEW how, Ends(how)
      PROVE  VerdictSoFar'
  <2>1. /\ [NewRequest EXCEPT !.pc = "killed"].next = 1
        /\ [NewRequest EXCEPT !.pc = "killed"].passed = {}
        /\ [NewRequest EXCEPT !.pc = "killed"].allOK = TRUE
    BY DEF NewRequest
  <2>2. \A r \in Requests : req'[r] \in {[NewRequest EXCEPT !.pc = "killed"], req[r]}
    BY <1>7 DEF Ends
  <2> QED  BY <2>1, <2>2, NothingAsked DEF Asked
<1> QED  BY <1>1, <1>3, <1>4, <1>5, <1>6, <1>7, RequestSteps

LEMMA InitInductive == Init => IInv
<1> SUFFICES ASSUME Init PROVE IInv
  OBVIOUS
<1>1. TypeOK
  BY InitTyped
<1>3. EndsInOrder
  BY DEF Init, EndsInOrder, Returned
<1>4. \A r \in Requests :
         /\ req[r].pc = "new" /\ req[r].next = 1 /\ req[r].passed = {} /\ req[r].allOK = TRUE
  BY DEF Init, NewRequest
<1>5. CameThroughTheChain
  BY <1>4 DEF CameThroughTheChain
<1>6. VerdictSoFar
  BY <1>4, NothingAsked DEF VerdictSoFar, Asked
<1> QED  BY <1>1, <1>3, <1>5, <1>6 DEF IInv

LEMMA NextInductive == IInv /\ [Next]_vars => IInv'
  BY NextTyped, OrderNext, ChainNext, VerdictNext DEF IInv

-----------------------------------------------------------------------------
(* The theorems.                                                           *)

\* Every reachable state satisfies the inductive invariant.
THEOREM Invariance == Spec => []IInv
<1>1. Init => IInv
  BY InitInductive
<1>2. IInv /\ [Next]_vars => IInv'
  BY NextInductive
<1> QED  BY <1>1, <1>2, PTL DEF Spec

\* The variables keep their types, for any topics, requests, calls and limits:
\* the bucket of the limiter never exceeds its burst, no matter how the clock
\* and the calls interleave.
THEOREM TypeCorrect == Spec => []TypeOK
<1>1. IInv => TypeOK
  BY DEF IInv
<1> QED  BY <1>1, Invariance, PTL

\* main.go:251-307: the database is closed after every pipeline has returned
\* and after every handler that Shutdown did not give up on, and a consumer is
\* closed only while the group is cancelled, also when a pipeline panics.
THEOREM ResourcesSafe == Spec => []ResourcesOutliveTheirUsers
<1>1. IInv => ResourcesOutliveTheirUsers
  <2> SUFFICES ASSUME IInv PROVE ResourcesOutliveTheirUsers
    OBVIOUS
  <2>1. /\ shutdown # "waiting" => cancelled
        /\ shutdown \in {"consumers", "returned"} => (InFlight # {} => deadline)
        /\ \A t \in Topics : consumer[t] = "closed" => shutdown = "returned"
        /\ db = "closed" => Returned(shutdown) /\ \A t \in Topics : Returned(pipeline[t])
    BY DEF IInv, EndsInOrder
  <2> QED  BY <2>1 DEF ResourcesOutliveTheirUsers, Returned
<1> QED  BY <1>1, Invariance, PTL

\* No call gets as far as a read of the store without a token that was valid
\* for this API when it arrived (auth.go, middleware.go, handler.go).
THEOREM ReadsAreEntitled == Spec => []OnlyTheEntitledRead
<1>1. IInv => OnlyTheEntitledRead
  <2> SUFFICES ASSUME IInv, NEW r \in Requests, req[r].pc = "read"
               PROVE  LET q == req[r]
                          t == q.call.token
                      IN /\ q.call.header = "bearer"
                         /\ t.alg = "HMAC" /\ t.signed /\ t.exp > q.at /\ t.nbf <= q.at
                         /\ t.iss = Issuer /\ t.aud = Audience
                         /\ t.sub # None /\ t.client # None
                         /\ t.scope.form \in {"string", "list"} /\ ReadScope \in t.scope.names
    BY DEF OnlyTheEntitledRead
  <2>1. req[r].call \in Calls[r] /\ Handle(req[r].call, req[r].at) = None
    BY DEF IInv, CameThroughTheChain
  <2>2. req[r].at \in Nat
    BY PlatformAssumption DEF IInv, TypeOK, RequestType
  <2>3. req[r].call.token.exp \in Nat /\ req[r].call.token.nbf \in Nat
    BY <2>1, PlatformAssumption
  <2> QED  BY <2>1, <2>2, <2>3, ChainLemma
<1> QED  BY <1>1, Invariance, PTL

\* health.go:33-67: /readyz answers 200 when each probe passed and 503 when one
\* did not, for any number of consumers that report under one name.
THEOREM ReadinessIsEarned == Spec => ReadyIsEarned
<1> DEFINE Earned == \A r \in Requests :
              req[r].pc = "probe" /\ req'[r].pc = "answered" =>
                 (req'[r].status = "200" <=> req[r].passed = {"db"} \cup Topics)
<1>1. IInv /\ [Next]_vars => Earned
  <2> SUFFICES ASSUME IInv, [Next]_vars, NEW r \in Requests,
                      req[r].pc = "probe", req'[r].pc = "answered"
               PROVE  req'[r].status = "200" <=> req[r].passed = {"db"} \cup Topics
    OBVIOUS
  <2>1. TypeOK /\ VerdictSoFar
    BY DEF IInv
  <2>2. ~UNCHANGED req
    OBVIOUS
  <2>3. ASSUME NEW how PROVE ~Ends(how)
    <3>1. [NewRequest EXCEPT !.pc = "killed"].pc = "killed"
      BY DEF NewRequest
    <3> QED  BY <3>1 DEF Ends
  <2>4. PICK s \in Requests : Arrive(s) \/ Read(s) \/ Probe(s) \/ Readyz(s)
    BY <2>2, <2>3, RequestSteps
  <2>5. ~Probe(s)
    BY <2>1, ProbeLemma
  <2>6. s = r
    <3>1. ASSUME NEW status \in Statuses, Answer(s, status)
          PROVE  s = r
      BY <2>1, <3>1, AnswerLemma
    <3>2. CASE Arrive(s)
      <4>1. req \in [Requests -> RequestType]
        BY <2>1 DEF TypeOK
      <4> QED  BY <2>1, <3>1, <3>2, <4>1, ArriveLemma
    <3>3. CASE Read(s)
      BY <2>1, <3>1, <3>3, ReadTyped
    <3>4. CASE Readyz(s)
      <4>1. Verdict(req[s]) \in Statuses
        BY DEF Verdict, Statuses
      <4> QED  BY <3>1, <3>4, <4>1 DEF Readyz
    <3> QED  BY <2>4, <2>5, <3>2, <3>3, <3>4
  <2>7. Readyz(r)
    BY <2>4, <2>5, <2>6 DEF Arrive, Read
  <2>8. req'[r].status = Verdict(req[r]) /\ req[r].next > Len(Probes)
    <3>1. Verdict(req[r]) \in Statuses
      BY DEF Verdict, Statuses
    <3> QED  BY <2>1, <2>7, <3>1, AnswerLemma DEF Readyz
  <2>9. Asked(req[r]) = {"db"} \cup Topics
    <3>1. req[r].next = Len(Probes) + 1 /\ Len(Probes) \in Nat
      <4>1. req[r] \in RequestType /\ Len(Probes) \in Nat
        BY <2>1, PlatformAssumption DEF TypeOK
      <4>2. req[r].next \in 1..(Len(Probes) + 1)
        BY <4>1 DEF RequestType
      <4> QED  BY <2>8, <4>1, <4>2
    <3>2. 1..(req[r].next - 1) = DOMAIN Probes
      BY <3>1, PlatformAssumption
    <3>3. \A k \in DOMAIN Probes : Probes[k] \in {"db"} \cup Topics
      BY PlatformAssumption
    <3>4. \A p \in {"db"} \cup Topics : \E k \in DOMAIN Probes : Probes[k] = p
      BY PlatformAssumption
    <3>5. Asked(req[r]) = {Probes[k] : k \in DOMAIN Probes}
      BY <3>2 DEF Asked
    <3> QED  BY <3>3, <3>4, <3>5
  <2>10. req[r].allOK <=> req[r].passed = {"db"} \cup Topics
    BY <2>1, <2>9 DEF VerdictSoFar
  <2> QED  BY <2>8, <2>10 DEF Verdict
<1>2. IInv /\ [Next]_vars => [Earned]_vars
  BY <1>1
<1>3. Spec => [][Earned]_vars
  BY <1>2, Invariance, PTL DEF Spec
<1> QED  BY <1>3 DEF ReadyIsEarned

-----------------------------------------------------------------------------
(* Sums over an interval, as AdmittedBetween takes them.                   *)

\* Natural numbers have a least one in every set that is not empty.
LEMMA LeastNumber ==
    ASSUME NEW T, T \subseteq Nat, T # {}
    PROVE  \E x \in T : \A y \in T : x <= y
<1> DEFINE R == OpToRel(<, Nat)
<1>1. IsWellFoundedOn(R, Nat)
  BY NatLessThanWellFounded
<1>2. \A x, y \in Nat : y < x => <<y, x>> \in R
  BY DEF OpToRel
<1> HIDE DEF R
<1>3. PICK x \in T : \A y \in T : ~ (<<y, x>> \in R)
  BY <1>1, WFMin
<1>4. ASSUME NEW y \in T PROVE x <= y
  <2>1. x \in Nat /\ y \in Nat /\ ~ (<<y, x>> \in R)
    BY <1>3
  <2>2. ~ (y < x)
    BY <1>2, <2>1
  <2> QED  BY <2>1, <2>2
<1> QED  BY <1>4

\* The partial sums of f from a up to b.
PartialSums(f, a, b, upTo) ==
    upTo = [i \in (a - 1)..b |-> IF i < a THEN 0 ELSE upTo[i - 1] + f[i]]

SumOf(f, a, b) == (CHOOSE upTo : PartialSums(f, a, b, upTo))[b]

\* The recursion has a solution, or there would be a least length without one.
LEMMA SumsExist ==
    ASSUME NEW f, NEW a \in Nat, NEW b \in Nat, a <= b
    PROVE  PartialSums(f, a, b, CHOOSE upTo : PartialSums(f, a, b, upTo))
<1> DEFINE Summable(n) == \E upTo : PartialSums(f, a, n, upTo)
           T == {n \in Nat : a <= n /\ ~ Summable(n)}
<1>1. Summable(a)
  <2> DEFINE g == [i \in (a - 1)..a |-> IF i < a THEN 0 ELSE 0 + f[i]]
  <2>1. g = [i \in (a - 1)..a |-> IF i < a THEN 0 ELSE g[i - 1] + f[i]]
    <3>1. ASSUME NEW i \in (a - 1)..a
          PROVE  g[i] = IF i < a THEN 0 ELSE g[i - 1] + f[i]
      <4>1. i < a \/ (i = a /\ i - 1 \in (a - 1)..a /\ i - 1 < a)
        OBVIOUS
      <4> QED  BY <4>1
    <3> HIDE DEF g
    <3>2. g = [i \in (a - 1)..a |-> g[i]]
      BY DEF g
    <3> QED  BY <3>1, <3>2
  <2> QED  BY <2>1 DEF PartialSums
<1>2. ASSUME NEW n \in Nat, a <= n, Summable(n) PROVE Summable(n + 1)
  <2>1. PICK h : PartialSums(f, a, n, h)
    BY <1>2
  <2> DEFINE g == [i \in (a - 1)..(n + 1) |-> IF i = n + 1 THEN h[n] + f[n + 1] ELSE h[i]]
  <2>2. ASSUME NEW i \in (a - 1)..(n + 1)
        PROVE  g[i] = IF i < a THEN 0 ELSE g[i - 1] + f[i]
    <3>1. CASE i = n + 1
      <4>1. n \in (a - 1)..(n + 1) /\ n # n + 1 /\ i - 1 = n /\ ~ (i < a)
        BY <1>2, <3>1
      <4>2. g[n] = h[n] /\ g[n + 1] = h[n] + f[n + 1]
        BY <3>1, <4>1
      <4> QED  BY <3>1, <4>1, <4>2
    <3>2. CASE i # n + 1 /\ i < a
      <4>1. i \in (a - 1)..n
        BY <1>2, <3>2
      <4>2. h[i] = 0
        BY <2>1, <3>2, <4>1 DEF PartialSums
      <4> QED  BY <3>2, <4>2
    <3>3. CASE i # n + 1 /\ ~ (i < a)
      <4>1. i \in (a - 1)..n /\ i - 1 \in (a - 1)..(n + 1) /\ i - 1 # n + 1
        BY <1>2, <3>3
      <4>2. h[i] = h[i - 1] + f[i]
        BY <2>1, <3>3, <4>1 DEF PartialSums
      <4> QED  BY <3>3, <4>1, <4>2
    <3> QED  BY <3>1, <3>2, <3>3
  <2>3. g = [i \in (a - 1)..(n + 1) |-> g[i]]
    OBVIOUS
  <2> HIDE DEF g
  <2>4. g = [i \in (a - 1)..(n + 1) |-> IF i < a THEN 0 ELSE g[i - 1] + f[i]]
    BY <2>2, <2>3
  <2> QED  BY <2>4 DEF PartialSums
<1> HIDE DEF Summable
<1>3. T = {}
  <2> SUFFICES ASSUME T # {} PROVE FALSE
    OBVIOUS
  <2>1. PICK n \in T : \A k \in T : n <= k
    BY LeastNumber
  <2>2. n \in Nat /\ a <= n /\ ~ Summable(n) /\ n # a
    BY <1>1
  <2>3. n - 1 \in Nat /\ a <= n - 1 /\ ~ (n <= n - 1) /\ (n - 1) + 1 = n
    BY <2>2
  <2>4. Summable(n - 1)
    BY <2>1, <2>3
  <2> QED  BY <1>2, <2>2, <2>3, <2>4
<1>4. \E upTo : PartialSums(f, a, b, upTo)
  BY <1>3 DEF Summable
<1> QED  BY <1>4

\* Two solutions agree as far as both go, or there would be a least difference.
LEMMA SumsAgree ==
    ASSUME NEW f, NEW g, NEW a \in Nat, NEW b \in Nat, NEW c \in Nat, a <= b, b <= c,
           NEW s, NEW t, PartialSums(f, a, b, s), PartialSums(g, a, c, t),
           \A i \in a..b : f[i] = g[i]
    PROVE  s[b] = t[b]
<1> DEFINE T == {n \in Nat : n <= b - (a - 1) /\ s[(a - 1) + n] # t[(a - 1) + n]}
<1>1. ASSUME NEW i \in (a - 1)..b
      PROVE  /\ s[i] = IF i < a THEN 0 ELSE s[i - 1] + f[i]
             /\ t[i] = IF i < a THEN 0 ELSE t[i - 1] + g[i]
  <2>1. i \in (a - 1)..c
    OBVIOUS
  <2> QED  BY <2>1 DEF PartialSums
<1>2. T = {}
  <2> SUFFICES ASSUME T # {} PROVE FALSE
    OBVIOUS
  <2>1. PICK n \in T : \A k \in T : n <= k
    BY LeastNumber
  <2> DEFINE i == (a - 1) + n
  <2>2. n \in Nat /\ i \in (a - 1)..b /\ s[i] # t[i]
    OBVIOUS
  <2>3. ~ (i < a)
    BY <1>1, <2>2
  <2>4. n - 1 \in Nat /\ n - 1 <= b - (a - 1) /\ ~ (n <= n - 1) /\ i - 1 = (a - 1) + (n - 1)
    BY <2>2, <2>3
  <2>5. s[i - 1] = t[i - 1]
    BY <2>1, <2>4
  <2>6. f[i] = g[i]
    BY <2>2, <2>3
  <2> QED  BY <1>1, <2>2, <2>3, <2>5, <2>6
<1>3. PICK n \in Nat : n <= b - (a - 1) /\ (a - 1) + n = b
  <2>1. b - (a - 1) \in Nat /\ (a - 1) + (b - (a - 1)) = b
    OBVIOUS
  <2> QED  BY <2>1
<1>4. n \notin T
  BY <1>2
<1> QED  BY <1>3, <1>4

LEMMA SumsOfEquals ==
    ASSUME NEW f, NEW g, NEW a \in Nat, NEW b \in Nat, a <= b, \A i \in a..b : f[i] = g[i]
    PROVE  SumOf(f, a, b) = SumOf(g, a, b)
  BY SumsExist, SumsAgree DEF SumOf

LEMMA SumOfOne ==
    ASSUME NEW f, NEW a \in Nat, f[a] \in Nat
    PROVE  SumOf(f, a, a) = f[a]
<1> DEFINE s == CHOOSE upTo : PartialSums(f, a, a, upTo)
<1>1. PartialSums(f, a, a, s)
  BY SumsExist
<1> HIDE DEF s
<1>2. a - 1 \in (a - 1)..a /\ a \in (a - 1)..a /\ a - 1 < a
  OBVIOUS
<1>3. s[a - 1] = 0 /\ s[a] = s[a - 1] + f[a]
  BY <1>1, <1>2 DEF PartialSums
<1> QED  BY <1>3 DEF SumOf, s

LEMMA SumOfOneMore ==
    ASSUME NEW f, NEW a \in Nat, NEW b \in Nat, a <= b
    PROVE  SumOf(f, a, b + 1) = SumOf(f, a, b) + f[b + 1]
<1> DEFINE u == CHOOSE upTo : PartialSums(f, a, b, upTo)
           v == CHOOSE upTo : PartialSums(f, a, b + 1, upTo)
<1>1. PartialSums(f, a, b, u) /\ PartialSums(f, a, b + 1, v)
  BY SumsExist
<1>2. ASSUME NEW c \in Nat, b <= c, NEW s, NEW t,
             PartialSums(f, a, b, s), PartialSums(f, a, c, t)
      PROVE  s[b] = t[b]
  BY <1>2, SumsAgree
<1> HIDE DEF u, v
<1>3. b + 1 \in Nat /\ b <= b + 1
  OBVIOUS
<1>4. u[b] = v[b]
  BY <1>1, <1>2, <1>3
<1>5. v[b + 1] = v[b] + f[b + 1]
  <2>1. b + 1 \in (a - 1)..(b + 1) /\ ~ (b + 1 < a) /\ (b + 1) - 1 = b
    OBVIOUS
  <2> QED  BY <1>1, <2>1 DEF PartialSums
<1> QED  BY <1>4, <1>5 DEF SumOf, u, v

-----------------------------------------------------------------------------
(* The rate limiter.                                                       *)

LEMMA AdmittedAsSum == \A a, b : AdmittedBetween(a, b) = SumOf(admitted, a, b)
  BY DEF AdmittedBetween, SumOf, PartialSums

\* At time c, n calls are left in the bucket, and those let through at each time
\* are f: what was let through since any time was in the bucket then or has been
\* filled in since, what is left included, and the same held at any time before.
Paid(f, c, n) ==
    /\ \A i \in 0..MaxTime : i > c => f[i] = 0
    /\ \A a \in 0..c : SumOf(f, a, c) + n <= Burst + Rps * (c - a)
    /\ \A a \in 0..c : \A b \in a..c : SumOf(f, a, b) <= Burst + Rps * (b - a)

BucketPays == Paid(admitted, clock, tokens)

\* Only calls that arrive and the clock move the limiter.
LEMMA LimiterSteps ==
    ASSUME TypeOK, [Next]_vars
    PROVE  \/ UNCHANGED <<clock, tokens, admitted>>
           \/ Tick
           \/ /\ tokens > 0 /\ tokens' = tokens - 1
              /\ admitted' = [admitted EXCEPT ![clock] = @ + 1]
              /\ UNCHANGED clock
<1>1. CASE \/ Signal \/ Start \/ ServeReturns \/ CloseDatabase \/ UNCHANGED vars
           \/ BeginShutdown \/ StopServer \/ CloseConsumers
           \/ \E how \in {"exited", "crashed"} : Ends(how)
  BY <1>1 DEF Signal, Start, ServeReturns, serverUnchanged, CloseDatabase, vars, Ends,
              BeginShutdown, StopServer, CloseConsumers, shutdownUnchanged, limiter
<1>2. ASSUME NEW t \in Topics, StatsRunner(t) \/ Poll(t) \/ PipelineReturns(t)
      PROVE  UNCHANGED <<clock, tokens, admitted>>
  BY <1>2 DEF StatsRunner, Poll, PipelineReturns, pipelineUnchanged, limiter
<1>3. ASSUME NEW r \in Requests, Read(r) \/ Probe(r) \/ Readyz(r)
      PROVE  UNCHANGED <<clock, tokens, admitted>>
  BY <1>3 DEF Read, Probe, Readyz, requestUnchanged, limiter
<1>4. ASSUME NEW r \in Requests, Arrive(r)
      PROVE  /\ UNCHANGED clock
             /\ \/ UNCHANGED <<tokens, admitted>>
                \/ /\ tokens > 0 /\ tokens' = tokens - 1
                   /\ admitted' = [admitted EXCEPT ![clock] = @ + 1]
  BY <1>4, Zenon DEF Arrive, requestUnchanged, limiter
<1> QED  BY <1>1, <1>2, <1>3, <1>4 DEF Next, Alive, Goroutines, Exit, Panic

LEMMA LimiterInitially == Init => BucketPays
<1> SUFFICES ASSUME Init PROVE BucketPays
  OBVIOUS
<1>1. clock = 0 /\ tokens = Burst /\ 0 \in 0..MaxTime /\ \A i \in 0..MaxTime : admitted[i] = 0
  BY PlatformAssumption DEF Init
<1>2. SumOf(admitted, 0, 0) = 0
  BY <1>1, SumOfOne
<1>3. Burst \in Nat /\ Rps * (0 - 0) = 0 /\ \A a \in 0..0 : a = 0
  BY PlatformAssumption
<1>4. \A a \in 0..0 : SumOf(admitted, a, 0) + Burst <= Burst + Rps * (0 - a)
  BY <1>2, <1>3
<1>5. \A a \in 0..0 : \A b \in a..0 : SumOf(admitted, a, b) <= Burst + Rps * (b - a)
  <2>1. \A a \in 0..0 : \A b \in a..0 : a = 0 /\ b = 0
    OBVIOUS
  <2> QED  BY <1>2, <1>3, <2>1
<1> QED  BY <1>1, <1>4, <1>5 DEF BucketPays, Paid

\* Sums of numbers are numbers.
LEMMA SumsTyped ==
    ASSUME NEW a \in Nat, NEW b \in Nat, a <= b, NEW f, \A i \in a..b : f[i] \in Nat
    PROVE  SumOf(f, a, b) \in Nat
<1> DEFINE T == {n \in Nat : a <= n /\ n <= b /\ SumOf(f, a, n) \notin Nat}
<1>1. T = {}
  <2> SUFFICES ASSUME T # {} PROVE FALSE
    OBVIOUS
  <2>1. PICK n \in T : \A k \in T : n <= k
    BY LeastNumber
  <2>2. n \in Nat /\ a <= n /\ n <= b /\ SumOf(f, a, n) \notin Nat
    OBVIOUS
  <2>3. f[n] \in Nat
    BY <2>2
  <2>4. n # a
    BY <2>2, <2>3, SumOfOne
  <2>5. n - 1 \in Nat /\ a <= n - 1 /\ n - 1 <= b /\ ~ (n <= n - 1) /\ (n - 1) + 1 = n
    BY <2>2, <2>4
  <2>6. SumOf(f, a, n - 1) \in Nat
    BY <2>1, <2>5
  <2>7. SumOf(f, a, n) = SumOf(f, a, n - 1) + f[n]
    BY <2>5, SumOfOneMore
  <2> QED  BY <2>2, <2>3, <2>6, <2>7
<1> QED  BY <1>1

\* The clock goes on and the bucket is filled, up to its size.
LEMMA FillingPays ==
    ASSUME NEW f \in [0..MaxTime -> Nat], NEW c \in Nat, c + 1 \in 0..MaxTime, NEW n \in Nat,
           Paid(f, c, n), NEW k \in Nat, k <= Burst, k <= n + Rps
    PROVE  Paid(f, c + 1, k)
<1>1. Burst \in Nat /\ Rps \in Nat /\ MaxTime \in Nat
  BY PlatformAssumption
<1>2. ASSUME NEW a \in 0..c, NEW b \in a..c PROVE SumOf(f, a, b) \in Nat
  <2>1. a \in Nat /\ b \in Nat /\ a <= b /\ \A i \in a..b : f[i] \in Nat
    BY <1>1
  <2> QED  BY <2>1, SumsTyped
<1>3. f[c + 1] = 0
  BY DEF Paid
<1>4. SumOf(f, c + 1, c + 1) = 0
  <2>1. c + 1 \in Nat /\ f[c + 1] \in Nat
    BY <1>3
  <2> QED  BY <1>3, <2>1, SumOfOne
<1>5. ASSUME NEW a \in 0..c
      PROVE  /\ SumOf(f, a, c + 1) \in Nat
             /\ SumOf(f, a, c + 1) + k <= Burst + Rps * ((c + 1) - a)
  <2>1. a \in Nat /\ a <= c /\ c \in a..c
    OBVIOUS
  <2>2. SumOf(f, a, c) \in Nat
    BY <1>2, <2>1
  <2>3. SumOf(f, a, c + 1) = SumOf(f, a, c) + 0
    BY <1>3, <2>1, SumOfOneMore
  <2>4. SumOf(f, a, c) + n <= Burst + Rps * (c - a)
    BY DEF Paid
  <2>5. Rps * ((c + 1) - a) = Rps * (c - a) + Rps /\ Rps * (c - a) \in Int
    BY <1>1
  <2> QED  BY <1>1, <2>2, <2>3, <2>4, <2>5
<1>6. Rps * ((c + 1) - (c + 1)) = 0
  BY <1>1
<1>7. ASSUME NEW a \in 0..(c + 1)
      PROVE  /\ SumOf(f, a, c + 1) \in Nat
             /\ SumOf(f, a, c + 1) + k <= Burst + Rps * ((c + 1) - a)
  <2>1. CASE a = c + 1
    BY <1>1, <1>4, <1>6, <2>1
  <2>2. CASE a # c + 1
    <3>1. a \in 0..c
      BY <2>2
    <3> QED  BY <1>5, <3>1
  <2> QED  BY <2>1, <2>2
<1>8. ASSUME NEW a \in 0..(c + 1), NEW b \in a..(c + 1)
      PROVE  SumOf(f, a, b) <= Burst + Rps * (b - a)
  <2>1. CASE b = c + 1
    <3>1. PICK x \in Int : x = Burst + Rps * ((c + 1) - a)
      BY <1>1
    <3>2. SumOf(f, a, c + 1) \in Nat /\ SumOf(f, a, c + 1) + k <= x
      BY <1>7, <3>1
    <3>3. SumOf(f, a, c + 1) <= x
      BY <3>2
    <3> QED  BY <2>1, <3>1, <3>3
  <2>2. CASE b # c + 1
    <3>1. a \in 0..c /\ b \in a..c
      BY <2>2
    <3> QED  BY <3>1 DEF Paid
  <2> QED  BY <2>1, <2>2
<1>9. \A i \in 0..MaxTime : i > c + 1 => f[i] = 0
  BY <1>1 DEF Paid
<1> QED  BY <1>7, <1>8, <1>9 DEF Paid

\* A call is let through and pays.
LEMMA SpendingPays ==
    ASSUME NEW f \in [0..MaxTime -> Nat], NEW c \in 0..MaxTime, NEW n \in Nat, n > 0,
           Paid(f, c, n), NEW g, g[c] = f[c] + 1,
           \A i \in 0..MaxTime : i # c => g[i] = f[i]
    PROVE  Paid(g, c, n - 1)
<1>1. Burst \in Nat /\ Rps \in Nat /\ MaxTime \in Nat /\ c \in Nat
  BY PlatformAssumption
<1>2. f[c] \in Nat /\ g[c] = f[c] + 1 /\ g[c] \in Nat
  OBVIOUS
<1>3. ASSUME NEW a \in 0..c, NEW b \in a..c, b # c PROVE SumOf(g, a, b) = SumOf(f, a, b)
  <2>1. a \in Nat /\ b \in Nat /\ a <= b /\ \A i \in a..b : g[i] = f[i]
    BY <1>1, <1>2, <1>3
  <2> QED  BY <2>1, SumsOfEquals
<1>4. ASSUME NEW a \in 0..c
      PROVE  SumOf(f, a, c) \in Nat /\ SumOf(g, a, c) = SumOf(f, a, c) + 1
  <2>1. CASE a = c
    <3>1. SumOf(g, c, c) = g[c] /\ SumOf(f, c, c) = f[c]
      BY <1>1, <1>2, SumOfOne
    <3> QED  BY <1>2, <2>1, <3>1
  <2>2. CASE a # c
    <3> DEFINE d == c - 1
    <3>1. a \in Nat /\ d \in Nat /\ a <= d /\ d + 1 = c /\ d \in a..c /\ d # c
      BY <1>1, <2>2
    <3> HIDE DEF d
    <3>2. SumOf(g, a, d) = SumOf(f, a, d)
      BY <1>3, <3>1
    <3>3. SumOf(f, a, d) \in Nat
      <4>1. \A i \in a..d : f[i] \in Nat
        BY <1>1, <3>1
      <4> QED  BY <3>1, <4>1, SumsTyped
    <3>4. /\ SumOf(g, a, c) = SumOf(g, a, d) + g[c]
          /\ SumOf(f, a, c) = SumOf(f, a, d) + f[c]
      BY <3>1, SumOfOneMore
    <3> QED  BY <1>2, <3>2, <3>3, <3>4
  <2> QED  BY <2>1, <2>2
<1>5. ASSUME NEW a \in 0..c
      PROVE  /\ SumOf(g, a, c) + (n - 1) <= Burst + Rps * (c - a)
             /\ SumOf(g, a, c) <= Burst + Rps * (c - a)
  <2>1. PICK x \in Int : x = Burst + Rps * (c - a)
    BY <1>1
  <2>2. SumOf(f, a, c) + n <= x
    BY <2>1 DEF Paid
  <2>3. SumOf(g, a, c) + (n - 1) <= x /\ SumOf(g, a, c) <= x
    BY <1>4, <2>2
  <2> QED  BY <2>1, <2>3
<1>6. ASSUME NEW a \in 0..c, NEW b \in a..c
      PROVE  SumOf(g, a, b) <= Burst + Rps * (b - a)
  <2>1. CASE b = c
    BY <1>5, <2>1
  <2>2. CASE b # c
    BY <1>3, <2>2 DEF Paid
  <2> QED  BY <2>1, <2>2
<1>7. \A i \in 0..MaxTime : i > c => g[i] = 0
  BY <1>1, <1>2 DEF Paid
<1> QED  BY <1>5, <1>6, <1>7 DEF Paid

LEMMA LimiterKept ==
    ASSUME TypeOK, BucketPays, [Next]_vars
    PROVE  BucketPays'
<1>1. /\ clock \in Nat /\ clock \in 0..MaxTime /\ tokens \in 0..Burst /\ tokens \in Nat
      /\ admitted \in [0..MaxTime -> Nat]
      /\ Burst \in Nat /\ Rps \in Nat /\ MaxTime \in Nat
  BY PlatformAssumption DEF TypeOK
<1>2. CASE UNCHANGED <<clock, tokens, admitted>>
  BY <1>2 DEF BucketPays
<1>3. CASE Tick
  <2>1. /\ clock' = clock + 1 /\ admitted' = admitted /\ clock + 1 \in 0..MaxTime
        /\ tokens' \in Nat /\ tokens' <= Burst /\ tokens' <= tokens + Rps
    BY <1>1, <1>3 DEF Tick, Refill
  <2>2. Paid(admitted, clock + 1, tokens')
    BY <1>1, <2>1, FillingPays DEF BucketPays
  <2> QED  BY <2>1, <2>2 DEF BucketPays
<1>4. CASE /\ tokens > 0 /\ tokens' = tokens - 1
           /\ admitted' = [admitted EXCEPT ![clock] = @ + 1]
           /\ UNCHANGED clock
  <2>1. /\ admitted'[clock] = admitted[clock] + 1
        /\ \A i \in 0..MaxTime : i # clock => admitted'[i] = admitted[i]
    BY <1>1, <1>4
  <2>2. Paid(admitted', clock, tokens - 1)
    BY <1>1, <1>4, <2>1, SpendingPays DEF BucketPays
  <2> QED  BY <1>4, <2>2 DEF BucketPays
<1> QED  BY <1>2, <1>3, <1>4, LimiterSteps

\* middleware.go:92-107: in no interval does the one bucket of the limiter let more
\* calls through than its burst and its rate times the length of the interval, for
\* any burst, rate and length.
THEOREM LimiterIsBounded == Spec => []RateIsBounded
<1>1. BucketPays => RateIsBounded
  BY AdmittedAsSum DEF BucketPays, Paid, RateIsBounded
<1>2. TypeOK /\ BucketPays /\ [Next]_vars => BucketPays'
  BY LimiterKept
<1> QED  BY <1>1, <1>2, LimiterInitially, TypeCorrect, PTL DEF Spec

=============================================================================

-------------------------- MODULE MCIngestPipeline --------------------------
(* Instances of IngestPipeline small enough for TLC.                       *)
EXTENDS IngestPipeline, TLC

CONSTANTS w1, w2, m1, m2, m3

TwoWorkers == {w1, w2}
ThreeMessages == {m1, m2, m3}

TwoGoodOnePanics == m1 :> "good" @@ m2 :> "good" @@ m3 :> "panics"
GoodBadPayload == m1 :> "good" @@ m2 :> "badPayload" @@ m3 :> "invalid"

NoFaults == {}

=============================================================================

---------------------------- MODULE MCIngestion ----------------------------
(* Instances of Ingestion small enough for TLC.                            *)
EXTENDS Ingestion

CONSTANTS w1, w2

OneWorker == {w1}
TwoWorkers == {w1, w2}
NoHoles == {}
FirstSession == {1}
EverySession == 0 .. MaxSessions

Kinds(first, second, third) ==
    [o \in Log |-> IF o = 0 THEN first ELSE IF o = 1 THEN second ELSE third]

PoisonInTheMiddle == Kinds("good", "panics", "unknownType")
PayloadGoodBad == Kinds("badPayload", "good", "undecodable")

Everything == IngestionFaults

=============================================================================

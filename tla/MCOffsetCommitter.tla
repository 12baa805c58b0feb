-------------------------- MODULE MCOffsetCommitter --------------------------
(* Instances of OffsetCommitter small enough for TLC.                      *)
EXTENDS OffsetCommitter

CONSTANTS a1, a2

OneAcker == {a1}
TwoAckers == {a1, a2}

NoHoles == {}
OneHole == {1}

NoOutage == {}
EverySession == 0 .. MaxSessions

NoFaults == {}
RevokeOrForeign == {"revoke", "foreign"}

=============================================================================

---------------------------- MODULE MCEventStore ----------------------------
(***************************************************************************)
(* Instances of EventStore for TLC.                                        *)
(***************************************************************************)
EXTENDS EventStore

CONSTANTS w1, w2

TwoWriters == {w1, w2}
OneWriter == {w1}

ev(i, t) == [id |-> i, at |-> t]

\* Ids 2, 3, 4 sort above the zero time 1, as ids that do not begin with 0000
\* do; no two events share a stamp.  The flushes: a single event, the same event
\* delivered again with others, and a batch of two chunks that has an event twice.
DistinctStamps ==
    {<<ev(2, 3)>>,
     <<ev(3, 5), ev(2, 6)>>,
     <<ev(4, 4), ev(4, 7), ev(3, 1)>>}

\* Two events that the transformer stamped at the same time.
SharedStamp == {<<ev(2, 3), ev(3, 3)>>, <<ev(4, 4)>>}

SomeLimits == {0, 1}

=============================================================================

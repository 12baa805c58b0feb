---------------------------- MODULE CommitLedger ----------------------------
(***************************************************************************)
(* What at-least-once delivery promises of one Kafka partition, seen from  *)
(* the broker: a cursor (the group's committed position) that never passes *)
(* a message whose outcome is not yet durable.  The struct comment of      *)
(* OffsetCommitter states the promise: a commit of offset N acknowledges   *)
(* every offset up to N, and a message that is not done must block it.     *)
(*                                                                         *)
(* The ledger says nothing of the direction in which the cursor moves: a   *)
(* cursor that goes back only causes messages to be delivered again.       *)
(***************************************************************************)
EXTENDS Naturals

CONSTANTS
    LogEnd,    \* the partition holds offsets below LogEnd
    Holes      \* offsets that hold no message (compacted, transaction markers)

VARIABLES
    settled,   \* offsets whose message has a durable outcome
    committed  \* the next offset the group would resume from

ledgerVars == <<settled, committed>>

Log == (0 .. LogEnd - 1) \ Holes
Positions == 0 .. LogEnd

\* The messages a cursor at position p has passed.
Below(p) == {o \in Log : o < p}

LedgerTypeOK ==
    /\ settled \subseteq Log
    /\ committed \in Positions

Init ==
    /\ settled = {}
    /\ committed = 0

Settle(o) ==
    /\ settled' = settled \cup {o}
    /\ UNCHANGED committed

MoveCursor(p) ==
    /\ Below(p) \subseteq settled
    /\ committed' = p
    /\ UNCHANGED settled

Next ==
    \/ \E o \in Log : Settle(o)
    \/ \E p \in Positions : MoveCursor(p)

Spec == Init /\ [][Next]_ledgerVars

=============================================================================

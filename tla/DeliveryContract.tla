-------------------------- MODULE DeliveryContract --------------------------
(***************************************************************************)
(* What the ingestion pipeline promises of each delivery it takes from an  *)
(* adapter: its ack handler is called at most once, never before the       *)
(* message is in the event store or in a failure storage, and the message  *)
(* is written to neither afterwards (failTerminalAndAck: "Redelivery is    *)
(* safer than losing the original message"; an ack_failed row is a note on *)
(* the handler and carries no message).  Which of the two storages, in     *)
(* what order and in what batches is the pipeline's business; so is a      *)
(* delivery it never acks.                                                 *)
(*                                                                         *)
(* Sets do not count: a second call of a handler changes none of the first *)
(* four variables.  The fifth remembers what is done for a delivery whose  *)
(* handler has been called, and no step of the contract adds to it.        *)
(***************************************************************************)
CONSTANT Messages

VARIABLES
    fetched,   \* deliveries taken from the adapter
    stored,    \* messages in the event store
    recorded,  \* messages in a failure storage
    acked,     \* deliveries whose handler has been called
    afterAck   \* deliveries stored, recorded or acked again after that

contractVars == <<fetched, stored, recorded, acked, afterAck>>

Open == fetched \ acked

Init ==
    /\ fetched = {}
    /\ stored = {}
    /\ recorded = {}
    /\ acked = {}
    /\ afterAck = {}

Fetch(m) ==
    /\ m \notin fetched
    /\ fetched' = fetched \cup {m}
    /\ UNCHANGED <<stored, recorded, acked, afterAck>>

Store(S) ==
    /\ S \subseteq Open
    /\ stored' = stored \cup S
    /\ UNCHANGED <<fetched, recorded, acked, afterAck>>

Record(m) ==
    /\ m \in Open
    /\ recorded' = recorded \cup {m}
    /\ UNCHANGED <<fetched, stored, acked, afterAck>>

Ack(m) ==
    /\ m \in Open
    /\ m \in stored \cup recorded
    /\ acked' = acked \cup {m}
    /\ UNCHANGED <<fetched, stored, recorded, afterAck>>

Next ==
    \/ \E m \in Messages : Fetch(m) \/ Record(m) \/ Ack(m)
    \/ \E S \in SUBSET Messages : Store(S)

Spec == Init /\ [][Next]_contractVars

=============================================================================

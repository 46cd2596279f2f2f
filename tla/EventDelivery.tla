---------------------------- MODULE EventDelivery ----------------------------
(***************************************************************************)
(* What the upstream pipeline promises of every event, without batches,    *)
(* requests, retries or transactions: the terminal records the event, the  *)
(* central database takes it in at most once, and the terminal may call it *)
(* SYNCED only after that. A row that was given up may be reopened by an   *)
(* administrator; a SYNCED or a CONFLICT row is never touched again.       *)
(***************************************************************************)
CONSTANT Event

VARIABLES
    stage,       \* what the terminal's outbox says of the event
    delivered    \* events the central database has taken in

Stages == {"ABSENT", "PENDING", "SYNCED", "CONFLICT", "FAILED_PERMANENT"}

Init ==
    /\ stage = [e \in Event |-> "ABSENT"]
    /\ delivered = {}

Record(e) ==
    /\ stage[e] = "ABSENT"
    /\ stage' = [stage EXCEPT ![e] = "PENDING"]
    /\ UNCHANGED delivered

\* The event may arrive after the terminal has given it up.
Deliver(e) ==
    /\ stage[e] # "ABSENT"
    /\ e \notin delivered
    /\ delivered' = delivered \cup {e}
    /\ UNCHANGED stage

Settle(e) ==
    /\ stage[e] = "PENDING"
    /\ \/ e \in delivered /\ stage' = [stage EXCEPT ![e] = "SYNCED"]
       \/ stage' = [stage EXCEPT ![e] = "CONFLICT"]
       \/ stage' = [stage EXCEPT ![e] = "FAILED_PERMANENT"]
    /\ UNCHANGED delivered

Reopen(e) ==
    /\ stage[e] = "FAILED_PERMANENT"
    /\ stage' = [stage EXCEPT ![e] = "PENDING"]
    /\ UNCHANGED delivered

Next == \E e \in Event : Record(e) \/ Deliver(e) \/ Settle(e) \/ Reopen(e)

Spec == Init /\ [][Next]_<<stage, delivered>>
=============================================================================

------------------------------ MODULE EdgeEvents ------------------------------
(***************************************************************************)
(* The webhooks that the edge worker takes, and the faults of a behaviour: *)
(* what EdgeQueue and EdgeInbox have in common.                            *)
(***************************************************************************)
EXTENDS Integers, FiniteSets

CONSTANTS
    Updates,         \* telegram.update events
    Payments,        \* payos.payment events
    SequenceOf,      \* update_id; order_code for the events of an order
    MaxFaults        \* bound on the faults of a behaviour

Events == Updates \cup Payments

ASSUME EventsAssumption ==
    /\ IsFiniteSet(Events)
    /\ Updates \cap Payments = {}
    /\ SequenceOf \in [Events -> Nat]
    /\ MaxFaults \in Nat

VARIABLE faults      \* history: faults so far, bounded by MaxFaults

Fault == /\ faults < MaxFaults
         /\ faults' = faults + 1
=============================================================================

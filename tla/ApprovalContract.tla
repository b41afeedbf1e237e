-------------------------- MODULE ApprovalContract --------------------------
(***************************************************************************)
(* What the approval workflow promises the operations gated on it: a       *)
(* request is opened once, settled at most once, and its outcome is        *)
(* announced on the outbox exactly when it is settled, never otherwise.    *)
(***************************************************************************)
EXTENDS Sequences

CONSTANT Request

VARIABLES outcome,     \* none, pending, or how the request was settled
          announced    \* the outcome events emitted for the request

contractVars == <<outcome, announced>>

Settlement == {"approved", "rejected", "cancelled", "expired"}

ContractInit ==
    /\ outcome = [q \in Request |-> "none"]
    /\ announced = [q \in Request |-> <<>>]

Open(q) ==
    /\ outcome[q] = "none"
    /\ outcome' = [outcome EXCEPT ![q] = "pending"]
    /\ UNCHANGED announced

Settle(q, s) ==
    /\ outcome[q] = "pending"
    /\ outcome' = [outcome EXCEPT ![q] = s]
    /\ announced' = [announced EXCEPT ![q] = <<s>>]

ContractNext == \E q \in Request : Open(q) \/ \E s \in Settlement : Settle(q, s)

ContractSpec == ContractInit /\ [][ContractNext]_contractVars
=============================================================================

----------------------------- MODULE MCApprovals -----------------------------
(* Model-checking instance of Approvals: one lifecycle and one peer request. *)
EXTENDS Approvals, TLC

CONSTANTS q1, q2, a1, a2, a3, w1, w2, n

MCPolicy == q1 :> "lifecycle" @@ q2 :> "peer"
=============================================================================

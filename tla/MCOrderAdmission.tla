-------------------------- MODULE MCOrderAdmission --------------------------
(***************************************************************************)
(* Instances of OrderAdmission for TLC.  q1 and q2 repeat an               *)
(* Idempotency-Key and are small; q3 has none and needs the owner.         *)
(***************************************************************************)
EXTENDS OrderAdmission, TLC

CONSTANTS q1, q2, q3, k1

MCRequests == {q1, q2, q3}
MCAmount == q1 :> 1 @@ q2 :> 1 @@ q3 :> 2
MCIdempotencyKey == q1 :> k1 @@ q2 :> k1 @@ q3 :> NoKey

\* The owner may tighten every limit of the policy, and relax it again.
MCPolicies == {[daily_limit |-> 3, single_tx_limit |-> 2, approval_above |-> 1],
               [daily_limit |-> 2, single_tx_limit |-> 1, approval_above |-> 1]}

\* q1 and q2 are interchangeable: same amount, same key.
Symmetry == Permutations({q1, q2})

\* One policy that never blocks, for the run about the spend limit.
OnePolicy == {[daily_limit |-> 4, single_tx_limit |-> 2, approval_above |-> 1]}

=============================================================================

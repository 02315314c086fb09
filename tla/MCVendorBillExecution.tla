--------------------------- MODULE MCVendorBillExecution ---------------------------
(* Two workbench requests, two authorizations, the one-step plan of a direct Vendor Bill  *)
(* and the retry policy the composition root configures (immediate, two attempts).        *)
EXTENDS VendorBillExecution, TLC

CONSTANTS w1, w2, p1, a1, a2

MCWorkers == {w1, w2}
MCOneWorker == {w1}
MCPlans == {p1}
MCPlanLength == p1 :> 1
MCRetryPolicies == {[policy_type |-> "immediate", max_attempts |-> 2]}
MCAuths == {a1, a2}
MCNoAuths == {}
MCSymmetry == Permutations(MCWorkers) \union Permutations(MCAuths)

=============================================================================

---------------------------- MODULE MCExecutionRuntime ----------------------------
(* A small instance of ExecutionRuntime: two request handlers, a plan of two steps and *)
(* a conflicting one-step plan, a policy with two attempts (what the composition root  *)
(* configures) and the default one without retries.                                    *)
EXTENDS ExecutionRuntime, TLC

CONSTANTS w1, w2, p1, p2

MCWorkers == {w1, w2}
MCPlans == {p1, p2}
MCPlanLength == p1 :> 2 @@ p2 :> 1
MCRetryPolicies == {[policy_type |-> "immediate", max_attempts |-> 2],
                    [policy_type |-> "never", max_attempts |-> 1]}

=============================================================================

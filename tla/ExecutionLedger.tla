------------------------------ MODULE ExecutionLedger ------------------------------
(***************************************************************************)
(* What the durable execution runtime promises to everyone who reads the   *)
(* database: an execution is created for one plan and advances by whole    *)
(* attempts.  An attempt completes the next steps of the plan, in order,   *)
(* and then either all of them are completed, or the first step left is    *)
(* charged one failure and the execution waits for a retry or, when its    *)
(* retry policy is exhausted, has failed for good.  No intermediate state  *)
(* of an attempt is ever visible.                                          *)
(***************************************************************************)
EXTENDS Integers

CONSTANTS Plans, PlanLength, RetryPolicies, NoPlan

VARIABLES plan,      \* the plan and policy it was created for, or NoPlan
          phase,     \* "absent", "waiting_retry", "completed" or "failed"
          done,      \* number of steps completed: they complete in order
          failures   \* failures charged to each step of the plan

ledger == <<plan, phase, done, failures>>

Exhausted(pol, count) == pol.policy_type = "never" \/ count >= pol.max_attempts

LedgerInit ==
    /\ plan = NoPlan
    /\ phase = "absent"
    /\ done = 0
    /\ failures = <<>>

\* The attempt of an execution whose failure counts are f and whose first d steps are done.
AttemptFrom(p, d, f) ==
    /\ plan' = p
    /\ \/ /\ phase' = "completed"
          /\ done' = PlanLength[p.plan]
          /\ failures' = f
       \/ \E s \in d + 1 .. PlanLength[p.plan] :
              /\ done' = s - 1
              /\ failures' = [f EXCEPT ![s] = @ + 1]
              /\ phase' = IF Exhausted(p.policy, f[s] + 1) THEN "failed" ELSE "waiting_retry"

FirstAttempt ==
    /\ phase = "absent"
    /\ \E p \in [plan : Plans, policy : RetryPolicies] :
           AttemptFrom(p, 0, [s \in 1 .. PlanLength[p.plan] |-> 0])

RetryAttempt ==
    /\ phase = "waiting_retry"
    /\ AttemptFrom(plan, done, failures)

LedgerNext == FirstAttempt \/ RetryAttempt

LedgerSpec == LedgerInit /\ [][LedgerNext]_ledger

=============================================================================

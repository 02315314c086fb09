---------------------------- MODULE VendorBillExecution ----------------------------
(***************************************************************************)
(* The execution of one accepted direct Vendor Bill decision: concurrent   *)
(* workbench requests claim a write authorization, drive the durable       *)
(* runtime (ExecutionRuntime) through its single step and write the draft  *)
(* bill in Odoo, which the database transaction cannot roll back.          *)
(*                                                                         *)
(* Code: app/application/execution/{workbench_vendor_bill,                 *)
(* accepted_decision_use_cases,preflight,vendor_bill_strategy}.py,         *)
(* app/erp/write/{odoo_vendor_bill_writer,account_move_repository}.py.     *)
(* Odoo is external: it is modelled by the calls this code makes and the   *)
(* ways they end (app/connectors/odoo/client.py).                          *)
(*                                                                         *)
(* A worker's request is `at' a point of the workflow around the runtime;  *)
(* while the runtime itself runs, `pc' of ExecutionRuntime says where.     *)
(* The decision, its evidence and therefore the plan and the writer's      *)
(* idempotency key (invoice_origin) are fixed: every bill here carries     *)
(* that key.  The decided review never changes its version again.          *)
(***************************************************************************)
EXTENDS ExecutionRuntime

CONSTANTS Auths,           \* authorization ids an operator may issue
          ThisExecution,   \* the deterministic execution id, the consumer of the claims
          ExecuteEnabled,  \* EXECUTION_EXECUTE_ENABLED: execution without an authorization
          LateArrivals,    \* may Odoo process a create the Hub has given up on?
          MaxBills,        \* bound: bills in Odoo
          MaxUses,         \* bound: admissions of one authorization
          NoAuth, NoConsumer

VARIABLES auth, expired, version, authLock, claim,   \* see WriteAuthorization
          at,         \* where each worker's workbench request is
          want,       \* the authorization id it carries, or NoAuth
          found,      \* the bill its writer found or created (0: none yet)
          told,       \* the status the workbench answered
          bills,      \* Odoo: the drafts with this invoice_origin, by their exchange rate
          late,       \* Odoo: creates still to be processed whose caller is gone
          strays,     \* how many of the bills are such creates, processed after all
          artifact,   \* the bill recorded in the committed step result (0: none)
          projected   \* the bill shown on the Odoo Workbench record (0: none)

avars == <<auth, expired, version, authLock, claim>>
ovars == <<bills, late, strays>>
vars == <<rtvars, avars, at, want, found, told, ovars, artifact, projected>>

WA == INSTANCE WriteAuthorization WITH
    Sessions <- Workers, NoSession <- NoWorker, Operations <- {"EXECUTE_VENDOR_BILL"},
    Consumers <- {ThisExecution}, MaxVersion <- 1,
    OperationOf <- [c \in {ThisExecution} |-> "EXECUTE_VENDOR_BILL"]

ASSUME VendorBillConstants ==
    /\ ExecuteEnabled \in BOOLEAN
    /\ LateArrivals \in BOOLEAN
    /\ MaxBills \in Nat \ {0}
    /\ MaxUses \in Nat \ {0}
    /\ NoAuth \notin Auths \union WA!AuthRows \union WA!Claims
    /\ NoConsumer # ThisExecution
    /\ \A p \in Plans : PlanLength[p] = 1

Init ==
    /\ RuntimeInit
    /\ WA!AuthInit
    /\ at = [w \in Workers |-> "none"]
    /\ want = [w \in Workers |-> NoAuth]
    /\ found = [w \in Workers |-> 0]
    /\ told = [w \in Workers |-> "none"]
    /\ bills = <<>>
    /\ late = 0
    /\ strays = 0
    /\ artifact = 0
    /\ projected = 0

Move(w, place) == at' = [at EXCEPT ![w] = place]
Tell(w, status) == told' = [told EXCEPT ![w] = status]

\* the request is over: its place, its authorization id and its bill are forgotten
Leave(w) ==
    /\ Move(w, "none")
    /\ want' = [want EXCEPT ![w] = NoAuth]
    /\ found' = [found EXCEPT ![w] = 0]

\* the claim of a transaction that rolls back, if it has one
DropClaim(w) == IF claim[w] = NoAuth THEN UNCHANGED avars ELSE WA!RollBackClaim(w)

\* creates left to arrive when w gives up at one of these places (bound: MaxBills of them)
Abandoned(w, places) ==
    IF LateArrivals /\ at[w] \in places /\ late < MaxBills THEN late + 1 ELSE late

-----------------------------------------------------------------------------
(* The workbench request and its gates. *)

\* a request for execute mode, with an authorization id or under the environment gate.
\* Bound: no more requests on an authorization than MaxUses admissions.
ExecuteRequest(w, a) ==
    /\ at[w] = "none"
    /\ ~ (row # NoRow /\ row.state = "completed")
    /\ a = NoAuth => ExecuteEnabled
    /\ a # NoAuth => auth[a] # NoAuth
                     /\ auth[a].uses + Cardinality({v \in Workers : want[v] = a}) < MaxUses
    /\ Move(w, "claim")
    /\ want' = [want EXCEPT ![w] = a]
    /\ Tell(w, "none")
    /\ UNCHANGED <<rtvars, avars, found, ovars, artifact, projected>>

\* a completed execution is replayed from its snapshot: no claim, no writer, the projection
\* is published again
AlreadyExecuted(w) ==
    /\ at[w] = "none"
    /\ row # NoRow /\ row.state = "completed"
    /\ Move(w, "project")
    /\ Tell(w, "already_executed")
    /\ UNCHANGED <<rtvars, avars, want, found, ovars, artifact, projected>>

\* Mutation: the authorization id is accepted and not claimed.
ClaimSkipped(w) ==
    /\ at[w] = "claim"
    /\ Move(w, "preflight")
    /\ UNCHANGED <<rtvars, avars, want, found, told, ovars, artifact, projected>>

\* claim_and_consume, or no authorization id in the command
ClaimAuthorization(w) ==
    /\ at[w] = "claim"
    /\ IF want[w] = NoAuth THEN UNCHANGED avars
       ELSE WA!Claim(w, want[w], ThisExecution, 1)
    /\ Move(w, "preflight")
    /\ UNCHANGED <<rtvars, want, found, told, ovars, artifact, projected>>

\* revoked, expired or stale: the request ends before anything is created
ClaimDenied(w) ==
    /\ at[w] = "claim"
    /\ want[w] # NoAuth
    /\ authLock[want[w]] = NoWorker
    /\ ~ WA!Admits(want[w], ThisExecution, 1)
    /\ Leave(w)
    /\ Tell(w, "execution_disabled")
    /\ UNCHANGED <<rtvars, avars, ovars, artifact, projected>>

\* ensure_execute_allowed and ensure_plan_supports_mode pass; the runtime is called
PreflightPasses(w) ==
    /\ at[w] = "preflight"
    /\ claim[w] # NoAuth => want[w] \notin expired
    /\ Request(w)
    /\ Move(w, "runtime")
    /\ UNCHANGED <<avars, want, found, told, ovars, artifact, projected>>

\* ... or the authorization expired since the claim; or the process dies here
PreflightFails(w) ==
    /\ at[w] = "preflight"
    /\ DropClaim(w)
    /\ Leave(w)
    /\ Tell(w, IF claim[w] # NoAuth /\ want[w] \in expired THEN "execution_disabled" ELSE "error")
    /\ UNCHANGED <<rtvars, ovars, artifact, projected>>

-----------------------------------------------------------------------------
(* The runtime, and the strategy with its writer. *)

RuntimeStep(w) ==
    /\ at[w] = "runtime"
    /\ \/ LookupMiss(w) \/ LoadExisting(w) \/ InsertExecution(w) \/ ReturnStored(w)
       \/ StartRead(w) \/ Start(w) \/ Complete(w)
    /\ UNCHANGED <<avars, at, want, found, told, ovars, artifact, projected>>

\* Mutation: the conflict is swallowed and the request never answered.
RuntimeConflictSwallowed(w) ==
    /\ at[w] = "runtime"
    /\ StaleSnapshot(w)
    /\ DropClaim(w)
    /\ UNCHANGED <<at, want, found, told, ovars, artifact, projected>>

\* ExecutionConcurrencyConflictError: rolled back with the claim
RuntimeConflict(w) ==
    /\ at[w] = "runtime"
    /\ StaleSnapshot(w)
    /\ DropClaim(w)
    /\ Leave(w)
    /\ Tell(w, "execution_failed")
    /\ UNCHANGED <<ovars, artifact, projected>>

BeginStrategy(w) ==
    /\ at[w] = "runtime"
    /\ MarkStepRunning(w)
    /\ Move(w, "gates")
    /\ UNCHANGED <<avars, want, found, told, ovars, artifact, projected>>

\* the step result is a failure: _handle_failure, and the run goes on to its commit
StepFails(w) ==
    /\ HandleFailure(w)
    /\ Move(w, "runtime")
    /\ UNCHANGED <<avars, want, found, told, artifact, projected>>

\* source evidence, source tax, accounts, precision, build, reconciliation and rate plan:
\* read-only checks before the writer's first call, each of which may fail the step
ChecksPass(w) ==
    /\ at[w] = "gates"
    /\ Move(w, "search")
    /\ UNCHANGED <<rtvars, avars, want, found, told, ovars, artifact, projected>>

ChecksFail(w) ==
    /\ at[w] = "gates"
    /\ StepFails(w)
    /\ UNCHANGED ovars

\* find_existing_vendor_bill: one draft with the key is returned as "existing"
SearchFindsBill(w) ==
    /\ at[w] = "search"
    /\ Len(bills) = 1
    /\ found' = [found EXCEPT ![w] = 1]
    /\ Move(w, "verify")
    /\ UNCHANGED <<rtvars, avars, want, told, ovars, artifact, projected>>

\* Mutation: create without looking for the bill of an earlier attempt.
SearchSkipped(w) ==
    /\ at[w] = "search"
    /\ Move(w, "create")
    /\ UNCHANGED <<rtvars, avars, want, found, told, ovars, artifact, projected>>

SearchFindsNone(w) ==
    /\ at[w] = "search"
    /\ Len(bills) = 0
    /\ Move(w, "create")
    /\ UNCHANGED <<rtvars, avars, want, found, told, ovars, artifact, projected>>

\* more than one bill (VendorBillWriteDuplicateError), or the search itself fails
SearchFails(w) ==
    /\ at[w] = "search"
    /\ StepFails(w)
    /\ UNCHANGED ovars

\* create_draft_vendor_bill: currency and units resolved, the create is sent
SendCreate(w) ==
    /\ at[w] = "create"
    /\ Move(w, "sent")
    /\ UNCHANGED <<rtvars, avars, want, found, told, ovars, artifact, projected>>

\* currency or unit not resolved, connection refused, or Odoo rejects the create: no bill
CreateRefused(w) ==
    /\ at[w] \in {"create", "sent"}
    /\ StepFails(w)
    /\ UNCHANGED ovars

\* Odoo commits the draft; its rate may differ from the one sent
OdooCreates(w) ==
    /\ at[w] = "sent"
    /\ Len(bills) < MaxBills
    /\ \E rate \in {"right", "wrong"} : bills' = Append(bills, rate)
    /\ found' = [found EXCEPT ![w] = Len(bills) + 1]
    /\ Move(w, "created")
    /\ UNCHANGED <<rtvars, avars, want, told, late, strays, artifact, projected>>

CreateAnswered(w) ==
    /\ at[w] = "created"
    /\ Move(w, "verify")
    /\ UNCHANGED <<rtvars, avars, want, found, told, ovars, artifact, projected>>

\* ConnectorTimeoutError: the answer is lost, or the create is still to be processed
CreateTimesOut(w) ==
    /\ at[w] \in {"sent", "created"}
    /\ StepFails(w)
    /\ late' = Abandoned(w, {"sent"})
    /\ UNCHANGED <<bills, strays>>

\* Mutation: the created draft is not read back.
VerifiedBlindly(w) ==
    /\ at[w] = "verify"
    /\ MarkStepCompleted(w)
    /\ Move(w, "runtime")
    /\ UNCHANGED <<avars, want, found, told, ovars, artifact, projected>>

\* _verify_created_fx: the draft carries the invoice rate (or no rate applies)
Verified(w) ==
    /\ at[w] = "verify"
    /\ bills[found[w]] = "right"
    /\ MarkStepCompleted(w)
    /\ Move(w, "runtime")
    /\ UNCHANGED <<avars, want, found, told, ovars, artifact, projected>>

\* the rate differs, or the draft cannot be read back: the bill stays, the step fails
VerificationFails(w) ==
    /\ at[w] = "verify"
    /\ StepFails(w)
    /\ UNCHANGED ovars

\* unit_of_work.commit(): execution outcome and consumption become durable together
CommitExecution(w) ==
    /\ at[w] = "runtime"
    /\ Commit(w)
    /\ IF claim[w] = NoAuth THEN UNCHANGED avars ELSE WA!CommitClaim(w)
    /\ artifact' = IF lock = w /\ snap[w].state = "completed" THEN found[w] ELSE artifact
    /\ want' = [want EXCEPT ![w] = NoAuth]
    /\ found' = [found EXCEPT ![w] = 0]
    /\ Move(w, IF reply'[w] = "executed" THEN "project" ELSE "none")
    /\ Tell(w, CASE reply'[w] = "executed" -> "executed"
                 [] reply'[w] = "error"    -> "error"
                 [] OTHER                  -> "execution_failed")
    /\ UNCHANGED <<ovars, projected>>

\* the process or its database connection dies, or an exception escapes.  An Odoo create it
\* has sent, or goes on to send without noticing that its lock is gone, may still arrive.
AbortExecution(w) ==
    /\ at[w] \notin {"none", "claim", "preflight", "project"}
    /\ Abort(w)
    /\ DropClaim(w)
    /\ Leave(w)
    /\ Tell(w, "error")
    /\ late' = Abandoned(w, {"create", "sent"})
    /\ UNCHANGED <<bills, strays, artifact, projected>>

\* project_vendor_bill_execution_result, after the commit; a failure only changes the message
ProjectResult(w) ==
    /\ at[w] = "project"
    /\ Leave(w)
    /\ projected' \in {artifact, projected}
    /\ UNCHANGED <<rtvars, avars, told, ovars, artifact>>

-----------------------------------------------------------------------------
(* The environment. *)

IssueAuthorization(a) ==
    /\ WA!Issue(a, "EXECUTE_VENDOR_BILL", 1)
    /\ UNCHANGED <<rtvars, at, want, found, told, ovars, artifact, projected>>

RevokeAuthorization(a) ==
    /\ WA!Revoke(a)
    /\ UNCHANGED <<rtvars, at, want, found, told, ovars, artifact, projected>>

ExpireAuthorization(a) ==
    /\ WA!Expire(a)
    /\ UNCHANGED <<rtvars, at, want, found, told, ovars, artifact, projected>>

\* an operator corrects the rate of a draft in Odoo
CorrectRate(i) ==
    /\ bills[i] = "wrong"
    /\ bills' = [bills EXCEPT ![i] = "right"]
    /\ UNCHANGED <<rtvars, avars, at, want, found, told, late, strays, artifact, projected>>

\* Odoo processes a create nobody waits for
LateCreate ==
    /\ late > 0
    /\ Len(bills) < MaxBills
    /\ late' = late - 1
    /\ strays' = strays + 1
    /\ \E rate \in {"right", "wrong"} : bills' = Append(bills, rate)
    /\ UNCHANGED <<rtvars, avars, at, want, found, told, artifact, projected>>

RequestStep(w) ==
    \/ AlreadyExecuted(w) \/ \E a \in Auths \union {NoAuth} : ExecuteRequest(w, a)

GateStep(w) ==
    \/ ClaimAuthorization(w) \/ ClaimDenied(w) \/ PreflightPasses(w) \/ PreflightFails(w)

StrategyStep(w) ==
    \/ BeginStrategy(w) \/ ChecksPass(w) \/ ChecksFail(w)
    \/ SearchFindsBill(w) \/ SearchFindsNone(w) \/ SearchFails(w)
    \/ SendCreate(w) \/ CreateRefused(w) \/ OdooCreates(w) \/ CreateAnswered(w)
    \/ CreateTimesOut(w) \/ Verified(w) \/ VerificationFails(w)

WorkerStep(w) ==
    \/ GateStep(w) \/ RuntimeStep(w) \/ RuntimeConflict(w) \/ StrategyStep(w)
    \/ CommitExecution(w) \/ ProjectResult(w)

OperatorStep ==
    \/ \E a \in Auths : IssueAuthorization(a) \/ RevokeAuthorization(a) \/ ExpireAuthorization(a)
    \/ \E i \in DOMAIN bills : CorrectRate(i)

Next ==
    \/ \E w \in Workers : RequestStep(w) \/ WorkerStep(w) \/ AbortExecution(w)
    \/ OperatorStep
    \/ LateCreate

Spec == Init /\ [][Next]_vars

(* Fairness.  As in ExecutionRuntime, a worker that can go on goes on, and a contended row  *)
(* lock (of the execution or of an authorization) is granted in arrival order.  Odoo or the *)
(* HTTP timeout ends every call.                                                            *)
WorkerFairness == \A w \in Workers : SF_vars(WorkerStep(w))

FairSpec == Spec /\ WorkerFairness

(* The operator's part of the recovery story: a wrong rate gets corrected, the execution is *)
(* asked for again while it is not completed, and none of the calls of an attempt fails     *)
(* every single time it is made.                                                            *)
OperatorRetries ==
    /\ \A w \in Workers :
           /\ WF_vars(RequestStep(w))
           /\ SF_vars(PreflightPasses(w))
           /\ \A l \in {"lookup", "insert", "execute", "start", "complete"} :
                  SF_vars(RuntimeStep(w) /\ pc[w] = l)
           /\ SF_vars(BeginStrategy(w)) /\ SF_vars(ChecksPass(w)) /\ SF_vars(SearchFindsBill(w))
           /\ SF_vars(Verified(w)) /\ SF_vars(CommitExecution(w))
    /\ WF_vars(\E i \in DOMAIN bills : CorrectRate(i))

RecoverySpec == FairSpec /\ OperatorRetries

-----------------------------------------------------------------------------
(* Properties. *)

Places == {"none", "claim", "preflight", "runtime", "gates", "search", "create", "sent",
           "created", "verify", "project"}
WriterPlaces == {"gates", "search", "create", "sent", "created", "verify"}

\* Types of the composed state, and the two program counters agree: the strategy's places
\* are exactly the runtime's "strategy" position.
VendorBillTypeOK ==
    /\ TypeOK
    /\ WA!AuthTypeOK
    /\ at \in [Workers -> Places]
    /\ want \in [Workers -> Auths \union {NoAuth}]
    /\ found \in [Workers -> 0 .. MaxBills]
    /\ bills \in Seq({"right", "wrong"}) /\ Len(bills) <= MaxBills
    /\ late \in 0 .. MaxBills
    /\ strays \in 0 .. Len(bills)
    /\ artifact \in 0 .. MaxBills
    /\ projected \in 0 .. MaxBills
    /\ \A w \in Workers : at[w] \in WriterPlaces <=> pc[w] = "strategy"

\* The writer's search-before-create has no Odoo-side uniqueness behind it.  With the row
\* lock held across the search and the create, concurrent requests, crashes after the
\* write, lost answers and lost commits still leave at most one bill for the decision.
AtMostOneBill == Len(bills) <= 1

\* Where Odoo may process a create that the Hub has given up on, no search can see it coming:
\* such a draft can be the second one.  But the Hub adds no more than one of its own: all the
\* drafts but one are creates that Odoo processed after their callers had left, however often
\* requests race, time out, crash and are repeated.
OneAwaitedBill == Len(bills) <= 1 + strays

\* A completed execution names a bill that exists in Odoo and was verified, whichever
\* attempt created it; the workbench shows no other bill, and none before completion, and its
\* answers executed and already_executed are only given of a committed completed execution.
CompletedHasItsBill ==
    /\ row # NoRow /\ row.state = "completed" =>
           artifact \in DOMAIN bills /\ bills[artifact] = "right"
    /\ artifact # 0 => row # NoRow /\ row.state = "completed"
    /\ projected \in {0, artifact}
    /\ \A w \in Workers : told[w] \in {"executed", "already_executed"} =>
           row # NoRow /\ row.state = "completed"

\* No bill is written without an admission that still stands: with the environment gate
\* closed, a worker inside the writer holds a claimed authorization that is not revoked
\* and bound to this execution.
WriteIsAuthorized ==
    \A w \in Workers : at[w] \in WriterPlaces =>
        \/ ExecuteEnabled
        \/ /\ claim[w] # NoAuth
           /\ auth[claim[w].auth].status # "revoked"
           /\ authLock[claim[w].auth] = w

\* Consumption and execution outcome are one commit: with the environment gate closed,
\* every committed attempt (EXECUTION_STARTED event) is covered by a counted use of an
\* authorization, and an authorization is consumed only with a committed execution.
AdmissionsCoverAttempts ==
    /\ ~ ExecuteEnabled =>
           Cardinality({e \in log : e.type = "execution_started"})
               <= Cardinality({use \in Auths \X (1 .. MaxUses) :
                                  auth[use[1]] # NoAuth /\ use[2] <= auth[use[1]].uses})
    /\ (\E a \in Auths : auth[a] # NoAuth /\ auth[a].uses > 0) => row # NoRow

\* Whatever is written to Odoo was admitted, is counted with the execution that it belongs to,
\* and only a worker inside the writer is inside the runtime's strategy.
WritesAreAdmitted == VendorBillTypeOK /\ WriteIsAuthorized /\ AdmissionsCoverAttempts

\* Every workbench request ends, although it may wait for an authorization row and for the
\* execution row while another request is inside Odoo.
EveryWorkbenchRequestEnds == \A w \in Workers : at[w] # "none" ~> at[w] = "none"

\* Once the one draft exists in Odoo, an operator who keeps retrying sees the execution
\* reach an end, whatever crashed, failed or was rolled back before, unless a create that
\* Odoo had not answered in time turns up and there are two drafts.
RetriesReachAnEnd ==
    Len(bills) = 1 ~> \/ row # NoRow /\ row.state \in TerminalStates
                      \/ Len(bills) > 1

=============================================================================

------------------------- MODULE DecisionExecution -------------------------
(***************************************************************************)
(* From an authored decision to its documents: the billing rows captured   *)
(* for the recharge allocations, the decision accepted with them, the      *)
(* quotation scenarios captured as immutable evidence, and the plan of     *)
(* several steps the runtime (ExecutionRuntime) then runs, one Odoo        *)
(* document per writing step, for concurrent requests.                     *)
(*                                                                         *)
(* Code: app/application/workbench/billing_capture_use_cases.py,           *)
(* app/application/quotation/{workbench_workflow,orchestration,capture}.py,*)
(* app/persistence/quotation_scenario_evidence_repository.py,              *)
(* app/application/execution/{accepted_decision_use_cases,                 *)
(* workbench_customer_quotation,customer_quotation_strategy,               *)
(* customer_invoice_strategy,customer_recharge_strategy}.py and the Odoo   *)
(* writers.  Odoo is external.                                             *)
(*                                                                         *)
(* A plan is identified by its number of steps: the decision is accepted   *)
(* once, so every request of a behaviour carries the same plan.  Creates   *)
(* whose caller has gone and that Odoo processes later are the business of *)
(* VendorBillExecution.                                                    *)
(***************************************************************************)
EXTENDS ExecutionRuntime, ExecutionPlanning

CONSTANTS Drafts,       \* decisions an operator may author
          RowSets,      \* sets of billing rows an operator may author
          Deployments,  \* [mode, staging, gates]: what is asked for and what is switched on
          Scenarios,    \* quotation scenarios
          Editable,     \* the scenarios somebody edits in Odoo
          MaxEdits,     \* bound: edits of one scenario
          MaxDocs,      \* bound: Odoo documents of one step
          NoDecision, NoEvidence

ASSUME DecisionConstants ==
    /\ \A p \in Plans : PlanLength[p] = p
    /\ \E n \in Plans : \A p \in Plans : p <= n
    /\ Editable \subseteq Scenarios
    /\ MaxEdits \in Nat
    /\ MaxDocs \in Nat
    /\ NoDecision \notin Drafts
    /\ NoEvidence \notin (0 .. MaxEdits) \X (0 .. MaxEdits)
    /\ NoWorkflow \notin WorkflowType

\* What an operator can author: _reject_duplicate_allocation_keys, one Odoo id per scenario.
ASSUME AuthoredAssumption ==
    /\ \A d \in Drafts : d.type \in {"select_workflow", "dismiss"} /\ d.scenarios \in Seq(Scenarios)
    /\ \A d \in Drafts : IsFiniteSet(d.allocations) /\ \A a \in d.allocations : a.key \in Int
    /\ \A d \in Drafts : \A a, c \in d.allocations : a.key = c.key => a = c
    /\ \A rows \in RowSets : IsFiniteSet(rows) /\ \A r \in rows : r.key \in Int /\ r.group \in Int

\* the billing instructions a review version may have
Captures == {{}} \union {Instructions(rows) : rows \in RowSets}

\* Plans has every plan that a decision can be accepted with.
ASSUME PlansAssumption ==
    \A d \in Drafts, b \in Captures :
       Acceptable(d, b) => Len(PlannedSteps(d, BillingFor(d, b))) \in Plans \union {0}

VARIABLES deployment,  \* one of Deployments
          authored,    \* the Odoo Workbench: [draft, rows]; no longer read once accepted
          billing,     \* the billing instructions captured for this review version
          decision,    \* the accepted decision, or NoDecision
          plan,        \* what the planner makes of it
          source,      \* Odoo: [content, selected] of each scenario
          evidence,    \* committed evidence of each scenario: <<header, lines>>, or NoEvidence
          inserting,   \* the session with uncommitted evidence rows (it holds the unique entries)
          at,          \* where each worker's request is
          got,         \* what a capture has read so far, per scenario
          seen,        \* the scenarios a capture found persisted
          docs         \* Odoo: the contents of the documents with the key of each step

authorvars == <<deployment, authored, billing, decision, plan>>
evvars == <<evidence, inserting, got, seen>>
dxvars == <<rtvars, authorvars, source, evvars, at, docs>>

StepNumbers == 1 .. CHOOSE n \in Plans : \A p \in Plans : p <= n

\* Every request plans the accepted decision anew; its inputs never change, so the result is
\* kept with the decision.
Planned(d, b) ==
    [steps |-> PlannedSteps(d, BillingFor(d, b)), plannable |-> Plannable(d, BillingFor(d, b))]

ThePlan == plan.steps

\* the content of a document that does not come from a scenario
NoContent == <<>>

DecisionInit ==
    /\ RuntimeInit
    /\ req = [w \in Workers |-> CHOOSE r \in [plan : Plans, policy : RetryPolicies] : TRUE]
    /\ deployment \in Deployments
    /\ authored \in [draft : Drafts, rows : RowSets]
    /\ billing = {}
    /\ decision = NoDecision
    /\ plan = NoDecision
    /\ source = [s \in Scenarios |-> [content |-> 0, selected |-> TRUE]]
    /\ evidence = [s \in Scenarios |-> NoEvidence]
    /\ inserting = NoWorker
    /\ at = [w \in Workers |-> "none"]
    /\ got = [w \in Workers |-> <<>>]
    /\ seen = [w \in Workers |-> {}]
    /\ docs = [n \in StepNumbers |-> <<>>]

Move(w, place) == at' = [at EXCEPT ![w] = place]

-----------------------------------------------------------------------------
(* Authoring, the billing evidence and the decision.                        *)

\* the operator edits the decision or its billing rows in Odoo
EditAuthored ==
    /\ decision = NoDecision
    /\ authored' \in [draft : Drafts, rows : RowSets]
    /\ UNCHANGED <<rtvars, deployment, billing, decision, plan, source, evvars, at, docs>>

\* CaptureOdooWorkbenchBillingEvidenceUseCase: the candidate is read before the rows, so it is
\* any draft the operator had authored by then.  The first capture of the review version
\* stays, an equal one is answered with it, another is a conflict.
CaptureBilling ==
    /\ decision = NoDecision
    /\ \E candidate \in Drafts : CaptureAccepts(candidate, authored.rows)
    /\ billing = {}
    /\ billing' = Instructions(authored.rows)
    /\ UNCHANGED <<rtvars, deployment, authored, decision, plan, source, evvars, at, docs>>

\* the decision is accepted with the captured billing, which must cover what is now decided
\* and is linked to the decision only if that needs it
SubmitDecision ==
    /\ decision = NoDecision
    /\ Acceptable(authored.draft, billing)
    /\ decision' = authored.draft
    /\ billing' = IF RequiresBilling(authored.draft) THEN billing ELSE {}
    /\ plan' = Planned(authored.draft, billing')
    /\ authored' = NoDecision
    /\ UNCHANGED <<rtvars, deployment, source, evvars, at, docs>>

\* somebody edits a scenario in Odoo, at any time
EditScenario(s) ==
    /\ source[s].content < MaxEdits
    /\ \E selected \in BOOLEAN :
          source' = [source EXCEPT ![s] = [content |-> @.content + 1, selected |-> selected]]
    /\ UNCHANGED <<rtvars, authorvars, evvars, at, docs>>

-----------------------------------------------------------------------------
(* The capture of the quotation scenarios.                                   *)

EndCapture(w) ==
    /\ Move(w, "none")
    /\ got' = [got EXCEPT ![w] = <<>>]
    /\ seen' = [seen EXCEPT ![w] = {}]

\* capture(): only an accepted quotation decision has scenarios to capture
CaptureRequest(w) ==
    /\ at[w] = "none"
    /\ decision # NoDecision
    /\ decision.type = "select_workflow" /\ decision.workflow = "customer_quotation"
    /\ Move(w, "look")
    /\ UNCHANGED <<rtvars, authorvars, source, evvars, docs>>

\* _already_persisted_scenario_ids: one read per scenario, each sees what is committed by then
LookEvidence(w) ==
    /\ at[w] = "look"
    /\ Len(got[w]) < Len(decision.scenarios)
    /\ LET s == decision.scenarios[Len(got[w]) + 1] IN
          seen' = [seen EXCEPT ![w] = IF evidence[s] = NoEvidence THEN @ ELSE @ \union {s}]
    /\ got' = [got EXCEPT ![w] = Append(@, NoEvidence)]
    /\ UNCHANGED <<rtvars, authorvars, source, evidence, inserting, at, docs>>

\* all captured already (ALREADY_CAPTURED) or only some (CAPTURE_FAILED): nothing more is
\* done; none: the scenarios are read from Odoo
LookedUp(w) ==
    /\ at[w] = "look"
    /\ Len(got[w]) = Len(decision.scenarios)
    /\ IF seen[w] # {} THEN EndCapture(w)
       ELSE Move(w, "header") /\ got' = [got EXCEPT ![w] = <<>>] /\ UNCHANGED seen
    /\ UNCHANGED <<rtvars, authorvars, source, evidence, inserting, docs>>

\* get_scenario: the scenario and its parent ...
ReadHeader(w) ==
    /\ at[w] = "header"
    /\ LET s == decision.scenarios[Len(got[w]) + 1] IN
          IF source[s].selected
          THEN /\ got' = [got EXCEPT ![w] = Append(@, <<source[s].content>>)]
               /\ Move(w, "lines")
               /\ UNCHANGED seen
          ELSE EndCapture(w)
    /\ UNCHANGED <<rtvars, authorvars, source, evidence, inserting, docs>>

\* ... then its lines, a read of its own; the next scenario, or all of them are persisted
ReadLines(w) ==
    /\ at[w] = "lines"
    /\ LET n == Len(got[w]) IN
          /\ got' = [got EXCEPT ![w][n] = <<@[1], source[decision.scenarios[n]].content>>]
          /\ Move(w, IF n = Len(decision.scenarios) THEN "persist" ELSE "header")
    /\ UNCHANGED <<rtvars, authorvars, source, evidence, inserting, seen, docs>>

\* persist() of each snapshot in one transaction.  The first INSERT waits for the unique
\* entry of another session; then there is no row yet, or they were committed meanwhile.
PersistScenarios(w) ==
    /\ at[w] = "persist"
    /\ inserting = NoWorker
    /\ \A n \in DOMAIN got[w] : evidence[decision.scenarios[n]] \in {NoEvidence, got[w][n]}
    /\ inserting' = w
    /\ Move(w, "commit")
    /\ UNCHANGED <<rtvars, authorvars, source, evidence, got, seen, docs>>

\* Mutation: the conflict is raised while another session's insert is still open only.
EvidenceConflictLost(w) ==
    /\ at[w] = "persist"
    /\ inserting \notin {NoWorker, w}
    /\ \E n \in DOMAIN got[w] : evidence[decision.scenarios[n]] \notin {NoEvidence, got[w][n]}
    /\ EndCapture(w)
    /\ UNCHANGED <<rtvars, authorvars, source, evidence, inserting, docs>>

\* _existing_or_conflict: another snapshot is stored; the session is rolled back
EvidenceConflict(w) ==
    /\ at[w] = "persist"
    /\ inserting = NoWorker
    /\ \E n \in DOMAIN got[w] : evidence[decision.scenarios[n]] \notin {NoEvidence, got[w][n]}
    /\ EndCapture(w)
    /\ UNCHANGED <<rtvars, authorvars, source, evidence, inserting, docs>>

CommitEvidence(w) ==
    /\ at[w] = "commit"
    /\ evidence' = [s \in Scenarios |->
                       IF \E n \in DOMAIN got[w] : decision.scenarios[n] = s
                       THEN got[w][CHOOSE n \in DOMAIN got[w] : decision.scenarios[n] = s]
                       ELSE evidence[s]]
    /\ inserting' = NoWorker
    /\ EndCapture(w)
    /\ UNCHANGED <<rtvars, authorvars, source, docs>>

\* an Odoo read or the database fails, or the process dies: rolled back
CaptureFails(w) ==
    /\ at[w] \in {"look", "header", "lines", "persist", "commit"}
    /\ inserting' = IF inserting = w THEN NoWorker ELSE inserting
    /\ EndCapture(w)
    /\ UNCHANGED <<rtvars, authorvars, source, evidence, docs>>

-----------------------------------------------------------------------------
(* The request for execution and its gates.                                  *)

\* _missing_evidence_scenarios
Missing == {s \in Range(decision.scenarios) : evidence[s] = NoEvidence}

IsQuotation == decision.workflow = "customer_quotation"

\* eligibility and planning, then in execute mode the preflight and the strategies' support,
\* in a dry run neither
Executable ==
    /\ decision.type = "select_workflow"
    /\ IsQuotation => Missing = {}
    /\ plan.plannable
    /\ deployment.mode = "execute" =>
          /\ PreflightAllows(ThePlan, deployment.staging, deployment.gates)
          /\ PlanSupported(decision, ThePlan, "execute")

AlreadyCompleted == IsQuotation /\ deployment.mode = "execute" /\ row # NoRow /\ row.state = "completed"

\* a request that is refused, or answered ALREADY_EXECUTED, changes nothing and is no step
RequestAdmitted(w) ==
    /\ at[w] = "none"
    /\ decision # NoDecision
    /\ Executable /\ ~ AlreadyCompleted
    /\ Request(w)
    /\ req'[w].plan = Len(ThePlan)
    /\ Move(w, "runtime")
    /\ UNCHANGED <<authorvars, source, evvars, docs>>

-----------------------------------------------------------------------------
(* The runtime, and the strategies with their writers.                       *)

RuntimeStep(w) ==
    /\ at[w] = "runtime"
    /\ \/ LookupMiss(w) \/ LoadExisting(w) \/ InsertExecution(w) \/ ReturnStored(w)
       \/ StartRead(w) \/ Start(w) \/ Complete(w)
    /\ UNCHANGED <<authorvars, source, evvars, at, docs>>

\* the request ends: a concurrency conflict, or its commit
RuntimeEnds(w) ==
    /\ at[w] = "runtime"
    /\ StaleSnapshot(w) \/ Commit(w)
    /\ Move(w, "none")
    /\ UNCHANGED <<authorvars, source, evvars, docs>>

BeginStep(w) ==
    /\ at[w] = "runtime"
    /\ MarkStepRunning(w)
    /\ Move(w, "strategy")
    /\ UNCHANGED <<authorvars, source, evvars, docs>>

CurrentStep(w) == ThePlan[snap[w].current]

Resolved(w) == CurrentStep(w).type \in Registered(decision)

\* _execute_step: no strategy for the step's type raises, and the request is rolled back
StrategyMissing(w) ==
    /\ at[w] = "strategy"
    /\ ~ Resolved(w)
    /\ Abort(w)
    /\ Move(w, "none")
    /\ UNCHANGED <<authorvars, source, evvars, docs>>

\* what a creation step is built from: a billing instruction
Buildable(w) ==
    LET step == CurrentStep(w) IN
    step.type = "customer_recharge" /\ step.writer => step.billing # {}

\* a strategy answers a dry run before it calls its writer; a step on an existing purchase
\* order, which the preflight lets through in no other mode, always ends here
StopsBeforeWriter(w) == deployment.mode = "dry_run" \/ ~ CurrentStep(w).writer

\* the step has nothing to write: a dry run, or existing invoices only
NothingToWrite(w) ==
    /\ at[w] = "strategy"
    /\ Resolved(w) /\ Buildable(w)
    /\ StopsBeforeWriter(w)
    /\ MarkStepCompleted(w)
    /\ Move(w, "runtime")
    /\ UNCHANGED <<authorvars, source, evvars, docs>>

\* the writer searches the documents with its key: none yet
SearchDocument(w) ==
    /\ at[w] = "strategy"
    /\ Resolved(w) /\ Buildable(w)
    /\ deployment.mode = "execute" /\ CurrentStep(w).writer
    /\ docs[snap[w].current] = <<>>
    /\ Move(w, "create")
    /\ UNCHANGED <<rtvars, authorvars, source, evvars, docs>>

\* ... or exactly one, which is the answer
DocumentFound(w) ==
    /\ at[w] = "strategy"
    /\ Resolved(w) /\ Buildable(w)
    /\ deployment.mode = "execute" /\ CurrentStep(w).writer
    /\ Len(docs[snap[w].current]) = 1
    /\ MarkStepCompleted(w)
    /\ Move(w, "runtime")
    /\ UNCHANGED <<authorvars, source, evvars, docs>>

\* Mutation: the quotation is built from the scenario as it is in Odoo now.
ContentFromOdoo(step) ==
    IF step.scenario = <<>> THEN NoContent
    ELSE <<source[step.scenario[1]].content, source[step.scenario[1]].content>>

\* CustomerQuotationDraft.from_snapshot
Content(step) == IF step.scenario = <<>> THEN NoContent ELSE evidence[step.scenario[1]]

\* Odoo creates the document
CreateDocument(w) ==
    /\ at[w] = "create"
    /\ Len(docs[snap[w].current]) < MaxDocs
    /\ docs' = [docs EXCEPT ![snap[w].current] = Append(@, Content(CurrentStep(w)))]
    /\ Move(w, "created")
    /\ UNCHANGED <<rtvars, authorvars, source, evvars>>

DocumentCreated(w) ==
    /\ at[w] = "created"
    /\ MarkStepCompleted(w)
    /\ Move(w, "runtime")
    /\ UNCHANGED <<authorvars, source, evvars, docs>>

\* the source, its tax, the build, the search, the pricelist or the create fails, or the
\* answer to the create is lost: the step fails, whether or not there is a document
StepFails(w) ==
    /\ at[w] \in {"strategy", "create", "created"}
    /\ Resolved(w)
    /\ HandleFailure(w)
    /\ Move(w, "runtime")
    /\ UNCHANGED <<authorvars, source, evvars, docs>>

\* the process dies or the database fails, at any point
Crash(w) ==
    /\ at[w] \in {"runtime", "strategy", "create", "created"}
    /\ Abort(w)
    /\ Move(w, "none")
    /\ UNCHANGED <<authorvars, source, evvars, docs>>

-----------------------------------------------------------------------------

CaptureStep(w) ==
    \/ LookEvidence(w) \/ LookedUp(w) \/ ReadHeader(w) \/ ReadLines(w)
    \/ PersistScenarios(w) \/ EvidenceConflict(w) \/ CommitEvidence(w)

ExecutionStep(w) ==
    \/ RuntimeStep(w) \/ RuntimeEnds(w) \/ BeginStep(w) \/ StrategyMissing(w) \/ NothingToWrite(w)
    \/ SearchDocument(w) \/ DocumentFound(w) \/ CreateDocument(w) \/ DocumentCreated(w) \/ StepFails(w)

DecisionNext ==
    \/ EditAuthored \/ CaptureBilling \/ SubmitDecision
    \/ \E s \in Editable : EditScenario(s)
    \/ \E w \in Workers :
          \/ CaptureRequest(w) \/ CaptureStep(w) \/ CaptureFails(w)
          \/ RequestAdmitted(w) \/ ExecutionStep(w) \/ Crash(w)

\* A request handler goes on when it can, and is not passed over for ever at a lock.  Nothing
\* makes anybody ask, edit, decide or crash.
DecisionSpec ==
    /\ DecisionInit
    /\ [][DecisionNext]_dxvars
    /\ \A w \in Workers : SF_dxvars(CaptureStep(w) \/ ExecutionStep(w))

-----------------------------------------------------------------------------
(* Properties.                                                               *)

\* The types of the state this module adds.
DecisionTypeOK ==
    /\ deployment \in Deployments
    /\ authored \in [draft : Drafts, rows : RowSets] \union {NoDecision}
    /\ decision \in Drafts \union {NoDecision}
    /\ \A i \in billing : DOMAIN i = {"billing", "customer", "keys"}
    /\ source \in [Scenarios -> [content : 0 .. MaxEdits, selected : BOOLEAN]]
    /\ \A s \in Scenarios : evidence[s] \in {NoEvidence} \union ((0 .. MaxEdits) \X (0 .. MaxEdits))
    /\ inserting \in Workers \union {NoWorker}
    /\ at \in [Workers -> {"none", "look", "header", "lines", "persist", "commit", "runtime",
                           "strategy", "create", "created"}]
    /\ seen \in [Workers -> SUBSET Scenarios]
    /\ DOMAIN docs = StepNumbers

\* The billing rows and the allocations are edited and captured independently of the
\* decision, but an accepted Vendor Bill decision can always be planned, and its plan gives
\* every allocation to create an invoice for to exactly one step, of the customer it is
\* recharged to.
AcceptedBillingIsPlannable ==
    decision # NoDecision /\ decision.workflow = "vendor_bill" =>
        /\ plan.plannable
        /\ \A a \in Creations(decision) :
              Cardinality({i \in DOMAIN ThePlan : ThePlan[i].type = "customer_recharge"
                                                  /\ ThePlan[i].writer /\ a.key \in ThePlan[i].keys}) = 1
        /\ \A i \in DOMAIN ThePlan : \A b \in ThePlan[i].billing : \A a \in Creations(decision) :
              a.key \in ThePlan[i].keys => a.partner = b.customer

\* Several captures of the same decision race with each other and with edits in Odoo: the
\* evidence of the decision's scenarios is committed as a whole or not at all ...
EvidenceIsWhole ==
    decision # NoDecision => Missing \in {{}, Range(decision.scenarios)}

\* ... and once it is, it never changes.
EvidenceIsFinal ==
    [][\A s \in Scenarios : evidence[s] # NoEvidence => evidence'[s] = evidence[s]]_dxvars

\* A sales order carries the committed evidence, however the scenario was edited since, on
\* whichever attempt of whichever request it was created.
OrderIsTheEvidence ==
    decision # NoDecision =>
        \A n \in StepNumbers : \A k \in DOMAIN docs[n] :
           ThePlan[n].scenario # <<>> => docs[n][k] = evidence[ThePlan[n].scenario[1]]

\* Lost answers, crashes after the create, retries and concurrent requests never give a step
\* a second document.
OneDocumentPerStep == \A n \in StepNumbers : Len(docs[n]) <= 1

\* An execution is completed only with the document of every writing step, which an answer
\* "executed" therefore means; a dry run leaves none behind.
CompletedHasEveryDocument ==
    decision # NoDecision =>
        /\ deployment.mode = "execute" =>
              \A n \in DOMAIN ThePlan : ThePlan[n].writer /\ docs[n] = <<>> =>
                 /\ row # NoRow => row.state # "completed"
                 /\ \A w \in Workers : reply[w] # "executed"
        /\ deployment.mode = "dry_run" => \A n \in StepNumbers : docs[n] = <<>>

\* Documents appear in the order of the plan, also when attempts are rolled back after the
\* create: no step has a document before the writing steps before it have theirs.
DocumentsFollowPlan ==
    decision # NoDecision =>
        \A n, m \in DOMAIN ThePlan :
           m < n /\ docs[n] # <<>> /\ ThePlan[m].writer => docs[m] # <<>>

\* Every capture and every execution request ends: nobody waits for ever for the row lock or
\* for another session's evidence.
EveryDecisionRequestEnds == \A w \in Workers : at[w] # "none" ~> at[w] = "none"

\* What is executed is what was accepted: a plan of the decision, with the evidence of all its
\* scenarios as it was captured, and the documents of that plan, each once, in its order, and
\* all of them when the execution says it is completed.
ExecutedIsTheDecision ==
    /\ DecisionTypeOK /\ AcceptedBillingIsPlannable /\ EvidenceIsWhole /\ OrderIsTheEvidence
    /\ OneDocumentPerStep /\ DocumentsFollowPlan /\ CompletedHasEveryDocument

\* Requests end, and none of them changes evidence that another one has committed.
DecisionRequestsEnd == EvidenceIsFinal /\ EveryDecisionRequestEnds

=============================================================================

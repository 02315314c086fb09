------------------------- MODULE ExecutionPlanning -------------------------
(***************************************************************************)
(* What an accepted decision becomes: the billing evidence captured for its*)
(* recharge allocations, the acceptance of the decision with that evidence,*)
(* the steps the planner derives, and what the preflight and the strategy  *)
(* registry let run in which mode.  Values only, no state.                 *)
(*                                                                         *)
(* Code: app/application/workbench/{billing_capture_use_cases,             *)
(* decision_use_cases,commands}.py, app/application/execution/{planner,    *)
(* contracts,preflight,strategy,coordinator}.py, composition/execution.py. *)
(*                                                                         *)
(* A decision is a record                                                  *)
(*   type        "select_workflow" or "dismiss"                            *)
(*   workflow    a WorkflowType, or NoWorkflow                             *)
(*   allocations a set of allocations, {} for none                         *)
(*   scenarios   the selected quotation scenarios, a sequence without      *)
(*               duplicates                                                *)
(* an allocation is [key, type, partner, existing] (existing: it names a   *)
(* customer invoice), an authored billing row [id, group, key, customer,   *)
(* ready] and an instruction [billing, customer, keys].  Keys are numbers, *)
(* ordered as the code sorts its strings.                                  *)
(***************************************************************************)
EXTENDS Integers, FiniteSets, Sequences, SequencesExt

CONSTANT NoWorkflow

WorkflowType ==
    {"vendor_bill", "rfq", "expense", "asset", "subscription", "customer_quotation", "manual_review"}

\* ALLOCATION_STEP_TYPES
StepTypeOf(a) == IF a.type = "sales_order_cost" THEN "sales_order_cost_link" ELSE a.type

Recharges(d) == {a \in d.allocations : a.type = "customer_recharge"}
ExistingInvoices(d) == {a \in Recharges(d) : a.existing}
Creations(d) == {a \in Recharges(d) : ~ a.existing}
Keys(as) == {a.key : a \in as}

-----------------------------------------------------------------------------
(* The billing evidence of the creation allocations.                         *)

\* every key of `of' is covered once, by the customer it is recharged to, and nothing else is.
\* `lines' is the set of [id, key, customer] that cover.
CoversExactly(lines, of) ==
    /\ \A l \in lines : \E a \in of : a.key = l.key /\ a.partner = l.customer
    /\ \A l, k \in lines : l.key = k.key => l = k
    /\ {l.key : l \in lines} = Keys(of)

\* _validate_rows_scope, _validate_allocation_linkage and the groups of _instructions
CaptureAccepts(d, rows) ==
    /\ rows # {}
    /\ \A r \in rows : r.ready
    /\ CoversExactly({[id |-> r.id, key |-> r.key, customer |-> r.customer] : r \in rows}, Creations(d))
    /\ \A r, q \in rows : r.group = q.group => r.customer = q.customer

\* _instructions: one per billing group
Instructions(rows) ==
    {[billing |-> g, customer |-> (CHOOSE r \in rows : r.group = g).customer,
      keys |-> {r.key : r \in {q \in rows : q.group = g}}] : g \in {r.group : r \in rows}}

Lines(billing) ==
    UNION {{[id |-> i.billing, key |-> k, customer |-> i.customer] : k \in i.keys} : i \in billing}

RequiresBilling(d) == d.type = "select_workflow" /\ Creations(d) # {}

\* _validate_billing_coverage, and the writer's check that there is evidence
BillingAccepted(d, billing) == billing # {} /\ CoversExactly(Lines(billing), Creations(d))

\* _validate_decision_combination and the evidence a decision must come with
Acceptable(d, billing) ==
    /\ d.type = "dismiss" => d.workflow = NoWorkflow /\ d.allocations = {} /\ d.scenarios = <<>>
    /\ d.type = "select_workflow" =>
          /\ d.workflow \in WorkflowType \ {"manual_review"}
          /\ d.workflow = "customer_quotation" <=> d.scenarios # <<>>
    /\ RequiresBilling(d) => d.workflow = "vendor_bill" /\ BillingAccepted(d, billing)

-----------------------------------------------------------------------------
(* The planner.                                                              *)

Step(type, keys, execute, writer, scenario, billing) ==
    [type |-> type, keys |-> keys, execute |-> execute, writer |-> writer,
     scenario |-> scenario, billing |-> billing]

QuotationSteps(d) ==
    [i \in DOMAIN d.scenarios |->
        Step("create_customer_quotation", {}, TRUE, TRUE, <<d.scenarios[i]>>, {})]

\* the instructions in the order of their billing keys: i - 1 come before the i-th
InBillingOrder(billing) ==
    [i \in 1 .. Cardinality(billing) |->
        CHOOSE b \in billing : Cardinality({c \in billing : c.billing < b.billing}) = i - 1]

\* _customer_invoice_creation_steps_from_billing: one step per instruction, by billing key
BillingSteps(billing) ==
    [i \in 1 .. Cardinality(billing) |->
        LET b == InBillingOrder(billing)[i] IN
        Step("customer_recharge", b.keys, TRUE, TRUE, <<>>, {b})]

\* without billing evidence: one step per creation, by its key, which only a dry run may take
UnbilledSteps(d) ==
    [i \in 1 .. Cardinality(Creations(d)) |->
        LET a == CHOOSE a \in Creations(d) : Cardinality({c \in Creations(d) : c.key < a.key}) = i - 1 IN
        Step("customer_recharge", {a.key}, FALSE, TRUE, <<>>, {})]

\* _customer_recharge_steps
RechargeSteps(d, billing) ==
    (IF ExistingInvoices(d) = {} THEN <<>>
     ELSE <<Step("customer_recharge", Keys(ExistingInvoices(d)), TRUE, FALSE, <<>>, {})>>)
    \o (IF billing = {} \/ Creations(d) = {} THEN UnbilledSteps(d) ELSE BillingSteps(billing))

\* the keys grouped under a step type other than the recharge
GroupedKeys(d, t) ==
    IF t = "vendor_bill" THEN (IF d.workflow = t THEN Keys(d.allocations) ELSE {})
    ELSE Keys({a \in d.allocations : StepTypeOf(a) = t})

StepsOfType(d, billing, t) ==
    IF t = "customer_recharge" THEN RechargeSteps(d, billing)
    ELSE IF GroupedKeys(d, t) # {} \/ t = d.workflow
    THEN <<Step(t, GroupedKeys(d, t), t = "vendor_bill", t = "vendor_bill", <<>>, {})>>
    ELSE <<>>

\* the steps of each type, in STEP_TYPE_ORDER
PlannedSteps(d, billing) ==
    LET Of(t) == StepsOfType(d, billing, t) IN
    IF d.workflow = "customer_quotation" THEN QuotationSteps(d)
    ELSE Of("existing_purchase_order") \o Of("new_rfq_purchase") \o Of("vendor_bill")
         \o Of("sales_order_cost_link") \o Of("customer_recharge") \o Of("project_cost")
         \o Of("operating_expense") \o Of("fixed_asset") \o Of("subscription_service")
         \o Of("internal_cost")

\* ExecutionPlanningError: no step, a quotation with allocations or without a scenario,
\* billing that does not cover the creations exactly
Plannable(d, billing) ==
    /\ PlannedSteps(d, billing) # <<>>
    /\ d.workflow = "customer_quotation" => d.allocations = {} /\ d.scenarios # <<>>
    /\ d.workflow # "customer_quotation" /\ billing # {} /\ Creations(d) # {} =>
          CoversExactly(Lines(billing), Creations(d))

\* the billing instructions the use case hands to the planner
BillingFor(d, billing) == IF Creations(d) = {} THEN {} ELSE billing

-----------------------------------------------------------------------------
(* The mode, the preflight and the strategies.                               *)

\* ExecutionPreflightPolicy.ensure_execute_allowed, past approval and switches.  `staging'
\* is the set of sanctioned step types, {} outside a staging deployment.
PreflightAllows(steps, staging, gates) ==
    /\ \A i \in DOMAIN steps : staging # {} => steps[i].type \in staging
    /\ \A i \in DOMAIN steps : steps[i].execute
    /\ \A i \in DOMAIN steps : steps[i].writer => steps[i].type \in gates

\* the strategies of the two composed use cases
Registered(d) ==
    IF d.workflow = "customer_quotation" THEN {"create_customer_quotation"}
    ELSE {"vendor_bill", "existing_purchase_order", "customer_recharge"}

\* supports_step of the strategy of the step's type: the recharge router has one strategy for
\* steps of existing invoices and one for creations, which executes only with an instruction
SupportsStep(d, step, mode) ==
    /\ step.type \in Registered(d)
    /\ step.type = "customer_recharge" =>
          /\ step.keys # {}
          /\ \/ step.keys \subseteq Keys(ExistingInvoices(d))
             \/ step.keys \subseteq Keys(Creations(d)) /\ (mode = "execute" => step.billing # {})

\* ensure_plan_supports_mode
PlanSupported(d, steps, mode) == \A i \in DOMAIN steps : SupportsStep(d, steps[i], mode)

=============================================================================

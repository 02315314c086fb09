------------------------ MODULE MCDecisionExecution ------------------------
(* Two request handlers, two scenarios of which one is edited once, decisions of every   *)
(* kind the planner tells apart and billing rows that do and do not cover them.          *)
EXTENDS DecisionExecution, TLC

CONSTANTS w1, w2, s1, s2

MCWorkers == {w1, w2}
MCPlans == 1 .. 3
MCPlanLength == [p \in MCPlans |-> p]
MCRetryPolicies == {[policy_type |-> "immediate", max_attempts |-> 2]}
MCScenarios == {s1, s2}
MCEditable == {s1}

Select(workflow, allocations, scenarios) ==
    [type |-> "select_workflow", workflow |-> workflow, allocations |-> allocations,
     scenarios |-> scenarios]

Recharge(key, partner, existing) ==
    [key |-> key, type |-> "customer_recharge", partner |-> partner, existing |-> existing]

Allocate(key, type) == [key |-> key, type |-> type, partner |-> 0, existing |-> FALSE]

MCDrafts ==
    {[type |-> "dismiss", workflow |-> NoWorkflow, allocations |-> {}, scenarios |-> <<>>],
     Select("vendor_bill", {}, <<>>),
     Select("vendor_bill", {Recharge(1, 1, FALSE), Recharge(2, 1, FALSE)}, <<>>),
     Select("vendor_bill", {Recharge(1, 1, TRUE), Recharge(2, 2, FALSE)}, <<>>),
     Select("vendor_bill", {Allocate(1, "existing_purchase_order")}, <<>>),
     Select("expense", {Allocate(1, "project_cost")}, <<>>),
     Select("manual_review", {}, <<>>),
     Select("customer_quotation", {}, <<s1, s2>>),
     Select("customer_quotation", {Allocate(1, "project_cost")}, <<s1>>)}

Row(id, group, key, customer) ==
    [id |-> id, group |-> group, key |-> key, customer |-> customer, ready |-> TRUE]

MCRowSets ==
    {{}, {Row(1, 1, 1, 1), Row(2, 1, 2, 1)}, {Row(1, 1, 1, 1), Row(2, 2, 2, 1)},
     {Row(1, 1, 2, 2)}, {Row(1, 1, 1, 1), Row(2, 1, 2, 2)}}

MCDeployments ==
    LET all == {"vendor_bill", "existing_purchase_order", "customer_recharge",
                "create_customer_quotation"} IN
    {[mode |-> "dry_run", staging |-> {}, gates |-> {}],
     [mode |-> "execute", staging |-> {}, gates |-> all],
     [mode |-> "execute", staging |-> {"vendor_bill"}, gates |-> all]}

=============================================================================

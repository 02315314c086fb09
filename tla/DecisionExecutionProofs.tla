--------------------------- MODULE DecisionExecutionProofs ---------------------------
(***************************************************************************)
(* Proofs about DecisionExecution, for every set of decisions, billing     *)
(* rows and scenarios, and any number of concurrent requests.              *)
(*                                                                         *)
(* First what the planner makes of an accepted decision, then what the     *)
(* captures commit, and on top of both, and of what is proved of the       *)
(* runtime, the documents.                                                 *)
(***************************************************************************)
EXTENDS DecisionExecution, ExecutionRuntimeProofs

-----------------------------------------------------------------------------
(* The plan of an accepted decision. *)

\* Billing instructions as a capture makes them: finitely many, each with its own key.
IsBilling(B) ==
    /\ IsFiniteSet(B)
    /\ \A b \in B : b.billing \in Int /\ b.keys \in SUBSET Int /\ DOMAIN b = {"billing", "customer", "keys"}
    /\ \A b, c \in B : b.billing = c.billing => b = c

\* _instructions: what a capture makes of its rows has a key of its own per instruction.
LEMMA CapturedBilling == ASSUME NEW rows \in RowSets PROVE IsBilling(Instructions(rows))
<1> DEFINE groups == {r.group : r \in rows}
           made(g) == [billing |-> g, customer |-> (CHOOSE r \in rows : r.group = g).customer,
                       keys |-> {r.key : r \in {q \in rows : q.group = g}}]
<1>1. IsFiniteSet(rows) /\ \A r \in rows : r.key \in Int /\ r.group \in Int
  BY AuthoredAssumption
<1>2. Instructions(rows) = {made(g) : g \in groups}
  BY DEF Instructions
<1>3. \A g \in groups : /\ made(g).billing = g /\ made(g).keys \in SUBSET Int /\ g \in Int
                        /\ DOMAIN made(g) = {"billing", "customer", "keys"}
  BY <1>1
<1> HIDE DEF made
<1>4. IsFiniteSet(Instructions(rows))
  <2>1. [r \in rows |-> made(r.group)] \in Surjection(rows, Instructions(rows))
    BY <1>2 DEF Surjection
  <2>2. QED
    BY <1>1, <2>1, FS_Surjection
<1>5. QED
  BY <1>2, <1>3, <1>4 DEF IsBilling

\* Sorting by billing key puts every instruction at exactly one place.
LEMMA BillingOrder ==
    ASSUME NEW B, IsBilling(B)
    PROVE  /\ Cardinality(B) \in Nat
           /\ \A i \in 1 .. Cardinality(B) : InBillingOrder(B)[i] \in B
           /\ \A b \in B : \E i \in 1 .. Cardinality(B) : InBillingOrder(B)[i] = b
           /\ \A i, j \in 1 .. Cardinality(B) : InBillingOrder(B)[i] = InBillingOrder(B)[j] => i = j
<1> DEFINE before(b) == {c \in B : c.billing < b.billing}
           n == Cardinality(B)
           rank == [b \in B |-> Cardinality(before(b))]
<1>1. IsFiniteSet(B) /\ (\A b \in B : b.billing \in Int) /\ \A b, c \in B : b.billing = c.billing => b = c
  BY DEF IsBilling
<1>2. n \in Nat
  BY <1>1, FS_CardinalityType
<1>3. ASSUME NEW b \in B PROVE IsFiniteSet(before(b)) /\ Cardinality(before(b)) \in 0 .. n - 1
  <2>1. before(b) \in SUBSET B /\ b \in B /\ b \notin before(b)
    BY <1>1
  <2> HIDE DEF before
  <2>2. /\ IsFiniteSet(before(b)) /\ Cardinality(before(b)) <= n
        /\ Cardinality(B) = Cardinality(before(b)) => B = before(b)
    BY <1>1, <2>1, FS_Subset
  <2>3. Cardinality(before(b)) \in Nat /\ Cardinality(before(b)) # n
    BY <2>1, <2>2, FS_CardinalityType
  <2>4. QED
    BY <1>2, <2>2, <2>3
<1>4. ASSUME NEW b \in B, NEW c \in B, b.billing < c.billing
      PROVE  Cardinality(before(b)) # Cardinality(before(c))
  <2>1. before(b) \in SUBSET before(c) /\ b \in before(c) /\ b \notin before(b)
    BY <1>1, <1>4
  <2>2. IsFiniteSet(before(c))
    BY <1>3
  <2> HIDE DEF before
  <2>3. Cardinality(before(c)) = Cardinality(before(b)) => before(c) = before(b)
    BY <2>1, <2>2, FS_Subset
  <2>4. QED
    BY <2>1, <2>3
<1>5. \A b, c \in B : rank[b] = rank[c] => b = c
  <2>1. SUFFICES ASSUME NEW b \in B, NEW c \in B, b # c PROVE rank[b] # rank[c]
    OBVIOUS
  <2>2. b.billing < c.billing \/ c.billing < b.billing
    BY <1>1, <2>1
  <2>3. Cardinality(before(b)) # Cardinality(before(c))
    BY <1>4, <2>2
  <2>4. QED
    BY <2>3
<1>6. rank \in Injection(B, 0 .. n - 1)
  BY <1>3, <1>5 DEF Injection, IsInjective
<1>7. IsFiniteSet(0 .. n - 1) /\ Cardinality(0 .. n - 1) = n
  <2>1. 0 \in Int /\ n - 1 \in Int /\ (0 > n - 1 <=> n = 0)
    BY <1>2
  <2>2. IsFiniteSet(0 .. n - 1) /\ Cardinality(0 .. n - 1) = IF 0 > n - 1 THEN 0 ELSE (n - 1) - 0 + 1
    BY <2>1, FS_Interval
  <2>3. QED
    BY <1>2, <2>1, <2>2
<1>8. rank \in Surjection(B, 0 .. n - 1)
  <2> HIDE DEF rank
  <2>1. QED
    BY <1>6, <1>7, FS_Injection
<1>9. \A i \in 1 .. n : \E b \in B : rank[b] = i - 1
  <2>1. \A k \in 0 .. n - 1 : \E b \in B : rank[b] = k
    BY <1>8 DEF Surjection
  <2>2. \A i \in 1 .. n : i - 1 \in 0 .. n - 1
    BY <1>2
  <2>3. QED
    BY <2>1, <2>2
<1>10. \A i \in 1 .. n : InBillingOrder(B)[i] \in B /\ rank[InBillingOrder(B)[i]] = i - 1
  <2>1. SUFFICES ASSUME NEW i \in 1 .. n
                 PROVE  InBillingOrder(B)[i] \in B /\ rank[InBillingOrder(B)[i]] = i - 1
    OBVIOUS
  <2>2. InBillingOrder(B)[i] = CHOOSE b \in B : Cardinality(before(b)) = i - 1
    BY DEF InBillingOrder
  <2>3. \E b \in B : Cardinality(before(b)) = i - 1
    BY <1>9
  <2>4. QED
    BY <2>2, <2>3
<1>11. \A b \in B : rank[b] + 1 \in 1 .. n
  BY <1>2, <1>3
<1> HIDE DEF rank, n
<1>12. \A b \in B : InBillingOrder(B)[rank[b] + 1] = b
  <2>1. SUFFICES ASSUME NEW b \in B PROVE InBillingOrder(B)[rank[b] + 1] = b
    OBVIOUS
  <2>2. rank[b] \in Int
    BY <1>3 DEF rank, n
  <2>3. rank[InBillingOrder(B)[rank[b] + 1]] = rank[b] /\ InBillingOrder(B)[rank[b] + 1] \in B
    BY <1>10, <1>11, <2>2
  <2>4. QED
    BY <1>5, <2>3
<1>13. \A i, j \in 1 .. n : InBillingOrder(B)[i] = InBillingOrder(B)[j] => i = j
  BY <1>2, <1>10
<1>14. QED
  BY <1>2, <1>10, <1>11, <1>12, <1>13 DEF n

StepTypes ==
    {"existing_purchase_order", "new_rfq_purchase", "vendor_bill", "sales_order_cost_link",
     "customer_recharge", "project_cost", "operating_expense", "fixed_asset",
     "subscription_service", "internal_cost", "create_customer_quotation"}

\* what a step is the quotation of
Sources == {<<>>} \union {<<s>> : s \in Scenarios}

\* The steps of a plan with the billing instructions B, and the step of one of them.
Possible(B) ==
    [type : StepTypes, keys : SUBSET Int, execute : BOOLEAN, writer : BOOLEAN,
     scenario : Sources, billing : SUBSET B]

Billed(b) == Step("customer_recharge", b.keys, TRUE, TRUE, <<>>, {b})

CreatesInvoice(step) == step.type = "customer_recharge" /\ step.writer

\* the steps that create no customer invoice
Others(B) == {step \in Possible(B) : ~ CreatesInvoice(step) /\ step.scenario = <<>> /\ step.billing = {}}

\* A plan that has one step for each instruction, and creates no other invoice.
Carries(s, B) ==
    /\ s \in Seq(Possible(B))
    /\ \A b \in B : \E i \in DOMAIN s : s[i] = Billed(b)
    /\ \A i \in DOMAIN s : s[i] \in Others(B) \/ \E b \in B : s[i] = Billed(b)
    /\ \A i, j \in DOMAIN s : CreatesInvoice(s[i]) /\ s[i] = s[j] => i = j

\* A step that is not of a quotation has no scenario.
LEMMA NoSource == <<>> \in Sources
BY DEF Sources

\* The step of a billing instruction creates the invoice of just its allocations.
LEMMA BilledStep ==
    ASSUME NEW B, IsBilling(B), NEW b \in B
    PROVE  /\ Billed(b) \in Possible(B) /\ CreatesInvoice(Billed(b)) /\ Billed(b) \notin Others(B)
           /\ Billed(b).keys = b.keys /\ Billed(b).billing = {b} /\ Billed(b).scenario = <<>>
<1>1. /\ b.keys \in SUBSET Int /\ {b} \in SUBSET B /\ "customer_recharge" \in StepTypes
      /\ TRUE \in BOOLEAN /\ <<>> \in Sources
  BY NoSource DEF IsBilling, StepTypes
<1>2. /\ Billed(b) \in Possible(B)
      /\ Billed(b).type = "customer_recharge" /\ Billed(b).keys = b.keys /\ Billed(b).writer = TRUE
      /\ Billed(b).scenario = <<>> /\ Billed(b).billing = {b}
  BY <1>1 DEF Billed, Step, Possible
<1>3. QED
  BY <1>2 DEF Others, CreatesInvoice

\* Other steps before or after do not disturb those of the billing.
LEMMA CarriesThen ==
    ASSUME NEW B, NEW s, NEW t, Carries(s, B), t \in Seq(Others(B))
    PROVE  Carries(s \o t, B) /\ Carries(t \o s, B)
<1>1. /\ s \in Seq(Possible(B)) /\ t \in Seq(Possible(B))
      /\ \A i \in DOMAIN t : t[i] \in Others(B) /\ ~ CreatesInvoice(t[i])
  BY DEF Carries, Others
<1>2. s \o t \in Seq(Possible(B)) /\ t \o s \in Seq(Possible(B))
  BY <1>1
<1>3. /\ \A i \in DOMAIN s : i \in DOMAIN (s \o t) /\ (s \o t)[i] = s[i]
      /\ \A i \in DOMAIN s : i + Len(t) \in DOMAIN (t \o s) /\ (t \o s)[i + Len(t)] = s[i]
  BY <1>1
<1>4. \A i \in DOMAIN (s \o t) : \/ i \in DOMAIN s /\ (s \o t)[i] = s[i]
                                 \/ i - Len(s) \in DOMAIN t /\ (s \o t)[i] = t[i - Len(s)]
  BY <1>1
<1>5. \A i \in DOMAIN (t \o s) : \/ i \in DOMAIN t /\ (t \o s)[i] = t[i]
                                 \/ i - Len(t) \in DOMAIN s /\ (t \o s)[i] = s[i - Len(t)]
  BY <1>1
<1>6. Carries(s \o t, B)
  <2>1. \A b \in B : \E i \in DOMAIN (s \o t) : (s \o t)[i] = Billed(b)
    BY <1>3 DEF Carries
  <2>2. \A i \in DOMAIN (s \o t) : (s \o t)[i] \in Others(B) \/ \E b \in B : (s \o t)[i] = Billed(b)
    BY <1>1, <1>4 DEF Carries
  <2>3. \A i, j \in DOMAIN (s \o t) : CreatesInvoice((s \o t)[i]) /\ (s \o t)[i] = (s \o t)[j] => i = j
    <3>1. \A i \in DOMAIN (s \o t) : CreatesInvoice((s \o t)[i]) => i \in DOMAIN s /\ (s \o t)[i] = s[i]
      BY <1>1, <1>4
    <3>2. QED
      BY <3>1 DEF Carries
  <2>4. QED
    BY <1>2, <2>1, <2>2, <2>3 DEF Carries
<1>7. Carries(t \o s, B)
  <2>1. \A b \in B : \E i \in DOMAIN (t \o s) : (t \o s)[i] = Billed(b)
    BY <1>3 DEF Carries
  <2>2. \A i \in DOMAIN (t \o s) : (t \o s)[i] \in Others(B) \/ \E b \in B : (t \o s)[i] = Billed(b)
    BY <1>1, <1>5 DEF Carries
  <2>3. \A i, j \in DOMAIN (t \o s) : CreatesInvoice((t \o s)[i]) /\ (t \o s)[i] = (t \o s)[j] => i = j
    <3>1. \A i \in DOMAIN (t \o s) :
             CreatesInvoice((t \o s)[i]) => i - Len(t) \in DOMAIN s /\ (t \o s)[i] = s[i - Len(t)]
      BY <1>1, <1>5
    <3>2. \A i \in DOMAIN (t \o s) : i \in Int
      BY <1>2
    <3>3. Len(t) \in Int
      BY <1>1
    <3>4. SUFFICES ASSUME NEW i \in DOMAIN (t \o s), NEW j \in DOMAIN (t \o s),
                          CreatesInvoice((t \o s)[i]), (t \o s)[i] = (t \o s)[j]
                   PROVE  i = j
      OBVIOUS
    <3>5. i - Len(t) = j - Len(t)
      BY <3>1, <3>4 DEF Carries
    <3>6. QED
      BY <3>2, <3>3, <3>5
  <2>4. QED
    BY <1>2, <2>1, <2>2, <2>3 DEF Carries
<1>8. QED
  BY <1>6, <1>7

\* _customer_invoice_creation_steps_from_billing
LEMMA BillingCarries == ASSUME NEW B, IsBilling(B) PROVE Carries(BillingSteps(B), B)
<1> DEFINE n == Cardinality(B)
           s == BillingSteps(B)
<1>1. /\ n \in Nat
      /\ \A i \in 1 .. n : InBillingOrder(B)[i] \in B
      /\ \A b \in B : \E i \in 1 .. n : InBillingOrder(B)[i] = b
      /\ \A i, j \in 1 .. n : InBillingOrder(B)[i] = InBillingOrder(B)[j] => i = j
  BY BillingOrder
<1>2. s = [i \in 1 .. n |-> Billed(InBillingOrder(B)[i])]
  BY DEF BillingSteps, Billed
<1>3. \A b \in B : Billed(b) \in Possible(B) /\ Billed(b).billing = {b}
  BY BilledStep
<1> HIDE DEF n, s
<1>4. s \in Seq(Possible(B)) /\ DOMAIN s = 1 .. n /\ \A i \in 1 .. n : s[i] = Billed(InBillingOrder(B)[i])
  BY <1>1, <1>2, <1>3
<1>5. \A i, j \in 1 .. n : s[i] = s[j] => i = j
  <2>1. SUFFICES ASSUME NEW i \in 1 .. n, NEW j \in 1 .. n, s[i] = s[j] PROVE i = j
    OBVIOUS
  <2>2. /\ InBillingOrder(B)[i] \in B /\ InBillingOrder(B)[j] \in B
        /\ Billed(InBillingOrder(B)[i]) = Billed(InBillingOrder(B)[j])
    BY <1>1, <1>4, <2>1
  <2>3. {InBillingOrder(B)[i]} = {InBillingOrder(B)[j]}
    BY <1>3, <2>2
  <2>4. InBillingOrder(B)[i] = InBillingOrder(B)[j]
    BY <2>3
  <2>5. QED
    BY <1>1, <2>4
<1>6. QED
  BY <1>1, <1>4, <1>5 DEF Carries, s

\* _reject_duplicate_allocation_keys: an allocation is known by its key.
LEMMA AllocationKeys ==
    ASSUME NEW d \in Drafts
    PROVE  /\ Keys(d.allocations) \in SUBSET Int
           /\ \A as \in SUBSET d.allocations : Keys(as) \in SUBSET Int
BY AuthoredAssumption DEF Keys

\* the steps of a type other than the recharge
LEMMA OtherSteps ==
    ASSUME NEW d \in Drafts, NEW B, NEW F, NEW t \in StepTypes, t # "customer_recharge"
    PROVE  /\ StepsOfType(d, F, t) \in Seq(Others(B))
           /\ t = d.workflow => StepsOfType(d, F, t) # <<>>
<1> DEFINE k == GroupedKeys(d, t)
           e == (t = "vendor_bill")
<1>1. k \in SUBSET Int
  BY AllocationKeys DEF GroupedKeys
<1>2. e \in BOOLEAN /\ {} \in SUBSET B /\ <<>> \in Sources
  BY NoSource
<1>3. StepsOfType(d, F, t) = IF k # {} \/ t = d.workflow THEN <<Step(t, k, e, e, <<>>, {})>> ELSE <<>>
  BY DEF StepsOfType
<1> HIDE DEF k, e
<1>4. Step(t, k, e, e, <<>>, {}) \in Others(B)
  <2>1. /\ Step(t, k, e, e, <<>>, {}) \in Possible(B)
        /\ Step(t, k, e, e, <<>>, {}).type = t /\ Step(t, k, e, e, <<>>, {}).scenario = <<>>
        /\ Step(t, k, e, e, <<>>, {}).billing = {}
    BY <1>1, <1>2 DEF Step, Possible
  <2>2. QED
    BY <2>1 DEF Others, CreatesInvoice
<1>5. QED
  BY <1>3, <1>4

\* What is known of a decision once it is accepted with the billing b.
Accepted(d, b) == d \in Drafts /\ Acceptable(d, b) /\ IsBilling(b) /\ b \in Captures

\* _customer_recharge_steps: an accepted decision has billing for all it creates.
LEMMA RechargeCarries ==
    ASSUME NEW d, NEW b, Accepted(d, b)
    PROVE  /\ Carries(RechargeSteps(d, BillingFor(d, b)), BillingFor(d, b))
           /\ IsBilling(BillingFor(d, b))
           /\ Creations(d) # {} => b # {} /\ d.workflow = "vendor_bill" /\ CoversExactly(Lines(b), Creations(d))
<1> DEFINE F == BillingFor(d, b)
           existing == IF ExistingInvoices(d) = {} THEN <<>>
                       ELSE <<Step("customer_recharge", Keys(ExistingInvoices(d)), TRUE, FALSE, <<>>, {})>>
<1>1. d \in Drafts /\ Acceptable(d, b) /\ IsBilling(b)
  BY DEF Accepted
<1>2. ASSUME Creations(d) # {}
      PROVE  b # {} /\ d.workflow = "vendor_bill" /\ CoversExactly(Lines(b), Creations(d))
  <2>1. d.allocations # {}
    BY <1>2 DEF Creations, Recharges
  <2>2. d.type = "select_workflow"
    BY <1>1, <2>1, AuthoredAssumption DEF Acceptable
  <2>3. QED
    BY <1>1, <1>2, <2>2 DEF Acceptable, RequiresBilling, BillingAccepted
<1>3. IsBilling(F)
  BY <1>1, FS_EmptySet DEF BillingFor, IsBilling
<1>4. RechargeSteps(d, F) = existing \o BillingSteps(F)
  <2>1. CASE Creations(d) = {}
    <3>1. F = {} /\ Cardinality(F) = 0 /\ Cardinality(Creations(d)) = 0
      BY <2>1, FS_EmptySet DEF BillingFor
    <3>2. UnbilledSteps(d) = BillingSteps(F)
      <4> DEFINE f == UnbilledSteps(d)
                 g == BillingSteps(F)
      <4>1. 1 .. Cardinality(F) = {} /\ 1 .. Cardinality(Creations(d)) = {}
        BY <3>1
      <4>2. /\ DOMAIN f = {} /\ DOMAIN g = {}
            /\ f = [i \in DOMAIN f |-> f[i]] /\ g = [i \in DOMAIN g |-> g[i]]
        BY <4>1 DEF UnbilledSteps, BillingSteps
      <4> HIDE DEF f, g
      <4>3. f = g
        BY <4>2
      <4>4. QED
        BY <4>3 DEF f, g
    <3>3. QED
      BY <2>1, <3>2 DEF RechargeSteps
  <2>2. CASE Creations(d) # {}
    BY <1>2, <2>2 DEF BillingFor, RechargeSteps
  <2>3. QED
    BY <2>1, <2>2
<1>5. existing \in Seq(Others(F))
  <2> DEFINE k == Keys(ExistingInvoices(d))
  <2>1. ExistingInvoices(d) \in SUBSET d.allocations
    BY DEF ExistingInvoices, Recharges
  <2>2. /\ k \in SUBSET Int /\ "customer_recharge" \in StepTypes /\ {} \in SUBSET F
        /\ TRUE \in BOOLEAN /\ FALSE \in BOOLEAN /\ <<>> \in Sources
    BY <1>1, <2>1, AllocationKeys, NoSource DEF StepTypes
  <2> HIDE DEF k
  <2> DEFINE step == Step("customer_recharge", k, TRUE, FALSE, <<>>, {})
  <2>3. step \in Possible(F) /\ step.writer = FALSE /\ step.scenario = <<>> /\ step.billing = {}
    BY <2>2 DEF Step, Possible
  <2> HIDE DEF step
  <2>4. step \in Others(F)
    BY <2>3 DEF Others, CreatesInvoice
  <2>5. existing = IF ExistingInvoices(d) = {} THEN <<>> ELSE <<step>>
    BY DEF k, step
  <2> HIDE DEF existing
  <2>6. QED
    BY <2>4, <2>5
<1> HIDE DEF existing, F
<1>6. Carries(existing \o BillingSteps(F), F)
  BY <1>3, <1>5, BillingCarries, CarriesThen
<1>7. QED
  BY <1>2, <1>3, <1>4, <1>6 DEF F

\* A quotation has one step per scenario, which carries it.
LEMMA QuotationPlan ==
    ASSUME NEW d \in Drafts, NEW B
    PROVE  /\ QuotationSteps(d) \in Seq(Possible(B))
           /\ Len(QuotationSteps(d)) = Len(d.scenarios)
           /\ \A i \in DOMAIN QuotationSteps(d) : QuotationSteps(d)[i].scenario = <<d.scenarios[i]>>
<1> DEFINE q(i) == Step("create_customer_quotation", {}, TRUE, TRUE, <<d.scenarios[i]>>, {})
<1>1. d.scenarios \in Seq(Scenarios)
  BY AuthoredAssumption
<1>2. ASSUME NEW i \in DOMAIN d.scenarios PROVE q(i) \in Possible(B) /\ q(i).scenario = <<d.scenarios[i]>>
  <2>1. d.scenarios[i] \in Scenarios
    BY <1>1
  <2>2. <<d.scenarios[i]>> \in Sources
    BY <2>1 DEF Sources
  <2>3. "create_customer_quotation" \in StepTypes /\ {} \in SUBSET Int /\ {} \in SUBSET B
    BY DEF StepTypes
  <2>4. QED
    BY <2>2, <2>3 DEF Step, Possible
<1>3. QuotationSteps(d) = [i \in DOMAIN d.scenarios |-> q(i)]
  BY DEF QuotationSteps
<1> HIDE DEF q
<1>4. QED
  BY <1>1, <1>2, <1>3

\* A plan of two parts has a step if one of them has.
LEMMA LongerPlan ==
    ASSUME NEW S, NEW s \in Seq(S), NEW t \in Seq(S), s # <<>> \/ t # <<>>
    PROVE  s \o t # <<>>
<1>1. Len(s) > 0 \/ Len(t) > 0
  OBVIOUS
<1>2. Len(s \o t) = Len(s) + Len(t)
  OBVIOUS
<1>3. QED
  BY <1>1, <1>2

\* ExecutionPlanner: a quotation has one step per scenario, any other decision one per
\* billing instruction among its other steps, and a Vendor Bill is never without a step.
LEMMA AcceptedPlan ==
    ASSUME NEW d, NEW b, Accepted(d, b)
    PROVE  LET B == BillingFor(d, b)
               P == PlannedSteps(d, B) IN
           /\ P \in Seq(Possible(B))
           /\ \A i \in DOMAIN P : P[i].scenario # <<>> =>
                 d.workflow = "customer_quotation" /\ P[i].scenario[1] \in Range(d.scenarios)
           /\ d.workflow # "customer_quotation" => Carries(P, B)
           /\ d.workflow = "vendor_bill" => P # <<>>
<1> DEFINE B == BillingFor(d, b)
           P == PlannedSteps(d, B)
           S(t) == StepsOfType(d, B, t)
           O == Others(B)
<1>1. d \in Drafts
  BY DEF Accepted
<1>2. CASE d.workflow = "customer_quotation"
  <2>1. P = QuotationSteps(d)
    BY <1>2 DEF PlannedSteps
  <2>2. d.scenarios \in Seq(Scenarios)
    BY <1>1, AuthoredAssumption
  <2> HIDE DEF P, B
  <2>3. P \in Seq(Possible(B)) /\ Len(P) = Len(d.scenarios)
    BY <1>1, <2>1, QuotationPlan
  <2>4. \A i \in DOMAIN P : P[i].scenario = <<d.scenarios[i]>>
    BY <1>1, <2>1, QuotationPlan
  <2>5. \A i \in DOMAIN P : P[i].scenario[1] \in Range(d.scenarios)
    <3>1. SUFFICES ASSUME NEW i \in DOMAIN P PROVE P[i].scenario[1] \in Range(d.scenarios)
      OBVIOUS
    <3>2. i \in DOMAIN d.scenarios /\ P[i].scenario[1] = d.scenarios[i]
      BY <2>2, <2>3, <2>4
    <3>3. QED
      BY <3>2 DEF Range
  <2>6. QED
    BY <1>2, <2>3, <2>5 DEF P, B
<1>3. CASE d.workflow # "customer_quotation"
  <2>1. P = S("existing_purchase_order") \o S("new_rfq_purchase") \o S("vendor_bill")
            \o S("sales_order_cost_link") \o S("customer_recharge") \o S("project_cost")
            \o S("operating_expense") \o S("fixed_asset") \o S("subscription_service")
            \o S("internal_cost")
    BY <1>3 DEF PlannedSteps
  <2>2. Carries(S("customer_recharge"), B)
    BY RechargeCarries DEF StepsOfType
  <2>3. /\ \A t \in StepTypes : t # "customer_recharge" => S(t) \in Seq(O)
        /\ d.workflow = "vendor_bill" => S("vendor_bill") # <<>>
    BY <1>1, OtherSteps DEF StepTypes
  <2> DEFINE s1 == S("existing_purchase_order")
             s2 == S("new_rfq_purchase")
             s3 == S("vendor_bill")
             s4 == S("sales_order_cost_link")
             s5 == S("customer_recharge")
             s6 == S("project_cost")
             s7 == S("operating_expense")
             s8 == S("fixed_asset")
             s9 == S("subscription_service")
             s10 == S("internal_cost")
  <2>4. /\ s1 \in Seq(O) /\ s2 \in Seq(O) /\ s3 \in Seq(O) /\ s4 \in Seq(O) /\ s6 \in Seq(O)
        /\ s7 \in Seq(O) /\ s8 \in Seq(O) /\ s9 \in Seq(O) /\ s10 \in Seq(O)
    BY <2>3 DEF StepTypes
  <2>5. P = s1 \o s2 \o s3 \o s4 \o s5 \o s6 \o s7 \o s8 \o s9 \o s10 /\ Carries(s5, B)
        /\ (d.workflow = "vendor_bill" => s3 # <<>>)
    BY <2>1, <2>2, <2>3
  <2> HIDE DEF s1, s2, s3, s4, s5, s6, s7, s8, s9, s10, P, B
  <2> DEFINE p3 == s1 \o s2 \o s3
             p4 == p3 \o s4
             p5 == p4 \o s5
             p6 == p5 \o s6
             p7 == p6 \o s7
             p8 == p7 \o s8
             p9 == p8 \o s9
  <2>6. s1 \o s2 \in Seq(O)
    BY <2>4
  <2>7. p3 \in Seq(O) /\ (d.workflow = "vendor_bill" => p3 # <<>>)
    BY <2>4, <2>5, <2>6, LongerPlan
  <2>8. P = p9 \o s10
    BY <2>5
  <2> HIDE DEF p3, O
  <2>9. p4 \in Seq(O) /\ (d.workflow = "vendor_bill" => p4 # <<>>)
    BY <2>4, <2>7, LongerPlan
  <2> HIDE DEF p4
  <2>10. Carries(p5, B)
    BY <2>5, <2>9, CarriesThen DEF O
  <2> HIDE DEF p5
  <2>11. Carries(p6, B)
    BY <2>4, <2>10, CarriesThen DEF O
  <2> HIDE DEF p6
  <2>12. Carries(p7, B)
    BY <2>4, <2>11, CarriesThen DEF O
  <2> HIDE DEF p7
  <2>13. Carries(p8, B)
    BY <2>4, <2>12, CarriesThen DEF O
  <2> HIDE DEF p8
  <2>14. Carries(p9, B)
    BY <2>4, <2>13, CarriesThen DEF O
  <2> HIDE DEF p9
  <2>15. Carries(P, B)
    BY <2>4, <2>8, <2>14, CarriesThen DEF O
  <2>16. d.workflow = "vendor_bill" => P # <<>>
    <3> SUFFICES ASSUME d.workflow = "vendor_bill" PROVE P # <<>>
      OBVIOUS
    <3> DEFINE X == Possible(B)
    <3>1. /\ p4 \in Seq(X) /\ s5 \in Seq(X) /\ s6 \in Seq(X) /\ s7 \in Seq(X)
          /\ s8 \in Seq(X) /\ s9 \in Seq(X) /\ s10 \in Seq(X)
      <4>1. O \subseteq X
        BY DEF O, Others
      <4>2. s5 \in Seq(X)
        BY <2>5 DEF Carries
      <4> HIDE DEF X
      <4>3. \A q \in Seq(O) : q \in Seq(X)
        BY <4>1
      <4>4. QED
        BY <2>4, <2>9, <4>2, <4>3
    <3>2. /\ p5 \in Seq(X) /\ p6 \in Seq(X) /\ p7 \in Seq(X) /\ p8 \in Seq(X) /\ p9 \in Seq(X)
      BY <2>10, <2>11, <2>12, <2>13, <2>14 DEF Carries
    <3> HIDE DEF X
    <3>3. p5 # <<>>
      BY <2>9, <3>1, LongerPlan DEF p5
    <3>4. p6 # <<>>
      BY <3>1, <3>2, <3>3, LongerPlan DEF p6
    <3>5. p7 # <<>>
      BY <3>1, <3>2, <3>4, LongerPlan DEF p7
    <3>6. p8 # <<>>
      BY <3>1, <3>2, <3>5, LongerPlan DEF p8
    <3>7. p9 # <<>>
      BY <3>1, <3>2, <3>6, LongerPlan DEF p9
    <3>8. QED
      BY <3>1, <3>2, <3>7, <2>8, LongerPlan
  <2>17. \A i \in DOMAIN P : P[i].scenario = <<>>
    <3>1. IsBilling(B)
      BY RechargeCarries DEF B
    <3>2. \A x \in B : Billed(x).scenario = <<>>
      BY <3>1, BilledStep
    <3>3. QED
      BY <2>15, <3>2 DEF Carries, Others
  <2>18. QED
    BY <1>3, <2>15, <2>16, <2>17 DEF Carries, P, B
<1>4. QED
  BY <1>2, <1>3

\* _validate_billing_coverage: a key is in one instruction, for the customer it is recharged to.
LEMMA Coverage ==
    ASSUME NEW d \in Drafts, NEW b, IsBilling(b), CoversExactly(Lines(b), Creations(d))
    PROVE  /\ \A a \in Creations(d) : \E x \in b : a.key \in x.keys
           /\ \A x, y \in b : \A k \in x.keys : k \in y.keys => x = y
           /\ \A x \in b, a \in Creations(d) : a.key \in x.keys => a.partner = x.customer
<1> DEFINE line(x, k) == [id |-> x.billing, key |-> k, customer |-> x.customer]
<1>1. /\ \A x \in b : \A k \in x.keys : line(x, k) \in Lines(b)
      /\ \A l \in Lines(b) : \E x \in b : \E k \in x.keys : l = line(x, k)
  BY DEF Lines
<1>2. \A x, k : line(x, k).id = x.billing /\ line(x, k).key = k /\ line(x, k).customer = x.customer
  OBVIOUS
<1> HIDE DEF line
<1>3. /\ \A l \in Lines(b) : \E a \in Creations(d) : a.key = l.key /\ a.partner = l.customer
      /\ \A l, k \in Lines(b) : l.key = k.key => l = k
      /\ {l.key : l \in Lines(b)} = {a.key : a \in Creations(d)}
  BY DEF CoversExactly, Keys
<1>4. \A a \in Creations(d) : \E x \in b : a.key \in x.keys
  BY <1>1, <1>2, <1>3
<1>5. \A x, y \in b : \A k \in x.keys : k \in y.keys => x = y
  <2>1. SUFFICES ASSUME NEW x \in b, NEW y \in b, NEW k \in x.keys, k \in y.keys PROVE x = y
    OBVIOUS
  <2>2. line(x, k) = line(y, k)
    BY <1>1, <1>2, <1>3, <2>1
  <2>3. x.billing = y.billing
    BY <1>2, <2>2
  <2>4. QED
    BY <2>3 DEF IsBilling
<1>6. \A x \in b, a \in Creations(d) : a.key \in x.keys => a.partner = x.customer
  <2>1. SUFFICES ASSUME NEW x \in b, NEW a \in Creations(d), a.key \in x.keys PROVE a.partner = x.customer
    OBVIOUS
  <2>2. PICK c \in Creations(d) : c.key = a.key /\ c.partner = x.customer
    BY <1>1, <1>2, <1>3, <2>1
  <2>3. c \in d.allocations /\ a \in d.allocations
    BY DEF Creations, Recharges
  <2>4. c = a
    BY <2>2, <2>3, AuthoredAssumption
  <2>5. QED
    BY <2>2, <2>4
<1>7. QED
  BY <1>4, <1>5, <1>6

\* ExecutionPlanner: an accepted Vendor Bill decision is planned, with one step for each creation.
LEMMA AcceptedIsPlannable ==
    ASSUME NEW d, NEW b, Accepted(d, b), d.workflow = "vendor_bill"
    PROVE  LET B == BillingFor(d, b)
               P == PlannedSteps(d, B) IN
           /\ Plannable(d, B)
           /\ \A a \in Creations(d) :
                 Cardinality({i \in DOMAIN P : P[i].type = "customer_recharge"
                                               /\ P[i].writer /\ a.key \in P[i].keys}) = 1
           /\ \A i \in DOMAIN P : \A x \in P[i].billing : \A a \in Creations(d) :
                 a.key \in P[i].keys => a.partner = x.customer
<1> DEFINE B == BillingFor(d, b)
           P == PlannedSteps(d, B)
<1>1. Carries(P, B) /\ P # <<>>
  BY AcceptedPlan
<1>2. d \in Drafts /\ IsBilling(B)
  BY RechargeCarries DEF Accepted
<1>3. Creations(d) # {} => CoversExactly(Lines(B), Creations(d))
  BY RechargeCarries DEF BillingFor
<1>4. Plannable(d, B)
  BY <1>1, <1>3 DEF Plannable
<1> HIDE DEF P, B
<1>5. ASSUME NEW a \in Creations(d)
      PROVE  Cardinality({i \in DOMAIN P : P[i].type = "customer_recharge"
                                           /\ P[i].writer /\ a.key \in P[i].keys}) = 1
  <2> DEFINE places == {i \in DOMAIN P : P[i].type = "customer_recharge"
                                         /\ P[i].writer /\ a.key \in P[i].keys}
  <2>1. CoversExactly(Lines(B), Creations(d))
    BY <1>3, <1>5
  <2>2. PICK x \in B : a.key \in x.keys
    BY <1>2, <1>5, <2>1, Coverage
  <2>3. PICK i \in DOMAIN P : P[i] = Billed(x)
    BY <1>1 DEF Carries
  <2>4. i \in places
    BY <1>2, <2>2, <2>3, BilledStep DEF CreatesInvoice
  <2>5. ASSUME NEW j \in places PROVE j = i
    <3>1. j \in DOMAIN P /\ CreatesInvoice(P[j]) /\ a.key \in P[j].keys
      BY DEF CreatesInvoice
    <3>2. PICK y \in B : P[j] = Billed(y)
      BY <1>1, <3>1 DEF Carries, Others
    <3>3. a.key \in y.keys
      BY <1>2, <3>1, <3>2, BilledStep
    <3>4. x = y
      BY <1>2, <2>1, <2>2, <3>3, Coverage
    <3>5. QED
      BY <1>1, <2>3, <3>1, <3>2, <3>4 DEF Carries
  <2>6. places = {i}
    BY <2>4, <2>5
  <2>7. QED
    BY <2>6, FS_Singleton
<1>6. ASSUME NEW i \in DOMAIN P, NEW x \in P[i].billing, NEW a \in Creations(d), a.key \in P[i].keys
      PROVE  a.partner = x.customer
  <2>1. CoversExactly(Lines(B), Creations(d))
    BY <1>3, <1>6
  <2>2. PICK y \in B : P[i] = Billed(y)
    BY <1>1, <1>6 DEF Carries, Others
  <2>3. x = y /\ a.key \in y.keys
    BY <1>2, <1>6, <2>2, BilledStep
  <2>4. QED
    BY <1>2, <2>1, <2>3, Coverage
<1>7. QED
  BY <1>4, <1>5, <1>6 DEF P, B

-----------------------------------------------------------------------------
(* The inductive invariant. *)

Edits == 0 .. MaxEdits
Evidences == Edits \X Edits
CapturePlaces == {"look", "header", "lines", "persist", "commit"}
WriterPlaces == {"strategy", "create", "created"}
Places == {"none", "runtime"} \union CapturePlaces \union WriterPlaces
InRuntime == {"lookup", "insert", "execute", "start", "step", "complete", "commit"}

\* what a capture may have read of a scenario, and what a document may contain
Partial == {NoEvidence} \union Evidences \union {<<e>> : e \in Edits}
Contents == {NoContent, NoEvidence} \union Evidences

StateTypes ==
    /\ deployment \in Deployments
    /\ source \in [Scenarios -> [content : Edits, selected : BOOLEAN]]
    /\ evidence \in [Scenarios -> {NoEvidence} \union Evidences]
    /\ inserting \in Workers \union {NoWorker}
    /\ at \in [Workers -> Places]
    /\ seen \in [Workers -> SUBSET Scenarios]
    /\ got \in [Workers -> Seq(Partial)]
    /\ docs \in [StepNumbers -> Seq(Contents)]

\* Nothing happens before the decision.
Undecided ==
    /\ authored \in [draft : Drafts, rows : RowSets]
    /\ IsBilling(billing) /\ billing \in Captures
    /\ row = NoRow
    /\ \A w \in Workers : at[w] = "none" /\ pc[w] = "idle"
    /\ \A s \in Scenarios : evidence[s] = NoEvidence
    /\ docs = [n \in StepNumbers |-> <<>>]

\* The decision, its billing and the plan it has for good.
Decided ==
    /\ authored = NoDecision
    /\ Accepted(decision, billing)
    /\ plan = Planned(decision, billing)

AuthorInv == IF decision = NoDecision THEN Undecided ELSE Decided

\* A capture reads the scenarios of a quotation in order, a header and then its lines; the
\* session that inserts has compared all it has with what is committed.
Capturing(w) ==
    LET n == Len(got[w])
        all == Len(decision.scenarios) IN
    /\ at[w] \in CapturePlaces => decision.workflow = "customer_quotation"
    /\ at[w] = "header" => n < all /\ \A i \in 1 .. n : got[w][i] \in Evidences
    /\ at[w] = "lines" => /\ n \in 1 .. all /\ \A i \in 1 .. n - 1 : got[w][i] \in Evidences
                          /\ \E e \in Edits : got[w][n] = <<e>>
    /\ at[w] \in {"persist", "commit"} => n = all /\ \A i \in 1 .. n : got[w][i] \in Evidences
    /\ at[w] = "commit" =>
          \A i \in 1 .. n : evidence[decision.scenarios[i]] \in {NoEvidence, got[w][i]}
    /\ at[w] = "commit" <=> inserting = w

CaptureInv == EvidenceIsWhole /\ \A w \in Workers : Capturing(w)

\* The writing steps that a row counts completed have their document.
Backed(r) ==
    /\ r.plan = Len(ThePlan)
    /\ deployment.mode = "execute" => \A s \in r.completed : ThePlan[s].writer => docs[s] # <<>>

\* A request is where its runtime is, carries the plan of the decision, and runs a quotation
\* only with all its evidence; the writer knows the documents of its step.
Executing(w) ==
    /\ at[w] \in {"none"} \union CapturePlaces <=> pc[w] = "idle"
    /\ at[w] = "runtime" <=> pc[w] \in InRuntime
    /\ at[w] \in WriterPlaces <=> pc[w] = "strategy"
    /\ pc[w] # "idle" => req[w].plan = Len(ThePlan) /\ (IsQuotation => Missing = {})
    /\ snap[w] # NoRow => Backed(snap[w])
    /\ at[w] = "create" => docs[snap[w].current] = <<>>
    /\ at[w] = "created" => docs[snap[w].current] # <<>>
    /\ at[w] \in {"create", "created"} => deployment.mode = "execute"

\* A document is the only one of its step, comes after those before it, and has the evidence.
Documented(n) ==
    /\ Len(docs[n]) <= 1
    /\ docs[n] # <<>> =>
          /\ n \in DOMAIN ThePlan /\ deployment.mode = "execute"
          /\ \A m \in DOMAIN ThePlan : m < n /\ ThePlan[m].writer => docs[m] # <<>>
          /\ ThePlan[n].scenario # <<>> =>
                LET e == evidence[ThePlan[n].scenario[1]] IN e # NoEvidence /\ docs[n][1] = e

ExecuteInv ==
    decision # NoDecision =>
        /\ row # NoRow => Backed(row)
        /\ \A w \in Workers : Executing(w)
        /\ \A n \in StepNumbers : Documented(n)

DecisionInv == StateTypes /\ AuthorInv /\ CaptureInv /\ ExecuteInv

-----------------------------------------------------------------------------
(* The requests drive the runtime only through its operations. *)

\* Every step of a request is an operation of the runtime, or none of its business.
LEMMA DecisionIsRuntimeStep == [DecisionNext]_dxvars => [RuntimeNext]_rtvars
<1> SUFFICES ASSUME [DecisionNext]_dxvars PROVE [RuntimeNext]_rtvars
  OBVIOUS
<1>1. ASSUME \/ EditAuthored \/ CaptureBilling \/ SubmitDecision
             \/ \E s \in Editable : EditScenario(s)
             \/ UNCHANGED dxvars
      PROVE  UNCHANGED rtvars
  BY <1>1 DEF EditAuthored, CaptureBilling, SubmitDecision, EditScenario, dxvars
<1>2. ASSUME NEW w \in Workers, CaptureRequest(w) \/ CaptureStep(w) \/ CaptureFails(w)
      PROVE  UNCHANGED rtvars
  BY <1>2 DEF CaptureRequest, CaptureStep, LookEvidence, LookedUp, ReadHeader, ReadLines,
     PersistScenarios, EvidenceConflict, CommitEvidence, CaptureFails
<1>3. ASSUME NEW w \in Workers, RequestAdmitted(w) \/ ExecutionStep(w) \/ Crash(w)
      PROVE  \/ UNCHANGED rtvars \/ Request(w) \/ BeforeStrategy(w) \/ MarkStepCompleted(w)
             \/ HandleFailure(w) \/ Complete(w) \/ Commit(w) \/ Abort(w)
  BY <1>3 DEF RequestAdmitted, ExecutionStep, RuntimeStep, RuntimeEnds, BeginStep, StrategyMissing,
     NothingToWrite, SearchDocument, DocumentFound, CreateDocument, DocumentCreated, StepFails, Crash,
     BeforeStrategy
<1>4. QED
  BY <1>1, <1>2, <1>3 DEF DecisionNext, RuntimeNext

-----------------------------------------------------------------------------
(* The captures. *)

\* What a step of the capture of w leaves alone.
CaptureMoves(w, p) ==
    /\ at' = [at EXCEPT ![w] = p]
    /\ p \in {"none"} \union CapturePlaces /\ at[w] \in {"none"} \union CapturePlaces
    /\ UNCHANGED <<rtvars, authorvars, source, docs>>
    /\ got' \in [Workers -> Seq(Partial)] /\ seen' \in [Workers -> SUBSET Scenarios]
    /\ inserting' \in Workers \union {NoWorker}
    /\ \A v \in Workers \ {w} : got'[v] = got[v] /\ (inserting' = v <=> inserting = v)

\* Evidence is only added.
EvidenceGrows == \A s \in Scenarios : evidence[s] # NoEvidence => evidence'[s] = evidence[s]

\* Evidence that is added changes nothing for the requests that execute.
LEMMA ExecutesOn ==
    ASSUME DecisionInv, decision # NoDecision, NEW w \in Workers, NEW p, CaptureMoves(w, p),
           EvidenceGrows, evidence' \in [Scenarios -> {NoEvidence} \union Evidences]
    PROVE  ExecuteInv'
<1>1. /\ decision' = decision /\ plan' = plan /\ deployment' = deployment /\ docs' = docs
      /\ row' = row /\ pc' = pc /\ req' = req /\ snap' = snap
  BY DEF CaptureMoves, authorvars, rtvars
<1>2. at \in [Workers -> Places] /\ evidence \in [Scenarios -> {NoEvidence} \union Evidences]
  BY DEF DecisionInv, StateTypes
<1>3. decision \in Drafts /\ Accepted(decision, billing) /\ ThePlan = PlannedSteps(decision, BillingFor(decision, billing))
  BY DEF DecisionInv, AuthorInv, Decided, Accepted, ThePlan, Planned
<1>4. \A s \in Range(decision.scenarios) : s \in Scenarios
  BY <1>3, AuthoredAssumption DEF Range
<1>5. Missing = {} => Missing' = {}
  BY <1>1, <1>4 DEF Missing, EvidenceGrows
<1>6. /\ row # NoRow => Backed(row)
      /\ \A v \in Workers : Executing(v)
      /\ \A n \in StepNumbers : Documented(n)
  BY DEF DecisionInv, ExecuteInv
<1>7. row' # NoRow => Backed(row)'
  BY <1>1, <1>6 DEF Backed, ThePlan
<1>8. ASSUME NEW v \in Workers PROVE Executing(v)'
  <2>1. at'[v] = at[v] \/ (at[v] \in {"none"} \union CapturePlaces /\ at'[v] \in {"none"} \union CapturePlaces)
    BY <1>2 DEF CaptureMoves
  <2>2. snap[v] # NoRow => Backed(snap[v])'
    BY <1>1, <1>6 DEF Executing, Backed, ThePlan
  <2>3. QED
    BY <1>1, <1>5, <1>6, <2>1, <2>2 DEF Executing, ThePlan, IsQuotation, CapturePlaces, WriterPlaces
<1>9. ASSUME NEW n \in StepNumbers PROVE Documented(n)'
  <2>1. Documented(n)
    BY <1>6
  <2>2. n \in DOMAIN ThePlan /\ ThePlan[n].scenario # <<>> => ThePlan[n].scenario[1] \in Scenarios
    BY <1>3, <1>4, AcceptedPlan
  <2>3. QED
    BY <1>1, <2>1, <2>2 DEF Documented, ThePlan, EvidenceGrows
<1>10. QED
  BY <1>1, <1>7, <1>8, <1>9 DEF ExecuteInv

\* A step of a capture that commits no evidence keeps the invariant.
LEMMA CaptureOn ==
    ASSUME DecisionInv, decision # NoDecision, NEW w \in Workers, NEW p, CaptureMoves(w, p),
           evidence' = evidence, Capturing(w)'
    PROVE  DecisionInv'
<1>1. /\ decision' = decision /\ plan' = plan /\ deployment' = deployment /\ docs' = docs
      /\ billing' = billing /\ authored' = authored
      /\ row' = row /\ pc' = pc /\ req' = req /\ snap' = snap /\ source' = source
  BY DEF CaptureMoves, authorvars, rtvars
<1>2. StateTypes'
  BY <1>1 DEF DecisionInv, StateTypes, CaptureMoves, Places
<1>3. AuthorInv'
  BY <1>1 DEF DecisionInv, AuthorInv, Decided
<1>4. EvidenceIsWhole'
  BY <1>1 DEF DecisionInv, CaptureInv, EvidenceIsWhole, Missing
<1>5. ASSUME NEW v \in Workers PROVE Capturing(v)'
  <2>1. CASE v # w
    <3>1. at'[v] = at[v] /\ got'[v] = got[v] /\ (inserting' = v <=> inserting = v)
      BY <2>1 DEF CaptureMoves, DecisionInv, StateTypes
    <3>2. Capturing(v)
      BY DEF DecisionInv, CaptureInv
    <3>3. QED
      BY <1>1, <3>1, <3>2 DEF Capturing
  <2>2. QED
    BY <2>1
<1>6. ExecuteInv'
  BY ExecutesOn DEF EvidenceGrows, DecisionInv, StateTypes
<1>7. QED
  BY <1>2, <1>3, <1>4, <1>5, <1>6 DEF DecisionInv, CaptureInv

\* What is known where a capture is.
LEMMA CaptureFacts ==
    ASSUME DecisionInv, NEW w \in Workers, at[w] \in CapturePlaces
    PROVE  /\ decision # NoDecision /\ decision \in Drafts /\ decision.workflow = "customer_quotation"
           /\ decision.scenarios \in Seq(Scenarios) /\ Len(decision.scenarios) > 0
           /\ Capturing(w) /\ got[w] \in Seq(Partial) /\ at \in [Workers -> Places]
           /\ got \in [Workers -> Seq(Partial)] /\ seen \in [Workers -> SUBSET Scenarios]
<1>1. decision # NoDecision
  BY DEF DecisionInv, AuthorInv, Undecided, CapturePlaces
<1>2. Accepted(decision, billing) /\ Capturing(w)
  BY <1>1 DEF DecisionInv, AuthorInv, Decided, CaptureInv
<1>3. decision \in Drafts /\ Acceptable(decision, billing) /\ decision.workflow = "customer_quotation"
  BY <1>2 DEF Accepted, Capturing
<1>4. decision.scenarios \in Seq(Scenarios) /\ decision.type \in {"select_workflow", "dismiss"}
  BY <1>3, AuthoredAssumption
<1>5. decision.type = "select_workflow"
  BY <1>3, <1>4, DecisionConstants DEF Acceptable, WorkflowType
<1>6. decision.scenarios # <<>>
  BY <1>3, <1>5 DEF Acceptable
<1>7. Len(decision.scenarios) > 0
  BY <1>4, <1>6
<1>8. QED
  BY <1>1, <1>2, <1>3, <1>4, <1>7 DEF DecisionInv, StateTypes

\* A capture that ends, without or with a rollback, leaves nothing behind.
LEMMA CaptureEnds ==
    ASSUME DecisionInv, NEW w \in Workers, at[w] \in CapturePlaces, EndCapture(w),
           UNCHANGED <<rtvars, authorvars, source, evidence, docs>>,
           inserting' = IF inserting = w THEN NoWorker ELSE inserting
    PROVE  DecisionInv'
<1>1. decision # NoDecision /\ at \in [Workers -> Places] /\ got \in [Workers -> Seq(Partial)]
      /\ seen \in [Workers -> SUBSET Scenarios] /\ inserting \in Workers \union {NoWorker}
  BY CaptureFacts DEF DecisionInv, StateTypes
<1>2. at' = [at EXCEPT ![w] = "none"] /\ got' = [got EXCEPT ![w] = <<>>] /\ seen' = [seen EXCEPT ![w] = {}]
  BY DEF EndCapture, Move
<1>3. <<>> \in Seq(Partial) /\ {} \in SUBSET Scenarios
  OBVIOUS
<1>4. inserting' \in Workers \union {NoWorker} /\ inserting' # w
      /\ \A v \in Workers \ {w} : (inserting' = v <=> inserting = v)
  BY <1>1, DistinctAssumption
<1>5. CaptureMoves(w, "none")
  BY <1>1, <1>2, <1>3, <1>4 DEF CaptureMoves
<1>6. at'[w] = "none"
  BY <1>1, <1>2
<1>7. Capturing(w)'
  BY <1>4, <1>6 DEF Capturing, CapturePlaces
<1>8. QED
  BY <1>1, <1>5, <1>7, CaptureOn

\* A capture begins, and looks for evidence that is already persisted.
LEMMA LookSteps ==
    ASSUME DecisionInv, NEW w \in Workers, CaptureRequest(w) \/ LookEvidence(w) \/ LookedUp(w)
    PROVE  DecisionInv'
<1>0. /\ at \in [Workers -> Places] /\ got \in [Workers -> Seq(Partial)]
      /\ seen \in [Workers -> SUBSET Scenarios] /\ inserting \in Workers \union {NoWorker}
  BY DEF DecisionInv, StateTypes
<1>1. CASE CaptureRequest(w)
  <2>1. /\ at[w] = "none" /\ at' = [at EXCEPT ![w] = "look"] /\ decision # NoDecision
        /\ decision.workflow = "customer_quotation"
        /\ UNCHANGED <<rtvars, authorvars, source, evidence, inserting, got, seen, docs>>
    BY <1>1 DEF CaptureRequest, Move, evvars
  <2>2. CaptureMoves(w, "look")
    BY <1>0, <2>1 DEF CaptureMoves, CapturePlaces
  <2>3. Capturing(w)'
    <3>1. inserting # w /\ at'[w] = "look"
      BY <1>0, <2>1 DEF DecisionInv, CaptureInv, Capturing
    <3>2. QED
      BY <2>1, <3>1 DEF Capturing, authorvars
  <2>4. QED
    BY <2>1, <2>2, <2>3, CaptureOn
<1>2. CASE LookEvidence(w)
  <2>1. at[w] = "look" /\ at[w] \in CapturePlaces
    BY <1>2 DEF LookEvidence, CapturePlaces
  <2>2. /\ decision # NoDecision /\ decision.scenarios \in Seq(Scenarios) /\ Capturing(w)
        /\ got[w] \in Seq(Partial)
    BY <2>1, CaptureFacts
  <2> DEFINE s == decision.scenarios[Len(got[w]) + 1]
  <2>3. s \in Scenarios
    BY <1>2, <2>2 DEF LookEvidence
  <2>4. /\ seen' = [seen EXCEPT ![w] = IF evidence[s] = NoEvidence THEN @ ELSE @ \union {s}]
        /\ got' = [got EXCEPT ![w] = Append(@, NoEvidence)]
        /\ UNCHANGED <<rtvars, authorvars, source, evidence, inserting, at, docs>>
    BY <1>2 DEF LookEvidence
  <2> HIDE DEF s
  <2>5. seen' \in [Workers -> SUBSET Scenarios]
    BY <1>0, <2>3, <2>4
  <2>6. got' \in [Workers -> Seq(Partial)] /\ \A v \in Workers \ {w} : got'[v] = got[v]
    <3>1. NoEvidence \in Partial
      BY DEF Partial
    <3>2. Append(got[w], NoEvidence) \in Seq(Partial)
      BY <2>2, <3>1
    <3>3. QED
      BY <1>0, <2>4, <3>2
  <2>7. at' = [at EXCEPT ![w] = "look"]
    BY <1>0, <2>1, <2>4
  <2>8. CaptureMoves(w, "look")
    BY <1>0, <2>1, <2>4, <2>5, <2>6, <2>7 DEF CaptureMoves, CapturePlaces
  <2>9. Capturing(w)'
    BY <2>1, <2>2, <2>4 DEF Capturing, authorvars, CapturePlaces
  <2>10. QED
    BY <2>2, <2>4, <2>8, <2>9, CaptureOn
<1>3. CASE LookedUp(w)
  <2>1. at[w] = "look" /\ at[w] \in CapturePlaces
    BY <1>3 DEF LookedUp, CapturePlaces
  <2>2. /\ decision # NoDecision /\ Len(decision.scenarios) > 0 /\ decision.workflow = "customer_quotation"
        /\ Capturing(w)
    BY <2>1, CaptureFacts
  <2>3. inserting # w
    BY <2>1, <2>2 DEF Capturing
  <2>4. CASE seen[w] # {}
    <3>1. EndCapture(w) /\ UNCHANGED <<rtvars, authorvars, source, evidence, inserting, docs>>
      BY <1>3, <2>4 DEF LookedUp
    <3>2. QED
      BY <2>1, <2>3, <3>1, CaptureEnds
  <2>5. CASE seen[w] = {}
    <3>1. /\ at' = [at EXCEPT ![w] = "header"] /\ got' = [got EXCEPT ![w] = <<>>]
          /\ UNCHANGED <<rtvars, authorvars, source, evidence, inserting, seen, docs>>
      BY <1>3, <2>5 DEF LookedUp, Move
    <3>2. <<>> \in Seq(Partial)
      OBVIOUS
    <3>3. CaptureMoves(w, "header")
      BY <1>0, <2>1, <3>1, <3>2 DEF CaptureMoves, CapturePlaces
    <3>4. at'[w] = "header" /\ got'[w] = <<>> /\ decision' = decision /\ inserting' # w
      BY <1>0, <2>3, <3>1 DEF authorvars
    <3>5. Len(got'[w]) = 0
      BY <3>4
    <3>6. Capturing(w)'
      BY <2>2, <3>4, <3>5 DEF Capturing
    <3>7. QED
      BY <2>2, <3>1, <3>3, <3>6, CaptureOn
  <2>6. QED
    BY <2>4, <2>5
<1>4. QED
  BY <1>1, <1>2, <1>3

\* A scenario is read in two queries, its header and its lines.
LEMMA ReadHeaderInv ==
    ASSUME DecisionInv, NEW w \in Workers, ReadHeader(w)
    PROVE  DecisionInv'
<1> DEFINE s == decision.scenarios[Len(got[w]) + 1]
<1>1. at[w] = "header" /\ at[w] \in CapturePlaces
  BY DEF ReadHeader, CapturePlaces
<1>2. /\ decision # NoDecision /\ decision.scenarios \in Seq(Scenarios) /\ Capturing(w)
      /\ decision.workflow = "customer_quotation"
      /\ got[w] \in Seq(Partial) /\ at \in [Workers -> Places]
      /\ got \in [Workers -> Seq(Partial)] /\ seen \in [Workers -> SUBSET Scenarios]
  BY <1>1, CaptureFacts
<1>3. /\ inserting # w /\ Len(got[w]) \in Nat /\ Len(decision.scenarios) \in Nat
      /\ Len(got[w]) < Len(decision.scenarios)
      /\ \A i \in 1 .. Len(got[w]) : got[w][i] \in Evidences
  BY <1>1, <1>2 DEF Capturing
<1>4. inserting \in Workers \union {NoWorker} /\ source \in [Scenarios -> [content : Edits, selected : BOOLEAN]]
  BY DEF DecisionInv, StateTypes
<1>5. s \in Scenarios
  BY <1>2, <1>3
<1>6. source[s].content \in Edits
  BY <1>4, <1>5
<1>7. CASE source[s].selected
  <2>1. /\ got' = [got EXCEPT ![w] = Append(@, <<source[s].content>>)]
        /\ at' = [at EXCEPT ![w] = "lines"] /\ seen' = seen
        /\ UNCHANGED <<rtvars, authorvars, source, evidence, inserting, docs>>
    BY <1>7 DEF ReadHeader, Move
  <2> DEFINE e == source[s].content
  <2>2. <<e>> \in Partial
    BY <1>6 DEF Partial
  <2> HIDE DEF e, s
  <2>3. /\ Append(got[w], <<e>>) \in Seq(Partial)
        /\ Len(Append(got[w], <<e>>)) = Len(got[w]) + 1
        /\ Append(got[w], <<e>>)[Len(got[w]) + 1] = <<e>>
        /\ \A i \in 1 .. Len(got[w]) : Append(got[w], <<e>>)[i] = got[w][i]
    BY <1>2, <2>2
  <2>4. got' = [got EXCEPT ![w] = Append(got[w], <<e>>)]
    BY <2>1 DEF e
  <2>5. got' \in [Workers -> Seq(Partial)] /\ got'[w] = Append(got[w], <<e>>)
        /\ \A v \in Workers \ {w} : got'[v] = got[v]
    BY <1>2, <2>3, <2>4
  <2>6. CaptureMoves(w, "lines")
    BY <1>1, <1>2, <1>4, <2>1, <2>5 DEF CaptureMoves, CapturePlaces
  <2>7. at'[w] = "lines" /\ inserting' # w /\ decision' = decision
    BY <1>2, <1>3, <2>1 DEF authorvars
  <2>8. /\ Len(got'[w]) = Len(got[w]) + 1 /\ got'[w][Len(got'[w])] = <<e>>
        /\ \A i \in 1 .. Len(got'[w]) - 1 : got'[w][i] \in Evidences
    BY <1>3, <2>3, <2>5
  <2>9. Len(got'[w]) \in 1 .. Len(decision.scenarios) /\ e \in Edits
    BY <1>3, <1>6, <2>8 DEF e
  <2>10. Capturing(w)'
    BY <1>2, <2>7, <2>8, <2>9 DEF Capturing, CapturePlaces
  <2>11. QED
    BY <1>2, <2>1, <2>6, <2>10, CaptureOn
<1>8. CASE ~ source[s].selected
  <2>1. EndCapture(w) /\ UNCHANGED <<rtvars, authorvars, source, evidence, inserting, docs>>
    BY <1>8 DEF ReadHeader
  <2>2. QED
    BY <1>1, <1>3, <2>1, CaptureEnds
<1>9. QED
  BY <1>7, <1>8

\* ... and its lines are the second query.
LEMMA ReadLinesInv ==
    ASSUME DecisionInv, NEW w \in Workers, ReadLines(w)
    PROVE  DecisionInv'
<1> DEFINE n == Len(got[w])
           x == <<got[w][n][1], source[decision.scenarios[n]].content>>
           p == IF n = Len(decision.scenarios) THEN "persist" ELSE "header"
<1>1. at[w] = "lines" /\ at[w] \in CapturePlaces
  BY DEF ReadLines, CapturePlaces
<1>2. /\ decision # NoDecision /\ decision.scenarios \in Seq(Scenarios) /\ Capturing(w)
      /\ decision.workflow = "customer_quotation"
      /\ got[w] \in Seq(Partial) /\ at \in [Workers -> Places]
      /\ got \in [Workers -> Seq(Partial)] /\ seen \in [Workers -> SUBSET Scenarios]
  BY <1>1, CaptureFacts
<1>3. /\ inserting # w /\ n \in 1 .. Len(decision.scenarios) /\ Len(decision.scenarios) \in Nat
      /\ \A i \in 1 .. n - 1 : got[w][i] \in Evidences
      /\ \E e \in Edits : got[w][n] = <<e>>
  BY <1>1, <1>2 DEF Capturing
<1>4. inserting \in Workers \union {NoWorker} /\ source \in [Scenarios -> [content : Edits, selected : BOOLEAN]]
  BY DEF DecisionInv, StateTypes
<1>5. decision.scenarios[n] \in Scenarios
  BY <1>2, <1>3
<1>6. source[decision.scenarios[n]].content \in Edits /\ got[w][n][1] \in Edits
  BY <1>3, <1>4, <1>5
<1>7. x \in Evidences
  BY <1>6 DEF Evidences
<1>8. x \in Partial /\ n \in 1 .. Len(got[w])
  BY <1>2, <1>3, <1>7 DEF Partial
<1>9. /\ got' = [got EXCEPT ![w] = [got[w] EXCEPT ![n] = x]]
      /\ at' = [at EXCEPT ![w] = p]
      /\ UNCHANGED <<rtvars, authorvars, source, evidence, inserting, seen, docs>>
  BY DEF ReadLines, Move
<1>10. p \in {"persist", "header"} /\ p \in CapturePlaces /\ (p = "persist" <=> n = Len(decision.scenarios))
  BY DEF CapturePlaces
<1> HIDE DEF x, p, n
<1>11. /\ [got[w] EXCEPT ![n] = x] \in Seq(Partial) /\ Len([got[w] EXCEPT ![n] = x]) = n
       /\ [got[w] EXCEPT ![n] = x][n] = x
       /\ \A i \in 1 .. n - 1 : [got[w] EXCEPT ![n] = x][i] = got[w][i]
  BY <1>2, <1>8 DEF n
<1>12. /\ got' \in [Workers -> Seq(Partial)] /\ got'[w] = [got[w] EXCEPT ![n] = x]
       /\ \A v \in Workers \ {w} : got'[v] = got[v]
  BY <1>2, <1>9, <1>11
<1>13. CaptureMoves(w, p)
  BY <1>1, <1>2, <1>4, <1>9, <1>10, <1>12 DEF CaptureMoves
<1>14. at'[w] = p /\ inserting' # w /\ decision' = decision
  BY <1>2, <1>3, <1>9 DEF authorvars
<1>15. Len(got'[w]) = n /\ \A i \in 1 .. n : got'[w][i] \in Evidences
  BY <1>3, <1>7, <1>11, <1>12
<1>16. Capturing(w)'
  BY <1>2, <1>3, <1>10, <1>14, <1>15 DEF Capturing
<1>17. QED
  BY <1>2, <1>9, <1>13, <1>16, CaptureOn

\* The session that inserts has found each scenario without evidence, or with what it has.
LEMMA PersistInvariant ==
    ASSUME DecisionInv, NEW w \in Workers,
           PersistScenarios(w) \/ EvidenceConflict(w) \/ CaptureFails(w)
    PROVE  DecisionInv'
<1>0. at[w] \in CapturePlaces
  BY DEF PersistScenarios, EvidenceConflict, CaptureFails, CapturePlaces
<1>1. /\ decision # NoDecision /\ decision.scenarios \in Seq(Scenarios) /\ Capturing(w)
      /\ decision.workflow = "customer_quotation"
      /\ got[w] \in Seq(Partial) /\ at \in [Workers -> Places]
      /\ got \in [Workers -> Seq(Partial)] /\ seen \in [Workers -> SUBSET Scenarios]
  BY <1>0, CaptureFacts
<1>2. CASE EvidenceConflict(w)
  <2>1. inserting = NoWorker /\ EndCapture(w) /\ UNCHANGED <<rtvars, authorvars, source, evidence, inserting, docs>>
    BY <1>2 DEF EvidenceConflict
  <2>2. QED
    BY <1>0, <2>1, CaptureEnds, DistinctAssumption
<1>3. CASE CaptureFails(w)
  <2>1. EndCapture(w) /\ UNCHANGED <<rtvars, authorvars, source, evidence, docs>>
        /\ inserting' = IF inserting = w THEN NoWorker ELSE inserting
    BY <1>3 DEF CaptureFails
  <2>2. QED
    BY <1>0, <2>1, CaptureEnds
<1>4. CASE PersistScenarios(w)
  <2>1. /\ at[w] = "persist" /\ inserting = NoWorker /\ inserting' = w
        /\ \A n \in DOMAIN got[w] : evidence[decision.scenarios[n]] \in {NoEvidence, got[w][n]}
        /\ at' = [at EXCEPT ![w] = "commit"]
        /\ UNCHANGED <<rtvars, authorvars, source, evidence, got, seen, docs>>
    BY <1>4 DEF PersistScenarios, Move
  <2>2. CaptureMoves(w, "commit")
    BY <1>0, <1>1, <2>1, DistinctAssumption DEF CaptureMoves, CapturePlaces
  <2>3. /\ Len(got[w]) = Len(decision.scenarios) /\ \A i \in 1 .. Len(got[w]) : got[w][i] \in Evidences
        /\ DOMAIN got[w] = 1 .. Len(got[w])
    BY <1>1, <2>1 DEF Capturing
  <2>4. at'[w] = "commit" /\ got' = got /\ decision' = decision /\ evidence' = evidence
    BY <1>1, <2>1 DEF authorvars
  <2>5. Capturing(w)'
    BY <1>1, <2>1, <2>3, <2>4 DEF Capturing
  <2>6. QED
    BY <1>1, <2>1, <2>2, <2>5, CaptureOn
<1>5. QED
  BY <1>2, <1>3, <1>4

\* The commit adds the evidence of every scenario of the decision at once, and changes none.
LEMMA CommitEvidenceGrows ==
    ASSUME DecisionInv, NEW w \in Workers, CommitEvidence(w)
    PROVE  /\ EvidenceGrows /\ evidence' \in [Scenarios -> {NoEvidence} \union Evidences]
           /\ \A s \in Range(decision.scenarios) : evidence'[s] # NoEvidence
<1>0. at[w] = "commit" /\ at[w] \in CapturePlaces
  BY DEF CommitEvidence, CapturePlaces
<1>1. /\ decision # NoDecision /\ decision.scenarios \in Seq(Scenarios) /\ Capturing(w)
      /\ got[w] \in Seq(Partial)
  BY <1>0, CaptureFacts
<1>2. /\ Len(got[w]) = Len(decision.scenarios) /\ \A i \in 1 .. Len(got[w]) : got[w][i] \in Evidences
      /\ DOMAIN got[w] = 1 .. Len(got[w]) /\ DOMAIN decision.scenarios = 1 .. Len(got[w])
      /\ \A i \in 1 .. Len(got[w]) : evidence[decision.scenarios[i]] \in {NoEvidence, got[w][i]}
  BY <1>0, <1>1 DEF Capturing
<1>3. evidence \in [Scenarios -> {NoEvidence} \union Evidences]
  BY DEF DecisionInv, StateTypes
<1> DEFINE Held(s) == \E n \in DOMAIN got[w] : decision.scenarios[n] = s
           place(s) == CHOOSE n \in DOMAIN got[w] : decision.scenarios[n] = s
<1>4. evidence' = [s \in Scenarios |-> IF Held(s) THEN got[w][place(s)] ELSE evidence[s]]
  BY DEF CommitEvidence
<1>5. \A s \in Scenarios : Held(s) => place(s) \in DOMAIN got[w] /\ decision.scenarios[place(s)] = s
  OBVIOUS
<1> HIDE DEF place, Held
<1>6. \A s \in Scenarios : Held(s) => got[w][place(s)] \in Evidences
                                      /\ evidence[s] \in {NoEvidence, got[w][place(s)]}
  BY <1>2, <1>5
<1>7. evidence' \in [Scenarios -> {NoEvidence} \union Evidences]
  BY <1>3, <1>4, <1>6
<1>8. EvidenceGrows
  BY <1>4, <1>6 DEF EvidenceGrows
<1>9. NoEvidence \notin Evidences
  BY DecisionConstants DEF Evidences, Edits
<1>10. ASSUME NEW s \in Range(decision.scenarios) PROVE evidence'[s] # NoEvidence
  <2>1. Held(s) /\ s \in Scenarios
    BY <1>1, <1>2 DEF Range, Held
  <2>2. QED
    BY <1>4, <1>6, <1>9, <2>1
<1>11. QED
  BY <1>7, <1>8, <1>10

\* The commit of a capture: the evidence is whole, and nobody else was about to commit.
LEMMA CommitEvidenceInv ==
    ASSUME DecisionInv, NEW w \in Workers, CommitEvidence(w)
    PROVE  DecisionInv'
<1>0. at[w] = "commit" /\ at[w] \in CapturePlaces
  BY DEF CommitEvidence, CapturePlaces
<1>1. /\ decision # NoDecision /\ decision.workflow = "customer_quotation" /\ Capturing(w) /\ at \in [Workers -> Places]
      /\ got \in [Workers -> Seq(Partial)] /\ seen \in [Workers -> SUBSET Scenarios]
  BY <1>0, CaptureFacts
<1>2. /\ EvidenceGrows /\ evidence' \in [Scenarios -> {NoEvidence} \union Evidences]
      /\ \A s \in Range(decision.scenarios) : evidence'[s] # NoEvidence
  BY CommitEvidenceGrows
<1>3. /\ at' = [at EXCEPT ![w] = "none"] /\ got' = [got EXCEPT ![w] = <<>>] /\ seen' = [seen EXCEPT ![w] = {}]
      /\ inserting' = NoWorker /\ UNCHANGED <<rtvars, authorvars, source, docs>>
  BY DEF CommitEvidence, EndCapture, Move
<1>4. inserting = w
  BY <1>0, <1>1 DEF Capturing
<1>5. <<>> \in Seq(Partial) /\ {} \in SUBSET Scenarios
  OBVIOUS
<1>6. CaptureMoves(w, "none")
  BY <1>0, <1>1, <1>3, <1>4, <1>5, DistinctAssumption DEF CaptureMoves
<1>7. ExecuteInv'
  BY <1>1, <1>2, <1>6, ExecutesOn
<1>8. /\ decision' = decision /\ plan' = plan /\ deployment' = deployment /\ docs' = docs
      /\ billing' = billing /\ authored' = authored
      /\ row' = row /\ pc' = pc /\ source' = source
  BY <1>3 DEF authorvars, rtvars
<1>9. StateTypes'
  BY <1>2, <1>6, <1>8 DEF DecisionInv, StateTypes, CaptureMoves, Places
<1>10. AuthorInv'
  BY <1>1, <1>8 DEF DecisionInv, AuthorInv, Decided
<1>11. EvidenceIsWhole'
  <2>1. Missing' = {}
    BY <1>2, <1>8 DEF Missing
  <2>2. QED
    BY <2>1 DEF EvidenceIsWhole
<1>12. ASSUME NEW v \in Workers PROVE Capturing(v)'
  <2>1. CASE v = w
    <3>1. at'[w] = "none" /\ inserting' # w
      BY <1>1, <1>3, DistinctAssumption
    <3>2. QED
      BY <2>1, <3>1 DEF Capturing, CapturePlaces
  <2>2. CASE v # w
    <3>1. at'[v] = at[v] /\ got'[v] = got[v] /\ inserting' # v
      BY <1>1, <1>3, <2>2, DistinctAssumption
    <3>2. Capturing(v) /\ at[v] # "commit"
      BY <1>4, <2>2 DEF DecisionInv, CaptureInv, Capturing
    <3>3. QED
      BY <1>8, <3>1, <3>2 DEF Capturing
  <2>3. QED
    BY <2>1, <2>2
<1>13. QED
  BY <1>7, <1>9, <1>10, <1>11, <1>12 DEF DecisionInv, CaptureInv

-----------------------------------------------------------------------------
(* Authoring and the decision. *)

\* What is authored and captured before the decision is well formed.
LEMMA BeforeDecision ==
    ASSUME DecisionInv, EditAuthored \/ CaptureBilling
    PROVE  DecisionInv'
<1>1. decision = NoDecision /\ Undecided
  BY DEF EditAuthored, CaptureBilling, DecisionInv, AuthorInv
<1>2. authored' \in [draft : Drafts, rows : RowSets] /\ IsBilling(billing') /\ billing' \in Captures
  <2>1. CASE EditAuthored
    BY <1>1, <2>1 DEF EditAuthored, Undecided
  <2>2. CASE CaptureBilling
    <3>1. authored.rows \in RowSets /\ billing' = Instructions(authored.rows) /\ authored' = authored
      BY <1>1, <2>2 DEF CaptureBilling, Undecided
    <3>2. QED
      BY <1>1, <3>1, CapturedBilling DEF Undecided, Captures
  <2>3. QED
    BY <2>1, <2>2
<1>3. UNCHANGED <<rtvars, deployment, decision, source, evvars, at, docs>>
  BY DEF EditAuthored, CaptureBilling
<1>4. /\ decision' = decision /\ deployment' = deployment /\ source' = source /\ evidence' = evidence
      /\ inserting' = inserting /\ got' = got /\ seen' = seen /\ at' = at /\ docs' = docs
      /\ row' = row /\ pc' = pc
  BY <1>3 DEF rtvars, evvars
<1>5. StateTypes'
  BY <1>4 DEF DecisionInv, StateTypes
<1>6. AuthorInv'
  BY <1>1, <1>2, <1>4 DEF AuthorInv, Undecided
<1>7. CaptureInv'
  BY <1>1, <1>4 DEF DecisionInv, CaptureInv, EvidenceIsWhole, Capturing
<1>8. ExecuteInv'
  BY <1>1, <1>4 DEF ExecuteInv
<1>9. QED
  BY <1>5, <1>6, <1>7, <1>8 DEF DecisionInv

\* The decision is accepted with billing for all that it creates, and starts with nothing.
LEMMA SubmitDecisionInv ==
    ASSUME DecisionInv, RuntimeInv, SubmitDecision
    PROVE  DecisionInv'
<1>1. decision = NoDecision /\ Undecided
  BY DEF SubmitDecision, DecisionInv, AuthorInv
<1> DEFINE d == authored.draft
<1>2. d \in Drafts /\ IsBilling(billing) /\ billing \in Captures
  BY <1>1 DEF Undecided
<1>3. /\ Acceptable(d, billing) /\ decision' = d
      /\ billing' = IF RequiresBilling(d) THEN billing ELSE {}
      /\ plan' = Planned(d, billing') /\ authored' = NoDecision
      /\ UNCHANGED <<rtvars, deployment, source, evvars, at, docs>>
  BY DEF SubmitDecision
<1>4. /\ deployment' = deployment /\ source' = source /\ evidence' = evidence
      /\ inserting' = inserting /\ got' = got /\ seen' = seen /\ at' = at /\ docs' = docs
      /\ row' = row /\ pc' = pc /\ snap' = snap
  BY <1>3 DEF rtvars, evvars
<1>5. decision' # NoDecision
  BY <1>2, <1>3, DecisionConstants
<1>6. IsBilling(billing') /\ billing' \in Captures
  <2>1. IsBilling({})
    BY FS_EmptySet DEF IsBilling
  <2>2. QED
    BY <1>2, <1>3, <2>1 DEF Captures
<1>7. Accepted(d, billing')
  BY <1>2, <1>3, <1>6 DEF Accepted, Acceptable
<1>8. AuthorInv'
  BY <1>3, <1>5, <1>7 DEF AuthorInv, Decided
<1>9. StateTypes'
  BY <1>4 DEF DecisionInv, StateTypes
<1>10. CaptureInv'
  <2>1. d.scenarios \in Seq(Scenarios)
    BY <1>2, AuthoredAssumption
  <2>2. Range(d.scenarios) \subseteq Scenarios
    BY <2>1 DEF Range
  <2>3. Missing' = Range(d.scenarios)
    BY <1>1, <1>3, <1>4, <2>2 DEF Missing, Undecided
  <2>4. EvidenceIsWhole'
    BY <1>3, <2>3 DEF EvidenceIsWhole
  <2>5. ASSUME NEW w \in Workers PROVE Capturing(w)'
    <3>1. at'[w] = "none" /\ inserting' # w
      BY <1>1, <1>4 DEF Undecided, DecisionInv, CaptureInv, Capturing
    <3>2. QED
      BY <3>1 DEF Capturing, CapturePlaces
  <2>6. QED
    BY <2>4, <2>5 DEF CaptureInv
<1>11. ExecuteInv'
  <2>1. row' = NoRow
    BY <1>1, <1>4 DEF Undecided
  <2>2. ASSUME NEW w \in Workers PROVE Executing(w)'
    <3>1. at'[w] = "none" /\ pc'[w] = "idle" /\ snap'[w] = NoRow
      BY <1>1, <1>4 DEF Undecided, RuntimeInv, LockInv, InTransaction
    <3>2. QED
      BY <3>1 DEF Executing, CapturePlaces, WriterPlaces, InRuntime
  <2>3. ASSUME NEW n \in StepNumbers PROVE Documented(n)'
    <3>1. docs'[n] = <<>>
      BY <1>1, <1>4 DEF Undecided
    <3>2. Len(docs'[n]) <= 1
      BY <3>1
    <3>3. QED
      BY <3>1, <3>2 DEF Documented
  <2>4. QED
    BY <2>1, <2>2, <2>3 DEF ExecuteInv
<1>12. QED
  BY <1>8, <1>9, <1>10, <1>11 DEF DecisionInv

\* What nobody but the capture reads of Odoo may change at any time; so may a stutter.
LEMMA EditScenarioInv ==
    ASSUME DecisionInv, (\E s \in Editable : EditScenario(s)) \/ UNCHANGED dxvars
    PROVE  DecisionInv'
<1>1. /\ UNCHANGED <<rtvars, authorvars, evvars, at, docs>>
      /\ source' \in [Scenarios -> [content : Edits, selected : BOOLEAN]]
  <2>1. source \in [Scenarios -> [content : Edits, selected : BOOLEAN]]
    BY DEF DecisionInv, StateTypes
  <2>2. ASSUME NEW s \in Editable, EditScenario(s)
        PROVE  source' \in [Scenarios -> [content : Edits, selected : BOOLEAN]]
    <3>1. PICK c \in BOOLEAN : source' = [source EXCEPT ![s] = [content |-> @.content + 1, selected |-> c]]
      BY <2>2 DEF EditScenario
    <3>2. s \in Scenarios /\ source[s].content < MaxEdits /\ source[s].content \in Edits
      BY <2>1, <2>2, DecisionConstants DEF EditScenario
    <3>3. source[s].content + 1 \in Edits
      BY <3>2, DecisionConstants DEF Edits
    <3>4. QED
      BY <2>1, <3>1, <3>2, <3>3
  <2>3. QED
    BY <2>1, <2>2 DEF EditScenario, dxvars
<1>2. /\ decision' = decision /\ deployment' = deployment /\ evidence' = evidence
      /\ inserting' = inserting /\ got' = got /\ seen' = seen /\ at' = at /\ docs' = docs
      /\ row' = row /\ pc' = pc /\ snap' = snap /\ req' = req /\ plan' = plan
      /\ billing' = billing /\ authored' = authored
  BY <1>1 DEF rtvars, evvars, authorvars
<1>3. StateTypes'
  BY <1>1, <1>2 DEF DecisionInv, StateTypes
<1>4. AuthorInv'
  BY <1>2 DEF DecisionInv, AuthorInv, Undecided, Decided
<1>5. CaptureInv'
  BY <1>2 DEF DecisionInv, CaptureInv, EvidenceIsWhole, Missing, Capturing
<1>6. ExecuteInv'
  BY <1>2 DEF DecisionInv, ExecuteInv, Backed, Executing, Documented, ThePlan, Missing, IsQuotation
<1>7. QED
  BY <1>3, <1>4, <1>5, <1>6 DEF DecisionInv

-----------------------------------------------------------------------------
(* The requests that execute. *)

\* What a step of the execution of w leaves alone; documents are only added.
ExecutionMoves(w, p) ==
    /\ at' = [at EXCEPT ![w] = p]
    /\ at[w] \notin CapturePlaces /\ p \in {"none", "runtime"} \union WriterPlaces
    /\ UNCHANGED <<authorvars, source, evvars>>
    /\ RuntimeFrame(w) /\ \A v \in Workers \ {w} : req'[v] = req[v]
    /\ docs' \in [StepNumbers -> Seq(Contents)]
    /\ \A n \in StepNumbers : docs[n] # <<>> => docs'[n] # <<>>

\* A step of w leaves the other requests where they are.
LEMMA ExecutionOn ==
    ASSUME DecisionInv, decision # NoDecision, NEW w \in Workers, NEW p, ExecutionMoves(w, p),
           docs' = docs \/ \A v \in Workers \ {w} : at[v] \notin WriterPlaces,
           \A v \in Workers \ {w} : snap[v] # NoRow => snap[v].completed \subseteq StepNumbers,
           row' # NoRow => Backed(row)', Executing(w)', \A n \in StepNumbers : Documented(n)'
    PROVE  DecisionInv'
<1>1. /\ decision' = decision /\ deployment' = deployment /\ evidence' = evidence
      /\ inserting' = inserting /\ got' = got /\ seen' = seen /\ plan' = plan
      /\ billing' = billing /\ authored' = authored /\ source' = source
  BY DEF ExecutionMoves, evvars, authorvars
<1>2. at \in [Workers -> Places]
  BY DEF DecisionInv, StateTypes
<1>3. StateTypes'
  BY <1>1 DEF DecisionInv, StateTypes, ExecutionMoves, Places
<1>4. AuthorInv'
  BY <1>1 DEF DecisionInv, AuthorInv, Decided
<1>5. ASSUME NEW v \in Workers PROVE Capturing(v)'
  <2>1. at'[v] = at[v] \/ (at[v] \notin CapturePlaces /\ at'[v] \notin CapturePlaces)
    BY <1>2 DEF ExecutionMoves, CapturePlaces, WriterPlaces
  <2>2. Capturing(v)
    BY DEF DecisionInv, CaptureInv
  <2>3. QED
    BY <1>1, <2>1, <2>2 DEF Capturing, CapturePlaces
<1>6. EvidenceIsWhole'
  BY <1>1 DEF DecisionInv, CaptureInv, EvidenceIsWhole, Missing
<1>7. ASSUME NEW v \in Workers PROVE Executing(v)'
  <2>1. CASE v # w
    <3>1. Executing(v) /\ v \in Workers \ {w}
      BY <2>1 DEF DecisionInv, ExecuteInv
    <3>2. at'[v] = at[v] /\ pc'[v] = pc[v] /\ snap'[v] = snap[v] /\ req'[v] = req[v]
      BY <1>2, <3>1 DEF ExecutionMoves, RuntimeFrame
    <3>3. snap'[v] # NoRow => Backed(snap[v])'
      BY <1>1, <3>1, <3>2 DEF Executing, Backed, ThePlan, ExecutionMoves
    <3>4. at[v] \in {"create", "created"} => docs' = docs
      BY <3>1 DEF WriterPlaces
    <3>5. QED
      BY <1>1, <3>1, <3>2, <3>3, <3>4 DEF Executing, ThePlan, Missing, IsQuotation
  <2>2. QED
    BY <2>1
<1>8. ExecuteInv'
  BY <1>7 DEF ExecuteInv
<1>9. QED
  BY <1>3, <1>4, <1>5, <1>6, <1>8 DEF DecisionInv, CaptureInv

\* The steps of every plan have a number.
LEMMA NumberedSteps == ASSUME NEW p \in Plans PROVE p \in Nat /\ Steps(p) = 1 .. p /\ Steps(p) \subseteq StepNumbers
<1> DEFINE last == CHOOSE n \in Plans : \A q \in Plans : q <= n
<1>1. \A q \in Plans : q \in Nat /\ PlanLength[q] = q
  BY DecisionConstants, PlanAssumption
<1>2. last \in Plans /\ \A q \in Plans : q <= last
  BY DecisionConstants
<1>3. StepNumbers = 1 .. last
  BY DEF StepNumbers
<1> HIDE DEF last
<1>4. last \in Nat /\ p \in Nat /\ p <= last
  BY <1>1, <1>2
<1>5. QED
  BY <1>1, <1>3, <1>4 DEF Steps

\* What a request that holds a row knows of it.
LEMMA SnapshotFacts ==
    ASSUME RuntimeInv, NEW w \in Workers, snap[w] # NoRow
    PROVE  /\ \E p \in Plans : snap[w] \in RowsOf(p)
           /\ snap[w].plan \in Plans /\ snap[w].plan \in Nat
           /\ Steps(snap[w].plan) = 1 .. snap[w].plan /\ Steps(snap[w].plan) \subseteq StepNumbers
           /\ snap[w].completed \subseteq StepNumbers
<1>1. PICK p \in Plans : snap[w] \in RowsOf(p)
  BY DEF RuntimeInv, TypeOK, IsRow
<1>2. snap[w].plan = p /\ snap[w].completed \subseteq Steps(p)
  BY <1>1 DEF RowsOf
<1>3. QED
  BY <1>1, <1>2, NumberedSteps

\* The operations of the runtime before and after the steps: the row a request holds is the one
\* it had, the committed one, or a new one of its plan.
LEMMA RuntimeEffect ==
    ASSUME RuntimeInv, NEW w \in Workers,
           \/ LookupMiss(w) \/ LoadExisting(w) \/ InsertExecution(w) \/ ReturnStored(w)
           \/ StartRead(w) \/ Start(w) \/ Complete(w)
    PROVE  /\ pc'[w] \in InRuntime /\ row' = row /\ req' = req
           /\ \/ snap'[w] = NoRow
              \/ /\ snap[w] # NoRow
                 /\ snap'[w].plan = snap[w].plan /\ snap'[w].completed = snap[w].completed
              \/ row # NoRow /\ snap'[w] = row
              \/ snap'[w].plan = req[w].plan /\ snap'[w].completed = {}
<1>0. TypeOK /\ LockInv /\ snap = [v \in Workers |-> snap[v]]
      /\ pc \in [Workers -> Answering \union {"idle"}]
  BY DEF RuntimeInv, TypeOK
<1>1. CASE LookupMiss(w) \/ ReturnStored(w) \/ StartRead(w)
  BY <1>0, <1>1 DEF LookupMiss, ReturnStored, StartRead, Goto, InRuntime
<1>2. CASE LoadExisting(w)
  BY <1>0, <1>2 DEF LoadExisting, Goto, InRuntime
<1>3. CASE InsertExecution(w)
  <2>1. /\ snap'[w] = SnapshotFromPlan(req[w].plan, req[w].policy)
        /\ pc'[w] = "execute" /\ row' = row /\ req' = req
    BY <1>0, <1>3 DEF InsertExecution, Goto
  <2>2. QED
    BY <2>1 DEF SnapshotFromPlan, InRuntime
<1>4. CASE Start(w)
  <2>1. pc[w] \in InTransaction
    BY <1>4 DEF Start, InTransaction
  <2>2. PICK p \in Plans : snap[w] \in RowsOf(p) /\ snap[w].plan = p
    BY <1>0, <2>1, SnapshotOfPlan
  <2> DEFINE x == Started(snap[w])
             n == Len(<<Draft("execution_started", "running", NoStep)>>)
  <2>3. snap'[w] = Written(x, n) /\ pc'[w] = "step"
    BY <1>0, <1>4, PersistSnapshot DEF Start
  <2>4. n \in Nat \ {0}
    OBVIOUS
  <2>5. x \in RowsOf(p) /\ x.completed = snap[w].completed
    BY <2>2, StartedType, StartedCheckpoint
  <2> HIDE DEF x, n
  <2>6. snap'[w].plan = p /\ snap'[w].completed = snap[w].completed
    BY <2>3, <2>4, <2>5, WrittenCheckpoint
  <2>7. QED
    BY <1>0, <1>4, <2>1, <2>2, <2>3, <2>6 DEF Start, InRuntime, LockInv
<1>5. CASE Complete(w)
  <2>1. pc[w] \in InTransaction
    BY <1>5 DEF Complete, InTransaction
  <2>2. PICK p \in Plans : snap[w] \in RowsOf(p) /\ snap[w].plan = p
    BY <1>0, <2>1, SnapshotOfPlan
  <2> DEFINE x == Finished(snap[w])
             n == Len(<<Draft("execution_completed", "completed", NoStep)>>)
  <2>3. snap'[w] = Written(x, n) /\ pc'[w] = "commit"
    <3> DEFINE drafts == <<Draft("execution_completed", "completed", NoStep)>>
    <3>1. PersistTransition(w, x, drafts) /\ Goto(w, "commit")
      BY <1>5 DEF Complete
    <3> HIDE DEF drafts, x
    <3>2. snap'[w] = Written(x, Len(drafts)) /\ pc'[w] = "commit"
      BY <1>0, <3>1, PersistSnapshot
    <3>3. QED
      BY <3>2 DEF drafts
  <2>4. n \in Nat \ {0}
    OBVIOUS
  <2>5. x \in RowsOf(p) /\ x.completed = snap[w].completed
    BY <2>2, FinishedType, FinishedCheckpoint
  <2> HIDE DEF x, n
  <2>6. snap'[w].plan = p /\ snap'[w].completed = snap[w].completed
    BY <2>3, <2>4, <2>5, WrittenCheckpoint
  <2>7. QED
    BY <1>0, <1>5, <2>1, <2>2, <2>3, <2>6 DEF Complete, InRuntime, LockInv
<1>6. QED
  BY <1>1, <1>2, <1>3, <1>4, <1>5

\* A step begins, and fails, with the completed steps of the row; it ends with one more.
LEMMA StepEffect ==
    ASSUME RuntimeInv, NEW w \in Workers, MarkStepRunning(w) \/ HandleFailure(w) \/ MarkStepCompleted(w)
    PROVE  /\ row' = row /\ req' = req /\ snap[w] # NoRow
           /\ snap'[w].plan = snap[w].plan
           /\ MarkStepRunning(w) => pc'[w] = "strategy" /\ snap'[w].completed = snap[w].completed
           /\ HandleFailure(w) => pc'[w] = "commit" /\ snap'[w].completed = snap[w].completed
           /\ MarkStepCompleted(w) => /\ pc'[w] \in {"step", "complete"}
                                      /\ snap'[w].completed = snap[w].completed \union {snap[w].current}
<1>0. TypeOK /\ LockInv /\ PositionInv
  BY DEF RuntimeInv
<1>1. pc[w] \in InTransaction /\ pc[w] \in {"step", "strategy"}
  BY DEF MarkStepRunning, HandleFailure, MarkStepCompleted, InTransaction
<1>2. PICK p \in Plans : snap[w] \in RowsOf(p) /\ snap[w].plan = p
  BY <1>0, <1>1, SnapshotOfPlan
<1>3. snap[w] # NoRow
  BY <1>0, <1>1 DEF LockInv
<1>4. ASSUME NEW x \in RowsOf(p), NEW n \in Nat \ {0}, snap'[w] = Written(x, n)
      PROVE  snap'[w].plan = p /\ snap'[w].completed = x.completed
  BY <1>4, WrittenCheckpoint
<1>5. CASE MarkStepRunning(w)
  <2>1. PICK s \in todo[w] : PersistTransition(w, StepRunning(snap[w], s), <<Draft("step_started", "running", s)>>)
    BY <1>5 DEF MarkStepRunning
  <2> DEFINE x == StepRunning(snap[w], s)
             n == Len(<<Draft("step_started", "running", s)>>)
  <2>2. s \in Steps(p)
    BY <1>0, <1>2, <1>5 DEF MarkStepRunning, PositionInv, LockInv
  <2>3. snap'[w] = Written(x, n) /\ pc'[w] = "strategy"
    BY <1>0, <1>5, <2>1, PersistSnapshot DEF MarkStepRunning
  <2>4. n \in Nat \ {0}
    OBVIOUS
  <2>5. x \in RowsOf(p) /\ x.completed = snap[w].completed
    BY <1>2, <2>2, StepRunningType, StepRunningCheckpoint
  <2> HIDE DEF x, n
  <2>6. snap'[w].plan = p /\ snap'[w].completed = snap[w].completed
    BY <1>4, <2>3, <2>4, <2>5
  <2>7. ~ HandleFailure(w) /\ ~ MarkStepCompleted(w) /\ row' = row /\ req' = req
    BY <1>5 DEF MarkStepRunning, HandleFailure, MarkStepCompleted
  <2>8. QED
    BY <1>2, <1>3, <2>3, <2>6, <2>7
<1>6. CASE HandleFailure(w)
  <2> DEFINE s == snap[w].current
             x == StepLost(snap[w], s)
             n == Len(FailureDrafts(snap[w], s))
  <2>1. s \in Steps(p)
    BY <1>0, <1>2, <1>6 DEF HandleFailure, PositionInv
  <2>2. snap'[w] = Written(x, n) /\ pc'[w] = "commit"
    BY <1>0, <1>6, PersistSnapshot DEF HandleFailure
  <2>3. n \in Nat \ {0}
    BY DEF FailureDrafts
  <2>4. x \in RowsOf(p) /\ x.completed = snap[w].completed
    <3> HIDE DEF s
    <3>1. x \in RowsOf(p)
      BY <1>2, <2>1, StepLostType
    <3>2. x.completed = snap[w].completed
      BY <1>2 DEF StepLost, RowsOf
    <3>3. QED
      BY <3>1, <3>2
  <2> HIDE DEF x, n, s
  <2>5. snap'[w].plan = p /\ snap'[w].completed = snap[w].completed
    BY <1>4, <2>2, <2>3, <2>4
  <2>6. ~ MarkStepRunning(w) /\ row' = row /\ req' = req
    BY <1>6 DEF MarkStepRunning, HandleFailure
  <2>7. ~ MarkStepCompleted(w)
    BY <1>0, <2>2 DEF MarkStepCompleted, Goto, TypeOK
  <2>8. QED
    BY <1>2, <1>3, <2>2, <2>5, <2>6, <2>7
<1>7. CASE MarkStepCompleted(w)
  <2> DEFINE s == snap[w].current
             x == StepDone(snap[w], s)
             n == Len(<<Draft("step_completed", "running", s)>>)
             label == IF todo[w] = {} THEN "complete" ELSE "step"
  <2>1. s \in Steps(p)
    BY <1>0, <1>2, <1>7 DEF MarkStepCompleted, PositionInv
  <2>2. snap'[w] = Written(x, n) /\ pc'[w] = label
    BY <1>0, <1>7, PersistSnapshot DEF MarkStepCompleted
  <2>3. n \in Nat \ {0}
    OBVIOUS
  <2>4. x \in RowsOf(p) /\ x.completed = snap[w].completed \union {s}
    BY <1>2, <2>1, StepDoneType, StepDoneCheckpoint
  <2> HIDE DEF x, n, s
  <2>5. snap'[w].plan = p /\ snap'[w].completed = snap[w].completed \union {s}
    BY <1>4, <2>2, <2>3, <2>4
  <2>6. ~ MarkStepRunning(w) /\ row' = row /\ req' = req
    BY <1>7 DEF MarkStepRunning, MarkStepCompleted
  <2>7. pc'[w] \in {"step", "complete"} /\ ~ HandleFailure(w)
    <3>1. pc'[w] \in {"step", "complete"}
      BY <2>2
    <3>2. QED
      BY <1>0, <3>1 DEF HandleFailure, Goto, TypeOK
  <2>8. QED
    BY <1>2, <1>3, <2>5, <2>6, <2>7 DEF s
<1>8. QED
  BY <1>5, <1>6, <1>7

\* A step that creates no document keeps the invariant if the request of w does.
LEMMA QuietStep ==
    ASSUME DecisionInv, RuntimeInv, decision # NoDecision, NEW w \in Workers, NEW p,
           at' = [at EXCEPT ![w] = p], at[w] \notin CapturePlaces,
           p \in {"none", "runtime"} \union WriterPlaces,
           UNCHANGED <<authorvars, source, evvars, docs>>,
           RuntimeFrame(w), \A v \in Workers \ {w} : req'[v] = req[v],
           row' # NoRow => Backed(row)', Executing(w)'
    PROVE  DecisionInv'
<1>1. docs' = docs /\ plan' = plan /\ deployment' = deployment /\ evidence' = evidence
  BY DEF authorvars, evvars
<1>2. docs \in [StepNumbers -> Seq(Contents)] /\ \A n \in StepNumbers : Documented(n)
  BY DEF DecisionInv, StateTypes, ExecuteInv
<1>3. ExecutionMoves(w, p)
  BY <1>1, <1>2 DEF ExecutionMoves
<1>4. \A n \in StepNumbers : Documented(n)'
  BY <1>1, <1>2 DEF Documented, ThePlan
<1>5. \A v \in Workers \ {w} : snap[v] # NoRow => snap[v].completed \subseteq StepNumbers
  BY SnapshotFacts
<1>6. QED
  BY <1>1, <1>3, <1>4, <1>5, ExecutionOn

\* What is known of a request that executes.
LEMMA ExecutionFacts ==
    ASSUME DecisionInv, NEW w \in Workers, at[w] \in {"runtime"} \union WriterPlaces
    PROVE  /\ decision # NoDecision /\ Accepted(decision, billing) /\ plan = Planned(decision, billing)
           /\ Executing(w) /\ at \in [Workers -> Places] /\ at[w] \notin CapturePlaces
           /\ row # NoRow => Backed(row)
<1>1. decision # NoDecision
  BY DEF DecisionInv, AuthorInv, Undecided, WriterPlaces
<1>2. QED
  BY <1>1 DEF DecisionInv, AuthorInv, Decided, ExecuteInv, StateTypes, CapturePlaces, WriterPlaces

\* A request is admitted with the plan of the decision, a quotation only with all its evidence.
LEMMA RequestAdmittedInv ==
    ASSUME DecisionInv, RuntimeInv, NEW w \in Workers, RequestAdmitted(w)
    PROVE  DecisionInv'
<1>1. /\ at[w] = "none" /\ decision # NoDecision /\ Executable /\ Request(w)
      /\ req'[w].plan = Len(ThePlan) /\ at' = [at EXCEPT ![w] = "runtime"]
      /\ UNCHANGED <<authorvars, source, evvars, docs>>
  BY DEF RequestAdmitted, Move
<1>2. RuntimeFrame(w)
  BY <1>1, RuntimeFrames DEF RuntimeInv
<1>3. /\ pc \in [Workers -> Answering \union {"idle"}] /\ at \in [Workers -> Places]
      /\ req \in [Workers -> [plan : Plans, policy : RetryPolicies]]
  BY DEF RuntimeInv, TypeOK, DecisionInv, StateTypes
<1>4. /\ pc[w] = "idle" /\ pc'[w] = "lookup" /\ at'[w] = "runtime" /\ snap' = snap /\ row' = row
      /\ \A v \in Workers \ {w} : req'[v] = req[v]
  BY <1>1, <1>3 DEF Request, Goto
<1>5. snap[w] = NoRow
  BY <1>4 DEF RuntimeInv, LockInv, InTransaction
<1>6. /\ docs' = docs /\ plan' = plan /\ deployment' = deployment /\ evidence' = evidence
      /\ decision' = decision
  BY <1>1 DEF authorvars, evvars
<1>7. IsQuotation => Missing = {}
  BY <1>1 DEF Executable
<1>8. Executing(w)'
  BY <1>1, <1>4, <1>5, <1>6, <1>7 DEF Executing, ThePlan, Missing, IsQuotation, InRuntime, WriterPlaces, CapturePlaces
<1>9. row' # NoRow => Backed(row)'
  BY <1>1, <1>4, <1>6 DEF DecisionInv, ExecuteInv, Backed, ThePlan
<1>10. at[w] \notin CapturePlaces
  BY <1>1 DEF CapturePlaces
<1>11. QED
  BY <1>1, <1>2, <1>4, <1>8, <1>9, <1>10, QuietStep

\* The operations of the runtime around the steps.
LEMMA RuntimeStepInv ==
    ASSUME DecisionInv, RuntimeInv, NEW w \in Workers, RuntimeStep(w)
    PROVE  DecisionInv'
<1>1. /\ at[w] = "runtime" /\ at' = at /\ UNCHANGED <<authorvars, source, evvars, docs>>
      /\ \/ LookupMiss(w) \/ LoadExisting(w) \/ InsertExecution(w) \/ ReturnStored(w)
         \/ StartRead(w) \/ Start(w) \/ Complete(w)
  BY DEF RuntimeStep
<1>2. /\ decision # NoDecision /\ Executing(w) /\ at \in [Workers -> Places] /\ at[w] \notin CapturePlaces
      /\ row # NoRow => Backed(row)
  BY <1>1, ExecutionFacts
<1>3. RuntimeFrame(w)
  BY <1>1, RuntimeFrames DEF RuntimeInv, BeforeStrategy
<1>4. /\ pc'[w] \in InRuntime /\ row' = row /\ req' = req
      /\ \/ snap'[w] = NoRow
         \/ /\ snap[w] # NoRow
            /\ snap'[w].plan = snap[w].plan /\ snap'[w].completed = snap[w].completed
         \/ row # NoRow /\ snap'[w] = row
         \/ snap'[w].plan = req[w].plan /\ snap'[w].completed = {}
  BY <1>1, RuntimeEffect
<1>5. /\ docs' = docs /\ plan' = plan /\ deployment' = deployment /\ evidence' = evidence
      /\ decision' = decision
  BY <1>1 DEF authorvars, evvars
<1>6. pc[w] # "idle" /\ req[w].plan = Len(ThePlan) /\ (IsQuotation => Missing = {})
  BY <1>1, <1>2 DEF Executing, InRuntime
<1>7. snap'[w] # NoRow => Backed(snap[w])'
  BY <1>2, <1>4, <1>5, <1>6 DEF Executing, Backed, ThePlan
<1>8. Executing(w)'
  BY <1>1, <1>4, <1>5, <1>6, <1>7 DEF Executing, ThePlan, Missing, IsQuotation, InRuntime, WriterPlaces, CapturePlaces
<1>9. row' # NoRow => Backed(row)'
  BY <1>2, <1>4, <1>5 DEF Backed, ThePlan
<1>10. at' = [at EXCEPT ![w] = "runtime"]
  BY <1>1, <1>2
<1>11. QED
  BY <1>1, <1>2, <1>3, <1>4, <1>8, <1>9, <1>10, QuietStep

\* A step of the plan begins, fails or is completed: a writing one only with its document.
LEMMA StepOfPlan ==
    ASSUME DecisionInv, RuntimeInv, NEW w \in Workers, at[w] \in {"runtime"} \union WriterPlaces, NEW p,
           at' = [at EXCEPT ![w] = p], UNCHANGED <<authorvars, source, evvars, docs>>,
           \/ MarkStepRunning(w) /\ p = "strategy"
           \/ HandleFailure(w) /\ p = "runtime"
           \/ /\ MarkStepCompleted(w) /\ p = "runtime"
              /\ deployment.mode = "execute" /\ CurrentStep(w).writer => docs[snap[w].current] # <<>>
    PROVE  DecisionInv'
<1>1. /\ decision # NoDecision /\ Executing(w) /\ at \in [Workers -> Places] /\ at[w] \notin CapturePlaces
      /\ row # NoRow => Backed(row)
  BY ExecutionFacts
<1>2. RuntimeFrame(w)
  BY RuntimeFrames DEF RuntimeInv, BeforeStrategy
<1>3. /\ row' = row /\ req' = req /\ snap[w] # NoRow
      /\ snap'[w].plan = snap[w].plan
      /\ MarkStepRunning(w) => pc'[w] = "strategy" /\ snap'[w].completed = snap[w].completed
      /\ HandleFailure(w) => pc'[w] = "commit" /\ snap'[w].completed = snap[w].completed
      /\ MarkStepCompleted(w) => /\ pc'[w] \in {"step", "complete"}
                                 /\ snap'[w].completed = snap[w].completed \union {snap[w].current}
  BY StepEffect
<1>4. /\ docs' = docs /\ plan' = plan /\ deployment' = deployment /\ evidence' = evidence
      /\ decision' = decision
  BY DEF authorvars, evvars
<1>5. req[w].plan = Len(ThePlan) /\ (IsQuotation => Missing = {}) /\ Backed(snap[w])
  BY <1>1, <1>3 DEF Executing, InRuntime, WriterPlaces
<1>6. Backed(snap[w])'
  BY <1>3, <1>4, <1>5 DEF Backed, ThePlan, CurrentStep
<1>7. /\ at'[w] = p /\ p \in {"strategy", "runtime"}
      /\ p = "strategy" => pc'[w] = "strategy"
      /\ p = "runtime" => pc'[w] \in {"commit", "step", "complete"}
  BY <1>1, <1>3
<1>8. Executing(w)'
  BY <1>3, <1>4, <1>5, <1>6, <1>7 DEF Executing, ThePlan, Missing, IsQuotation, InRuntime, WriterPlaces, CapturePlaces
<1>9. row' # NoRow => Backed(row)'
  BY <1>1, <1>3, <1>4 DEF Backed, ThePlan
<1>10. p \in {"none", "runtime"} \union WriterPlaces
  BY <1>7 DEF WriterPlaces
<1>11. QED
  BY <1>1, <1>2, <1>3, <1>8, <1>9, <1>10, QuietStep

\* The end of a request, with or without its commit.
LEMMA RequestEnds ==
    ASSUME DecisionInv, RuntimeInv, NEW w \in Workers, at[w] \in {"runtime"} \union WriterPlaces,
           at' = [at EXCEPT ![w] = "none"], UNCHANGED <<authorvars, source, evvars, docs>>,
           StaleSnapshot(w) \/ Commit(w) \/ Abort(w)
    PROVE  DecisionInv'
<1>1. /\ decision # NoDecision /\ Executing(w) /\ at \in [Workers -> Places] /\ at[w] \notin CapturePlaces
      /\ row # NoRow => Backed(row)
  BY ExecutionFacts
<1>2. RuntimeFrame(w)
  BY RuntimeFrames DEF RuntimeInv, BeforeStrategy
<1>3. /\ pc \in [Workers -> Answering \union {"idle"}] /\ snap = [v \in Workers |-> snap[v]]
  BY DEF RuntimeInv, TypeOK
<1>4. /\ pc'[w] = "idle" /\ snap'[w] = NoRow /\ req' = req
      /\ row' = row \/ (lock = w /\ row' = snap[w])
  BY <1>3 DEF StaleSnapshot, Commit, Abort, RollBack
<1>5. lock = w => snap[w] # NoRow
  BY DEF RuntimeInv, LockInv
<1>6. /\ docs' = docs /\ plan' = plan /\ deployment' = deployment
  BY DEF authorvars
<1>7. row' # NoRow => Backed(row)'
  BY <1>1, <1>4, <1>5, <1>6 DEF Executing, Backed, ThePlan
<1>8. at'[w] = "none"
  BY <1>1
<1>9. Executing(w)'
  BY <1>4, <1>8 DEF Executing, InRuntime, WriterPlaces, CapturePlaces
<1>10. QED
  BY <1>1, <1>2, <1>4, <1>7, <1>9, QuietStep

\* The writer has searched the documents of its step and found none.
LEMMA SearchDocumentInv ==
    ASSUME DecisionInv, RuntimeInv, NEW w \in Workers, SearchDocument(w)
    PROVE  DecisionInv'
<1>1. /\ at[w] = "strategy" /\ at' = [at EXCEPT ![w] = "create"] /\ deployment.mode = "execute"
      /\ docs[snap[w].current] = <<>> /\ UNCHANGED <<rtvars, authorvars, source, evvars, docs>>
  BY DEF SearchDocument, Move
<1>2. /\ decision # NoDecision /\ Executing(w) /\ at \in [Workers -> Places] /\ at[w] \notin CapturePlaces
      /\ row # NoRow => Backed(row)
  BY <1>1, ExecutionFacts DEF WriterPlaces
<1>3. RuntimeFrame(w)
  BY <1>1, RuntimeFrames DEF RuntimeInv
<1>4. /\ docs' = docs /\ plan' = plan /\ deployment' = deployment /\ evidence' = evidence
      /\ decision' = decision /\ row' = row /\ pc' = pc /\ req' = req /\ snap' = snap
  BY <1>1 DEF authorvars, evvars, rtvars
<1>5. at'[w] = "create" /\ pc[w] = "strategy"
  BY <1>1, <1>2 DEF Executing, WriterPlaces
<1>6. row' # NoRow => Backed(row)'
  BY <1>2, <1>4 DEF Backed, ThePlan
<1>7. snap'[w] # NoRow => Backed(snap[w])'
  BY <1>2, <1>4 DEF Executing, Backed, ThePlan
<1>8. Executing(w)'
  BY <1>1, <1>2, <1>4, <1>5, <1>7 DEF Executing, ThePlan, Missing, IsQuotation, InRuntime, WriterPlaces, CapturePlaces
<1>9. "create" \in {"none", "runtime"} \union WriterPlaces
  BY DEF WriterPlaces
<1>10. QED
  BY <1>1, <1>2, <1>3, <1>4, <1>6, <1>8, <1>9, QuietStep

\* Odoo creates the document: the only one of the step, after those of the completed steps, and
\* with the evidence, of which none is missing.
LEMMA CreateDocumentInv ==
    ASSUME DecisionInv, StoredInv, NEW w \in Workers, CreateDocument(w)
    PROVE  DecisionInv'
<1> DEFINE n == snap[w].current
           c == Content(CurrentStep(w))
<1>1. /\ at[w] = "create" /\ at' = [at EXCEPT ![w] = "created"]
      /\ docs' = [docs EXCEPT ![n] = Append(@, c)]
      /\ UNCHANGED <<rtvars, authorvars, source, evvars>>
  BY DEF CreateDocument, Move
<1>2. /\ decision # NoDecision /\ Executing(w) /\ at \in [Workers -> Places] /\ at[w] \notin CapturePlaces
      /\ row # NoRow => Backed(row)
      /\ Accepted(decision, billing) /\ plan = Planned(decision, billing)
  BY <1>1, ExecutionFacts DEF WriterPlaces
<1>3. RuntimeInv /\ TypeOK /\ LockInv /\ PositionInv /\ CheckpointInv
  BY DEF StoredInv, RuntimeInv
<1>4. RuntimeFrame(w)
  BY <1>1, <1>3, RuntimeFrames
<1>5. /\ plan' = plan /\ deployment' = deployment /\ evidence' = evidence
      /\ decision' = decision /\ row' = row /\ pc' = pc /\ req' = req /\ snap' = snap
  BY <1>1 DEF authorvars, evvars, rtvars
<1>6. pc[w] = "strategy" /\ lock = w /\ snap[w] # NoRow /\ n \in Steps(snap[w].plan)
  BY <1>1, <1>2, <1>3 DEF Executing, WriterPlaces, LockInv, PositionInv, InTransaction
<1>7. /\ Steps(snap[w].plan) = 1 .. snap[w].plan /\ n \in StepNumbers
      /\ snap[w].plan \in Nat
  BY <1>3, <1>6, SnapshotFacts
<1>8. /\ docs[n] = <<>> /\ deployment.mode = "execute" /\ Backed(snap[w])
      /\ (IsQuotation => Missing = {}) /\ req[w].plan = Len(ThePlan)
  BY <1>1, <1>2, <1>6 DEF Executing
<1>9. \A m \in 1 .. snap[w].plan : m < n => m \in snap[w].completed
  <2>1. IsNext(n, Steps(snap[w].plan) \ snap[w].completed)
    BY <1>3, <1>6 DEF CheckpointInv, Advancing
  <2>2. QED
    BY <1>6, <1>7, <2>1 DEF IsNext
<1>10. ThePlan = PlannedSteps(decision, BillingFor(decision, billing))
  BY <1>2 DEF ThePlan, Planned
<1>11. \A i \in DOMAIN ThePlan : ThePlan[i].scenario # <<>> =>
          IsQuotation /\ ThePlan[i].scenario[1] \in Range(decision.scenarios)
  BY <1>2, <1>10, AcceptedPlan DEF IsQuotation
<1>12. ThePlan \in Seq(Possible(BillingFor(decision, billing)))
  BY <1>2, <1>10, AcceptedPlan
<1>13. DOMAIN ThePlan = 1 .. snap[w].plan /\ snap[w].plan = Len(ThePlan)
  BY <1>8, <1>12 DEF Backed
<1>14. evidence \in [Scenarios -> {NoEvidence} \union Evidences] /\ docs \in [StepNumbers -> Seq(Contents)]
  BY DEF DecisionInv, StateTypes
<1>15. Range(decision.scenarios) \subseteq Scenarios
  <2>1. decision.scenarios \in Seq(Scenarios)
    BY <1>2, AuthoredAssumption DEF Accepted
  <2>2. QED
    BY <2>1 DEF Range
<1>16. n \in DOMAIN ThePlan
  BY <1>6, <1>7, <1>13
<1>17. /\ c \in Contents
       /\ ThePlan[n].scenario # <<>> => c = evidence[ThePlan[n].scenario[1]] /\ c # NoEvidence
  <2>1. CurrentStep(w) = ThePlan[n]
    BY DEF CurrentStep
  <2>2. CASE ThePlan[n].scenario = <<>>
    BY <2>1, <2>2 DEF Content, Contents
  <2>3. CASE ThePlan[n].scenario # <<>>
    <3>1. IsQuotation /\ ThePlan[n].scenario[1] \in Range(decision.scenarios)
      BY <1>11, <1>16, <2>3
    <3>2. c = evidence[ThePlan[n].scenario[1]]
      BY <2>1, <2>3 DEF Content
    <3>3. c # NoEvidence
      BY <1>8, <3>1, <3>2 DEF Missing
    <3>4. c \in Contents
      BY <1>14, <1>15, <3>1, <3>2 DEF Contents
    <3>5. QED
      BY <3>2, <3>3, <3>4
  <2>4. QED
    BY <2>2, <2>3
<1> HIDE DEF n, c
<1>18. /\ Append(<<>>, c) \in Seq(Contents) /\ Len(Append(<<>>, c)) = 1
       /\ Append(<<>>, c) # <<>> /\ Append(<<>>, c)[1] = c
  BY <1>17
<1>19. /\ docs' \in [StepNumbers -> Seq(Contents)] /\ docs'[n] = Append(<<>>, c)
       /\ \A m \in StepNumbers \ {n} : docs'[m] = docs[m]
  BY <1>1, <1>7, <1>8, <1>14, <1>18
<1>20. \A m \in StepNumbers : docs[m] # <<>> => docs'[m] # <<>>
  BY <1>18, <1>19
<1>21. ExecutionMoves(w, "created")
  BY <1>1, <1>2, <1>4, <1>5, <1>19, <1>20 DEF ExecutionMoves, WriterPlaces
<1>22. ASSUME NEW v \in Workers \ {w} PROVE at[v] \notin WriterPlaces
  <2>1. lock # v /\ Executing(v)
    BY <1>2, <1>6 DEF DecisionInv, ExecuteInv
  <2>2. QED
    BY <1>3, <2>1 DEF Executing, LockInv
<1>23. \A v \in Workers : snap[v] # NoRow => snap[v].completed \subseteq StepNumbers
  BY <1>3, SnapshotFacts
<1>24. row' # NoRow => Backed(row)'
  <2>1. row # NoRow => row.completed \subseteq StepNumbers
    <3>1. ASSUME row # NoRow PROVE row.completed \subseteq StepNumbers
      <4>1. PICK p \in Plans : row \in RowsOf(p)
        BY <1>3, <3>1 DEF TypeOK, IsRow
      <4>2. row.completed \subseteq Steps(p)
        BY <4>1 DEF RowsOf
      <4>3. QED
        BY <4>2, NumberedSteps
    <3>2. QED
      BY <3>1
  <2>2. QED
    BY <1>2, <1>5, <1>20, <2>1 DEF Backed, ThePlan
<1>25. Executing(w)'
  <2>1. Backed(snap[w])'
    BY <1>5, <1>6, <1>8, <1>20, <1>23 DEF Backed, ThePlan
  <2>2. at'[w] = "created" /\ docs'[snap[w].current] # <<>>
    BY <1>1, <1>2, <1>18, <1>19 DEF n
  <2>3. QED
    BY <1>5, <1>6, <1>8, <2>1, <2>2
       DEF Executing, ThePlan, Missing, IsQuotation, InRuntime, WriterPlaces, CapturePlaces
<1>26. ASSUME NEW m \in StepNumbers PROVE Documented(m)'
  <2>1. CASE m = n
    <3>1. Len(docs'[m]) <= 1
      <4>1. docs'[m] = Append(<<>>, c)
        BY <1>19, <2>1
      <4>2. Len(docs'[m]) = 1
        BY <1>18, <4>1
      <4>3. QED
        BY <4>2
    <3>2. \A k \in DOMAIN ThePlan : k < m /\ ThePlan[k].writer => docs'[k] # <<>>
      <4> SUFFICES ASSUME NEW k \in DOMAIN ThePlan, k < m, ThePlan[k].writer PROVE docs'[k] # <<>>
        OBVIOUS
      <4>1. k \in snap[w].completed
        BY <1>9, <1>13, <2>1
      <4>2. docs[k] # <<>> /\ k \in StepNumbers
        BY <1>6, <1>8, <1>23, <4>1 DEF Backed
      <4>3. QED
        BY <1>20, <4>2
    <3>3. ThePlan[m].scenario # <<>> =>
             evidence[ThePlan[m].scenario[1]] # NoEvidence /\ docs'[m][1] = evidence[ThePlan[m].scenario[1]]
      BY <1>17, <1>18, <1>19, <2>1
    <3>4. QED
      BY <1>5, <1>8, <1>16, <2>1, <3>1, <3>2, <3>3 DEF Documented, ThePlan
  <2>2. CASE m # n
    <3>1. docs'[m] = docs[m] /\ Documented(m)
      BY <1>2, <1>19, <2>2 DEF DecisionInv, ExecuteInv
    <3>2. \A k \in DOMAIN ThePlan : k \in StepNumbers
      BY <1>3, <1>6, <1>7, <1>13, SnapshotFacts
    <3>3. QED
      BY <1>5, <1>20, <3>1, <3>2 DEF Documented, ThePlan
  <2>3. QED
    BY <2>1, <2>2
<1>27. QED
  BY <1>2, <1>21, <1>22, <1>23, <1>24, <1>25, <1>26, ExecutionOn

\* Every step of a request that executes keeps the invariant.
LEMMA ExecutionStepInv ==
    ASSUME DecisionInv, StoredInv, NEW w \in Workers, ExecutionStep(w) \/ Crash(w)
    PROVE  DecisionInv'
<1>0. RuntimeInv
  BY DEF StoredInv
<1>1. CASE RuntimeStep(w)
  BY <1>0, <1>1, RuntimeStepInv
<1>2. CASE RuntimeEnds(w) \/ StrategyMissing(w) \/ Crash(w)
  <2>1. /\ at[w] \in {"runtime"} \union WriterPlaces /\ at' = [at EXCEPT ![w] = "none"]
        /\ UNCHANGED <<authorvars, source, evvars, docs>> /\ (StaleSnapshot(w) \/ Commit(w) \/ Abort(w))
    BY <1>2 DEF RuntimeEnds, StrategyMissing, Crash, Move, WriterPlaces
  <2>2. QED
    BY <1>0, <2>1, RequestEnds
<1>3. CASE BeginStep(w)
  <2>1. /\ at[w] \in {"runtime"} \union WriterPlaces /\ at' = [at EXCEPT ![w] = "strategy"]
        /\ UNCHANGED <<authorvars, source, evvars, docs>> /\ MarkStepRunning(w)
    BY <1>3 DEF BeginStep, Move
  <2>2. QED
    BY <1>0, <2>1, StepOfPlan
<1>4. CASE StepFails(w)
  <2>1. /\ at[w] \in {"runtime"} \union WriterPlaces /\ at' = [at EXCEPT ![w] = "runtime"]
        /\ UNCHANGED <<authorvars, source, evvars, docs>> /\ HandleFailure(w)
    BY <1>4 DEF StepFails, Move, WriterPlaces
  <2>2. QED
    BY <1>0, <2>1, StepOfPlan
<1>5. CASE NothingToWrite(w) \/ DocumentFound(w) \/ DocumentCreated(w)
  <2>1. /\ at[w] \in WriterPlaces /\ at' = [at EXCEPT ![w] = "runtime"]
        /\ UNCHANGED <<authorvars, source, evvars, docs>> /\ MarkStepCompleted(w)
    BY <1>5 DEF NothingToWrite, DocumentFound, DocumentCreated, Move, WriterPlaces
  <2>2. deployment.mode = "execute" /\ CurrentStep(w).writer => docs[snap[w].current] # <<>>
    <3>1. CASE NothingToWrite(w)
      BY <3>1 DEF NothingToWrite, StopsBeforeWriter
    <3>2. CASE DocumentFound(w)
      <4>1. Len(docs[snap[w].current]) = 1
        BY <3>2 DEF DocumentFound
      <4>2. QED
        BY <4>1
    <3>3. CASE DocumentCreated(w)
      BY <2>1, <3>3, ExecutionFacts DEF DocumentCreated, Executing
    <3>4. QED
      BY <1>5, <3>1, <3>2, <3>3
  <2>3. QED
    BY <1>0, <2>1, <2>2, StepOfPlan
<1>6. CASE SearchDocument(w)
  BY <1>0, <1>6, SearchDocumentInv
<1>7. CASE CreateDocument(w)
  BY <1>7, CreateDocumentInv
<1>8. QED
  BY <1>1, <1>2, <1>3, <1>4, <1>5, <1>6, <1>7 DEF ExecutionStep

-----------------------------------------------------------------------------
(* The theorems. *)

\* Initially nothing is decided.
LEMMA DecisionInitInv == DecisionInit => DecisionInv
<1> SUFFICES ASSUME DecisionInit PROVE DecisionInv
  OBVIOUS
<1>1. /\ row = NoRow /\ pc = [w \in Workers |-> "idle"]
      /\ deployment \in Deployments /\ authored \in [draft : Drafts, rows : RowSets]
      /\ billing = {} /\ decision = NoDecision
      /\ source = [s \in Scenarios |-> [content |-> 0, selected |-> TRUE]]
      /\ evidence = [s \in Scenarios |-> NoEvidence] /\ inserting = NoWorker
      /\ at = [w \in Workers |-> "none"] /\ got = [w \in Workers |-> <<>>]
      /\ seen = [w \in Workers |-> {}] /\ docs = [n \in StepNumbers |-> <<>>]
  BY DEF DecisionInit, RuntimeInit
<1>2. 0 \in Edits /\ "none" \in Places
  BY DecisionConstants DEF Edits, Places
<1>3. StateTypes
  <2>1. [content |-> 0, selected |-> TRUE] \in [content : Edits, selected : BOOLEAN]
    BY <1>2
  <2>2. source \in [Scenarios -> [content : Edits, selected : BOOLEAN]]
    BY <1>1, <2>1
  <2>3. <<>> \in Seq(Partial) /\ <<>> \in Seq(Contents)
    OBVIOUS
  <2>4. QED
    BY <1>1, <1>2, <2>2, <2>3 DEF StateTypes
<1>4. AuthorInv
  <2>1. IsBilling({})
    BY FS_EmptySet DEF IsBilling
  <2>2. QED
    BY <1>1, <2>1 DEF AuthorInv, Undecided, Captures
<1>5. CaptureInv
  <2>1. ASSUME NEW w \in Workers PROVE Capturing(w)
    <3>1. at[w] = "none" /\ inserting # w
      BY <1>1, DistinctAssumption
    <3>2. QED
      BY <3>1 DEF Capturing, CapturePlaces
  <2>2. QED
    BY <1>1, <2>1 DEF CaptureInv, EvidenceIsWhole
<1>6. QED
  BY <1>1, <1>3, <1>4, <1>5 DEF DecisionInv, ExecuteInv

\* Every step of the system keeps the invariant.
LEMMA DecisionNextInv == DecisionInv /\ StoredInv /\ [DecisionNext]_dxvars => DecisionInv'
<1> SUFFICES ASSUME DecisionInv, StoredInv, [DecisionNext]_dxvars PROVE DecisionInv'
  OBVIOUS
<1>0. RuntimeInv
  BY DEF StoredInv
<1>1. CASE EditAuthored \/ CaptureBilling
  BY <1>1, BeforeDecision
<1>2. CASE SubmitDecision
  BY <1>0, <1>2, SubmitDecisionInv
<1>3. CASE (\E s \in Editable : EditScenario(s)) \/ UNCHANGED dxvars
  BY <1>3, EditScenarioInv
<1>4. ASSUME NEW w \in Workers, CaptureRequest(w) \/ CaptureStep(w) \/ CaptureFails(w)
      PROVE  DecisionInv'
  BY <1>4, LookSteps, ReadHeaderInv, ReadLinesInv, PersistInvariant, CommitEvidenceInv DEF CaptureStep
<1>5. ASSUME NEW w \in Workers, RequestAdmitted(w) \/ ExecutionStep(w) \/ Crash(w)
      PROVE  DecisionInv'
  BY <1>0, <1>5, RequestAdmittedInv, ExecutionStepInv
<1>6. QED
  BY <1>1, <1>2, <1>3, <1>4, <1>5 DEF DecisionNext

\* The invariants of the requests and of the runtime they drive hold throughout, from the
\* authored draft to the committed execution (DecisionExecution and ExecutionRuntime).
THEOREM DecisionInvariance == DecisionSpec => [](DecisionInv /\ StoredInv)
<1>1. DecisionInit => RuntimeInit
  BY DEF DecisionInit
<1>2. DecisionInit /\ [][DecisionNext]_dxvars => RuntimeSpec
  BY <1>1, DecisionIsRuntimeStep, PTL DEF RuntimeSpec
<1>3. DecisionInit /\ [][DecisionNext]_dxvars => []StoredInv
  BY <1>2, StoredInvariance, PTL
<1>4. DecisionInit /\ [][DecisionNext]_dxvars => []DecisionInv
  BY <1>3, DecisionInitInv, DecisionNextInv, PTL
<1>5. QED
  BY <1>3, <1>4, PTL DEF DecisionSpec

\* DecisionTypeOK, the first of the parts of ExecutedIsTheDecision.
LEMMA DecisionInvIsTyped == DecisionInv => DecisionTypeOK
<1> SUFFICES ASSUME DecisionInv PROVE DecisionTypeOK
  OBVIOUS
<1>1. StateTypes
  BY DEF DecisionInv
<1>2. /\ authored \in [draft : Drafts, rows : RowSets] \union {NoDecision}
      /\ decision \in Drafts \union {NoDecision}
      /\ IsBilling(billing)
  BY DEF DecisionInv, AuthorInv, Undecided, Decided, Accepted
<1>3. \A i \in billing : DOMAIN i = {"billing", "customer", "keys"}
  BY <1>2 DEF IsBilling
<1>4. at \in [Workers -> {"none", "look", "header", "lines", "persist", "commit", "runtime",
                          "strategy", "create", "created"}]
  BY <1>1 DEF StateTypes, Places, CapturePlaces, WriterPlaces
<1>5. QED
  BY <1>1, <1>2, <1>3, <1>4 DEF DecisionTypeOK, StateTypes, Edits, Evidences

\* AcceptedBillingIsPlannable, by what the planner makes of an accepted decision.
LEMMA DecisionInvIsPlannable == DecisionInv => AcceptedBillingIsPlannable
<1> SUFFICES ASSUME DecisionInv, decision # NoDecision, decision.workflow = "vendor_bill"
             PROVE  AcceptedBillingIsPlannable
  BY DEF AcceptedBillingIsPlannable
<1>1. Accepted(decision, billing) /\ plan = Planned(decision, billing)
  BY DEF DecisionInv, AuthorInv, Decided
<1>2. /\ ThePlan = PlannedSteps(decision, BillingFor(decision, billing))
      /\ plan.plannable = Plannable(decision, BillingFor(decision, billing))
  BY <1>1 DEF ThePlan, Planned
<1>3. QED
  BY <1>1, <1>2, AcceptedIsPlannable DEF AcceptedBillingIsPlannable

\* The steps of the accepted plan are numbered 1, 2, 3, ...
LEMMA AcceptedIsNumbered ==
    ASSUME DecisionInv, decision # NoDecision
    PROVE  DOMAIN ThePlan = 1 .. Len(ThePlan) /\ Len(ThePlan) \in Nat /\ DOMAIN ThePlan \subseteq StepNumbers
<1>1. Accepted(decision, billing) /\ ThePlan = PlannedSteps(decision, BillingFor(decision, billing))
  BY DEF DecisionInv, AuthorInv, Decided, ThePlan, Planned
<1>2. ThePlan \in Seq(Possible(BillingFor(decision, billing)))
  BY <1>1, AcceptedPlan
<1>3. Len(ThePlan) \in Plans \union {0}
  BY <1>1, PlansAssumption DEF Accepted
<1>4. Len(ThePlan) \in Plans => 1 .. Len(ThePlan) \subseteq StepNumbers
  BY NumberedSteps
<1>5. DOMAIN ThePlan = 1 .. Len(ThePlan) /\ Len(ThePlan) \in Nat
  BY <1>2
<1> HIDE DEF ThePlan
<1>6. QED
  BY <1>3, <1>4, <1>5

\* What the invariant says of the documents.
LEMMA DecisionInvIsDocumented ==
    DecisionInv => OrderIsTheEvidence /\ OneDocumentPerStep /\ DocumentsFollowPlan
<1> SUFFICES ASSUME DecisionInv PROVE OrderIsTheEvidence /\ OneDocumentPerStep /\ DocumentsFollowPlan
  OBVIOUS
<1>0. docs \in [StepNumbers -> Seq(Contents)]
  BY DEF DecisionInv, StateTypes
<1>1. CASE decision = NoDecision
  <2>1. \A n \in StepNumbers : docs[n] = <<>>
    BY <1>1 DEF DecisionInv, AuthorInv, Undecided
  <2>2. OneDocumentPerStep
    <3> SUFFICES ASSUME NEW n \in StepNumbers PROVE Len(docs[n]) <= 1
      BY DEF OneDocumentPerStep
    <3>1. docs[n] = <<>>
      BY <2>1
    <3>2. QED
      BY <3>1
  <2>3. QED
    BY <1>1, <2>2 DEF OrderIsTheEvidence, DocumentsFollowPlan
<1>2. CASE decision # NoDecision
  <2>1. \A n \in StepNumbers : Documented(n)
    BY <1>2 DEF DecisionInv, ExecuteInv
  <2>2. OneDocumentPerStep
    BY <2>1 DEF OneDocumentPerStep, Documented
  <2>3. OrderIsTheEvidence
    <3> SUFFICES ASSUME NEW n \in StepNumbers, NEW k \in DOMAIN docs[n], ThePlan[n].scenario # <<>>
                 PROVE  docs[n][k] = evidence[ThePlan[n].scenario[1]]
      BY DEF OrderIsTheEvidence
    <3>1. docs[n] \in Seq(Contents) /\ Len(docs[n]) <= 1
      BY <1>0, <2>1 DEF Documented
    <3>2. k = 1 /\ docs[n] # <<>>
      BY <3>1
    <3>3. QED
      BY <2>1, <3>2 DEF Documented
  <2>4. DocumentsFollowPlan
    <3> SUFFICES ASSUME NEW n \in DOMAIN ThePlan, NEW m \in DOMAIN ThePlan, m < n, docs[n] # <<>>,
                        ThePlan[m].writer
                 PROVE  docs[m] # <<>>
      BY DEF DocumentsFollowPlan
    <3>1. n \in StepNumbers
      BY <1>2, AcceptedIsNumbered
    <3>2. QED
      BY <2>1, <3>1 DEF Documented
  <2>5. QED
    BY <2>2, <2>3, <2>4
<1>3. QED
  BY <1>1, <1>2

\* CompletedHasEveryDocument: a completed row counts every step, and backs it with its document.
LEMMA DecisionInvIsCompleted == DecisionInv /\ StoredInv => CompletedHasEveryDocument
<1> SUFFICES ASSUME DecisionInv, StoredInv, decision # NoDecision PROVE CompletedHasEveryDocument
  BY DEF CompletedHasEveryDocument
<1>1. /\ row # NoRow => Backed(row)
      /\ \A n \in StepNumbers : Documented(n)
  BY DEF DecisionInv, ExecuteInv
<1>2. ASSUME deployment.mode = "execute", NEW n \in DOMAIN ThePlan, ThePlan[n].writer, docs[n] = <<>>
      PROVE  /\ row # NoRow => row.state # "completed"
             /\ \A w \in Workers : reply[w] # "executed"
  <2>1. ASSUME row # NoRow, row.state = "completed" PROVE FALSE
    <3>1. row.completed = Steps(row.plan)
      BY <2>1 DEF StoredInv, CheckpointInv, Resumable
    <3>2. row.plan = Len(ThePlan) /\ \A s \in row.completed : ThePlan[s].writer => docs[s] # <<>>
      BY <1>1, <1>2, <2>1 DEF Backed
    <3>3. row.plan \in Plans
      BY <2>1 DEF StoredInv, RuntimeInv, TypeOK, IsRow, RowsOf
    <3>4. n \in Steps(row.plan)
      BY <3>2, <3>3, AcceptedIsNumbered, NumberedSteps
    <3>5. QED
      BY <1>2, <3>1, <3>2, <3>4
  <2>2. \A w \in Workers : reply[w] = "executed" => row # NoRow /\ row.state = "completed"
    BY DEF StoredInv, RuntimeInv, AnswerIsDurable
  <2>3. QED
    BY <2>1, <2>2
<1>3. ASSUME deployment.mode = "dry_run", NEW n \in StepNumbers PROVE docs[n] = <<>>
  BY <1>1, <1>3 DEF Documented
<1>4. QED
  BY <1>2, <1>3 DEF CompletedHasEveryDocument

\* What is executed is what was accepted (RunAcceptedDecisionExecutionUseCase over the planner,
\* the evidence repository and the runtime): for any number of requests, any drafts, billing
\* rows, scenarios and edits, and whatever crashes, the plan is that of the decision, the
\* evidence of its scenarios is whole, and its documents have that evidence, are one per step,
\* in plan order, and all there once the execution is completed.
THEOREM ExecutionIsTheDecision == DecisionSpec => []ExecutedIsTheDecision
<1>1. DecisionInv /\ StoredInv => ExecutedIsTheDecision
  BY DecisionInvIsTyped, DecisionInvIsPlannable, DecisionInvIsDocumented, DecisionInvIsCompleted
     DEF ExecutedIsTheDecision, DecisionInv, CaptureInv
<1>2. QED
  BY <1>1, DecisionInvariance, PTL

\* persist of the evidence repository: a capture that races with others, or with a retry of
\* itself, never changes evidence that is committed.
THEOREM CommittedEvidenceIsFinal == DecisionSpec => EvidenceIsFinal
<1>1. DecisionInv /\ [DecisionNext]_dxvars => [EvidenceGrows]_dxvars
  <2> SUFFICES ASSUME DecisionInv, DecisionNext PROVE EvidenceGrows
    OBVIOUS
  <2>1. CASE \E w \in Workers : CommitEvidence(w)
    BY <2>1, CommitEvidenceGrows
  <2>2. CASE ~ \E w \in Workers : CommitEvidence(w)
    <3>1. evidence' = evidence
      BY <2>2 DEF DecisionNext, EditAuthored, CaptureBilling, SubmitDecision, EditScenario,
         CaptureRequest, CaptureStep, LookEvidence, LookedUp, ReadHeader, ReadLines, PersistScenarios,
         EvidenceConflict, CaptureFails, RequestAdmitted, ExecutionStep, RuntimeStep, RuntimeEnds,
         BeginStep, StrategyMissing, NothingToWrite, SearchDocument, DocumentFound, CreateDocument,
         DocumentCreated, StepFails, Crash, evvars
    <3>2. QED
      BY <3>1 DEF EvidenceGrows
  <2>3. QED
    BY <2>1, <2>2
<1>2. DecisionSpec => [][EvidenceGrows]_dxvars
  BY <1>1, DecisionInvariance, PTL DEF DecisionSpec
<1>3. QED
  BY <1>2 DEF EvidenceIsFinal, EvidenceGrows

=============================================================================

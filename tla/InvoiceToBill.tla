----------------------------- MODULE InvoiceToBill -----------------------------
(* One review from its classification to the draft bill in Odoo and the      *)
(* comparison of that draft, while the master data of Odoo changes between   *)
(* any two steps and a person may edit the draft.  The concurrency of the    *)
(* requests is the subject of ReviewQueue and VendorBillExecution; here each *)
(* request is one step and its data is complete.                             *)
EXTENDS VendorBillBuild, OperatorGuidance

CONSTANTS
    Invoices, Worlds,     \* name |-> imported invoice; name |-> state of the master data
    Drifts,               \* <<from, to>>: the changes Odoo's users make to the master data
    ExemptionConfig,      \* exemption code |-> configured Odoo tax
    Effects,              \* supplier remediation effects an operator may cause
    Accounts,             \* accounts an operator may pick
    AssetAccounts,        \* fixed-asset accounts the company offers
    LineChoices,          \* line resolutions an operator may submit
    MaxVersion, MaxChanges, MaxAttempts

ASSUME ConfigAssumption == ValidExemptionConfig(ExemptionConfig)

\* Odoo's ids are unique, and it knows the currency of every invoice.
ASSUME WorldAssumption ==
    \A n \in DOMAIN Worlds :
        /\ \A table \in {Worlds[n].partners, Worlds[n].products, Worlds[n].accounts} :
              \A a, b \in table : a.id = b.id => a = b
        /\ \A s \in DOMAIN Invoices : Worlds[n].precision[Invoices[s].currency] \in Nat \ {0}

IsAmount(a) == a \in Int \cup {None}

ASSUME AmountAssumption ==
    /\ None \notin Int
    /\ \A s \in DOMAIN Invoices :
          /\ IsAmount(Invoices[s].totals.exclusive) /\ IsAmount(Invoices[s].totals.inclusive)
          /\ Invoices[s].lines \in Seq(Range(Invoices[s].lines))
          /\ \A i \in DOMAIN Invoices[s].lines :
                LET line == Invoices[s].lines[i]
                IN  /\ IsAmount(line.qty) /\ IsAmount(line.price) /\ IsAmount(line.ext)
                    /\ line.discounts \in Seq(Range(line.discounts)) /\ line.taxes \in Seq(Range(line.taxes))
                    /\ \A k \in DOMAIN line.discounts : IsAmount(line.discounts[k].amount)
                    /\ \A k \in DOMAIN line.taxes : IsAmount(line.taxes[k].rate)

Purposes == {"resale", "internal_use", "other_operating_expense"}

ASSUME OutcomeAssumption == None \notin {"failed", "executed"} \cup Purposes

ASSUME BoundAssumption == MaxVersion \in Nat \ {0}

ASSUME DriftAssumption == Drifts \subseteq (DOMAIN Worlds) \X (DOMAIN Worlds)

VARIABLES
    source, now,   \* the names of the invoice and of the master data's state
    effect,        \* the latest supplier remediation effect
    purposes, resolutions,    \* by review version
    review,        \* [version, e: the effective decision, evidence, pending]
    decision,      \* the accepted decision with what it pinned, or None
    draft,         \* the bill in Odoo, or None
    outcome,       \* of the last execution: None, "failed" or "executed"
    preview, readback,        \* the last answers of the two read-only requests
    changes, attempts

vars == <<source, now, effect, purposes, resolutions, review, decision, draft, outcome,
          preview, readback, changes, attempts>>

inv == Invoices[source]
w   == Worlds[now]

Versions == 1 .. MaxVersion

LatestResolution ==
    LET vs == {v \in Versions : resolutions[v] # None}
    IN  IF vs = {} THEN None ELSE resolutions[Max(vs)]

-----------------------------------------------------------------------------
(* Classification.                                                           *)

BareOptions == [accountOnly |-> {}, explicit |-> <<>>, fallback |-> None,
                resale |-> None, internal |-> None, precision |-> None]

\* Stage-1 evidence: what a bill can be built from without any further
\* decision, or with account-only lines alone; nothing for a return or for
\* a source document that raises a tax question.
ExecutionEvidence(e) ==
    LET base  == [partner |-> e.partner, product |-> e.product, tax |-> e.tax,
                  expense |-> None, asset |-> None, fallback |-> None]
        asset == [base EXCEPT !.asset = e.asset]
        opex  == [base EXCEPT !.expense = e.expense]
    IN  IF \/ IsReturn(inv)
           \/ \E r \in e.reasons : r.code \in {"SOURCE_DOCUMENT_UNVERIFIED", "WITHHOLDING_TAX_NOT_SUPPORTED"}
           \/ SourceTaxReasons(inv) # {}
        THEN None
        ELSE IF e.asset # None
             THEN IF BillInputErrors(inv, asset, BareOptions) THEN None ELSE asset
        ELSE IF ~BillInputErrors(inv, base, BareOptions) THEN base
        ELSE IF e.expense # None /\ ~BillInputErrors(inv, opex, BareOptions) THEN opex
        ELSE IF /\ e.partner.status = "MATCHED"
                /\ TaxLinesFullyMatched(inv, e.tax)
                /\ ~InvoiceIdentifierFree(inv)
             THEN [base EXCEPT !.fallback = e.expense]
        ELSE None

Recorded(version, e) == [version |-> version, e |-> e, evidence |-> ExecutionEvidence(e), pending |-> TRUE]

Classified(version) == Recorded(version, EffectiveDecision(inv, w, ExemptionConfig, effect, LatestResolution))

HasReason(codes) == \E r \in review.e.reasons : r.code \in codes
ExpenseReasons == {"OPERATING_EXPENSE_MAPPING_REQUIRED", "OPERATING_EXPENSE_MAPPING_AMBIGUOUS"}
Unblocked == review.e.reasons = {} /\ review.e.workflow = "VENDOR_BILL"

\* A reclassification that changes neither the workflow, nor the reasons, nor
\* whether the review can be executed, is not recorded: the evidence of the
\* current version stays, with the matches it was built from.
Reclassify ==
    \E new \in {Classified(review.version + 1)} :
        /\ review.pending
        /\ review.version < MaxVersion
        /\ \/ new.e.workflow # review.e.workflow
           \/ new.e.reasons # review.e.reasons
           \/ (new.evidence = None) # (review.evidence = None)
        /\ review' = new
        /\ UNCHANGED <<source, now, effect, purposes, resolutions, decision, draft, outcome,
                       preview, readback, changes, attempts>>

\* A supplier remediation whose effect is on record; the reclassification that
\* reads it follows as a step of its own.
SupplierRemediated ==
    /\ review.pending
    /\ HasReason({"SUPPLIER_NOT_FOUND", "SUPPLIER_AMBIGUOUS"})
    /\ \E e \in Effects : effect' = e /\ effect # e
    /\ UNCHANGED <<source, now, purposes, resolutions, review, decision, draft, outcome,
                   preview, readback, changes, attempts>>

-----------------------------------------------------------------------------
(* Purchase purpose and accounting treatment, each pinned to a version.      *)

ProductShaped == ~InvoiceIdentifierFree(inv) /\ \E i \in DOMAIN inv.lines : ~IdentifierFree(inv.lines[i])

PurposeAccepted(p) ==
    /\ review.pending
    /\ purposes[review.version] = None
    /\ \/ p = "resale" /\ ProductShaped
       \/ p # "resale" /\ HasReason(ExpenseReasons)
       \/ p = "internal_use" /\ Unblocked /\ ProductShaped

SubmitPurpose ==
    \E p \in Purposes :
        /\ PurposeAccepted(p)
        /\ purposes' = [purposes EXCEPT ![review.version] = p]
        /\ UNCHANGED <<source, now, effect, resolutions, review, decision, draft, outcome,
                       preview, readback, changes, attempts>>

PurposeSupports(p, t) ==
    \/ t = "expense_account" /\ p \in {"internal_use", "other_operating_expense"}
    \/ t = "capitalize_fixed_asset" /\ p = "internal_use"

EligibleAccount(t, a) == IF t = "expense_account" THEN EligibleExpenseAccount(w, a) ELSE a \in AssetAccounts

\* The account is eligible in Odoo now; a technically unblocked review takes
\* only the account of an internal-use purchase, and is not reclassified.
ResolutionAccepted(t, a) ==
    /\ review.pending
    /\ resolutions[review.version] = None
    /\ PurposeSupports(purposes[review.version], t)
    /\ \/ HasReason(ExpenseReasons)
       \/ Unblocked /\ purposes[review.version] = "internal_use" /\ t = "expense_account"
    /\ EligibleAccount(t, a)

Treatments == {"expense_account", "capitalize_fixed_asset"}

SubmitResolution ==
    \E t \in Treatments, a \in Accounts \cup AssetAccounts :
        /\ ResolutionAccepted(t, a)
        /\ resolutions' = [resolutions EXCEPT ![review.version] = [treatment |-> t, account |-> a]]
        /\ UNCHANGED <<source, now, effect, purposes, review, decision, draft, outcome,
                       preview, readback, changes, attempts>>

\* The facts of the current version that the workbench's guidance reads.
GuidanceFacts ==
    [purpose   |-> purposes[review.version],
     latest    |-> LET vs == {v \in Versions : purposes[v] # None}
                   IN  IF vs = {} THEN None ELSE purposes[Max(vs)],
     accounted |-> resolutions[review.version] # None,
     coded     |-> ProductShaped,
     mappable  |-> \E i \in DOMAIN inv.lines : /\ inv.lines[i].seller # None
                                               /\ \E r \in review.e.reasons :
                                                    r.code = "PRODUCT_NOT_FOUND" /\ r.line = inv.lines[i].num]

Guided ==
    NextAction(IF review.pending THEN "PENDING_REVIEW" ELSE "DECISION_SUBMITTED",
               {r.code : r \in review.e.reasons}, GuidanceFacts, "VENDOR_BILL", outcome = "executed")

-----------------------------------------------------------------------------
(* The decision.                                                             *)

\* A line resolution names a product or an account for a line number.
SelectedProducts(choice) == {num \in DOMAIN choice : choice[num].product # None}
AccountOnlyLines(choice) == {num \in DOMAIN choice : choice[num].product = None}

ProductSelectable(id) ==
    \E p \in w.products : p.id = id /\ p.active /\ Visible(p.company)

WithSelectedProducts(d, choice) ==
    [d EXCEPT !.product = [i \in DOMAIN @ |->
        IF inv.lines[i].num \in SelectedProducts(choice)
        THEN Matched(choice[inv.lines[i].num].product) ELSE @[i]]]

Options(d, choice, resale, internal, precision) ==
    [accountOnly |-> AccountOnlyLines(choice),
     explicit    |-> [num \in AccountOnlyLines(choice) |-> choice[num].account],
     fallback    |-> d.fallback, resale |-> resale, internal |-> internal, precision |-> precision]

\* Every line resolves to exactly one product.
EveryLineAProduct(d) ==
    /\ \A i \in DOMAIN d.product : d.product[i].status = "MATCHED"
    /\ \A i, j \in DOMAIN inv.lines : inv.lines[i].num = inv.lines[j].num => i = j

ProductOfLine(d, num) == d.product[CHOOSE i \in DOMAIN inv.lines : inv.lines[i].num = num].id

\* What the gates leave of a decision taken at version v.
ResalePin(d, v) ==
    IF purposes[v] # "resale" THEN None
    ELSE [num \in NumsOf(inv) |-> ResaleLinePin(w, ProductOfLine(d, num))]

InternalPin(d, v) ==
    IF purposes[v] # "internal_use" \/ ~ProductShaped THEN None
    ELSE LET pin == InternalUsePin(w, resolutions[v].account)
         IN  [num \in NumsOf(inv) |->
                [product |-> ProductOfLine(d, num), account |-> pin.account, code |-> pin.code, type |-> pin.type]]

\* Mutation: a purpose recorded for an older version is taken for the current one.
PurposeGateAnyVersion(v) ==
    ProductShaped => \E u \in Versions : purposes[u] \in {"resale", "internal_use"}

\* A product-coded invoice is billed only with its purpose stated for this
\* version, and a resale purpose of another version is never passed over.
PurposeGate(v) ==
    /\ ProductShaped => purposes[v] \in {"resale", "internal_use"}
    /\ purposes[v] = None => \A u \in Versions : purposes[u] # "resale"

ResaleGate(d, choice, v) ==
    purposes[v] = "resale" =>
        /\ ProductShaped
        /\ AccountOnlyLines(choice) = {}
        /\ EveryLineAProduct(d)
        /\ \A i \in DOMAIN d.product : ResaleEligible(w, d.product[i].id)

InternalUseGate(d, choice, v) ==
    purposes[v] = "internal_use" /\ ProductShaped =>
        /\ AccountOnlyLines(choice) = {}
        /\ EveryLineAProduct(d)
        /\ resolutions[v] # None
        /\ resolutions[v].treatment = "expense_account"
        /\ EligibleExpenseAccount(w, resolutions[v].account)

\* SubmitReviewDecisionUseCase.execute for the workflow VENDOR_BILL.
Accept ==
    \E choice \in LineChoices :
        LET v == review.version
            d == WithSelectedProducts(review.evidence, choice)
        IN  /\ review.pending
            /\ review.evidence # None
            /\ v < MaxVersion
            /\ DOMAIN choice \subseteq NumsOf(inv)
            /\ SourceTaxAllowed(inv, review.evidence.tax, w, ExemptionConfig)
            /\ \A num \in SelectedProducts(choice) : ProductSelectable(choice[num].product)
            /\ \A num \in AccountOnlyLines(choice) : \E a \in w.accounts :
                    a.id = choice[num].account /\ a.company = Own
            /\ PurposeGate(v)
            /\ ~BillInputErrors(inv, d, Options(d, choice, None, None, None))
            /\ ResaleGate(d, choice, v)
            /\ InternalUseGate(d, choice, v)
            /\ decision' = [version |-> v + 1, evidence |-> d, choice |-> choice,
                            resale |-> ResalePin(d, v), internal |-> InternalPin(d, v)]
            /\ review' = [review EXCEPT !.version = v + 1, !.pending = FALSE]
            /\ UNCHANGED <<source, now, effect, purposes, resolutions, draft, outcome,
                           preview, readback, changes, attempts>>

-----------------------------------------------------------------------------
(* Preview, execution, readback.                                             *)

Purpose == purposes[decision.version - 1]

\* load_decision_internal_use_pin raises on a pin the purpose does not call for, and without one it does.
InternalUsePinLoaded == (decision.internal # None) = (Purpose = "internal_use" /\ ProductShaped)

\* The pins are the ones of the decision's own version and product lines.
PinsConsistent ==
    /\ (decision.resale # None) = (Purpose = "resale")
    /\ InternalUsePinLoaded
    /\ \A pins \in {decision.resale, decision.internal} \ {None} :
        /\ DOMAIN pins = NumsOf(inv)
        /\ \A num \in DOMAIN pins : pins[num].product = ProductOfLine(decision.evidence, num)

PinnedAccounts(pins) == {pins[num].account : num \in DOMAIN pins}

\* Before a write the pinned accounts are compared with Odoo's configuration,
\* and no fiscal position may rewrite them.
PinsHold ==
    /\ PinsConsistent
    /\ decision.resale # None =>
        /\ \A num \in DOMAIN decision.resale : NoDrift(w, decision.resale[num])
        /\ FiscalSafety(w, decision.evidence.partner.id, PinnedAccounts(decision.resale))
    /\ decision.internal # None =>
        /\ \A num \in DOMAIN decision.internal :
            LET pin == decision.internal[num]
            IN  AccountUnchanged(w, [account |-> pin.account, code |-> pin.code, type |-> pin.type])

\* Mutation: the preview rounds nothing, whatever the precision of the currency.
PlainOptionsExact == Options(decision.evidence, decision.choice, None, None, None)

PlainOptions == Options(decision.evidence, decision.choice, None, None, w.precision[inv.currency])
FullOptions  == Options(decision.evidence, decision.choice, decision.resale, decision.internal,
                        w.precision[inv.currency])

Buildable(o) ==
    /\ SourceTaxAllowed(inv, decision.evidence.tax, w, ExemptionConfig)
    /\ ~BillInputErrors(inv, decision.evidence, o)

\* The bill as the workbench shows it before it is written: built without the
\* pins, the pinned accounts shown beside the lines.
Previewed ==
    LET bill  == Build(inv, decision.evidence, PlainOptions)
        shown == [i \in DOMAIN bill.lines |->
                    IF decision.resale = None /\ decision.internal = None THEN bill.lines[i]
                    ELSE [bill.lines[i] EXCEPT !.account = PinnedAccount(FullOptions, inv.lines[i].num)]]
    IN  [lines      |-> shown,
         supplier   |-> bill.supplier,
         currency   |-> bill.currency,
         money      |-> BillMoney(inv, bill, w.precision[inv.currency]),
         reconciles |-> ~PreviewMismatches(inv, bill, w.precision[inv.currency]),
         precision  |-> w.precision[inv.currency],
         fx         |-> PlanRate(inv, bill, w, w.precision[inv.currency])]

CanPreview == Buildable(PlainOptions) /\ PinsConsistent

Preview ==
    /\ decision # None
    /\ CanPreview
    /\ preview' = Previewed
    /\ UNCHANGED <<source, now, effect, purposes, resolutions, review, decision, draft, outcome,
                   readback, changes, attempts>>

\* Odoo's side of a create: a draft, at the rate it was given or, if it ignores
\* that, at its own rate of the day; 1 in the company's currency.
OdooRates(rate) == IF rate = None THEN {1} ELSE {rate, w.autoRate}

\* The accounts to which a fiscal position that can reach the bill moves a
\* line; it may move any of them.
OdooAccounts(supplier, account) ==
    {f.to : f \in {g \in w.fiscal : /\ account \in g.maps
                                    /\ \/ g.auto /\ g.active /\ Visible(g.company)
                                       \/ \E p \in w.partners : p.id = supplier /\ p.fiscal = g.id}}

OdooCreates(bill) ==
    \E r \in OdooRates(bill.rate),
       moved \in SUBSET {i \in DOMAIN bill.lines : OdooAccounts(bill.supplier, bill.lines[i].account) # {}} :
        draft' = [supplier |-> bill.supplier, currency |-> bill.currency, rate |-> r,
                  lines |-> [i \in DOMAIN bill.lines |->
                                IF i \notin moved THEN bill.lines[i]
                                ELSE [bill.lines[i] EXCEPT !.account =
                                        CHOOSE a \in OdooAccounts(bill.supplier, @) : TRUE]],
                  state |-> "draft", at |-> now, edited |-> FALSE]

\* What Odoo computes for the draft from its own lines.
OdooMoney(d, precision) ==
    LET rate(id) == (CHOOSE t \in w.taxes : t.id = id).rate
        subtotal(l) == CurrencyRound(Subtotal(l), precision)
        taxOf(l) == SumSeq([k \in DOMAIN l.taxes |-> subtotal(l) * rate(l.taxes[k])])
        untaxed == SumSeq([i \in DOMAIN d.lines |-> subtotal(d.lines[i])])
        tax == RoundHalfUp(SumSeq([i \in DOMAIN d.lines |-> taxOf(d.lines[i])]), 100 * precision) * precision
    IN  [untaxed |-> untaxed, tax |-> tax, total |-> untaxed + tax]

\* A create whose reference is already there answers with the bill there is.
WriteBill(bill) ==
    \/ draft # None /\ UNCHANGED draft
    \/ draft = None /\ OdooCreates(bill)

\* Mutation: a bill that is there is taken for a bill that is right.
FxVerifiedExisting(plan, d) == TRUE

FxVerified(plan, d) ==
    \/ plan.status = "not_applicable"
    \/ /\ plan.status = "source_rate_selected"
       /\ LET p == w.precision[inv.currency]
          IN  ~FxMismatches(plan, d, CompanyAmounts(d, OdooMoney(d, p).tax, w, p), w.companyPrecision)

\* VendorBillExecutionStrategy.execute in mode EXECUTE: refused before the
\* write, or written and verified, or written and found wrong.
Execute ==
    LET p    == w.precision[inv.currency]
        bill == Build(inv, decision.evidence, FullOptions)
        plan == PlanRate(inv, bill, w, p)
        ok   == /\ SourceTaxAllowed(inv, decision.evidence.tax, w, ExemptionConfig)
                /\ PinsHold
                /\ ~BillInputErrors(inv, decision.evidence, FullOptions)
                /\ ~MonetaryErrors(inv, bill, p)
                /\ ~FxBlocked(plan)
    IN  /\ decision # None
        /\ outcome # "executed"
        /\ attempts < MaxAttempts
        /\ attempts' = attempts + 1
        /\ \/ /\ ~ok
              /\ outcome' = "failed"
              /\ UNCHANGED draft
           \/ /\ ok
              /\ WriteBill([bill EXCEPT !.rate = plan.rate])
              /\ outcome' = IF FxVerified(plan, draft') THEN "executed" ELSE "failed"
        /\ UNCHANGED <<source, now, effect, purposes, resolutions, review, decision,
                       preview, readback, changes>>

\* GetVendorBillReadbackUseCase.execute: the draft against a fresh preview and
\* against the pins.
Readback ==
    LET p     == w.precision[inv.currency]
        money == OdooMoney(draft, p)
        pins  == IF decision.resale # None THEN decision.resale ELSE decision.internal
    IN  /\ outcome = "executed"
        /\ readback' = [money |-> CanPreview /\ ~MoneyMismatches(inv, Previewed, draft, money, p),
                        pins  |-> pins = None \/ ~PinMismatches(pins, draft),
                        fx    |-> CanPreview /\ FxVerified(Previewed.fx, draft),
                        draft |-> draft, precision |-> p]
        /\ UNCHANGED <<source, now, effect, purposes, resolutions, review, decision, draft, outcome,
                       preview, changes, attempts>>

-----------------------------------------------------------------------------
(* Odoo's own users.                                                         *)

MasterDataChanges ==
    /\ changes < MaxChanges
    /\ \E drift \in Drifts : drift[1] = now /\ now' = drift[2]
    /\ changes' = changes + 1
    /\ UNCHANGED <<source, effect, purposes, resolutions, review, decision, draft, outcome,
                   preview, readback, attempts>>

\* A person edits a line of the draft, or corrects its rate.
DraftEdited ==
    /\ draft # None
    /\ changes < MaxChanges
    /\ \/ draft' = [draft EXCEPT !.lines[1].price = @ + 1, !.edited = TRUE]
       \/ \E a \in Accounts : a # draft.lines[1].account /\ draft' = [draft EXCEPT !.lines[1].account = a, !.edited = TRUE]
       \/ draft.rate # inv.rate /\ inv.rate # None /\ draft' = [draft EXCEPT !.rate = inv.rate]
    /\ changes' = changes + 1
    /\ UNCHANGED <<source, now, effect, purposes, resolutions, review, decision, outcome,
                   preview, readback, attempts>>

-----------------------------------------------------------------------------
PipelineInit ==
    /\ source \in DOMAIN Invoices
    /\ now \in DOMAIN Worlds
    /\ effect = None
    /\ purposes = [v \in Versions |-> None]
    /\ resolutions = [v \in Versions |-> None]
    /\ review = Classified(1)
    /\ decision = None
    /\ draft = None
    /\ outcome = None
    /\ preview = None
    /\ readback = None
    /\ changes = 0
    /\ attempts = 0

\* nothing has happened since the import
Untouched ==
    /\ review.version = 1 /\ review.pending /\ effect = None /\ changes = 0 /\ attempts = 0
    /\ purposes[1] = None /\ preview = None

PipelineNext ==
    \/ Reclassify
    \/ SupplierRemediated
    \/ SubmitPurpose
    \/ SubmitResolution
    \/ Accept
    \/ Preview
    \/ Execute
    \/ Readback
    \/ MasterDataChanges
    \/ DraftEdited

PipelineSpec == PipelineInit /\ [][PipelineNext]_vars

-----------------------------------------------------------------------------
(* Properties.                                                               *)

\* Every variable keeps its shape (the DTOs of the decision, the draft and the
\* two read-only answers).
PipelineTypeOK ==
    /\ source \in DOMAIN Invoices /\ now \in DOMAIN Worlds
    /\ purposes \in [Versions -> Purposes \cup {None}]
    /\ \A v \in Versions : resolutions[v] # None => resolutions[v].account \in Accounts \cup AssetAccounts
    /\ review.version \in Versions
    /\ review.e.workflow \in {"VENDOR_BILL", "MANUAL_REVIEW"}
    /\ decision # None => ~review.pending /\ decision.version = review.version
    /\ outcome \in {None, "failed", "executed"}
    /\ outcome = "executed" => draft.state = "draft"

\* A review nobody has to look at names everything a bill needs: whichever
\* supplier, tax, product, expense or asset answered a reason that was struck
\* from the review (effective_decision.py), the answer is in its evidence.
UnblockedIsComplete ==
    review.pending /\ Unblocked =>
        /\ review.e.partner.status = "MATCHED"
        /\ \A r \in TaxResults(review.e.tax) : r.status = "MATCHED"
        /\ ~IsReturn(inv)
        /\ \/ \A i \in DOMAIN inv.lines : review.e.product[i].status = "MATCHED"
           \/ review.e.asset # None
           \/ review.e.expense.status = "MATCHED"

\* A product-coded invoice is decided under the purpose stated for the
\* version that was decided, with the pins of that purpose and no other, for
\* every line: never under a purpose that an intervening reclassification
\* left behind.
PurposeIsCurrent ==
    decision # None /\ ProductShaped =>
        LET v == decision.version - 1
        IN  \/ /\ purposes[v] = "resale" /\ decision.internal = None
               /\ DOMAIN decision.resale = NumsOf(inv)
            \/ /\ purposes[v] = "internal_use" /\ decision.resale = None
               /\ DOMAIN decision.internal = NumsOf(inv)
               /\ \A num \in NumsOf(inv) : decision.internal[num].account = resolutions[v].account

\* A resale bill is booked, line by line, on the account that was accepted:
\* no change of the product, its category, the account or a fiscal position
\* between the decision and the write moves it, and none made it ineligible
\* at the moment of the write (resale_execution_accounting.py,
\* resale_fiscal_position.py).
ResaleKeepsItsAccounts ==
    draft # None /\ ~draft.edited /\ decision.resale # None =>
        \A i \in DOMAIN inv.lines :
            LET pin == decision.resale[inv.lines[i].num]
            IN  /\ draft.lines[i].product = pin.product
                /\ draft.lines[i].account = pin.account
                /\ \E a \in Worlds[draft.at].accounts : /\ a.id = pin.account
                                                /\ a.code = pin.code
                                                /\ ~a.deprecated

\* The bill charges what the invoice charges: each line, the untaxed amount
\* and the total agree with the document at the currency's precision, through
\* discounts, derived unit prices and rounding (builder.py).
MoneyIsConserved ==
    draft # None /\ ~draft.edited =>
        LET p     == Worlds[draft.at].precision[inv.currency]
            money == BillMoney(inv, draft, p)
        IN  /\ \A i \in DOMAIN inv.lines :
                    Abs(Subtotal(draft.lines[i]) - LineNet(inv.lines[i])) <= p
            /\ inv.totals.exclusive # None => Abs(money.untaxed - inv.totals.exclusive) <= p
            /\ inv.totals.inclusive # None => Abs(money.total - inv.totals.inclusive) <= p

\* A bill in another currency is never reported as executed at a rate other
\* than the one its verified document states, even if Odoo ignored the rate,
\* the attempt failed, the draft was corrected by hand and the execution was
\* retried on the existing draft (vendor_bill_strategy.py _verify_created_fx).
RateIsTheDocuments ==
    outcome = "executed" /\ inv.currency # CompanyCurrency =>
        /\ SourceVerified(inv)
        /\ \E k \in DOMAIN inv.doc.rates : /\ inv.doc.rates[k].element = "PricingExchangeRate"
                                           /\ inv.doc.rates[k].from = inv.currency
                                           /\ inv.doc.rates[k].rate = inv.rate
        /\ draft.edited \/ draft.rate = inv.rate

\* A line as it was decided, priced at a precision of the currency.
DecidedLine(i, precision) ==
    BuildLine(inv, decision.evidence,
              Options(decision.evidence, decision.choice, decision.resale, decision.internal, precision), i)

WrittenPrecision(bill) == Worlds[bill.at].precision[inv.currency]

\* What the operator approved in the preview is what is written, whatever
\* changed in Odoo in between: the supplier, and per line the product, the
\* quantity, the taxes, a resale account and, unless the precision of the
\* currency itself was changed, the price (vendor_bill_preview.py builds the
\* bill without the pins, the strategy with them).
PreviewIsWhatIsWritten ==
    preview # None /\ draft # None /\ ~draft.edited =>
        /\ preview.supplier = draft.supplier
        /\ \A i \in DOMAIN draft.lines :
            LET shown == preview.lines[i]
                line  == draft.lines[i]
            IN  /\ shown.product = line.product /\ shown.qty = line.qty /\ shown.taxes = line.taxes
                /\ preview.precision = WrittenPrecision(draft) => shown.price = line.price
                /\ decision.resale # None => shown.account = line.account

\* A tax-exempt bill rests on an exemption that the document still proved and
\* Odoo's dedicated tax still expressed when the bill was written, not only
\* when the review was classified (source_tax/exemption.py ensure_pinned).
ExemptTaxIsProven ==
    draft # None /\ ~draft.edited /\ ExemptionPinned(decision.evidence.tax, ExemptionConfig) =>
        /\ ExemptionCode(inv) # None
        /\ \A i \in DOMAIN draft.lines : \A k \in DOMAIN draft.lines[i].taxes :
            \E t \in Worlds[draft.at].taxes : /\ t.id = draft.lines[i].taxes[k]
                                      /\ t.active /\ t.rate = 0
                                      /\ t.token = ExemptionCode(inv)

\* The step the workbench tells the operator to take next is one the Hub
\* accepts: a purpose can be recorded, an accounting treatment can be recorded,
\* a decision passes the purpose gates.  Guidance (operator_guidance.py) and
\* gates (purchase_purpose, accounting_resolution, decision use cases) are
\* written apart and read facts of different versions.
GuidedStepIsAccepted ==
    review.pending =>
        /\ Guided = "PURPOSE" => \E p \in Purposes : PurposeAccepted(p)
        /\ /\ Guided = "ACCOUNTING"
           /\ resolutions[review.version] = None      \* else the same request resumes
           /\ \E a \in Accounts : EligibleExpenseAccount(w, a)
           => \E t \in Treatments, a \in Accounts \cup AssetAccounts : ResolutionAccepted(t, a)
        /\ Guided = "DECISION" =>
              /\ PurposeGate(review.version)
              /\ purposes[review.version] = "internal_use" => resolutions[review.version] # None

\* A readback that reports no mismatch saw the bill that was decided: an
\* edited price and a pinned product on another account, by hand or by a
\* fiscal position, are always reported (vendor_bill_readback.py), although
\* lines are compared as a multiset; at the precision the bill was written with.
ReadbackMissesNothing ==
    readback # None /\ readback.money /\ readback.pins /\ readback.fx =>
        /\ readback.precision = WrittenPrecision(readback.draft) =>
              \A i \in DOMAIN inv.lines :
                LineKey(readback.draft.lines[i]) = LineKey(DecidedLine(i, readback.precision))
        /\ \A pins \in {decision.resale, decision.internal} \ {None} :
            \A i \in DOMAIN inv.lines :
                readback.draft.lines[i].account = pins[inv.lines[i].num].account

\* A bill is what the invoice, its verified document and the accepted decision say, in amounts,
\* rate, taxes and accounts.
BilledAsInvoiced ==
    MoneyIsConserved /\ RateIsTheDocuments /\ ExemptTaxIsProven /\ ResaleKeepsItsAccounts

\* What an operator is shown before and after the write is what is written.
ShownIsWhatIsWritten == PreviewIsWhatIsWritten /\ ReadbackMissesNothing

\* A review is led to a decision that can be billed: the steps it is guided through are open,
\* the decision has what a bill needs and rests on the purpose of its version.
DecisionIsComplete ==
    PipelineTypeOK /\ GuidedStepIsAccepted /\ UnblockedIsComplete /\ PurposeIsCurrent

=============================================================================

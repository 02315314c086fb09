---------------------------- MODULE AccountingPins ----------------------------
(* The purchase account Odoo would post a product to, whether a product may  *)
(* be bought for resale, what a decision pins of it, and whether the pin     *)
(* still holds when the bill is written.                                     *)
EXTENDS DecisionRules

CONSTANT ApprovedCategories   \* the configured resale category ids

\* An account an Odoo record refers to: visible to the company, and not
\* deprecated.
AccountStatus(w, id) ==
    LET found == {a \in w.accounts : a.id = id /\ a.company = Own}
    IN  CASE id = None -> "not_configured"
          [] id # None /\ found = {} -> "unavailable"
          [] OTHER -> IF (CHOOSE a \in found : TRUE).deprecated THEN "deprecated" ELSE "valid"

Account(w, id) == CHOOSE a \in w.accounts : a.id = id /\ a.company = Own

Categories(w, id) == {c \in w.categories : c.id = id}

\* The product's own account beats its category's; an inactive, storable or
\* unconfigured product has no account that can be told in advance.
PurchaseAccount(w, p) ==
    LET override == AccountStatus(w, p.override)
        cats     == Categories(w, p.category)
        byCat    == IF cats = {} THEN "missing" ELSE AccountStatus(w, (CHOOSE c \in cats : TRUE).account)
    IN  CASE ~p.active \/ p.storable -> None
          [] p.active /\ ~p.storable /\ override = "valid" ->
                [source |-> "product_override", id |-> p.override]
          [] p.active /\ ~p.storable /\ override = "not_configured" /\ byCat = "valid" ->
                [source |-> "category", id |-> (CHOOSE c \in cats : TRUE).account]
          [] OTHER -> None

\* A product as the discovery reader sees it: only in its company, archived
\* or not.
DiscoverProduct(w, id) == {p \in w.products : p.id = id /\ Visible(p.company)}

\* May this product be bought for resale?
ResaleEligible(w, id) ==
    /\ ApprovedCategories # {}
    /\ w.companies = {Own}
    /\ \E p \in DiscoverProduct(w, id) :
        /\ p.active
        /\ ~p.storable
        /\ AccountStatus(w, p.override) = "not_configured"
        /\ p.category \in ApprovedCategories
        /\ PurchaseAccount(w, p) # None
        /\ PurchaseAccount(w, p).source = "category"

ResaleLinePin(w, id) ==
    LET p == CHOOSE q \in DiscoverProduct(w, id) : TRUE
        a == Account(w, PurchaseAccount(w, p).id)
    IN  [product |-> id, category |-> p.category, account |-> a.id, code |-> a.code, type |-> a.type]

\* The account now configured is the one pinned, in every respect an
\* accountant would notice.
NoDrift(w, pin) == ResaleEligible(w, pin.product) /\ ResaleLinePin(w, pin.product) = pin

\* An expense account the chart still offers to this company.
EligibleExpenseAccount(w, id) ==
    \E a \in w.accounts : /\ a.id = id
                          /\ a.company = Own
                          /\ a.type = "expense"
                          /\ ~a.deprecated

InternalUsePin(w, id) ==
    [account |-> id, code |-> Account(w, id).code, type |-> Account(w, id).type]

AccountUnchanged(w, pin) ==
    EligibleExpenseAccount(w, pin.account) /\ InternalUsePin(w, pin.account) = pin

-----------------------------------------------------------------------------
(* Fiscal positions: Odoo rewrites the account of a bill line when the       *)
(* partner's own fiscal position, or one applied automatically, maps it.     *)

ConsideredPositions(w, partner) ==
    {f \in w.fiscal : \/ f.auto /\ f.active /\ Visible(f.company)
                      \/ f.id = partner.fiscal}

FiscalSafety(w, partnerId, accounts) ==
    /\ w.companies = {Own}
    /\ \E p \in w.partners :
        /\ p.id = partnerId
        /\ Visible(p.company)
        /\ p.fiscal # None => \E f \in w.fiscal : f.id = p.fiscal /\ Visible(f.company)
        /\ \A f \in ConsideredPositions(w, p) : f.maps \cap accounts = {}

=============================================================================

-------------------------- MODULE ClassificationRules --------------------------
(* The decision rules that people author in Odoo: how the records become     *)
(* rules, which of them match an invoice, which one decides, and the         *)
(* evidence of it that a review keeps per version.                           *)
EXTENDS InvoiceMatching

CONSTANTS
    Upper(_),        \* the upper-cased form of a text
    ActiveCurrencies,    \* currency id |-> code, of the currencies that are active
    Workflows

-----------------------------------------------------------------------------
(* From records to rules                                                     *)

\* The search asks for them and the mapper checks them again.
IsApplicableActiveRecord(r) == r.active /\ r.company \in {None, Own}

CurrenciesResolve(records) == \A r \in ToSet(records) : r.currency \in {None} \cup DOMAIN ActiveCurrencies

\* "any" and an empty field ask nothing of the purchase order.
PurchaseOrderPresence(value) ==
    CASE value = "required" -> TRUE [] value = "must_not_exist" -> FALSE [] OTHER -> None

ValidRecord(r) ==
    /\ r.priority >= 0 /\ r.version > 0
    /\ r.workflow \in Workflows
    /\ r.po \in {None, "any", "required", "must_not_exist"}
    /\ r.partner = None \/ r.partner > 0

\* The document type and the code are upper-cased; the tax number stays as it was typed.
ToRule(r) ==
    [id |-> r.id, code |-> r.code, version |-> r.version, tier |-> r.priority,
     match |-> [company  |-> r.company,
                partner  |-> r.partner,
                vat      |-> r.vat,
                currency |-> IF r.currency = None THEN None ELSE ActiveCurrencies[r.currency],
                type     |-> IF r.type = None THEN None ELSE Upper(r.type),
                po       |-> PurchaseOrderPresence(r.po),
                terms    |-> r.terms,
                product  |-> r.product],
     action |-> [workflow |-> r.workflow, class |-> r.class, review |-> r.review, context |-> r.context]]

UniqueIdentities(rules) ==
    \A i, j \in DOMAIN rules : i # j => <<rules[i].code, rules[i].version>> # <<rules[j].code, rules[j].version>>

\* Mutation: a rule that asks for more does not come before one that asks for less.
SpecificityOfVendor(m) == IF m.partner # None THEN 1 ELSE 0

\* How many of its conditions a rule states.
Specificity(m) ==
    Cardinality({f \in {"company", "partner", "vat", "currency", "type", "po", "product"} : m[f] # None})
    + (IF m.terms # {} THEN 1 ELSE 0)

\* The more specific first, then the smaller tier; every rule of Odoo has the same rank.
EffectiveKey(rule) == <<0 - Specificity(rule.match), rule.tier>>

Lexically(a, b) == a[1] < b[1] \/ (a[1] = b[1] /\ a[2] < b[2])

\* A number stands for the place of a rule's code among the codes, which are compared as text.
Precedes(a, b) ==
    LET ka == EffectiveKey(a)  kb == EffectiveKey(b)
    IN  Lexically(ka, kb) \/ (ka = kb /\ Lexically(<<a.code, a.version>>, <<b.code, b.version>>))

OrderRules(rules) == SortSeq(rules, Precedes)

\* Read, mapped, checked for double identities and ordered.  One record that
\* cannot be mapped, or whose currency is archived, leaves no rules at all.
ListRules(records) ==
    LET applicable == SelectSeq(records, IsApplicableActiveRecord)
        rules      == [i \in DOMAIN applicable |-> ToRule(applicable[i])]
    IN  IF /\ CurrenciesResolve(applicable)
           /\ \A r \in ToSet(applicable) : ValidRecord(r)
           /\ UniqueIdentities(rules)
        THEN OrderRules(rules)
        ELSE None

-----------------------------------------------------------------------------
(* Classification                                                            *)

\* Only a matched partner and matched products count, and nothing says whether there is an order.
Context(inv, partner, product) ==
    [company  |-> Own,
     partner  |-> IF partner.status = "MATCHED" THEN partner.id ELSE None,
     vat      |-> IF inv.vat = None THEN None ELSE Upper(inv.vat),
     currency |-> inv.currency,
     type     |-> IF inv.type = None THEN None ELSE Upper(inv.type),
     po       |-> None,
     words    |-> {inv.lines[i].desc : i \in DOMAIN inv.lines} \ {None},
     products |-> {product[i].id : i \in {j \in DOMAIN product : product[j].status = "MATCHED"}}]

Matches(m, ctx) ==
    /\ \A f \in {"company", "partner", "vat", "currency", "type", "po"} : m[f] \in {None, ctx[f]}
    /\ m.product = None \/ m.product \in ctx.products
    /\ m.terms \subseteq ctx.words

\* The winners of equal standing must agree on what to do.
Winners(matched) == SelectSeq(matched, LAMBDA r : EffectiveKey(r) = EffectiveKey(matched[1]))

Classify(rules, ctx) ==
    LET matched == SelectSeq(rules, LAMBDA r : Matches(r.match, ctx))
        winners == Winners(matched)
        first   == winners[1]
    IN  IF matched = <<>>
        THEN [status |-> "NO_MATCH", rule |-> None, conflicts |-> <<>>]
        ELSE IF \E i, j \in DOMAIN winners : winners[i].action # winners[j].action
        THEN [status |-> "CONFLICT", rule |-> None, conflicts |-> winners]
        ELSE [status    |-> IF first.action.review THEN "REVIEW_REQUIRED" ELSE "MATCHED",
              rule      |-> first,
              conflicts |-> <<>>]

\* The evidence names the rule that decided, or the ones that disagree in the order of their codes.
Evidence(result) ==
    [status    |-> result.status,
     rule      |-> IF result.rule = None THEN None ELSE <<result.rule.id, result.rule.code, result.rule.version>>,
     action    |-> IF result.rule = None THEN None ELSE result.rule.action,
     conflicts |-> {<<result.conflicts[i].id, result.conflicts[i].code, result.conflicts[i].version>> : i \in DOMAIN result.conflicts}]

\* What the workbench shows of it.
Projection(evidence) ==
    IF evidence = None THEN [status |-> "UNAVAILABLE", rule |-> None, action |-> None, conflicts |-> {}] ELSE evidence

=============================================================================

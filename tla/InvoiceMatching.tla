--------------------------- MODULE InvoiceMatching ---------------------------
(* How an invoice is matched against the master data of Odoo: the supplier   *)
(* by tax number, each line's product by its identifiers, each tax by rate,  *)
(* a VAT exemption by the verified source document, an operating expense by  *)
(* the supplier.                                                             *)
(*                                                                           *)
(* `inv' is an imported invoice with the facts of its stored source          *)
(* document, `w' the master data at the moment of the lookup: operators of   *)
(* these two only.  A lookup that fails raises and changes nothing, so it is *)
(* not a result here.                                                        *)
EXTENDS Integers, Sequences, FiniteSets, FiniteSetsExt, SequencesExt

CONSTANTS
    None,          \* an absent value
    Own,           \* the company the review belongs to
    Approved,      \* the exemption codes an operator may configure
    Generic0       \* the generic 0% purchase tax, never an exemption tax

MatchStatus == {"MATCHED", "NOT_FOUND", "MULTIPLE_MATCHES", "INVALID_INPUT"}

Matched(id) == [status |-> "MATCHED", id |-> id]
Unmatched(status) == [status |-> status, id |-> None]

Visible(company) == company \in {Own, None}

\* One result per candidate count: none, one, or too many to choose.
ByCount(ids) ==
    CASE ids = {} -> Unmatched("NOT_FOUND")
      [] Cardinality(ids) = 1 -> Matched(CHOOSE id \in ids : TRUE)
      [] OTHER -> Unmatched("MULTIPLE_MATCHES")

-----------------------------------------------------------------------------
(* Suppliers.                                                                *)

FindByTaxNumber(w, vat) ==
    {p \in w.partners : p.vat = vat /\ p.active /\ Visible(p.company)}

FindByIds(w, ids) == {p \in w.partners : p.id \in ids /\ p.active}

FindByIdsIncludingArchived(w, ids) == {p \in w.partners : p.id \in ids}

CanonicalPartnerId(p) == IF p.commercial # None THEN p.commercial ELSE p.id

\* The candidates under one commercial partner are one supplier.
GroupByCommercialPartner(candidates) == {CanonicalPartnerId(p) : p \in candidates}

\* The commercial partner itself, loaded when it is not a candidate, must be
\* an active partner of its own with the same tax number in this company.
ValidCanonicalPartner(w, id, vat) ==
    \E p \in FindByTaxNumber(w, vat) \cup FindByIds(w, {id}) :
        /\ p.id = id
        /\ CanonicalPartnerId(p) = id
        /\ p.vat = vat
        /\ Visible(p.company)

PartnerMatch(inv, w) ==
    LET groups == GroupByCommercialPartner(FindByTaxNumber(w, inv.vat))
        found  == ByCount(groups)
    IN  CASE inv.vat = None -> Unmatched("INVALID_INPUT")
          [] found.status = "MATCHED" /\ ~ValidCanonicalPartner(w, found.id, inv.vat) ->
                Unmatched("MULTIPLE_MATCHES")
          [] OTHER -> found

AcceptedOrigins == {"match_existing", "create_permanent_supplier", "one_off_vendor"}

\* The supplier an operator's remediation effect names is proven against Odoo
\* again on every read: it exists, archived or not, is a commercial partner
\* of its own and belongs to no other company.
AcceptedSupplier(effect, w) ==
    IF /\ effect # None
       /\ effect.mode \in AcceptedOrigins
       /\ \E p \in FindByIdsIncludingArchived(w, {effect.partner}) :
            CanonicalPartnerId(p) = p.id /\ Visible(p.company)
    THEN [origin |-> effect.mode, partner |-> effect.partner]
    ELSE None

\* A deterministic match is never overridden by an accepted one.
EffectiveSupplier(raw, accepted) ==
    CASE raw.status = "MATCHED" -> [origin |-> "deterministic", partner |-> raw.id]
      [] raw.status # "MATCHED" /\ accepted # None -> accepted
      [] OTHER -> None

EffectivePartnerMatch(raw, accepted) ==
    LET s == EffectiveSupplier(raw, accepted)
    IN  IF s = None THEN raw ELSE Matched(s.partner)

-----------------------------------------------------------------------------
(* Products.                                                                 *)

FindByCode(w, code) ==
    {p.id : p \in {q \in w.products : q.code = code /\ q.active /\ Visible(q.company)}}
FindByBarcode(w, barcode) ==
    {p.id : p \in {q \in w.products : q.barcode = barcode /\ q.active /\ Visible(q.company)}}

SupplierInfos(w, partner, code) ==
    {s \in w.supplierinfo : s.partner = partner /\ s.code = code /\ Visible(s.company)}

TemplateVariants(w, s) ==
    {p.id : p \in {q \in w.products : /\ q.tmpl = s.tmpl
                                      /\ s.variant \in {None, q.id}
                                      /\ q.active
                                      /\ Visible(q.company)}}

\* Identifiers a line may carry; the classification code is one for the
\* question "is this a product line?" but is never looked up.
IdentifierFree(line) ==
    /\ line.buyer = None /\ line.barcode = None /\ line.seller = None
    /\ line.skus = {} /\ line.commodity = None

InvoiceIdentifierFree(inv) ==
    inv.lines # <<>> /\ \A i \in DOMAIN inv.lines : IdentifierFree(inv.lines[i])

AmbiguousCommercial(inv) == inv.productSource /\ InvoiceIdentifierFree(inv)

\* What one identity finds: how many candidates, and which products.
Outcome(ids) == [count |-> Cardinality(ids), ids |-> ids]

\* The supplier's own code finds a product through the vendor price list:
\* exactly one row, then exactly one active variant.  More than one row is
\* ambiguous whatever its products are.
SupplierProductOutcome(w, line, partner) ==
    LET rows == SupplierInfos(w, partner, line.seller)
    IN  CASE line.seller = None \/ partner = None -> Outcome({})
          [] Cardinality(rows) = 1 -> Outcome(TemplateVariants(w, CHOOSE s \in rows : TRUE))
          [] OTHER -> [count |-> Cardinality(rows), ids |-> {}]

\* The buyer's code, and the barcode only when that finds nothing.
LegacyChainOutcome(w, line) ==
    LET byCode == IF line.buyer = None THEN {} ELSE FindByCode(w, line.buyer)
    IN  Outcome(IF byCode # {} \/ line.barcode = None
                THEN byCode ELSE FindByBarcode(w, line.barcode))

ProductOutcomes(w, line, partner) ==
    {SupplierProductOutcome(w, line, partner), LegacyChainOutcome(w, line)}
        \cup {Outcome(FindByCode(w, sku)) : sku \in line.skus}

\* Every identity that finds something must find the same one product.
CombinedResult(outcomes) ==
    IF \E o \in outcomes : o.count > 1
    THEN Unmatched("MULTIPLE_MATCHES")
    ELSE ByCount(UNION {o.ids : o \in outcomes})

MatchLine(w, line, partner) ==
    IF \/ line.num = None
       \/ line.buyer = None /\ line.barcode = None /\ line.seller = None /\ line.skus = {}
    THEN Unmatched("INVALID_INPUT")
    ELSE CombinedResult(ProductOutcomes(w, line, partner))

ProductMatch(inv, w, supplier) ==
    [i \in DOMAIN inv.lines |-> MatchLine(w, inv.lines[i], supplier.id)]

-----------------------------------------------------------------------------
(* Taxes.  A tax of an invoice line has a type, a rate (None when the        *)
(* document gives none) and an exemption reason.                             *)

OrdinaryVat(tax) ==
    /\ tax.type = "VAT"
    /\ tax.rate # None
    /\ tax.rate > 0
    /\ tax.reason = None
    /\ tax.named \in {None, tax.rate}

FindTaxCandidates(w, rate) ==
    {t.id : t \in {u \in w.taxes : /\ u.rate = rate
                                   /\ u.use = "purchase"
                                   /\ u.plain
                                   /\ u.active
                                   /\ u.company = Own}}

TaxResult(status, id, by) == [status |-> status, id |-> id, by |-> by]

MapTax(w, line, tax) ==
    IF line.num = None \/ ~OrdinaryVat(tax)
    THEN TaxResult("INVALID_INPUT", None, None)
    ELSE LET found == ByCount(FindTaxCandidates(w, tax.rate))
         IN  TaxResult(found.status, found.id, "rate")

\* A line with neither a number nor a tax cannot be mapped at all.
TaxMatch(inv, w) ==
    [errors  |-> \E i \in DOMAIN inv.lines : inv.lines[i].num = None /\ inv.lines[i].taxes = <<>>,
     results |-> [i \in DOMAIN inv.lines |->
                    [k \in DOMAIN inv.lines[i].taxes |->
                        MapTax(w, inv.lines[i], inv.lines[i].taxes[k])]]]

TaxResults(match) ==
    UNION {Range(match.results[i]) : i \in DOMAIN match.results}

-----------------------------------------------------------------------------
(* The stored source document and what it says about tax.                    *)

\* Exactly one stored document whose bytes still hash as recorded, that
\* parses, and that carries the invoice's own UUID; anything else is an issue
\* and carries no facts.
SourceVerified(inv) ==
    /\ inv.doc.count = 1
    /\ inv.doc.readable
    /\ inv.doc.hashed
    /\ inv.doc.valid
    /\ inv.doc.uuid # None
    /\ inv.doc.uuid = inv.uuid

SourceTaxReasons(inv) ==
    IF ~SourceVerified(inv) THEN {"SOURCE_DOCUMENT_UNVERIFIED"}
    ELSE {c \in {"WITHHOLDING_TAX_NOT_SUPPORTED", "UNSUPPORTED_INVOICE_CONTENT"} :
            \/ c = "WITHHOLDING_TAX_NOT_SUPPORTED" /\ inv.doc.withholding
            \/ c = "UNSUPPORTED_INVOICE_CONTENT" /\ inv.doc.nonVat}

DocumentProblem(inv) ==
    \/ inv.doc.withholding
    \/ inv.doc.nonVat
    \/ inv.doc.type # "ISTISNA"
    \/ inv.type # "ISTISNA"
    \/ inv.doc.lines = None

\* Nothing outside the paths the extractor reads, an invoice-level tax total,
\* every tax total zero with a subtotal, one monetary total, the same before
\* and after tax and in the imported invoice.
CompletenessProblem(inv) ==
    \/ inv.doc.unrecognized # 0
    \/ inv.doc.taxTotals = <<>>
    \/ \E t \in Range(inv.doc.taxTotals) : t.amount # 0 \/ t.subtotals = 0
    \/ inv.doc.monetaryTotals # 1
    \/ None \notin {inv.doc.exclusive, inv.doc.inclusive} /\ inv.doc.exclusive # inv.doc.inclusive
    \/ inv.totals.exclusive # inv.doc.exclusive
    \/ inv.totals.inclusive # inv.doc.inclusive

CanonicalTaxMatches(tax, fact) ==
    /\ tax.type = "VAT"
    /\ tax.rate = fact.percent
    /\ tax.amount = fact.amount
    /\ tax.base = fact.base
    /\ tax.reason = fact.code

\* The lines and their single taxes are the ones the invoice was built from.
AlignmentProblem(inv) ==
    LET nums == [i \in DOMAIN inv.lines |-> inv.lines[i].num]
    IN  \/ inv.lines = <<>>
        \/ inv.doc.lines # nums
        \/ None \in Range(nums)
        \/ ~IsInjective(nums)
        \/ \E i \in DOMAIN inv.lines : Len(inv.lines[i].taxes) # 1
        \/ [k \in DOMAIN inv.doc.subtotals |-> inv.doc.subtotals[k].line] # nums
        \/ \E i \in DOMAIN inv.lines :
                ~CanonicalTaxMatches(inv.lines[i].taxes[1], inv.doc.subtotals[i])

ExemptFactProblem(fact) ==
    \/ fact.typeCode # "0015"
    \/ fact.code \notin Approved
    \/ fact.amount # 0
    \/ fact.percent \notin {None, 0}
    \/ fact.base = None
    \/ fact.base # None /\ fact.base < 0

BaseSum(facts) == FoldSeq(LAMBDA f, acc : f.base + acc, 0, facts)

InvoiceLevelProblem(inv, code) ==
    \/ inv.doc.invSubtotals = <<>>
    \/ \E f \in Range(inv.doc.invSubtotals) : ExemptFactProblem(f) \/ f.code # code
    \/ BaseSum(inv.doc.invSubtotals) # BaseSum(inv.doc.subtotals)

\* The one exemption code the verified document proves for the whole invoice.
ExemptionCode(inv) ==
    IF DocumentProblem(inv) \/ CompletenessProblem(inv) \/ AlignmentProblem(inv) THEN None
    ELSE LET codes == {f.code : f \in Range(inv.doc.subtotals)}
             code  == CHOOSE c \in codes : TRUE
         IN  IF \/ \E f \in Range(inv.doc.subtotals) : ExemptFactProblem(f)
                \/ Cardinality(codes) # 1
                \/ InvoiceLevelProblem(inv, code)
             THEN None
             ELSE code

\* cfg maps a code to the Odoo tax configured for it (None: not configured);
\* a configuration with an unapproved code, the generic tax or one tax for
\* two codes is refused at start-up.
ValidExemptionConfig(cfg) ==
    /\ \A c \in DOMAIN cfg : cfg[c] # None => c \in Approved /\ cfg[c] # Generic0
    /\ \A c, d \in DOMAIN cfg : cfg[c] = cfg[d] /\ cfg[c] # None => c = d

ConfiguredTax(cfg, code) == IF code \in DOMAIN cfg THEN cfg[code] ELSE None

\* The configured tax is read from Odoo again, archived or not, and must be
\* exactly the plain dedicated 0% purchase tax it was set up as.
ExemptionTaxValid(w, id, code) ==
    /\ id # Generic0
    /\ \E t \in w.taxes :
        /\ t.id = id
        /\ t.active
        /\ t.company = Own
        /\ t.use = "purchase"
        /\ t.plain
        /\ t.rate = 0
        /\ t.token = code

ExemptionResult(code, id) == TaxResult("MATCHED", id, code)

\* A proven exemption replaces the whole mapping or nothing of it.
MapExemption(inv, match, w, cfg) ==
    LET code == ExemptionCode(inv)
        id   == ConfiguredTax(cfg, code)
    IN  IF /\ SourceVerified(inv)
           /\ code # None
           /\ id # None
           /\ ExemptionTaxValid(w, id, code)
           /\ ~match.errors
           /\ \A r \in TaxResults(match) : r.status = "INVALID_INPUT"
        THEN [match EXCEPT !.results = [i \in DOMAIN @ |->
                [k \in DOMAIN @[i] |-> ExemptionResult(code, id)]]]
        ELSE match

\* A result that claims an exemption, however it got into the evidence.
ExemptionPinned(match, cfg) ==
    \E r \in TaxResults(match) :
        \/ r.by \notin {None, "rate"}
        \/ r.id # None /\ \E c \in DOMAIN cfg : cfg[c] = r.id

\* Before a bill is decided, previewed or written, an exemption in its
\* evidence is proven once more from the document, the configuration and Odoo.
ExemptionStillProven(inv, match, w, cfg) ==
    LET code == ExemptionCode(inv)
        id   == ConfiguredTax(cfg, code)
    IN  \/ ~ExemptionPinned(match, cfg)
        \/ /\ code # None
           /\ id # None
           /\ ~match.errors
           /\ DOMAIN match.results = DOMAIN inv.lines
           /\ \A i \in DOMAIN inv.lines : DOMAIN match.results[i] = DOMAIN inv.lines[i].taxes
           /\ \A r \in TaxResults(match) : r = ExemptionResult(code, id)
           /\ ExemptionTaxValid(w, id, code)

\* ensure_vendor_bill_tax_allowed: a verified document without a reason, and
\* any exemption still proven.
SourceTaxAllowed(inv, match, w, cfg) ==
    SourceTaxReasons(inv) = {} /\ ExemptionStillProven(inv, match, w, cfg)

-----------------------------------------------------------------------------
(* Operating expenses.                                                       *)

ExpenseResult(status, account, by) == [status |-> status, account |-> account, by |-> by]
NoExpense(status) == ExpenseResult(status, None, None)

OperatingExpenseMatch(w, partner) ==
    LET rows == {m \in w.mappings : m.partner = partner.id}
    IN  CASE partner.status # "MATCHED" \/ rows = {} -> NoExpense("NOT_FOUND")
          [] Cardinality(rows) > 1 -> NoExpense("MULTIPLE_MATCHES")
          [] OTHER -> ExpenseResult("MATCHED", (CHOOSE m \in rows : TRUE).account, "company_partner")

=============================================================================

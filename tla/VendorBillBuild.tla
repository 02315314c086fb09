---------------------------- MODULE VendorBillBuild ----------------------------
(* From accepted evidence to the draft bill sent to Odoo: which account or   *)
(* product each line books, the money a line and the bill carry, the checks  *)
(* that refuse a bill with other economics than the invoice, the exchange    *)
(* rate it is written with, and the comparison of the bill found in Odoo.    *)
(*                                                                           *)
(* Amounts are whole multiples of the price quantum (0.000001 in the code);  *)
(* a currency's precision is the size of its smallest amount in that unit.   *)
(* Rates of exchange are whole numbers of company amounts per amount.        *)
EXTENDS AccountingPins

CONSTANTS
    CompanyCurrency,     \* the company's own currency
    LegacyTolerance      \* what the decision-time check forgives, in price quanta

-----------------------------------------------------------------------------
(* Money.                                                                    *)

\* n / d, ties away from zero.
RoundHalfUp(n, d) ==
    IF n >= 0 THEN (2 * n + d) \div (2 * d) ELSE -((2 * (-n) + d) \div (2 * d))

Abs(n) == IF n < 0 THEN -n ELSE n

CurrencyRound(amount, precision) == RoundHalfUp(amount, precision) * precision

MonetaryEqual(a, b, precision) == CurrencyRound(a, precision) = CurrencyRound(b, precision)

SumSeq(s) == FoldSeq(LAMBDA x, acc : x + acc, 0, s)

\* A discount of nothing does not make a line a discounted one.
EconomicallyNeutral(d) == d.amount = 0 /\ d.rate \in {None, 0}

\* The positions of the others.
EconomicDiscounts(line) == {k \in DOMAIN line.discounts : ~EconomicallyNeutral(line.discounts[k])}

LineGross(line) == line.qty * line.price

LineDiscount(line) ==
    SumSeq([k \in DOMAIN line.discounts |->
              IF k \in EconomicDiscounts(line) /\ line.discounts[k].amount # None THEN line.discounts[k].amount ELSE 0])

\* The document's own line amount, unless the line is discounted.
LineNet(line) ==
    IF EconomicDiscounts(line) = {} /\ line.ext # None
    THEN line.ext
    ELSE LineGross(line) - LineDiscount(line)

\* The source's price where it gives the net amount, the net amount divided
\* otherwise.
NetUnitPrice(line, precision) ==
    IF \/ LineGross(line) = LineNet(line)
       \/ /\ precision # None
          /\ EconomicDiscounts(line) = {}
          /\ MonetaryEqual(LineGross(line), LineNet(line), precision)
    THEN line.price
    ELSE RoundHalfUp(LineNet(line), line.qty)

DiscountErrors(line, precision) ==
    /\ EconomicDiscounts(line) # {}
    /\ \/ \E k \in EconomicDiscounts(line) : line.discounts[k].amount = None
       \/ LineDiscount(line) < 0
       \/ IF precision = None
          THEN LineDiscount(line) > LineGross(line) + LegacyTolerance
          ELSE CurrencyRound(LineDiscount(line), precision) > CurrencyRound(LineGross(line), precision)

Priced(inv) == SelectSeq(inv.lines, LAMBDA l : l.price # None /\ l.qty # None)

TotalsInvariantErrors(inv, precision) ==
    LET target == inv.totals.exclusive
        nets   == [i \in DOMAIN Priced(inv) |-> LineNet(Priced(inv)[i])]
    IN  \/ target = None
        \/ IF precision = None
           THEN SumSeq(nets) - target \notin -LegacyTolerance .. LegacyTolerance
           ELSE ~MonetaryEqual(SumSeq([i \in DOMAIN nets |-> CurrencyRound(nets[i], precision)]),
                               target, precision)

-----------------------------------------------------------------------------
(* Which lines book what.  `d' is the accepted evidence, `o' the rest of the *)
(* builder's arguments: the account-only lines with their explicit accounts  *)
(* and the supplier-wide fallback, the validated accounts of a resale or an  *)
(* internal-use purchase by line number (None: no such purchase), and the    *)
(* currency's precision (None: not known yet).                               *)

NumsOf(inv) == {inv.lines[i].num : i \in DOMAIN inv.lines}

ExpenseMode(inv, d) ==
    /\ d.expense # None
    /\ d.expense.status = "MATCHED"
    /\ d.expense.account # None
    /\ InvoiceIdentifierFree(inv)

FallbackAccount(expense) ==
    IF expense # None /\ expense.status = "MATCHED" THEN expense.account ELSE None

AccountOnlyAccount(o, num) ==
    IF num \in DOMAIN o.explicit THEN o.explicit[num] ELSE FallbackAccount(o.fallback)

\* An identifier-free invoice has no product result that says anything.
ProductShapeErrors(d) == \E i \in DOMAIN d.product : d.product[i].status # "INVALID_INPUT"

\* Every line that must have a product has exactly one matched product.
ProductErrors(inv, d, accountOnly) ==
    LET lines == {i \in DOMAIN inv.lines : inv.lines[i].num \notin accountOnly}
    IN  \/ \E i \in lines : d.product[i].status # "MATCHED"
        \/ \E i, j \in lines : i # j /\ inv.lines[i].num = inv.lines[j].num

TaxErrors(inv, d) ==
    \/ d.tax.errors
    \/ \E r \in TaxResults(d.tax) : r.status # "MATCHED" \/ r.id = None
    \/ \E i, j \in DOMAIN inv.lines : /\ i # j
                                      /\ inv.lines[i].num = inv.lines[j].num
                                      /\ inv.lines[i].taxes # <<>> /\ inv.lines[j].taxes # <<>>

\* The workbench asks the same question before it offers a bill.
TaxLinesFullyMatched(inv, tax) ==
    /\ ~tax.errors
    /\ \A r \in TaxResults(tax) : r.status = "MATCHED" /\ r.id # None

LineErrors(inv, o) ==
    \E i \in DOMAIN inv.lines :
        LET line == inv.lines[i]
        IN  \/ line.num = None
            \/ line.qty = None \/ line.price = None
            \/ line.qty # None /\ line.qty <= 0
            \/ line.price # None /\ line.price < 0
            \/ line.qty # None /\ line.price # None /\ DiscountErrors(line, o.precision)

HeaderErrors(inv, d) ==
    \/ d.partner.status # "MATCHED"
    \/ inv.number = None
    \/ inv.date = None
    \/ inv.currency = None
    \/ inv.lines = <<>>

\* The accounts validated for a resale or an internal-use purchase cover
\* every line, and each names the line's own product.
LineAccountErrors(inv, d, accounts, accountOnly) ==
    \/ DOMAIN accounts = {}
    \/ ExpenseMode(inv, d) \/ accountOnly # {}
    \/ DOMAIN accounts # NumsOf(inv)
    \/ \E i \in DOMAIN inv.lines : /\ inv.lines[i].num \in DOMAIN accounts
                                   /\ d.product[i].id # accounts[inv.lines[i].num].product

FixedAssetErrors(inv, d, o) ==
    \/ o.internal # None \/ o.resale # None
    \/ d.expense # None
    \/ o.accountOnly # {} \/ DOMAIN o.explicit # {}
    \/ HeaderErrors(inv, d)
    \/ ~InvoiceIdentifierFree(inv)
    \/ ProductShapeErrors(d)
    \/ TaxErrors(inv, d)
    \/ \E i \in DOMAIN inv.lines : inv.lines[i].desc = None
    \/ LineErrors(inv, o)

ProductSourceErrors(inv, d, o) ==
    \/ inv.productSource /\ (o.accountOnly # {} \/ DOMAIN o.explicit # {})
    \/ AmbiguousCommercial(inv) /\ (d.expense = None \/ d.expense.by # "review")

\* The problems other than the discounted totals.
StructureErrors(inv, d, o) ==
    LET accountOnly == IF ExpenseMode(inv, d) THEN {} ELSE o.accountOnly
    IN  \/ ProductSourceErrors(inv, d, o)
        \/ \E num \in accountOnly : AccountOnlyAccount(o, num) = None
        \/ HeaderErrors(inv, d)
        \/ IF ExpenseMode(inv, d) THEN ProductShapeErrors(d) ELSE ProductErrors(inv, d, accountOnly)
        \/ TaxErrors(inv, d)
        \/ LineErrors(inv, o)

\* validate_vendor_bill_inputs
BillInputErrors(inv, d, o) ==
    LET accountOnly == IF ExpenseMode(inv, d) THEN {} ELSE o.accountOnly
        discounted  == \E i \in DOMAIN inv.lines : EconomicDiscounts(inv.lines[i]) # {}
    IN  \/ IsReturn(inv)
        \/ IF d.asset # None
           THEN FixedAssetErrors(inv, d, o) \/ (discounted /\ TotalsInvariantErrors(inv, o.precision))
           ELSE \/ StructureErrors(inv, d, o)
                \/ discounted /\ TotalsInvariantErrors(inv, o.precision)
                \/ o.resale # None /\ LineAccountErrors(inv, d, o.resale, accountOnly)
                \/ o.internal # None /\ o.resale # None
                \/ o.internal # None /\ LineAccountErrors(inv, d, o.internal, accountOnly)

-----------------------------------------------------------------------------
(* The bill.                                                                 *)

TaxIds(d, i) == [k \in DOMAIN d.tax.results[i] |-> d.tax.results[i][k].id]

\* An account-only line: an expense, or an asset to be depreciated.
ExpenseLine(line, account, taxes, precision) ==
    [product |-> None, account |-> account, qty |-> line.qty,
     price |-> NetUnitPrice(line, precision), taxes |-> taxes, depreciated |-> FALSE]

FixedAssetLine(line, account, taxes, precision) ==
    [ExpenseLine(line, account, taxes, precision) EXCEPT !.depreciated = TRUE]

\* A product line leaves its account to Odoo unless a pin names it.
ProductLine(line, product, account, taxes, precision) ==
    [product |-> product, account |-> account, qty |-> line.qty,
     price |-> NetUnitPrice(line, precision), taxes |-> taxes, depreciated |-> FALSE]

PinnedAccount(o, num) ==
    CASE o.resale # None -> o.resale[num].account
      [] o.resale = None /\ o.internal # None -> o.internal[num].account
      [] OTHER -> None

BuildLine(inv, d, o, i) ==
    LET line == inv.lines[i]
    IN  CASE d.asset # None -> FixedAssetLine(line, d.asset, TaxIds(d, i), o.precision)
          [] d.asset = None /\ ExpenseMode(inv, d) ->
                ExpenseLine(line, d.expense.account, TaxIds(d, i), o.precision)
          [] d.asset = None /\ ~ExpenseMode(inv, d) /\ line.num \in o.accountOnly ->
                ExpenseLine(line, AccountOnlyAccount(o, line.num), TaxIds(d, i), o.precision)
          [] OTHER -> ProductLine(line, d.product[i].id, PinnedAccount(o, line.num), TaxIds(d, i), o.precision)

Build(inv, d, o) ==
    [supplier |-> d.partner.id,
     currency |-> inv.currency,
     rate     |-> None,
     lines    |-> [i \in DOMAIN inv.lines |-> BuildLine(inv, d, o, i)]]

-----------------------------------------------------------------------------
(* The money of the bill against the money of the invoice.                   *)

\* A tax without a rate, the exempt one, contributes nothing.
LineTax(line) ==
    SumSeq([k \in DOMAIN line.taxes |-> IF line.taxes[k].rate = None THEN 0 ELSE LineNet(line) * line.taxes[k].rate])

Subtotal(line) == line.qty * line.price

BillMoney(inv, bill, precision) ==
    LET untaxed == SumSeq([i \in DOMAIN bill.lines |-> CurrencyRound(Subtotal(bill.lines[i]), precision)])
        tax     == RoundHalfUp(SumSeq([i \in DOMAIN inv.lines |-> LineTax(inv.lines[i])]),
                               100 * precision) * precision
    IN  [untaxed |-> untaxed, tax |-> tax, total |-> untaxed + tax]

LineMismatches(inv, bill, precision) ==
    \/ DOMAIN bill.lines # DOMAIN inv.lines
    \/ \E i \in DOMAIN inv.lines :
            ~MonetaryEqual(Subtotal(bill.lines[i]), LineNet(inv.lines[i]), precision)

SourceTax(inv) ==
    LET taxes == FlattenSeq([i \in DOMAIN inv.lines |-> inv.lines[i].taxes])
    IN  IF \E k \in DOMAIN taxes : taxes[k].amount = None THEN None
        ELSE SumSeq([k \in DOMAIN taxes |-> taxes[k].amount])

SourceTotals(inv) ==
    [untaxed |-> inv.totals.exclusive, tax |-> SourceTax(inv), total |-> inv.totals.inclusive]

\* An amount the document does not give is reported by the preview but does
\* not stop the bill.
AmountMismatch(actual, expected, precision) ==
    actual = None \/ expected = None \/ ~MonetaryEqual(actual, expected, precision)

\* vendor_bill_monetary_errors
MonetaryErrors(inv, bill, precision) ==
    LET money  == BillMoney(inv, bill, precision)
        source == SourceTotals(inv)
    IN  \/ LineMismatches(inv, bill, precision)
        \/ \E f \in DOMAIN source :
                source[f] # None /\ AmountMismatch(money[f], source[f], precision)

\* The preview's monetary_mismatches
PreviewMismatches(inv, bill, precision) ==
    LET money  == BillMoney(inv, bill, precision)
        source == SourceTotals(inv)
    IN  \/ LineMismatches(inv, bill, precision)
        \/ \E f \in DOMAIN source : AmountMismatch(money[f], source[f], precision)

-----------------------------------------------------------------------------
(* Exchange rates.  The document states rates [element, from, to, rate].     *)

FxPlan(status, rate, total) == [status |-> status, rate |-> rate, total |-> total]
FxBlocked(plan) == plan.status \notin {"not_applicable", "source_rate_selected"}

ConvertToCompany(amount, rate, precision) == CurrencyRound(amount * rate, precision)

StatedRates(inv, element) == {k \in DOMAIN inv.doc.rates : inv.doc.rates[k].element = element}

\* The document that carries the rate is verified like the tax document, and
\* a document that does not verify carries no rate.
FxFactsVerified(inv) == SourceVerified(inv)

\* The one pricing rate the verified document states, in the one direction
\* that is never guessed, contradicted by nothing else it states.
SelectRate(inv, w, subtotals, tax) ==
    LET pricing == StatedRates(inv, "PricingExchangeRate")
        stated  == inv.doc.rates[CHOOSE k \in pricing : TRUE]
        total   == SumSeq([i \in DOMAIN subtotals |->
                            ConvertToCompany(subtotals[i], stated.rate, w.companyPrecision)])
                   + ConvertToCompany(tax, stated.rate, w.companyPrecision)
        contradicted ==
            \E k \in DOMAIN inv.doc.rates : /\ inv.doc.rates[k].from = inv.currency
                                            /\ inv.doc.rates[k].to = CompanyCurrency
                                            /\ inv.doc.rates[k].rate # stated.rate
        blocked(status) == FxPlan(status, None, None)
    IN  IF inv.currency = CompanyCurrency THEN blocked("not_applicable")
        ELSE IF ~FxFactsVerified(inv) THEN blocked("unverified_source_document")
        ELSE IF inv.doc.currency # inv.currency THEN blocked("source_rate_contradictory")
        ELSE IF pricing = {} THEN blocked("source_rate_missing")
        ELSE IF Cardinality(pricing) > 1 THEN blocked("source_rate_contradictory")
        ELSE IF stated.from # inv.currency \/ stated.to # CompanyCurrency
             THEN blocked("source_rate_direction_invalid")
        ELSE IF stated.rate = None THEN blocked("source_rate_invalid")
        ELSE IF stated.rate <= 0 THEN blocked("source_rate_invalid")
        ELSE IF inv.rate # stated.rate \/ contradicted THEN blocked("source_rate_contradictory")
        ELSE FxPlan("source_rate_selected", stated.rate, total)

PlanRate(inv, bill, w, precision) ==
    SelectRate(inv, w,
               [i \in DOMAIN bill.lines |-> CurrencyRound(Subtotal(bill.lines[i]), precision)],
               BillMoney(inv, bill, precision).tax)

\* What Odoo books for a draft at the rate it carries, in both currencies.
CompanyAmounts(draft, tax, w, precision) ==
    LET book(amount) == [amount |-> amount, balance |-> ConvertToCompany(amount, draft.rate, w.companyPrecision)]
    IN  [products |-> [i \in DOMAIN draft.lines |-> book(CurrencyRound(Subtotal(draft.lines[i]), precision))],
         tax      |-> book(tax)]

\* A bill in another currency is read back and checked: draft, rate, every
\* line and the tax to the rounding Odoo may do, and the payable (here the sum
\* of the other lines, as Odoo balances a move) against the plan.
FxMismatches(plan, draft, amounts, quantum) ==
    LET n            == Len(amounts.products)
        within(l, t) == Abs(Abs(l.balance) - ConvertToCompany(Abs(l.amount), plan.rate, quantum)) <= t
        payable      == SumSeq([i \in DOMAIN amounts.products |-> amounts.products[i].balance])
                        + amounts.tax.balance
    IN  \/ draft.state # "draft"
        \/ draft.rate # plan.rate
        \/ n = 0
        \/ \E i \in DOMAIN amounts.products : ~within(amounts.products[i], quantum)
        \/ ~within(amounts.tax, quantum * Max({1, n}))
        \/ Abs(Abs(payable) - plan.total) > quantum * (n + Max({1, n}))

-----------------------------------------------------------------------------
(* The bill as it is found in Odoo later.  `expected' is a preview.          *)

\* Odoo's lines are matched with the expected ones as a multiset of product,
\* quantity and price: every line takes an expected line that is left.
LineKey(l) == [product |-> l.product, qty |-> l.qty, price |-> l.price]

SameLines(found, expected) ==
    /\ Len(found) = Len(expected)
    /\ \A k \in {LineKey(found[i]) : i \in DOMAIN found} :
        Cardinality({i \in DOMAIN found : LineKey(found[i]) = k})
            <= Cardinality({i \in DOMAIN expected : LineKey(expected[i]) = k})

\* compare_vendor_bill_money: the amounts Odoo computed for the draft.
MoneyMismatches(inv, expected, draft, money, precision) ==
    \/ draft.currency # expected.currency
    \/ ~SameLines(draft.lines, expected.lines)
    \/ AmountMismatch(money.untaxed, expected.money.untaxed, precision)
    \/ \E f \in {"untaxed", "tax", "total"} : AmountMismatch(money[f], SourceTotals(inv)[f], precision)

\* The products of a pinned purchase, each on the account pinned for it.
PinMismatches(pins, draft) ==
    LET products(f) == [x \in {f[k].product : k \in DOMAIN f} |->
                            Cardinality({k \in DOMAIN f : f[k].product = x})]
    IN  \/ Len(draft.lines) # Cardinality(DOMAIN pins)
        \/ products(draft.lines) # products(pins)
        \/ \E i \in DOMAIN draft.lines, num \in DOMAIN pins :
                /\ draft.lines[i].product = pins[num].product
                /\ draft.lines[i].account # pins[num].account

=============================================================================

---------------------------- MODULE MCInvoiceToBill ----------------------------
(* A small company: one supplier and a double of it, two products of one     *)
(* category, an expense, a stock and an asset account, ordinary and exempt   *)
(* taxes; the invoices and the changes of the master data are the cases the  *)
(* code tells apart.  Prices are in units of which ten make a kurus.         *)
EXTENDS InvoicePaths, TLC

Exp1 == 770
Exp2 == 771
Stock == 153
Asset == 255

MCAccounts == {Exp1, Exp2, Stock}
MCAssetAccounts == {Asset}
MCApproved == {"c335"}
MCExemptionConfig == "c335" :> 90
LegacySymmetry == Permutations(LegacyRequests)
MCJournal == [id |-> None, code |-> "BILL"]
MCEffects == {[mode |-> "match_existing", partner |-> 1], [mode |-> "one_off_vendor", partner |-> 9]}

NoChoice == <<>>
MCLineChoices ==
    {NoChoice,
     2 :> [product |-> 11, account |-> None],
     2 :> [product |-> None, account |-> Exp1]}

-----------------------------------------------------------------------------
Acc(id, code, type) == [id |-> id, company |-> Own, deprecated |-> FALSE, code |-> code, type |-> type]
Partner(id, vat, commercial) ==
    [id |-> id, name |-> "n", vat |-> vat, active |-> TRUE, commercial |-> commercial, company |-> None, fiscal |-> None]
Product(id, code, tmpl) ==
    [id |-> id, name |-> IF id = 10 THEN "d" ELSE code, code |-> code, barcode |-> None, active |-> TRUE, company |-> None, tmpl |-> tmpl,
     category |-> 41, override |-> None, storable |-> FALSE]
Tax(id, rate, token) ==
    [id |-> id, rate |-> rate, use |-> "purchase", plain |-> TRUE, active |-> TRUE, company |-> Own, token |-> token]

Base ==
    [partners     |-> {Partner(1, "v1", None), Partner(9, None, None)},
     products     |-> {Product(10, "c10", 100), Product(11, "c11", 101)},
     supplierinfo |-> {[partner |-> 1, code |-> "s1", tmpl |-> 100, variant |-> None, company |-> None]},
     taxes        |-> {Tax(20, 20, None), Tax(90, 0, "c335")},
     mappings     |-> {},
     accounts     |-> {Acc(Exp1, "770100", "expense"), Acc(Exp2, "770200", "expense"), Acc(Stock, "153200", "asset")},
     categories   |-> {[id |-> 41, account |-> Stock]},
     fiscal       |-> {},
     companies    |-> {Own},
     journals     |-> {[id |-> 7, code |-> "BILL", type |-> "purchase"], [id |-> 8, code |-> "BILL", type |-> "general"]},
     precision    |-> [TRY |-> 10, USD |-> 10],
     companyPrecision |-> 10,
     autoRate     |-> 2]

Fiscal(auto) == [id |-> 5, auto |-> auto, active |-> TRUE, company |-> Own, maps |-> {Stock, Exp1}, to |-> Exp2]

MCWorlds ==
    [base |-> Base,
     doubled     |-> [Base EXCEPT !.partners = @ \cup {Partner(2, "v1", 2)}],
     unnumbered  |-> [Base EXCEPT !.partners = {Partner(1, None, None), Partner(9, None, None)}],
     archived    |-> [Base EXCEPT !.products = {[p EXCEPT !.active = p.id # 10] : p \in @}],
     twoProducts |-> [Base EXCEPT !.supplierinfo =
                        @ \cup {[partner |-> 1, code |-> "s1", tmpl |-> 101, variant |-> None, company |-> None]}],
     recategorised |-> [Base EXCEPT !.categories = {[id |-> 41, account |-> Exp2]}],
     renumbered  |-> [Base EXCEPT !.accounts = {[a EXCEPT !.code = IF a.id = Stock THEN "153999" ELSE @] : a \in @}],
     deprecated  |-> [Base EXCEPT !.accounts = {[a EXCEPT !.deprecated = a.id = Exp1] : a \in @}],
     mappedForAll |-> [Base EXCEPT !.fiscal = {Fiscal(TRUE)}],
     mappedForOne |-> [Base EXCEPT !.fiscal = {Fiscal(FALSE)}, !.partners = {[p EXCEPT !.fiscal = 5] : p \in @}],
     expenseMapped |-> [Base EXCEPT !.mappings = {[partner |-> 1, account |-> Exp1]}],
     exemptArchived |-> [Base EXCEPT !.taxes = {[t EXCEPT !.active = t.id # 90] : t \in @}],
     finer       |-> [Base EXCEPT !.precision = [TRY |-> 1, USD |-> 1]]]

\* One thing changes at a time: to the ordinary state, or away from it.
MCDrifts == {<<a, b>> \in (DOMAIN MCWorlds) \X (DOMAIN MCWorlds) : a # b /\ "base" \in {a, b}}

-----------------------------------------------------------------------------
Vat(rate, base) == [type |-> "VAT", rate |-> rate, reason |-> None, named |-> None,
                    amount |-> (rate * base) \div 100, base |-> base]
Line(num, seller, qty, price) ==
    [num |-> num, seller |-> seller, buyer |-> None, barcode |-> None, skus |-> {}, commodity |-> None,
     desc |-> "d", qty |-> qty, price |-> price, ext |-> qty * price, discounts |-> <<>>,
     taxes |-> <<Vat(20, qty * price)>>]

PlainDoc == [count |-> 1, readable |-> TRUE, hashed |-> TRUE, valid |-> TRUE, uuid |-> "u", withholding |-> FALSE,
             nonVat |-> FALSE, type |-> "SATIS", lines |-> <<1>>, unrecognized |-> 0, taxTotals |-> <<>>,
             monetaryTotals |-> 1, exclusive |-> 1000, inclusive |-> 1200, subtotals |-> <<>>,
             invSubtotals |-> <<>>, currency |-> "TRY", rates |-> <<>>]

Plain(lines) ==
    [number |-> "n", supplier |-> "n", date |-> 9, vat |-> "v1", type |-> "SATIS", uuid |-> "u", currency |-> "TRY", rate |-> None,
     productSource |-> FALSE, lines |-> lines, totals |-> [exclusive |-> 1000, inclusive |-> 1200], doc |-> PlainDoc]

Coded == Plain(<<Line(1, "s1", 2, 500)>>)
Service == Plain(<<Line(1, None, 2, 500)>>)

\* 3 x 350, less 50: the net 1000 is not a multiple of the quantity.
Discounted ==
    Plain(<<[Line(1, "s1", 3, 350) EXCEPT !.discounts = <<[amount |-> 50, rate |-> None], [amount |-> 0, rate |-> 0]>>,
                                          !.taxes = <<Vat(20, 1000)>>]>>)

\* 2 x 501 is the line's 1000 to the kurus, not beyond.
Rounded == Plain(<<[Line(1, "s1", 2, 501) EXCEPT !.ext = 1000, !.taxes = <<Vat(20, 1000)>>]>>)

Rate(element, rate) == [element |-> element, from |-> "USD", to |-> "TRY", rate |-> rate]
Dollars ==
    [Coded EXCEPT !.currency = "USD", !.rate = 3,
                  !.doc.currency = "USD", !.doc.rates = <<Rate("PricingExchangeRate", 3)>>]

ExemptFact(line) == [line |-> line, percent |-> 0, amount |-> 0, base |-> 1000, code |-> "c335", typeCode |-> "0015"]
Exempt ==
    [Plain(<<[Line(1, "s1", 2, 500) EXCEPT
                !.taxes = <<[type |-> "VAT", rate |-> 0, reason |-> "c335", named |-> None, amount |-> 0, base |-> 1000]>>]>>)
        EXCEPT !.type = "ISTISNA", !.totals.inclusive = 1000,
               !.doc.type = "ISTISNA", !.doc.inclusive = 1000,
               !.doc.taxTotals = <<[amount |-> 0, subtotals |-> 1]>>,
               !.doc.subtotals = <<ExemptFact(1)>>, !.doc.invSubtotals = <<ExemptFact(None)>>]

MCInvoices ==
    [coded       |-> Coded,
     service     |-> Service,
     rounded     |-> Rounded,
     discounted  |-> Discounted,
     dollars     |-> Dollars,
     twoRates    |-> [Dollars EXCEPT !.doc.rates = @ \o <<Rate("PaymentExchangeRate", 4)>>],
     unverified  |-> [Dollars EXCEPT !.doc.hashed = FALSE],
     noRate      |-> [Dollars EXCEPT !.doc.rates = <<>>],
     exempt      |-> Exempt,
     return      |-> [Coded EXCEPT !.type = "IADE"],
     unreadableReturn |-> [Coded EXCEPT !.type = "TEVKIFATIADE", !.doc.hashed = FALSE],
     wrongTotal  |-> [Coded EXCEPT !.totals.inclusive = 1300],
     wrongLine   |-> [Coded EXCEPT !.lines[1].ext = 990, !.totals = [exclusive |-> 990, inclusive |-> 1190]],
     ambiguous   |-> [Service EXCEPT !.productSource = TRUE],
     twoLines    |-> Plain(<<Line(1, "s1", 1, 500), Line(2, None, 1, 500)>>)]

-----------------------------------------------------------------------------
MCUpper(text) == IF text = "sku" THEN "SKU" ELSE text
MCActiveCurrencies == 31 :> "TRY" @@ 32 :> "USD"

Rule(code, workflow) ==
    [id |-> code, code |-> code, version |-> 1, active |-> TRUE, priority |-> 5, company |-> None, partner |-> None, vat |-> None,
     currency |-> None, type |-> None, po |-> "any", terms |-> {}, product |-> None,
     workflow |-> workflow, class |-> None, review |-> FALSE, context |-> FALSE]

OfVendor  == [Rule(1, "VENDOR_BILL") EXCEPT !.partner = 1]
OfProduct == [Rule(2, "VENDOR_BILL") EXCEPT !.product = 10, !.company = Own, !.class = "GOODS"]
OfText    == [Rule(3, "MANUAL_REVIEW") EXCEPT !.terms = {"d"}, !.type = "SATIS", !.review = TRUE]
OfTaxId   == [Rule(4, "MANUAL_REVIEW") EXCEPT !.vat = "v1", !.priority = 9]

MCRuleSets ==
    [plain     |-> <<OfTaxId, OfVendor, OfProduct>>,
     tied      |-> <<OfText, OfProduct, [OfText EXCEPT !.id = 5, !.code = 5]>>,
     narrower  |-> <<[OfVendor EXCEPT !.id = 6, !.code = 6, !.currency = 31], OfVendor, OfTaxId>>,
     doubled   |-> <<OfTaxId, [OfTaxId EXCEPT !.id = 7, !.vat = None, !.terms = {"d"}], OfProduct>>,
     ordered   |-> <<[OfProduct EXCEPT !.po = "required"], [OfText EXCEPT !.active = FALSE], [OfTaxId EXCEPT !.company = "other"]>>,
     archived  |-> <<OfVendor, [OfText EXCEPT !.currency = 33], OfTaxId>>,
     malformed |-> <<OfVendor, [OfText EXCEPT !.workflow = "unknown"], OfTaxId>>]

-----------------------------------------------------------------------------
(* Two invoices of one number, and another without an ETTN.                  *)
MCOriginals == {"o1", "o2", "o3"}
MCOriginal ==
    LET o == [number |-> "N1", ettn |-> "e1", date |-> 5, type |-> "Sales", buyer |-> "v1", currency |-> "TRY"]
    IN  [o1 |-> o,
         o2 |-> [o EXCEPT !.ettn = "e2", !.date = 6],
         o3 |-> [o EXCEPT !.ettn = None, !.number = "N2"]]
MCOutbox0 ==
    LET at(place) == [place |-> place, status |-> "Approved"]
    IN  [o1 |-> at("active"), o2 |-> at("none"), o3 |-> at("active")]

Refers(number, date) == [number |-> number, gib |-> TRUE, date |-> date, dated |-> TRUE]
MCReferenceLists ==
    {<<>>, <<Refers("N1", 7)>>, <<Refers(None, 5)>>, <<Refers("N2", 5), Refers("N1", None)>>,
     <<Refers("N1", 5), Refers("N1", 5), Refers("N2", 5)>>}
MCBuyerCompanies == {None, <<Own>>, <<Own, Own>>}

=============================================================================

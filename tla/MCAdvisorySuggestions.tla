----------------------- MODULE MCAdvisorySuggestions -----------------------
(* One review, whose line names no product of the catalog by an identifier   *)
(* of the buyer.  The catalogs differ in what the engine makes of the line:  *)
(* similar names that tie and a third that does not, a price list that has   *)
(* learnt the supplier's code, one that has it in another spelling, and one  *)
(* whose row names a template with two variants.                             *)
EXTENDS AdvisorySuggestions

Plain(key, spelling) == [key |-> key, spelling |-> spelling, shape |-> "plain", product |-> ""]
Csp(product, sku) == [key |-> <<product, sku>>, spelling |-> 1, shape |-> "csp", product |-> product]
Sku(key) == [key |-> key, spelling |-> 1, shape |-> "sku", product |-> ""]

NoAttributes == [a \in Attributes |-> {}] @@ [capacity |-> <<>>]
Text(words) == NoAttributes @@ [words |-> words, meaningful |-> words]

Name(words, edition) == [Text(words) EXCEPT !.edition = edition]

MCRatio(text, name) == IF name = text THEN 100 ELSE IF name.words = text.words THEN 90 ELSE 75

Product(id, tmpl, code, name) ==
    [id |-> id, tmpl |-> tmpl, code |-> code, barcode |-> None, name |-> name, active |-> TRUE,
     purchaseOk |-> TRUE, company |-> None, categories |-> {"all"}]

Line(seller, maker, text) ==
    [num |-> 1, seller |-> seller, maker |-> maker, buyer |-> None, barcode |-> None, skus |-> {}, text |-> text]

MCLines == <<"a">>
MCFacts == [l \in {"a"} |-> Line(Plain("tfzp", 1), Csp("cfq", "0001"), Text({"windows", "standard", "vm", "core"}))]

Products == {
    Product(1, 1, None, Text({"windows", "standard", "vm", "core"})),
    Product(2, 2, None, Name({"windows", "standard", "vm", "core"}, {"standard"})),
    Product(3, 3, None, Text({"windows", "vm"})),
    Product(4, 3, Csp("cfq", "0002"), Text({"windows", "standard", "vm", "core"})),
    [Product(5, 2, None, Text({"windows"})) EXCEPT !.purchaseOk = FALSE]}

Row(code, tmpl, variant) == [partner |-> "s", code |-> code, company |-> None, tmpl |-> tmpl, variant |-> variant]

MCCatalogs == <<
    [products |-> Products, supplierinfo |-> {}],
    [products |-> Products, supplierinfo |-> {Row(Plain("tfzp", 1), 2, None)}],
    [products |-> Products, supplierinfo |-> {Row(Plain("tfzp", 2), 2, None)}],
    [products |-> {p \in Products : p.id # 1}, supplierinfo |-> {Row(Plain("tfzp", 1), 3, None)}]>>

MCPriors == {[supplier |-> "s", product |-> 3, seller |-> Plain("tfzp", 2), text |-> None]}
=============================================================================

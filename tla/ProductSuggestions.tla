------------------------- MODULE ProductSuggestions -------------------------
(* The advisory engine: which products of the catalog to suggest for an      *)
(* invoice line whose product was not found.  Four tiers: the supplier's     *)
(* code is by now in the price list (T0, alone and final), an identifier is  *)
(* equal (T1), the same supplier's line was mapped before (T2), the names    *)
(* are similar (T3).                                                         *)
(*                                                                           *)
(* A code has a spelling, a key (equal for spellings that differ in case or  *)
(* blanks only), a shape ("csp", "sku" or "plain") and, in a CSP identifier, *)
(* a product part.  A text is what normalisation leaves of it: its words,    *)
(* the meaningful ones, and the attributes that tell products apart.         *)
EXTENDS InvoiceMatching

CONSTANTS
    ManualOnlySuppliers,    \* suppliers of a variant catalog, by configuration
    ManualOnlyCategories,   \* categories of one
    Threshold, TieMargin, MaxSuggestions,
    Ratio(_, _)             \* character similarity of two texts, in percent

Attributes == {"family", "edition", "duration", "licence"}

Eligible(w) == {p \in w.products : p.active /\ p.purchaseOk /\ Visible(p.company)}

SkuShaped(code) == code # None /\ code.shape = "sku"
CspShaped(code) == code # None /\ code.shape = "csp"
SameKey(code, other) == code # None /\ other # None /\ code.key = other.key

IsVariantCatalogLine(line, supplier) ==
    supplier \in ManualOnlySuppliers \/ line.skus # {} \/ SkuShaped(line.seller)

IsVariantCatalogCandidate(p) == SkuShaped(p.code) \/ p.categories \cap ManualOnlyCategories # {}

\* The line names a manufacturer's identifier and the product carries another one.
IdentifierConflict(line, p) ==
    \E code \in {line.seller, line.maker} :
        /\ ~SameKey(code, p.code)
        /\ \/ CspShaped(code) /\ CspShaped(p.code)
           \/ SkuShaped(code) /\ SkuShaped(p.code)

\* Capacities are sets of counts per unit; an empty set is a unit without a count.
CapacityConflict(a, b) ==
    LET shared == DOMAIN a \cap DOMAIN b IN
    /\ DOMAIN a # {} /\ DOMAIN b # {}
    /\ shared = {} \/ \E u \in shared : a[u] # {} /\ b[u] # {} /\ a[u] # b[u]

AttributeConflict(text, name) ==
    \/ \E a \in Attributes : text[a] # {} /\ name[a] # {} /\ text[a] # name[a]
    \/ CapacityConflict(text.capacity, name.capacity)

Conflicts(text, name) == text # None /\ AttributeConflict(text, name)

---------------------------------------------------------------------------
(* T0.  The rows the matcher's own price list lookup would see.              *)

StaleRows(w, line, supplier) ==
    IF line.seller = None \/ supplier = None THEN {} ELSE SupplierInfos(w, supplier, line.seller)

SingleVariant(w, row) ==
    {p \in Eligible(w) : p.tmpl = row.tmpl /\ row.variant \in {None, p.id}}

\* The one product of the one row; no product when either is not single.
StaleSupplierinfo(w, line, supplier) ==
    LET rows  == StaleRows(w, line, supplier)
        found == UNION {SingleVariant(w, row) : row \in rows}
    IN  IF Cardinality(rows) = 1 /\ Cardinality(found) = 1 THEN {p.id : p \in found} ELSE {}

StaleNotes(w, line, supplier) ==
    LET near == {s \in w.supplierinfo : /\ s.partner = supplier /\ Visible(s.company)
                                        /\ SameKey(s.code, line.seller)}
    IN  CASE line.seller = None \/ supplier = None -> {}
          [] StaleRows(w, line, supplier) # {} ->
                IF StaleSupplierinfo(w, line, supplier) = {} THEN {"ambiguous_supplierinfo"} ELSE {}
          [] OTHER -> IF near # {} THEN {"near_miss_supplierinfo"} ELSE {}

---------------------------------------------------------------------------
(* T1 to T3                                                                 *)

Candidate(p, tier, score) == [product |-> p.id, tier |-> tier, score |-> score]

\* A seller's code is an identifier of the manufacturer only by its shape.
Identifiers(line) ==
    ({line.maker} \cup line.skus
        \cup IF CspShaped(line.seller) \/ SkuShaped(line.seller) THEN {line.seller} ELSE {}) \ {None}

ExactIdentifiers(w, line) ==
    {Candidate(p, 1, 100) : p \in {q \in Eligible(w) : \E code \in Identifiers(line) : SameKey(code, q.code)}}

CspNotes(w, line) ==
    IF /\ CspShaped(line.seller) /\ ExactIdentifiers(w, line) = {}
       /\ \E p \in Eligible(w) : CspShaped(p.code) /\ p.code.product = line.seller.product
    THEN {"csp_product_only"} ELSE {}

SameLine(line, prior) ==
    SameKey(line.seller, prior.seller) \/ (line.text # None /\ line.text = prior.text)

PriorMappings(w, line, supplier, priors) ==
    {Candidate(p, 2, 90) :
        p \in {q \in Eligible(w) :
                  /\ ~IdentifierConflict(line, q) /\ ~Conflicts(line.text, q.name)
                  /\ \E prior \in priors : /\ prior.supplier = supplier /\ prior.product = q.id
                                           /\ SameLine(line, prior)}}

\* 0.6 of the shared words, 0.4 of the shared characters, rounded half up, in hundredths.
Score(text, name) ==
    LET all   == Cardinality(text.words \cup name.words)
        parts == 6000 * Cardinality(text.words \cap name.words) + 40 * Ratio(text, name) * all
    IN  (2 * parts + 100 * all) \div (200 * all)

Comparable(w, line, supplier) ==
    IF line.text = None \/ IsVariantCatalogLine(line, supplier) THEN {}
    ELSE {p \in Eligible(w) : /\ ~IsVariantCatalogCandidate(p)
                              /\ line.text.meaningful \cap p.name.meaningful # {}}

Rejected(w, line, supplier) ==
    {p \in Comparable(w, line, supplier) :
        IdentifierConflict(line, p) \/ AttributeConflict(line.text, p.name)}

NameSimilarity(w, line, supplier) ==
    {Candidate(p, 3, Score(line.text, p.name)) :
        p \in {q \in Comparable(w, line, supplier) \ Rejected(w, line, supplier) :
                  Score(line.text, q.name) >= Threshold}}

NameNotes(w, line, supplier) ==
    IF line.text # None /\ IsVariantCatalogLine(line, supplier) THEN {"variant_catalog"}
    ELSE IF Rejected(w, line, supplier) # {} THEN {"rejected"} ELSE {}

---------------------------------------------------------------------------
(* Ranking                                                                  *)

Better(a, b) == a.tier < b.tier \/ (a.tier = b.tier /\ a.score > b.score)

\* the best candidate of each product
Best(candidates) ==
    {c \in candidates : \A d \in candidates : d.product = c.product => d = c \/ Better(c, d)}

\* the order of the suggestions: the better one first, then by the product's id
Ahead(a, b) == Better(a, b) \/ (~Better(b, a) /\ a.product < b.product)

\* the i-th has i - 1 ahead of it
Ordered(candidates) ==
    [i \in 1 .. Cardinality(Best(candidates)) |->
        CHOOSE c \in Best(candidates) : Cardinality({d \in Best(candidates) : Ahead(d, c)}) = i - 1]

\* a candidate ties with the first of its group, within its tier
Tied(seq, head, i) ==
    seq[i].tier = seq[head].tier /\ seq[head].score - seq[i].score <= TieMargin

\* the rank of each position is the position its group starts at
Ranks(seq) ==
    LET rank[i \in 1 .. Len(seq)] ==
            IF i > 1 /\ Tied(seq, rank[i - 1], i) THEN rank[i - 1] ELSE i
    IN  [i \in 1 .. Len(seq) |-> rank[i]]

Rank(candidates) ==
    LET seq   == Ordered(candidates)
        ranks == Ranks(seq)
    IN  [suggestions |-> [i \in 1 .. Min({Len(seq), MaxSuggestions}) |->
                             [product |-> seq[i].product, tier |-> seq[i].tier, score |-> seq[i].score,
                              rank |-> ranks[i]]],
         ambiguous |-> Cardinality({i \in DOMAIN ranks : ranks[i] = 1}) > 1]

Candidates(w, line, supplier, priors) ==
    ExactIdentifiers(w, line) \cup PriorMappings(w, line, supplier, priors)
        \cup NameSimilarity(w, line, supplier)

SuggestProducts(w, line, supplier, priors) ==
    LET stale  == StaleSupplierinfo(w, line, supplier)
        all    == Candidates(w, line, supplier, priors)
        ranked == Rank(all)
    IN  IF stale # {}
        THEN [suggestions |-> <<[product |-> CHOOSE p \in stale : TRUE, tier |-> 0, score |-> 100, rank |-> 1]>>,
              ambiguous |-> FALSE, reclassify |-> TRUE, notes |-> {}]
        ELSE [suggestions |-> ranked.suggestions, ambiguous |-> ranked.ambiguous, reclassify |-> FALSE,
              notes |-> StaleNotes(w, line, supplier) \cup CspNotes(w, line)
                            \cup NameNotes(w, line, supplier)
                            \cup IF Cardinality(Best(all)) > MaxSuggestions THEN {"truncated"} ELSE {}]

=============================================================================

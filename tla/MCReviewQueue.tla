------------------------------- MODULE MCReviewQueue -------------------------------
(* One review and two concurrent requests: for a product-coded invoice, and for an        *)
(* identifier-free one whose snapshot may change between two computations and on which    *)
(* two different decisions are submitted.                                                 *)
EXTENDS ReviewQueue, TLC

CONSTANTS c1, c2, k1, k2, k3, e1, e2, e3, f1

MCCallers == {c1, c2}
MCKeys == {k1, k2, k3}
MCContents == {e1, e2, e3}
MCInvoices == {[productCoded |-> TRUE, contents |-> {e1}, keys |-> {k3}],
               [productCoded |-> FALSE, contents |-> {e2, e3}, keys |-> {k1, k2}]}
MCFacts == {f1}
MCSymmetry == Permutations(MCCallers) \union Permutations({k1, k2}) \union Permutations({e2, e3})

=============================================================================

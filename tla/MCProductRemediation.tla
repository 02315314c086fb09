------------------------ MODULE MCProductRemediation ------------------------
(* One review with two CREATE_NEW_PRODUCT lines, which two API processes run *)
(* or retry, one product_line_create line requested at two review versions,  *)
(* and a mapping; all of them name the same supplier-product identity.  And  *)
(* two expense mapping requests for two reviews of one supplier.             *)
EXTENDS MasterDataWork, TLC

CONSTANTS a1, a2, tick, n1, n2, l1, l2, m1, review, none

MCReviewOf == [j \in Jobs |-> review]
MCVersionOf == [j \in Jobs |-> IF j = l2 THEN 2 ELSE 1]

\* the API processes are interchangeable, and so are their two lines
ApiSymmetry == Permutations(ApiWorkers) \cup Permutations(NewJobs)
=============================================================================

------------------------ MODULE MCSupplierRemediation ------------------------
(* Two requests about one review, one write authorization, at most two partners   *)
(* of the supplier.                                                               *)
EXTENDS SupplierRemediation

CONSTANTS s1, s2, a1

MCSessions == {s1, s2}
MCAuths == {a1}
MCConsumers == [version : 1 .. MaxVersion, mode : PartnerCreatingModes]
\* two requests race each other, one of which may time out, or one is disturbed twice
MCBudgets == {[requests |-> 2, disturbances |-> 0, timeouts |-> 1],
              [requests |-> 1, disturbances |-> 2, timeouts |-> 0]}
MCOperationOf == [c \in MCConsumers |-> c.mode]
=============================================================================

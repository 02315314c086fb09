------------------------------- MODULE MasterDataWork -------------------------------
(* What operators do to give the invoices of a supplier the master data they lack, side  *)
(* by side: a product for a line, and an expense account for the supplier.  Each commits *)
(* its own rows and reclassifies a review afterwards; they share nothing else, so that a *)
(* behaviour takes one of them.                                                          *)
EXTENDS ProductRemediation, ExpenseMapping

WorkInit == Init /\ ExpenseInit

WorkNext ==
    \/ ExpenseInit /\ Next /\ UNCHANGED mappingvars
    \/ Init /\ ExpenseNext /\ UNCHANGED vars

WorkSpec == WorkInit /\ [][WorkNext]_<<vars, mappingvars>>

=============================================================================

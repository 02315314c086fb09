------------------------- MODULE MCOperatorRequests -------------------------
(* In the parent channel a supplier or purpose request, two decisions and an  *)
(* execution, in the line channels a mapping, a row that does not parse and a  *)
(* request of a user without the permission.                                  *)
EXTENDS OperatorRequests, TLC

CONSTANTS rs, rm, rx, rd, rd2, re, ru, none

MCChannelOf == [r \in Requests |-> CASE r = rm -> "product_line" [] r \in {rx, ru} -> "product_line_create"
                                     [] OTHER -> "parent"]
MCKindOf == [r \in Requests |-> CASE r \in {rs, rx, ru} -> "resolve" [] r = rm -> "map"
                                  [] r = re -> "execute" [] OTHER -> "decide"]
=============================================================================

---------------------------- MODULE MCSessionGate ----------------------------
(***************************************************************************)
(* Three clients, each at an address of its own, compete for one slot.     *)
(* The table of addresses has room for one, and two threads look at it.    *)
(***************************************************************************)
EXTENDS SessionGate

CONSTANTS c1, c2, c3, ip1, ip2, ip3

MCAddressOf == [c \in Client |-> CASE c = c1 -> ip1 [] c = c2 -> ip2 [] c = c3 -> ip3]
==============================================================================

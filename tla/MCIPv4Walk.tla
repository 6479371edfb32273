----------------------------- MODULE MCIPv4Walk -----------------------------
(***************************************************************************)
(* Subnets whose mask ends in the fourth octet (/30, /26) and in the third *)
(* (/24, /23), in the middle and at the end of that octet, so that         *)
(* additions reach the octet above and the last address wraps.             *)
(***************************************************************************)
EXTENDS IPv4Walk

Samples == {[base |-> <<10, 0, 0, 252>>, octet |-> 4, span |-> 4],
            [base |-> <<10, 0, 0, 64>>, octet |-> 4, span |-> 64],
            [base |-> <<10, 0, 5, 0>>, octet |-> 3, span |-> 1],
            [base |-> <<10, 0, 254, 0>>, octet |-> 3, span |-> 2]}

(***************************************************************************)
(* Subnets that reach the end of the address space, whose masks end in     *)
(* three octets: the last positions, when those before are taken.          *)
(***************************************************************************)
Ends == {[base |-> <<255, 255, 255, 128>>, octet |-> 4, span |-> 128],
         [base |-> <<255, 255, 254, 0>>, octet |-> 3, span |-> 2],
         [base |-> <<255, 0, 0, 0>>, octet |-> 1, span |-> 1],
         [base |-> <<240, 0, 0, 0>>, octet |-> 1, span |-> 16]}

AllSubnets == Samples \cup Ends

Left == 100   \* bound: positions of such a subnet that are not taken
TakenBefore == [s \in AllSubnets |-> IF s \in Ends THEN Size(s) - Left ELSE 0]
=============================================================================

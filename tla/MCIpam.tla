------------------------------ MODULE MCIpam ------------------------------
(***************************************************************************)
(* Small subnets for TLC: a /31 of two positions and a /32 of one, whose   *)
(* address wraps below its base because the octet is the last one.         *)
(***************************************************************************)
EXTENDS Ipam, TLC

Last  == [base |-> <<10, 0, 0, 255>>, octet |-> 4, span |-> 1]
First == [base |-> <<10, 0, 1, 0>>, octet |-> 4, span |-> 2]

TwoSubnets == {Last, First}

Symmetry == Permutations(Holder)
===========================================================================

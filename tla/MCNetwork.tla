----------------------------- MODULE MCNetwork -----------------------------
(***************************************************************************)
(* Middle has a position for a gateway, two for endpoints and one to lose. *)
(* First and Last have one for a gateway and one for an endpoint; the      *)
(* second position of Last wraps below its base.                           *)
(***************************************************************************)
EXTENDS Network, TLC

Middle == [base |-> <<10, 0, 1, 0>>, octet |-> 4, span |-> 4]
First  == [base |-> <<10, 0, 1, 0>>, octet |-> 4, span |-> 2]
Last   == [base |-> <<10, 0, 0, 254>>, octet |-> 4, span |-> 2]

OneSubnet  == {Middle}
TwoSubnets == {First, Last}

AllPorts == [c \in Container |-> Port]

(***************************************************************************)
(* Not explored further: what follows a mishap, of which no property but   *)
(* TypeOK and HalfDeletedIsFinal says anything, and a second lost address. *)
(***************************************************************************)
Bound == ~mishap /\ Cardinality(lost) <= 1

Symmetry == Permutations(Proc) \cup Permutations(Container)
=============================================================================

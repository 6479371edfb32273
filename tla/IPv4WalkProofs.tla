--------------------------- MODULE IPv4WalkProofs ---------------------------
(***************************************************************************)
(* What holds for every subnet while it fills up, from the arithmetic of   *)
(* SubnetTableProofs.                                                      *)
(***************************************************************************)
EXTENDS IPv4Walk, SubnetTableProofs

\* The loop over the bitmap stays in the bitmap.
THEOREM WalkTypeOK == Spec => []TypeOK
<1>1. Init => TypeOK
  BY TakenAssumption, SMT DEF Init, TypeOK, Indices
<1>2. TypeOK /\ [Continue]_vars => TypeOK'
  BY TakenAssumption, SMT DEF TypeOK, Continue, vars, Indices
<1> QED BY <1>1, <1>2, PTL DEF Spec

(***************************************************************************)
(* Release finds the bit Allocate set, for every subnet and position, with *)
(* the exception of a wrapped last address.                                *)
(***************************************************************************)
THEOREM WalkReleaseFindsBit == Spec => []ReleaseFindsBit
<1>1. TypeOK => ReleaseFindsBit
  BY SubnetAssumption, IndexOfAddress DEF TypeOK, ReleaseFindsBit
<1> QED BY <1>1, WalkTypeOK, PTL

\* Exactly the last address Allocate hands out lies outside the subnet.
THEOREM WalkOnlyLastOutside == Spec => []OnlyLastOutside
<1>1. TypeOK => OnlyLastOutside
  BY SubnetAssumption, OnlyLastPositionLeavesSubnet DEF TypeOK, OnlyLastOutside
<1> QED BY <1>1, WalkTypeOK, PTL

\* No address of a subnet is handed out for two positions.
THEOREM WalkAddressIsNew == Spec => []AddressIsNew
<1>1. TypeOK => AddressIsNew
  <2> SUFFICES ASSUME TypeOK, NEW j \in Taken[subnet] .. idx - 1,
                      Address(subnet, j) = Address(subnet, idx)
               PROVE  FALSE
    BY DEF AddressIsNew
  <2>1. idx \in Int /\ j \in Int /\ j < idx /\ j \in Indices(subnet)
    BY TakenAssumption, SubnetAssumption, SizeBound, SMT DEF TypeOK, Indices
  <2>2. j = idx
    BY <2>1, SubnetAssumption, AddressInjective DEF TypeOK
  <2> QED BY <2>1, <2>2, SMT
<1> QED BY <1>1, WalkTypeOK, PTL
=============================================================================

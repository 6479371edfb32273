------------------------------ MODULE IPv4Walk ------------------------------
(***************************************************************************)
(* The addresses Allocate hands out when a subnet fills up: its loop over  *)
(* the bitmap (ipam.go:63-71) passes the positions that are '1' and stops  *)
(* at idx, the first '0'.                                                  *)
(***************************************************************************)
EXTENDS SubnetTable

CONSTANT Taken   \* how many positions of each subnet are '1' at first: those in front
ASSUME TakenAssumption == \A s \in Subnet : Taken[s] \in Indices(s)

VARIABLES subnet, idx   \* the subnet that is walked, and how far
vars == <<subnet, idx>>

Init == subnet \in Subnet /\ idx = Taken[subnet]
ContinuePast == idx \in Indices(subnet) /\ idx' = idx + 1 /\ UNCHANGED subnet   \* mutant
Continue == idx + 1 \in Indices(subnet) /\ idx' = idx + 1 /\ UNCHANGED subnet
Spec == Init /\ [][Continue]_vars

TypeOK == subnet \in Subnet /\ idx \in Indices(subnet) /\ idx >= Taken[subnet]

(***************************************************************************)
(* Release finds the bit Allocate set (ipam.go:105-113), also the last one *)
(* of a subnet at the very end of the address space, where the addition    *)
(* and the subtraction both wrap.  Only where a carry between two octets   *)
(* was lost it panics.                                                     *)
(***************************************************************************)
ReleaseFindsBit ==
  IF idx = Size(subnet) - 1 /\ Wraps(subnet)
  THEN Index(subnet, Address(subnet, idx)) \notin Indices(subnet)
  ELSE Index(subnet, Address(subnet, idx)) = idx

(***************************************************************************)
(* Octet-wise addition without carry stays in the subnet up to the last    *)
(* position, whose address is outside of it.                               *)
(***************************************************************************)
OnlyLastOutside == InSubnet(subnet, Address(subnet, idx)) <=> idx < Size(subnet) - 1

(***************************************************************************)
(* No address is handed out twice while the subnet fills up.               *)
(***************************************************************************)
AddressIsNew == \A j \in Taken[subnet] .. idx - 1 : Address(subnet, j) # Address(subnet, idx)
=============================================================================

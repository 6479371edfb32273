---------------------------- MODULE AddressPool ----------------------------
(***************************************************************************)
(* What the address manager of pkg/network/ipam.go promises its callers:   *)
(* an address is handed out to one holder at a time, the lowest free one   *)
(* first, and is free again when its holder gives it back.  A holder is    *)
(* whoever keeps the address: a network its gateway, an endpoint its IP.   *)
(***************************************************************************)
EXTENDS IPv4

CONSTANTS
  Holder,   \* gateways and endpoints
  Subnet,   \* the subnets in use
  NoLease   \* what a holder has that has no address

VARIABLE leases

Lease == [subnet : Subnet, ip : IP]

LeaseOf(subnet, idx) == [subnet |-> subnet, ip |-> Address(subnet, idx)]

\* The positions of a subnet's bitmap whose address somebody holds.
Taken(subnet) == {i \in Indices(subnet) : \E h \in Holder : leases[h] = LeaseOf(subnet, i)}
Free(subnet)  == Indices(subnet) \ Taken(subnet)

PoolInit == leases = [h \in Holder |-> NoLease]

PoolAllocate(h, subnet) ==
  /\ leases[h] = NoLease
  /\ \E idx \in Free(subnet) :
       /\ \A j \in Free(subnet) : idx <= j
       /\ leases' = [leases EXCEPT ![h] = LeaseOf(subnet, idx)]

PoolRelease(h) ==
  /\ leases[h] # NoLease
  /\ leases' = [leases EXCEPT ![h] = NoLease]

PoolNext ==
  \E h \in Holder : PoolRelease(h) \/ \E subnet \in Subnet : PoolAllocate(h, subnet)

PoolSpec == PoolInit /\ [][PoolNext]_leases
=============================================================================

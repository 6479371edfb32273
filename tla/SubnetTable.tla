---------------------------- MODULE SubnetTable ----------------------------
(***************************************************************************)
(* What pkg/network/ipam.go does to its map of bitmaps, IPAM.Subnets: a    *)
(* table maps subnets to bitmaps, and a bitmap is the set of the positions *)
(* that are '1'.                                                           *)
(***************************************************************************)
EXTENDS IPv4

CONSTANT Subnet   \* the subnets networks are created with

ASSUME SubnetAssumption == \A s \in Subnet : IsSubnet(s)

Position == UNION {Indices(s) : s \in Subnet}
Table == {m \in UNION {[D -> SUBSET Position] : D \in SUBSET Subnet} :
            \A s \in DOMAIN m : m[s] \subseteq Indices(s)}

\* What Allocate gives its caller for position idx of subnet.
Lease == [subnet : Subnet, ip : IP]
LeaseOfBase(subnet, idx) ==   \* mutant: position 0 is given the base address
  [subnet |-> subnet, ip |-> numberToIP(subnet.base, idx)]
LeaseOf(subnet, idx) == [subnet |-> subnet, ip |-> Address(subnet, idx)]

-----------------------------------------------------------------------------
NoSubnets == [s \in {} |-> {}]

\* ipam.Subnets[key], created all '0' if it is not there.
Bitmap(table, subnet) == IF subnet \in DOMAIN table THEN table[subnet] ELSE {}

MarkNext(bits, idx)    == bits \cup {idx + 1}   \* mutant: the position of the next address
MarkNothing(bits, idx) == bits                 \* mutant: ipNet is not stored back
ClearNext(bits, idx)   == bits \ {idx + 1}     \* mutant: target - base

\* ipNet[idx] = '1' and ipNet[idx] = '0'
Mark(bits, idx)  == bits \cup {idx}
Clear(bits, idx) == bits \ {idx}

\* ipam.Subnets[key] = string(ipNet)
Set(table, subnet, bits) ==
  [s \in DOMAIN table \cup {subnet} |-> IF s = subnet THEN bits ELSE table[s]]

DeleteAll(table, subnet) == NoSubnets   \* mutant: the whole map is replaced

\* delete(ipam.Subnets, key)
Delete(table, subnet) == [s \in DOMAIN table \ {subnet} |-> table[s]]

\* Mutants: the loop ends one position early, starts one late, or ends one late.
FreeButLast(table, subnet)  == (Indices(subnet) \ {Size(subnet) - 1}) \ Bitmap(table, subnet)
FreeButFirst(table, subnet) == (Indices(subnet) \ {0}) \ Bitmap(table, subnet)

FreeOnePast(table, subnet)  == (0 .. Size(subnet)) \ Bitmap(table, subnet)

\* The positions that are '0'; Allocate takes the first.
FreeIn(table, subnet) == Indices(subnet) \ Bitmap(table, subnet)
=============================================================================

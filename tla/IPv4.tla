-------------------------------- MODULE IPv4 --------------------------------
(***************************************************************************)
(* The address arithmetic of pkg/network/ipam.go.  An address is its four  *)
(* octets (net.IP.To4()).  A subnet is what net.ParseCIDR returns: a mask, *)
(* given by the octet it ends in and the span of that octet the mask       *)
(* leaves free (/30 is octet 4, span 4; /24 is octet 3, span 1), and a     *)
(* base address whose host bits are cleared octet by octet.                *)
(***************************************************************************)
EXTENDS Integers

Octet == 0..255
IP    == [1..4 -> Octet]
Spans == {1, 2, 4, 8, 16, 32, 64, 128}

\* What an octet is worth: 1 << ((3 - i) * 8).
Place == <<16777216, 65536, 256, 1>>

(***************************************************************************)
(* An uint32 is written as the int32 of the same bits, -2^31 .. 2^31 - 1:  *)
(* no bitmap has more than 2^31 positions, so that what is an index of it  *)
(* is the same number in both.                                             *)
(***************************************************************************)
Int32(x) ==
  IF x < -2147483647 - 1 THEN x + 256 * Place[1]
  ELSE IF x > 2147483647 THEN x - 256 * Place[1]
  ELSE x

ipToNumber(ip) ==
  (IF ip[1] < 128 THEN ip[1] ELSE ip[1] - 256) * Place[1]
    + ip[2] * Place[2] + ip[3] * Place[3] + ip[4] * Place[4]

(***************************************************************************)
(* Each octet of num is added to the octet of the base as a uint8: a carry *)
(* out of an octet is lost, it never reaches the octet on its left.        *)
(***************************************************************************)
LastOctetOnly(base, num) ==   \* mutant: uint8(num) is added to the last octet
  [k \in 1..4 |-> (base[k] + (IF k = 4 THEN num ELSE 0)) % 256]
numberToIP(base, num) ==
  [k \in 1..4 |-> (base[k] + num \div Place[k]) % 256]

-----------------------------------------------------------------------------
IsSubnet(subnet) ==
  /\ subnet.octet \in 1..4 /\ subnet.span \in Spans
  /\ subnet.base \in IP
  /\ subnet.base[subnet.octet] % subnet.span = 0
  /\ \A k \in 1..4 : k > subnet.octet => subnet.base[k] = 0

\* The length of the bitmap, 1 << (size - one), and its positions.
Size(subnet)    == subnet.span * Place[subnet.octet]
Indices(subnet) == 0 .. Size(subnet) - 1

AddressOfIndex(subnet, idx) == numberToIP(subnet.base, idx)   \* mutant: idx for idx + 1

\* The address Allocate hands out for position idx.
Address(subnet, idx) == numberToIP(subnet.base, idx + 1)

IndexFromBase(subnet, ip) == Int32(ipToNumber(ip) - ipToNumber(subnet.base))   \* mutant: no - 1

(***************************************************************************)
(* The position Release computes, target - base - 1 on uint32.  The last   *)
(* address of a subnet may lie below its base; then the position is some   *)
(* huge number, unless the address is 0.0.0.0 and the mask ends in the     *)
(* first octet: there the subtraction wraps once more and finds the bit.   *)
(***************************************************************************)
Index(subnet, ip) == Int32(ipToNumber(ip) - ipToNumber(subnet.base) - 1)

\* The last address of such a subnet takes a carry that is lost.
Wraps(subnet) == subnet.octet # 1 /\ subnet.base[subnet.octet] + subnet.span = 256

\* net.IPNet.Contains, the reference the arithmetic is judged by.
InSubnet(subnet, ip) ==
  /\ \A k \in 1..4 : k < subnet.octet => ip[k] = subnet.base[k]
  /\ ip[subnet.octet] - subnet.base[subnet.octet] \in 0 .. subnet.span - 1
=============================================================================

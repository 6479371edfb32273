------------------------- MODULE SubnetTableProofs -------------------------
(***************************************************************************)
(* What the octet-wise arithmetic of ipam.go does for every subnet and     *)
(* every position of its bitmap: which addresses Allocate can hand out,    *)
(* and which bit Release finds for them.  Then lemmas about tables of      *)
(* bitmaps and leases, for any subnets.  The proofs about the address      *)
(* manager and about networks rest on them.                                *)
(***************************************************************************)
EXTENDS SubnetTable, TLAPS

\* The number written with the four base-256 digits a, b, c, d.
Num(a, b, c, d) == a * 16777216 + b * 65536 + c * 256 + d

\* The bitmap of a /1, the largest there is.
Limit == 2147483648

\* The number of IPv4 addresses.
Total == 2 * Limit

\* What four octets are worth, without a sign.
Number(ip) == Num(ip[1], ip[2], ip[3], ip[4])

(***************************************************************************)
(* The base b1.b2.b3.b4 of a subnet of that size: t is the octet the mask  *)
(* ends in, w its place, u the span that is free in it; below it the base  *)
(* is clear.                                                               *)
(***************************************************************************)
Aligned(u, w, t, size, b1, b2, b3, b4) ==
  /\ u \in 1..128 /\ t + u <= 256 /\ size = u * w
  /\ \/ w = 1 /\ t = b4
     \/ w = 256 /\ t = b3 /\ b4 = 0
     \/ w = 65536 /\ t = b2 /\ b3 = 0 /\ b4 = 0
     \/ w = 16777216 /\ t = b1 /\ b2 = 0 /\ b3 = 0 /\ b4 = 0

\* Allocate adds the number n with digits o1..o4 to such a base.
Adds(u, w, t, size, n, b1, b2, b3, b4, o1, o2, o3, o4) ==
  /\ b1 \in Octet /\ b2 \in Octet /\ b3 \in Octet /\ b4 \in Octet
  /\ o1 \in Octet /\ o2 \in Octet /\ o3 \in Octet /\ o4 \in Octet
  /\ n \in Nat /\ size \in Nat /\ 1 <= n /\ n <= size
  /\ n = Num(o1, o2, o3, o4)
  /\ Aligned(u, w, t, size, b1, b2, b3, b4)

\* The uint8 addition of numberToIP.
Plus8(b, o) == (b + o) % 256

-----------------------------------------------------------------------------
\* The octets of a base address are octets (net.ParseCIDR).
LEMMA BaseOctets ==
  ASSUME NEW subnet, IsSubnet(subnet)
  PROVE  /\ subnet.base[1] \in Octet /\ subnet.base[2] \in Octet
         /\ subnet.base[3] \in Octet /\ subnet.base[4] \in Octet
BY SMT DEF IsSubnet, IP

\* The shifts of ipToNumber and numberToIP, octet by octet.
LEMMA PlaceValues == /\ Place[1] = 16777216 /\ Place[2] = 65536
                     /\ Place[3] = 256      /\ Place[4] = 1
BY SMT DEF Place

\* The value of four octets is a number.
LEMMA NumIsInt == \A a, b, c, d \in Octet : Num(a, b, c, d) \in Int
BY SMT DEF Num, Octet

\* What four octets are worth, and the first of them as a signed byte.
LEMMA NumBounds ==
  ASSUME NEW a \in Octet, NEW b \in Octet, NEW c \in Octet, NEW d \in Octet
  PROVE  /\ Num(a, b, c, d) \in Nat /\ Num(a, b, c, d) < Total
         /\ a < 128 <=> Num(a, b, c, d) < Limit
         /\ Num(a - 256, b, c, d) = Num(a, b, c, d) - Total
BY SMT DEF Num, Octet, Limit, Total

\* The shifts of ipToNumber.
LEMMA NumPlaces ==
  ASSUME NEW a \in Int, NEW b \in Int, NEW c \in Int, NEW d \in Int
  PROVE  a * Place[1] + b * Place[2] + c * Place[3] + d * Place[4] = Num(a, b, c, d)
BY PlaceValues, SMT DEF Num

\* ipToNumber reads its argument as a base-256 numeral, from 2^31 on less 2^32.
LEMMA IpToNumberIsNum ==
  ASSUME NEW ip, ip[1] \in Octet, ip[2] \in Octet, ip[3] \in Octet, ip[4] \in Octet
  PROVE  /\ Number(ip) \in Nat /\ Number(ip) < Total
         /\ ipToNumber(ip) = IF Number(ip) < Limit THEN Number(ip) ELSE Number(ip) - Total
<1>1. /\ ip[1] \in Int /\ ip[2] \in Int /\ ip[3] \in Int /\ ip[4] \in Int /\ ip[1] - 256 \in Int
  BY SMT DEF Octet
<1>2. /\ Number(ip) \in Nat /\ Number(ip) < Total
      /\ ip[1] < 128 <=> Number(ip) < Limit
      /\ Num(ip[1] - 256, ip[2], ip[3], ip[4]) = Number(ip) - Total
  BY NumBounds DEF Number
<1>3. CASE ip[1] < 128
  <2>1. ipToNumber(ip) = ip[1] * Place[1] + ip[2] * Place[2] + ip[3] * Place[3] + ip[4] * Place[4]
    BY <1>3, SMT DEF ipToNumber, Octet
  <2>2. ipToNumber(ip) = Number(ip)
    BY <1>1, <2>1, NumPlaces DEF Number
  <2> QED BY <1>2, <1>3, <2>2
<1>4. CASE ~(ip[1] < 128)
  <2>1. ipToNumber(ip)
          = (ip[1] - 256) * Place[1] + ip[2] * Place[2] + ip[3] * Place[3] + ip[4] * Place[4]
    BY <1>4, SMT DEF ipToNumber, Octet
  <2>2. ipToNumber(ip) = Num(ip[1] - 256, ip[2], ip[3], ip[4])
    BY <1>1, <2>1, NumPlaces
  <2> QED BY <1>2, <1>4, <2>2
<1> QED BY <1>3, <1>4

\* uint8 addition stays in a byte.
LEMMA Plus8IsOctet == \A b, o \in Octet : Plus8(b, o) \in Octet
BY SMT DEF Plus8, Octet

\* A cleared octet of the base has room for the span the mask leaves free.
LEMMA Room ==
  ASSUME NEW b \in Octet, NEW u \in Spans, b % u = 0
  PROVE  u \in 1..128 /\ b + u <= 256
BY SMT DEF Spans, Octet

\* The bitmap Allocate creates is never empty and at most 2^31 long.
LEMMA SizeBound ==
  ASSUME NEW subnet, IsSubnet(subnet)
  PROVE  Size(subnet) \in Nat /\ 1 <= Size(subnet) /\ Size(subnet) <= Limit
<1>1. subnet.span \in 1..128 /\ subnet.octet \in 1..4
  BY SMT DEF IsSubnet, Spans
<1>2. Place[subnet.octet] \in {1, 256, 65536, 16777216}
  BY <1>1, PlaceValues, SMT
<1> QED BY <1>1, <1>2, SMT DEF Size, Limit

-----------------------------------------------------------------------------
(***************************************************************************)
(* numberToIP truncates num >> shift to a uint8: what it adds to an octet  *)
(* is the corresponding base-256 digit of num.                             *)
(***************************************************************************)
LEMMA Digits ==
  ASSUME NEW n \in Nat, n <= Limit
  PROVE  \E o1, o2, o3, o4 \in Octet :
           /\ n = Num(o1, o2, o3, o4)
           /\ \A b \in Octet :
                /\ Plus8(b, n \div Place[1]) = Plus8(b, o1)
                /\ Plus8(b, n \div Place[2]) = Plus8(b, o2)
                /\ Plus8(b, n \div Place[3]) = Plus8(b, o3)
                /\ Plus8(b, n \div Place[4]) = Plus8(b, o4)
<1> DEFINE o1 == n \div 16777216
           o2 == (n \div 65536) % 256
           o3 == (n \div 256) % 256
           o4 == n % 256
<1>1. o1 \in Octet /\ o2 \in Octet /\ o3 \in Octet /\ o4 \in Octet
  BY SMT DEF Octet, Limit
<1>2. n = Num(o1, o2, o3, o4)
  BY SMTT(30) DEF Num
<1>3. ASSUME NEW b \in Octet
      PROVE  /\ Plus8(b, n \div Place[1]) = Plus8(b, o1)
             /\ Plus8(b, n \div Place[2]) = Plus8(b, o2)
             /\ Plus8(b, n \div Place[3]) = Plus8(b, o3)
             /\ Plus8(b, n \div Place[4]) = Plus8(b, o4)
  BY PlaceValues, SMTT(30) DEF Plus8, Octet
<1> HIDE DEF o1, o2, o3, o4
<1> QED BY <1>1, <1>2, <1>3

\* The octets of the address Allocate builds for position idx.
LEMMA AddressOctets ==
  ASSUME NEW subnet, IsSubnet(subnet), NEW idx \in Indices(subnet)
  PROVE  \E o1, o2, o3, o4 \in Octet :
           /\ idx + 1 = Num(o1, o2, o3, o4)
           /\ Address(subnet, idx)[1] = Plus8(subnet.base[1], o1)
           /\ Address(subnet, idx)[2] = Plus8(subnet.base[2], o2)
           /\ Address(subnet, idx)[3] = Plus8(subnet.base[3], o3)
           /\ Address(subnet, idx)[4] = Plus8(subnet.base[4], o4)
<1>1. idx + 1 \in Nat /\ idx + 1 <= Limit
  BY SizeBound, SMT DEF Indices, Limit
<1>2. PICK o1, o2, o3, o4 \in Octet :
         /\ idx + 1 = Num(o1, o2, o3, o4)
         /\ \A b \in Octet :
              /\ Plus8(b, (idx + 1) \div Place[1]) = Plus8(b, o1)
              /\ Plus8(b, (idx + 1) \div Place[2]) = Plus8(b, o2)
              /\ Plus8(b, (idx + 1) \div Place[3]) = Plus8(b, o3)
              /\ Plus8(b, (idx + 1) \div Place[4]) = Plus8(b, o4)
  BY <1>1, Digits
<1>3. /\ Address(subnet, idx)[1] = Plus8(subnet.base[1], (idx + 1) \div Place[1])
      /\ Address(subnet, idx)[2] = Plus8(subnet.base[2], (idx + 1) \div Place[2])
      /\ Address(subnet, idx)[3] = Plus8(subnet.base[3], (idx + 1) \div Place[3])
      /\ Address(subnet, idx)[4] = Plus8(subnet.base[4], (idx + 1) \div Place[4])
  BY SMT DEF Address, numberToIP, Plus8
<1> QED BY <1>2, <1>3, BaseOctets

(***************************************************************************)
(* A base whose free octet has room for u loses no carry when a number up  *)
(* to the size of the subnet is added, except that the size itself, added  *)
(* to the last subnet of that octet, loses exactly one.                    *)
(***************************************************************************)
LEMMA Carry ==
  \A u, w, t, size, n, b1, b2, b3, b4, o1, o2, o3, o4 :
    Adds(u, w, t, size, n, b1, b2, b3, b4, o1, o2, o3, o4)
      => Num(Plus8(b1, o1), Plus8(b2, o2), Plus8(b3, o3), Plus8(b4, o4))
           = IF n = size /\ t + u = 256 THEN Num(b1, b2, b3, b4) + n - 256 * w
             ELSE Num(b1, b2, b3, b4) + n
<1> SUFFICES
      ASSUME NEW u, NEW w, NEW t, NEW size, NEW n, NEW b1, NEW b2, NEW b3, NEW b4,
             NEW o1, NEW o2, NEW o3, NEW o4,
             Adds(u, w, t, size, n, b1, b2, b3, b4, o1, o2, o3, o4)
      PROVE  Num(Plus8(b1, o1), Plus8(b2, o2), Plus8(b3, o3), Plus8(b4, o4))
               = IF n = size /\ t + u = 256 THEN Num(b1, b2, b3, b4) + n - 256 * w
                 ELSE Num(b1, b2, b3, b4) + n
  OBVIOUS
<1> USE DEF Octet
<1>a. /\ b1 \in Octet /\ b2 \in Octet /\ b3 \in Octet /\ b4 \in Octet
      /\ o1 \in Octet /\ o2 \in Octet /\ o3 \in Octet /\ o4 \in Octet
      /\ n \in Nat /\ size \in Nat /\ 1 <= n /\ n <= size /\ n = Num(o1, o2, o3, o4)
      /\ u \in 1..128 /\ t + u <= 256 /\ size = u * w
      /\ \/ w = 1 /\ t = b4
         \/ w = 256 /\ t = b3 /\ b4 = 0
         \/ w = 65536 /\ t = b2 /\ b3 = 0 /\ b4 = 0
         \/ w = 16777216 /\ t = b1 /\ b2 = 0 /\ b3 = 0 /\ b4 = 0
  BY SMT DEF Adds, Aligned
<1>1. CASE w = 1 /\ t = b4
  <2>1. o1 = 0 /\ o2 = 0 /\ o3 = 0 /\ o4 = n /\ size = u
    BY <1>a, <1>1, SMT DEF Num
  <2>2. IF n = size /\ t + u = 256 THEN b4 + o4 = 256 ELSE b4 + o4 < 256
    BY <1>a, <1>1, <2>1, SMT
  <2> QED BY <1>a, <1>1, <2>1, <2>2, SMT DEF Num, Plus8
<1>2. CASE w = 256 /\ t = b3 /\ b4 = 0
  <2>1. o1 = 0 /\ o2 = 0 /\ IF n = size THEN o3 = u /\ o4 = 0 ELSE o3 < u
    BY <1>a, <1>2, SMT DEF Num
  <2>2. IF n = size /\ t + u = 256 THEN b3 + o3 = 256 ELSE b3 + o3 < 256
    BY <1>a, <1>2, <2>1, SMT
  <2> QED BY <1>a, <1>2, <2>1, <2>2, SMT DEF Num, Plus8
<1>3. CASE w = 65536 /\ t = b2 /\ b3 = 0 /\ b4 = 0
  <2>1. o1 = 0 /\ IF n = size THEN o2 = u /\ o3 = 0 /\ o4 = 0 ELSE o2 < u
    BY <1>a, <1>3, SMT DEF Num
  <2>2. IF n = size /\ t + u = 256 THEN b2 + o2 = 256 ELSE b2 + o2 < 256
    BY <1>a, <1>3, <2>1, SMT
  <2> QED BY <1>a, <1>3, <2>1, <2>2, SMT DEF Num, Plus8
<1>4. CASE w = 16777216 /\ t = b1 /\ b2 = 0 /\ b3 = 0 /\ b4 = 0
  <2>1. IF n = size THEN o1 = u /\ o2 = 0 /\ o3 = 0 /\ o4 = 0 ELSE o1 < u
    BY <1>a, <1>4, SMT DEF Num
  <2>2. IF n = size /\ t + u = 256 THEN b1 + o1 = 256 ELSE b1 + o1 < 256
    BY <1>a, <1>4, <2>1, SMT
  <2> QED BY <1>a, <1>4, <2>1, <2>2, SMT DEF Num, Plus8
<1> QED BY <1>a, <1>1, <1>2, <1>3, <1>4, SMT

\* The last address of a subnet at the end of its octet.
AtEnd(subnet, idx) == idx = Size(subnet) - 1 /\ subnet.base[subnet.octet] + subnet.span = 256

\* The base of a subnet, taken apart.
LEMMA BaseAligned ==
  ASSUME NEW subnet, IsSubnet(subnet)
  PROVE  Aligned(subnet.span, Place[subnet.octet], subnet.base[subnet.octet], Size(subnet),
                 subnet.base[1], subnet.base[2], subnet.base[3], subnet.base[4])
<1>1. subnet.span \in 1..128 /\ subnet.base[subnet.octet] + subnet.span <= 256
  BY Room, BaseOctets, SMT DEF IsSubnet
<1>2. \/ subnet.octet = 1 /\ subnet.base[2] = 0 /\ subnet.base[3] = 0 /\ subnet.base[4] = 0
      \/ subnet.octet = 2 /\ subnet.base[3] = 0 /\ subnet.base[4] = 0
      \/ subnet.octet = 3 /\ subnet.base[4] = 0
      \/ subnet.octet = 4
  BY SMT DEF IsSubnet
<1> QED BY <1>1, <1>2, PlaceValues, SMT DEF Size, Aligned

(***************************************************************************)
(* Allocate: every position gives the address that many places above the   *)
(* base, except that the last position of the last subnet of its octet     *)
(* loses a carry out of that octet.                                        *)
(***************************************************************************)
LEMMA AddressNumber ==
  ASSUME NEW subnet, IsSubnet(subnet), NEW idx \in Indices(subnet)
  PROVE  /\ \A k \in 1..4 : Address(subnet, idx)[k] \in Octet
         /\ Number(subnet.base) \in Int /\ Number(Address(subnet, idx)) \in Int
         /\ Number(Address(subnet, idx)) =
              IF AtEnd(subnet, idx)
              THEN Number(subnet.base) + idx + 1 - 256 * Place[subnet.octet]
              ELSE Number(subnet.base) + idx + 1
<1> DEFINE b1 == subnet.base[1]
           b2 == subnet.base[2]
           b3 == subnet.base[3]
           b4 == subnet.base[4]
           u  == subnet.span
           t  == subnet.base[subnet.octet]
           w  == Place[subnet.octet]
           size == Size(subnet)
           n == idx + 1
           a == Address(subnet, idx)
<1>1. b1 \in Octet /\ b2 \in Octet /\ b3 \in Octet /\ b4 \in Octet
  BY BaseOctets
<1>2. Number(subnet.base) = Num(b1, b2, b3, b4)
  BY DEF Number
<1>3. AtEnd(subnet, idx) <=> n = size /\ t + u = 256
  BY SizeBound, SMT DEF AtEnd, Indices
<1>4. size \in Nat /\ n \in Nat /\ 1 <= n /\ n <= size /\ idx \in Int
  BY SizeBound, SMT DEF Indices
<1>5. Aligned(u, w, t, size, b1, b2, b3, b4)
  BY BaseAligned
<1>6. PICK o1, o2, o3, o4 \in Octet :
         /\ n = Num(o1, o2, o3, o4)
         /\ a[1] = Plus8(b1, o1) /\ a[2] = Plus8(b2, o2)
         /\ a[3] = Plus8(b3, o3) /\ a[4] = Plus8(b4, o4)
  BY AddressOctets
<1>7. a[1] \in Octet /\ a[2] \in Octet /\ a[3] \in Octet /\ a[4] \in Octet
  BY <1>6, <1>1, Plus8IsOctet
<1>8. Number(a) = Num(Plus8(b1, o1), Plus8(b2, o2), Plus8(b3, o3), Plus8(b4, o4))
  BY <1>6 DEF Number
<1>9. Number(subnet.base) \in Int /\ Number(a) \in Int
  BY <1>1, <1>7, NumIsInt DEF Number
<1> HIDE DEF b1, b2, b3, b4, u, w, t, size, n, a
<1>10. Number(a) = IF n = size /\ t + u = 256 THEN Number(subnet.base) + n - 256 * w
                   ELSE Number(subnet.base) + n
  <2>1. Adds(u, w, t, size, n, b1, b2, b3, b4, o1, o2, o3, o4)
    BY <1>1, <1>4, <1>5, <1>6 DEF Adds
  <2> QED BY <2>1, <1>2, <1>8, Carry
<1>11. \A k \in 1..4 : a[k] \in Octet
  BY <1>7, SMT
<1>12. Number(a) = IF AtEnd(subnet, idx) THEN Number(subnet.base) + idx + 1 - 256 * w
                   ELSE Number(subnet.base) + idx + 1
  <2>1. CASE AtEnd(subnet, idx)
    <3>1. Number(a) = Number(subnet.base) + n - 256 * w /\ n = idx + 1
      BY <2>1, <1>3, <1>10 DEF n
    <3>2. w \in Int
      BY <1>5, SMT DEF Aligned
    <3> QED BY <2>1, <3>1, <3>2, <1>4, <1>9, SMT
  <2>2. CASE ~AtEnd(subnet, idx)
    BY <2>2, <1>3, <1>4, <1>9, <1>10, SMT DEF n
  <2> QED BY <2>1, <2>2
<1> QED BY <1>9, <1>11, <1>12 DEF a, w

\* The mask leaves at most half of the octet it ends in.
LEMMA SizeInOctet ==
  ASSUME NEW subnet, IsSubnet(subnet)
  PROVE  /\ Size(subnet) <= 128 * Place[subnet.octet]
         /\ Place[subnet.octet] \in Nat /\ Place[subnet.octet] >= 1
BY BaseAligned, SMT DEF Aligned

\* What is left at the end of an octet when the carry is lost.
LEMMA EndNumber ==
  ASSUME NEW subnet, IsSubnet(subnet), NEW idx \in Indices(subnet), AtEnd(subnet, idx)
  PROVE  /\ Number(Address(subnet, idx)) <= Number(subnet.base)
         /\ Number(subnet.base) - Number(Address(subnet, idx))
              = 256 * Place[subnet.octet] - Size(subnet)
<1>1. /\ Number(subnet.base) \in Int /\ Number(Address(subnet, idx)) \in Int
      /\ Number(Address(subnet, idx)) = Number(subnet.base) + idx + 1 - 256 * Place[subnet.octet]
      /\ idx = Size(subnet) - 1 /\ Size(subnet) \in Nat
  BY AddressNumber, SizeBound DEF AtEnd
<1> QED BY <1>1, SizeInOctet, SMT

-----------------------------------------------------------------------------
(***************************************************************************)
(* Allocate never gives two positions of a bitmap the same address         *)
(* (ipam.go:63-71): a lease is identified by its address.                  *)
(***************************************************************************)
THEOREM AddressInjective ==
  ASSUME NEW subnet, IsSubnet(subnet),
         NEW i \in Indices(subnet), NEW j \in Indices(subnet),
         Address(subnet, i) = Address(subnet, j)
  PROVE  i = j
<1>1. i \in 0..Size(subnet) - 1 /\ j \in 0..Size(subnet) - 1 /\ Size(subnet) \in Nat
  BY SizeBound, SMT DEF Indices
<1> DEFINE a == Number(Address(subnet, i))
           b == Number(subnet.base)
<1>2. /\ a \in Int /\ b \in Int
      /\ a = b + i + 1 \/ (i = Size(subnet) - 1 /\ a <= b)
      /\ a = b + j + 1 \/ (j = Size(subnet) - 1 /\ a <= b)
  BY AddressNumber, EndNumber DEF AtEnd
<1> HIDE DEF a, b
<1> QED BY <1>1, <1>2, SMT

\* The difference of two uint32, as an int32 of the same bits.
LEMMA Int32Value ==
  ASSUME NEW a \in Nat, NEW b \in Nat, a < Total, b < Total, NEW x, NEW y,
         x = IF a < Limit THEN a ELSE a - Total,
         y = IF b < Limit THEN b ELSE b - Total
  PROVE  /\ 0 <= a - b - 1 /\ a - b - 1 < Limit => Int32(x - y - 1) = a - b - 1
         /\ a - b - 1 < 0 /\ a - b - 1 + Total < Limit => Int32(x - y - 1) = a - b - 1 + Total
         /\ a - b - 1 < 0 /\ a - b - 1 + Total >= Limit => Int32(x - y - 1) < 0
BY PlaceValues, SMT DEF Int32, Limit, Total

(***************************************************************************)
(* Release (ipam.go:105-113) finds the bit Allocate set, for every subnet; *)
(* the exception is the last address of a subnet at the end of an octet    *)
(* that is not the first: its index is outside the bitmap, and Go panics.  *)
(***************************************************************************)
THEOREM IndexOfAddress ==
  ASSUME NEW subnet, IsSubnet(subnet), NEW idx \in Indices(subnet)
  PROVE  IF idx = Size(subnet) - 1 /\ Wraps(subnet)
         THEN Index(subnet, Address(subnet, idx)) \notin Indices(subnet)
         ELSE Index(subnet, Address(subnet, idx)) = idx
<1> DEFINE a == Number(Address(subnet, idx))
           b == Number(subnet.base)
           d == Index(subnet, Address(subnet, idx))
           w == Place[subnet.octet]
<1>1. /\ idx \in Nat /\ idx < Size(subnet)
      /\ Size(subnet) \in Nat /\ 1 <= Size(subnet) /\ Size(subnet) <= Limit
  BY SizeBound, SMT DEF Indices
<1>2. /\ a \in Nat /\ a < Total /\ b \in Nat /\ b < Total
      /\ 0 <= a - b - 1 /\ a - b - 1 < Limit => d = a - b - 1
      /\ a - b - 1 < 0 /\ a - b - 1 + Total < Limit => d = a - b - 1 + Total
      /\ a - b - 1 < 0 /\ a - b - 1 + Total >= Limit => d < 0
  <2>1. /\ a \in Nat /\ a < Total
        /\ ipToNumber(Address(subnet, idx)) = IF a < Limit THEN a ELSE a - Total
    BY AddressNumber, IpToNumberIsNum
  <2>2. /\ b \in Nat /\ b < Total
        /\ ipToNumber(subnet.base) = IF b < Limit THEN b ELSE b - Total
    BY BaseOctets, IpToNumberIsNum
  <2> HIDE DEF a, b
  <2> QED BY <2>1, <2>2, Int32Value DEF Index
<1>3. CASE ~AtEnd(subnet, idx)
  <2>1. a = b + idx + 1 /\ ~(idx = Size(subnet) - 1 /\ Wraps(subnet))
    BY <1>3, AddressNumber DEF AtEnd, Wraps
  <2> HIDE DEF a, b, d
  <2>2. d = idx
    BY <1>1, <1>2, <2>1, SMT DEF Limit, Total
  <2> QED BY <2>1, <2>2 DEF d
<1>4. CASE AtEnd(subnet, idx)
  <2>1. a <= b /\ b - a = 256 * w - Size(subnet) /\ idx = Size(subnet) - 1
    BY <1>4, EndNumber DEF AtEnd
  <2>2. Wraps(subnet) <=> subnet.octet # 1
    BY <1>4 DEF AtEnd, Wraps
  <2>3. /\ subnet.octet = 1 => w = 16777216
        /\ subnet.octet # 1 => w \in {1, 256, 65536}
    BY PlaceValues, SMT DEF IsSubnet
  <2>4. w \in Int /\ Size(subnet) <= 128 * w
    BY SizeInOctet, SMT
  <2> HIDE DEF a, b, d, w
  <2>5. CASE subnet.octet = 1
    <3>1. d = idx
      BY <1>1, <1>2, <2>1, <2>3, <2>5, SMT DEF Limit, Total
    <3> QED BY <3>1, <2>2, <2>5 DEF d
  <2>6. CASE subnet.octet # 1
    <3>1. d < 0 /\ d \notin 0..Size(subnet) - 1
      BY <1>1, <1>2, <2>1, <2>3, <2>4, <2>6, SMT DEF Limit, Total
    <3> QED BY <3>1, <2>1, <2>2, <2>6 DEF d, Indices
  <2> QED BY <2>5, <2>6
<1> QED BY <1>3, <1>4

(***************************************************************************)
(* The numbers that share the digits of a base above the octet the mask    *)
(* ends in, and whose digit there is one of the u from the base's: d, the  *)
(* difference to the base, tells them.                                     *)
(***************************************************************************)
DifferenceTells(a1, a2, a3, a4, b1, b2, b3, b4, u, d) ==
  /\ b4 + u <= 256
       => (a1 = b1 /\ a2 = b2 /\ a3 = b3 /\ 0 <= a4 - b4 /\ a4 - b4 < u
             <=> 0 <= d /\ d < u * Place[4])
  /\ b3 + u <= 256 /\ b4 = 0
       => (a1 = b1 /\ a2 = b2 /\ 0 <= a3 - b3 /\ a3 - b3 < u
             <=> 0 <= d /\ d < u * Place[3])
  /\ b2 + u <= 256 /\ b3 = 0 /\ b4 = 0
       => (a1 = b1 /\ 0 <= a2 - b2 /\ a2 - b2 < u
             <=> 0 <= d /\ d < u * Place[2])
  /\ b1 + u <= 256 /\ b2 = 0 /\ b3 = 0 /\ b4 = 0
       => (0 <= a1 - b1 /\ a1 - b1 < u
             <=> 0 <= d /\ d < u * Place[1])

\* The difference does tell them.
LEMMA Blocks ==
  \A a1, a2, a3, a4, b1, b2, b3, b4 \in Octet : \A u \in Int :
    DifferenceTells(a1, a2, a3, a4, b1, b2, b3, b4, u,
                    Num(a1, a2, a3, a4) - Num(b1, b2, b3, b4))
<1> SUFFICES ASSUME NEW a1 \in Octet, NEW a2 \in Octet, NEW a3 \in Octet, NEW a4 \in Octet,
                    NEW b1 \in Octet, NEW b2 \in Octet, NEW b3 \in Octet, NEW b4 \in Octet,
                    NEW u \in Int
             PROVE  DifferenceTells(a1, a2, a3, a4, b1, b2, b3, b4, u,
                                    Num(a1, a2, a3, a4) - Num(b1, b2, b3, b4))
  OBVIOUS
<1> QED BY PlaceValues, SMTT(60) DEF DifferenceTells, Num, Octet

(***************************************************************************)
(* A CIDR block is the addresses from its base up to its size.             *)
(***************************************************************************)
LEMMA ContainsIsInterval ==
  ASSUME NEW subnet, IsSubnet(subnet), NEW ip, \A k \in 1..4 : ip[k] \in Octet
  PROVE  InSubnet(subnet, ip) <=> Number(ip) - Number(subnet.base) \in 0..Size(subnet) - 1
<1> DEFINE u == subnet.span
           b == subnet.base
           d == Number(ip) - Number(b)
<1>1. /\ ip[1] \in Octet /\ ip[2] \in Octet /\ ip[3] \in Octet /\ ip[4] \in Octet
      /\ b[1] \in Octet /\ b[2] \in Octet /\ b[3] \in Octet /\ b[4] \in Octet
  BY BaseOctets, SMT
<1>2. u \in Int /\ b[subnet.octet] + u <= 256
  BY Room, BaseOctets, SMT DEF IsSubnet
<1>3. /\ d = Num(ip[1], ip[2], ip[3], ip[4]) - Num(b[1], b[2], b[3], b[4]) /\ d \in Int
  BY <1>1, NumIsInt, SMT DEF Number
<1>4. InSubnet(subnet, ip) <=>
         /\ \A k \in 1..4 : k < subnet.octet => ip[k] = b[k]
         /\ 0 <= ip[subnet.octet] - b[subnet.octet] /\ ip[subnet.octet] - b[subnet.octet] < u
  <2>1. subnet.octet \in 1..4 /\ ip[subnet.octet] \in Int /\ b[subnet.octet] \in Int
    BY <1>1, SMT DEF IsSubnet, Octet
  <2>2. ip[subnet.octet] - b[subnet.octet] \in 0..u - 1
          <=> /\ 0 <= ip[subnet.octet] - b[subnet.octet]
              /\ ip[subnet.octet] - b[subnet.octet] < u
    BY <1>2, <2>1, SMT
  <2> QED BY <2>2 DEF InSubnet
<1>5. d \in 0..Size(subnet) - 1 <=> 0 <= d /\ d < u * Place[subnet.octet]
  BY <1>3, SizeBound, SMT DEF Size
<1> HIDE DEF u, b, d
<1>6. DifferenceTells(ip[1], ip[2], ip[3], ip[4], b[1], b[2], b[3], b[4], u, d)
  BY <1>1, <1>2, <1>3, Blocks
<1>7. /\ subnet.octet \in 1..4
      /\ \A k \in 1..4 : k > subnet.octet => b[k] = 0
  BY DEF IsSubnet, b
<1>8. ASSUME subnet.octet = 1
      PROVE  InSubnet(subnet, ip) <=> d \in 0..Size(subnet) - 1
  BY <1>2, <1>4, <1>5, <1>6, <1>7, <1>8, SMT DEF DifferenceTells
<1>9. ASSUME subnet.octet = 2
      PROVE  InSubnet(subnet, ip) <=> d \in 0..Size(subnet) - 1
  BY <1>2, <1>4, <1>5, <1>6, <1>7, <1>9, SMT DEF DifferenceTells
<1>10. ASSUME subnet.octet = 3
      PROVE  InSubnet(subnet, ip) <=> d \in 0..Size(subnet) - 1
  BY <1>2, <1>4, <1>5, <1>6, <1>7, <1>10, SMT DEF DifferenceTells
<1>11. ASSUME subnet.octet = 4
      PROVE  InSubnet(subnet, ip) <=> d \in 0..Size(subnet) - 1
  BY <1>2, <1>4, <1>5, <1>6, <1>7, <1>11, SMT DEF DifferenceTells
<1>12. InSubnet(subnet, ip) <=> d \in 0..Size(subnet) - 1
  BY <1>7, <1>8, <1>9, <1>10, <1>11, SMT
<1> QED BY <1>12 DEF d, b

(***************************************************************************)
(* Every position but the last gives an address of the subnet; the last    *)
(* one never does: its address lies behind the broadcast address.          *)
(***************************************************************************)
THEOREM OnlyLastPositionLeavesSubnet ==
  ASSUME NEW subnet, IsSubnet(subnet), NEW idx \in Indices(subnet)
  PROVE  InSubnet(subnet, Address(subnet, idx)) <=> idx < Size(subnet) - 1
<1> DEFINE a == Number(Address(subnet, idx))
           b == Number(subnet.base)
<1>1. idx \in 0..Size(subnet) - 1 /\ Size(subnet) \in Nat
  BY SizeBound, SMT DEF Indices
<1>2. /\ a \in Int /\ b \in Int
      /\ a = b + idx + 1 \/ (idx = Size(subnet) - 1 /\ b - a > 0)
  <2>1. CASE AtEnd(subnet, idx)
    <3>1. 256 * Place[subnet.octet] - Size(subnet) > 0
      BY <1>1, SizeInOctet, SMT
    <3>2. a \in Int /\ b \in Int /\ b - a > 0 /\ idx = Size(subnet) - 1
      <4>1. a \in Int /\ b \in Int
        BY AddressNumber
      <4>2. b - a = 256 * Place[subnet.octet] - Size(subnet)
        BY <2>1, EndNumber
      <4> QED BY <2>1, <3>1, <4>1, <4>2 DEF AtEnd
    <3> QED BY <3>2
  <2>2. CASE ~AtEnd(subnet, idx)
    BY <2>2, AddressNumber
  <2> QED BY <2>1, <2>2
<1> HIDE DEF a, b
<1>3. a - b \in 0..Size(subnet) - 1 <=> idx < Size(subnet) - 1
  BY <1>1, <1>2, SMT
<1>4. \A k \in 1..4 : Address(subnet, idx)[k] \in Octet
  BY AddressNumber
<1> QED BY <1>3, <1>4, ContainsIsInterval DEF a, b

-----------------------------------------------------------------------------
\* A table is a function from some subnets to sets of their positions.
LEMMA TableMember ==
  ASSUME NEW m
  PROVE  m \in Table <=> /\ m = [s \in DOMAIN m |-> m[s]]
                         /\ DOMAIN m \subseteq Subnet
                         /\ \A s \in DOMAIN m : m[s] \subseteq Indices(s)
<1>1. ASSUME m \in Table
      PROVE  /\ m = [s \in DOMAIN m |-> m[s]] /\ DOMAIN m \subseteq Subnet
             /\ \A s \in DOMAIN m : m[s] \subseteq Indices(s)
  BY <1>1 DEF Table
<1>2. ASSUME /\ m = [s \in DOMAIN m |-> m[s]] /\ DOMAIN m \subseteq Subnet
             /\ \A s \in DOMAIN m : m[s] \subseteq Indices(s)
      PROVE  m \in Table
  <2>1. \A s \in DOMAIN m : m[s] \in SUBSET Position
    BY <1>2 DEF Position
  <2>2. m \in [DOMAIN m -> SUBSET Position]
    BY <1>2, <2>1
  <2> QED BY <1>2, <2>2 DEF Table
<1> QED BY <1>1, <1>2

\* The operations on tables give tables.
LEMMA TableOperations ==
  ASSUME NEW m \in Table, NEW s \in Subnet, NEW bits \in SUBSET Indices(s)
  PROVE  /\ Set(m, s, bits) \in Table /\ Delete(m, s) \in Table
         /\ NoSubnets \in Table /\ Bitmap(m, s) \subseteq Indices(s)
<1>1. DOMAIN m \subseteq Subnet /\ \A t \in DOMAIN m : m[t] \subseteq Indices(t)
  BY TableMember
<1>2. Set(m, s, bits) \in Table
  <2>1. DOMAIN Set(m, s, bits) = DOMAIN m \cup {s}
    BY DEF Set
  <2>2. Set(m, s, bits) = [t \in DOMAIN Set(m, s, bits) |-> Set(m, s, bits)[t]]
    BY DEF Set
  <2>3. \A t \in DOMAIN Set(m, s, bits) : Set(m, s, bits)[t] \subseteq Indices(t)
    BY <1>1 DEF Set
  <2> QED BY <1>1, <2>1, <2>2, <2>3, TableMember
<1>3. Delete(m, s) \in Table
  <2>1. DOMAIN Delete(m, s) = DOMAIN m \ {s}
    BY DEF Delete
  <2>2. Delete(m, s) = [t \in DOMAIN Delete(m, s) |-> Delete(m, s)[t]]
    BY DEF Delete
  <2>3. \A t \in DOMAIN Delete(m, s) : Delete(m, s)[t] \subseteq Indices(t)
    BY <1>1 DEF Delete
  <2> QED BY <1>1, <2>1, <2>2, <2>3, TableMember
<1>4. NoSubnets \in Table
  <2>1. DOMAIN NoSubnets = {} /\ NoSubnets = [t \in DOMAIN NoSubnets |-> NoSubnets[t]]
    BY DEF NoSubnets
  <2> QED BY <2>1, TableMember
<1>5. Bitmap(m, s) \subseteq Indices(s)
  BY <1>1 DEF Bitmap
<1> QED BY <1>2, <1>3, <1>4, <1>5

\* What a bitmap is after a change of the table.
LEMMA BitmapAfter ==
  ASSUME NEW m, NEW s, NEW bits, NEW t
  PROVE  /\ Bitmap(Set(m, s, bits), t) = IF t = s THEN bits ELSE Bitmap(m, t)
         /\ Bitmap(Delete(m, s), t) = IF t = s THEN {} ELSE Bitmap(m, t)
         /\ Bitmap(NoSubnets, t) = {}
BY DEF Bitmap, Set, Delete, NoSubnets

\* An address is four octets, so that what Allocate gives out is a lease.
LEMMA AddressIsIP ==
  ASSUME NEW s \in Subnet, NEW i \in Indices(s)
  PROVE  Address(s, i) \in IP /\ LeaseOf(s, i) \in Lease
<1>1. PICK o1, o2, o3, o4 \in Octet :
           /\ Address(s, i)[1] = Plus8(s.base[1], o1)
           /\ Address(s, i)[2] = Plus8(s.base[2], o2)
           /\ Address(s, i)[3] = Plus8(s.base[3], o3)
           /\ Address(s, i)[4] = Plus8(s.base[4], o4)
  BY SubnetAssumption, AddressOctets
<1>2. \A k \in 1..4 : Address(s, i)[k] \in Octet
  <2>1. /\ s.base[1] \in Octet /\ s.base[2] \in Octet
        /\ s.base[3] \in Octet /\ s.base[4] \in Octet
    BY SubnetAssumption, BaseOctets
  <2>2. /\ Address(s, i)[1] \in Octet /\ Address(s, i)[2] \in Octet
        /\ Address(s, i)[3] \in Octet /\ Address(s, i)[4] \in Octet
    BY <1>1, <2>1, Plus8IsOctet
  <2> QED BY <2>2, SMT
<1>3. Address(s, i) = [k \in 1..4 |-> Address(s, i)[k]]
  BY DEF Address, numberToIP
<1>4. Address(s, i) \in IP
  BY <1>2, <1>3 DEF IP
<1> QED BY <1>4 DEF Lease, LeaseOf

\* A lease belongs to one position of one subnet.
LEMMA LeaseInjective ==
  ASSUME NEW s \in Subnet, NEW i \in Indices(s), NEW t \in Subnet, NEW j \in Indices(t),
         LeaseOf(s, i) = LeaseOf(t, j)
  PROVE  s = t /\ i = j
<1>1. s = t /\ Address(s, i) = Address(t, j)
  BY DEF LeaseOf
<1> QED BY <1>1, SubnetAssumption, AddressInjective
=============================================================================

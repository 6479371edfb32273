----------------------------- MODULE IpamProofs -----------------------------
(***************************************************************************)
(* Proofs about the address manager, for any number of holders and any     *)
(* subnets.                                                                *)
(***************************************************************************)
EXTENDS Ipam, SubnetTableProofs

-----------------------------------------------------------------------------
\* What Allocate gives out is a lease, and not the mark for none.
LEMMA AddressIsLease ==
  ASSUME NEW s \in Subnet, NEW i \in Indices(s)
  PROVE  LeaseOf(s, i) \in Lease /\ LeaseOf(s, i) # NoLease
BY AddressIsIP, MarkAssumption

\* The table a process reads is a table.
LEMMA ReadTable ==
  ASSUME TypeOK
  PROVE  readSubnets \in Table
<1>1. NoSubnets \in Table
  <2>1. DOMAIN NoSubnets = {} /\ NoSubnets = [t \in DOMAIN NoSubnets |-> NoSubnets[t]]
    BY DEF NoSubnets
  <2> QED BY <2>1, TableMember
<1> QED BY <1>1 DEF TypeOK, readSubnets

\* A call that is accepted keeps the types.
LEMMA ChangeTypeOK ==
  ASSUME TypeOK, NEW h \in Holder, NEW table \in Table, NEW lease \in Lease \cup {NoLease},
         Change(h, table, lease)
  PROVE  TypeOK'
BY DEF TypeOK, Change

\* A call that is refused keeps the types.
LEMMA RefuseTypeOK ==
  ASSUME TypeOK, NEW h \in Holder, NEW why \in {"full", "error"}, Refuse(h, why)
  PROVE  TypeOK'
BY DEF TypeOK, Refuse

\* Every step keeps the types.
LEMMA NextTypeOK ==
  ASSUME TypeOK, [Next]_vars
  PROVE  TypeOK'
<1>0. NoSubnets \in Table
  <2>1. DOMAIN NoSubnets = {} /\ NoSubnets = [t \in DOMAIN NoSubnets |-> NoSubnets[t]]
    BY DEF NoSubnets
  <2> QED BY <2>1, TableMember
<1>1. CASE UNCHANGED vars
  BY <1>1 DEF TypeOK, vars
<1>2. ASSUME NEW h \in Holder, NEW s \in Subnet, Allocate(h, s)
      PROVE  TypeOK'
  <2>1. CASE Refuse(h, "error") \/ Refuse(h, "full")
    BY <2>1, RefuseTypeOK
  <2>2. ASSUME NEW idx \in FreeIn(readSubnets, s),
               Change(h, Set(readSubnets, s, Mark(Bitmap(readSubnets, s), idx)), LeaseOf(s, idx))
        PROVE  TypeOK'
    <3>1. idx \in Indices(s)
      BY DEF FreeIn
    <3>2. Mark(Bitmap(readSubnets, s), idx) \in SUBSET Indices(s)
      BY <3>1, ReadTable, TableOperations DEF Mark
    <3>3. Set(readSubnets, s, Mark(Bitmap(readSubnets, s), idx)) \in Table
      BY <3>2, ReadTable, TableOperations
    <3> QED BY <2>2, <3>1, <3>3, AddressIsLease, ChangeTypeOK
  <2> QED BY <1>2, <2>1, <2>2 DEF Allocate
<1>3. ASSUME NEW h \in Holder, Release(h)
      PROVE  TypeOK'
  <2> DEFINE s   == held[h].subnet
             idx == Index(s, held[h].ip)
  <2>1. CASE Refuse(h, "error")
    BY <2>1, RefuseTypeOK
  <2>2. held[h] \in Lease /\ s \in Subnet
    BY <1>3 DEF Release, TypeOK, Lease
  <2>3. CASE Change(h, Set(readSubnets, s, Clear(readSubnets[s], idx)), NoLease)
               /\ s \in DOMAIN readSubnets
    <3>1. Clear(readSubnets[s], idx) \in SUBSET Indices(s)
      BY <2>2, <2>3, ReadTable, TableMember DEF Clear
    <3>2. Set(readSubnets, s, Clear(readSubnets[s], idx)) \in Table
      BY <2>2, <3>1, ReadTable, TableOperations
    <3> QED BY <2>3, <3>2, ChangeTypeOK
  <2>4. CASE Change(h, readSubnets, held[h])
    BY <2>2, <2>4, ReadTable, ChangeTypeOK
  <2> QED BY <1>3, <2>1, <2>3, <2>4 DEF Release
<1>4. ASSUME NEW h \in Holder, NEW s \in Subnet, Remove(h, s)
      PROVE  TypeOK'
  <2>1. CASE Refuse(h, "error")
    BY <2>1, RefuseTypeOK
  <2>2. CASE Change(h, Delete(readSubnets, s), held[h])
    <3>1. Delete(readSubnets, s) \in Table
      BY ReadTable, TableOperations
    <3>2. held[h] \in Lease \cup {NoLease}
      BY DEF TypeOK
    <3> QED BY <2>2, <3>1, <3>2, ChangeTypeOK
  <2> QED BY <1>4, <2>1, <2>2 DEF Remove
<1>5. ASSUME NEW h \in Holder, Create(h)
      PROVE  TypeOK'
  BY <1>5 DEF Create, TypeOK
<1>6. ASSUME NEW h \in Holder, Write(h)
      PROVE  TypeOK'
  BY <1>6, <1>0 DEF Write, Return, Exit, TypeOK
<1>7. ASSUME NEW h \in Holder, Fail(h)
      PROVE  TypeOK'
  BY <1>7, <1>0 DEF Fail, CreateFails, WriteFails, Return, Exit, TypeOK
<1>8. ASSUME NEW h \in Holder, Crash(h)
      PROVE  TypeOK'
  BY <1>8, <1>0 DEF Crash, Exit, TypeOK
<1> QED BY <1>1, <1>2, <1>3, <1>4, <1>5, <1>6, <1>7, <1>8 DEF Next, Call, Save

(***************************************************************************)
(* The types hold in every behaviour, with concurrent processes, failing   *)
(* saves and crashes.                                                      *)
(***************************************************************************)
THEOREM TypeCorrect == Spec => []TypeOK
<1>1. NoSubnets \in Table
  <2>1. DOMAIN NoSubnets = {} /\ NoSubnets = [t \in DOMAIN NoSubnets |-> NoSubnets[t]]
    BY DEF NoSubnets
  <2> QED BY <2>1, TableMember
<1>2. Init => TypeOK
  BY <1>1 DEF Init, TypeOK
<1> QED BY <1>2, NextTypeOK, PTL DEF Spec

-----------------------------------------------------------------------------
(***************************************************************************)
(* The inductive invariant.  BitmapIsLeases says nothing while the file is *)
(* truncated: what must be right then is the table of the process that is  *)
(* about to write it.  Knows says so of a process whose file was not       *)
(* rewritten since it read it: its table has the bits of the addresses     *)
(* that are held once its call returns, unless it drops a bitmap in use,   *)
(* and the address it is about to return is nobody else's.                 *)
(***************************************************************************)
IsLease(l) == \E s \in Subnet : \E i \in Indices(s) : l = LeaseOf(s, i)

HoldLeases ==
  \A h \in Holder : /\ held[h] # NoLease => IsLease(held[h])
                    /\ result[h] # NoLease => IsLease(result[h])

FileThere == \A h \in Holder : pc[h] = "write" => file # NoFile

LeasedIn(leases, s) == {i \in Indices(s) : \E g \in Holder : leases[g] = LeaseOf(s, i)}

Knows(h, table, lease) ==
  LET after == [held EXCEPT ![h] = lease]
  IN  /\ lease # NoLease => \A g \in Holder \ {h} : held[g] # lease
      /\ \/ \E g \in Holder : after[g] # NoLease /\ after[g].subnet \notin DOMAIN table
         \/ \A s \in Subnet : Bitmap(table, s) = LeasedIn(after, s)

FreshWriter ==
  ~mishap => \A h \in Holder : pc[h] # "idle" /\ ~stale[h] => Knows(h, Subnets[h], result[h])

IInv == /\ TypeOK /\ HoldLeases /\ FileThere
        /\ UniqueUnlessMishap /\ BitmapIsLeases /\ FreshWriter

\* Leased is what the current leases take of a subnet.
LEMMA LeasedIsLeasedIn == \A s : Leased(s) = LeasedIn(held, s)
BY DEF Leased, LeasedIn

(***************************************************************************)
(* A call whose table and lease fit what is held keeps the invariant.      *)
(***************************************************************************)
LEMMA ChangeInv ==
  ASSUME IInv, TypeOK', NEW h \in Holder, NEW table, NEW lease, Change(h, table, lease),
         lease # NoLease => IsLease(lease),
         ~mishap => Knows(h, table, lease)
  PROVE  IInv'
<1>1. HoldLeases'
  BY DEF IInv, TypeOK, HoldLeases, Change, IsLease
<1>2. FileThere'
  BY DEF IInv, TypeOK, FileThere, Change
<1>3. UniqueUnlessMishap'
  BY DEF IInv, UniqueUnlessMishap, NoDuplicate, Change
<1>4. BitmapIsLeases'
  BY DEF IInv, BitmapIsLeases, Readable, readSubnets, Bitmap, Leased, Change
<1>5. FreshWriter'
  <2> SUFFICES ASSUME ~mishap', NEW g \in Holder, pc'[g] # "idle", ~stale'[g]
               PROVE  Knows(g, Subnets[g], result[g])'
    BY DEF FreshWriter
  <2>1. ~mishap /\ held' = held
    BY DEF Change
  <2>2. CASE g = h
    <3>1. Subnets'[g] = table /\ result'[g] = lease
      BY <2>2 DEF Change, IInv, TypeOK
    <3> QED BY <2>1, <2>2, <3>1 DEF Knows, LeasedIn
  <2>3. CASE g # h
    <3>1. /\ Subnets'[g] = Subnets[g] /\ result'[g] = result[g]
          /\ pc'[g] = pc[g] /\ stale'[g] = stale[g]
      BY <2>3 DEF Change, IInv, TypeOK
    <3>2. Knows(g, Subnets[g], result[g])
      BY <2>1, <3>1 DEF IInv, FreshWriter
    <3> QED BY <2>1, <3>1, <3>2 DEF Knows, LeasedIn
  <2> QED BY <2>2, <2>3
<1> QED BY <1>1, <1>2, <1>3, <1>4, <1>5 DEF IInv

\* A refused call changes nothing the invariant speaks of.
LEMMA RefuseInv ==
  ASSUME IInv, TypeOK', NEW h \in Holder, NEW why, Refuse(h, why)
  PROVE  IInv'
BY DEF IInv, Refuse, HoldLeases, IsLease, FileThere, UniqueUnlessMishap, NoDuplicate,
       BitmapIsLeases, Readable, readSubnets, Bitmap, Leased, FreshWriter, Knows, LeasedIn

(***************************************************************************)
(* Allocate: the first '0' of a table that has the bits of all leases is   *)
(* nobody's, and setting it makes room for exactly the new lease.          *)
(***************************************************************************)
LEMMA AllocateInv ==
  ASSUME IInv, TypeOK', NEW h \in Holder, NEW s \in Subnet, Allocate(h, s)
  PROVE  IInv'
<1>1. CASE Refuse(h, "error") \/ Refuse(h, "full")
  BY <1>1, RefuseInv
<1>2. ASSUME NEW idx \in FreeIn(readSubnets, s), Readable,
             Change(h, Set(readSubnets, s, Mark(Bitmap(readSubnets, s), idx)), LeaseOf(s, idx))
      PROVE  IInv'
  <2> DEFINE table == Set(readSubnets, s, Mark(Bitmap(readSubnets, s), idx))
             lease == LeaseOf(s, idx)
             after == [held EXCEPT ![h] = lease]
  <2>1. idx \in Indices(s) /\ idx \notin Bitmap(readSubnets, s)
    BY DEF FreeIn
  <2>2. IsLease(lease) /\ lease # NoLease
    BY <2>1, AddressIsLease DEF IsLease
  <2>3. ASSUME ~mishap
        PROVE  Knows(h, table, lease)
    <3>1. \A t \in Subnet : Bitmap(readSubnets, t) = Leased(t)
      BY <2>3, <1>2 DEF IInv, BitmapIsLeases
    <3>2. \A g \in Holder : held[g] # lease
      BY <2>1, <3>1 DEF Leased
    <3>3. held[h] = NoLease /\ h \in DOMAIN held
      BY DEF Allocate, IInv, TypeOK
    <3>4. ASSUME NEW t \in Subnet
          PROVE  Bitmap(table, t) = LeasedIn(after, t)
      <4>1. \A g \in Holder : after[g] = IF g = h THEN lease ELSE held[g]
        BY DEF IInv, TypeOK
      <4>2. \A i \in Indices(t) : held[h] # LeaseOf(t, i)
        BY <3>3, AddressIsLease
      <4>3. \A i \in Indices(t) : lease = LeaseOf(t, i) <=> t = s /\ i = idx
        BY <2>1, LeaseInjective
      <4>4. LeasedIn(after, t) = Leased(t) \cup {i \in Indices(t) : lease = LeaseOf(t, i)}
        BY <4>1, <4>2 DEF LeasedIn, Leased
      <4>5. LeasedIn(after, t) = IF t = s THEN Leased(s) \cup {idx} ELSE Leased(t)
        BY <2>1, <4>3, <4>4
      <4>6. Bitmap(table, t) = IF t = s THEN Bitmap(readSubnets, s) \cup {idx}
                                        ELSE Bitmap(readSubnets, t)
        BY BitmapAfter DEF Mark
      <4> QED BY <3>1, <4>5, <4>6
    <3> QED BY <3>2, <3>4 DEF Knows
  <2> QED BY <1>2, <2>2, <2>3, ChangeInv
<1> QED BY <1>1, <1>2 DEF Allocate

(***************************************************************************)
(* Release: the bit it clears is the bit of its own address, because no    *)
(* other holder has that address; a panic saves the table it read.         *)
(***************************************************************************)
LEMMA ReleaseInv ==
  ASSUME IInv, TypeOK', NEW h \in Holder, Release(h)
  PROVE  IInv'
<1> DEFINE s   == held[h].subnet
           idx == Index(s, held[h].ip)
<1>1. CASE Refuse(h, "error")
  BY <1>1, RefuseInv
<1>2. PICK t \in Subnet : \E i \in Indices(t) : held[h] = LeaseOf(t, i)
  BY DEF Release, IInv, HoldLeases, IsLease
<1>2a. PICK i \in Indices(t) : held[h] = LeaseOf(t, i)
  BY <1>2
<1>3. s = t /\ held[h].ip = Address(t, i) /\ held[h] # NoLease
  BY <1>2a DEF LeaseOf, Release
<1>4. idx \in Indices(s) => idx = i
  BY <1>3, SubnetAssumption, IndexOfAddress
<1>5. ~mishap => \A g \in Holder \ {h} : held[g] # held[h]
  BY <1>3 DEF IInv, UniqueUnlessMishap, NoDuplicate
<1>6. Readable /\ ~mishap => \A u \in Subnet : Bitmap(readSubnets, u) = Leased(u)
  BY DEF IInv, BitmapIsLeases
<1>7. CASE /\ Readable /\ s \in DOMAIN readSubnets /\ idx \in Indices(s)
           /\ Change(h, Set(readSubnets, s, Clear(readSubnets[s], idx)), NoLease)
  <2> DEFINE table == Set(readSubnets, s, Clear(readSubnets[s], idx))
             after == [held EXCEPT ![h] = NoLease]
  <2>1. ASSUME ~mishap
        PROVE  Knows(h, table, NoLease)
    <3>1. ASSUME NEW u \in Subnet
          PROVE  Bitmap(table, u) = LeasedIn(after, u)
      <4>1. \A g \in Holder : after[g] = IF g = h THEN NoLease ELSE held[g]
        BY DEF IInv, TypeOK
      <4>2. \A j \in Indices(u) : LeaseOf(u, j) # NoLease
        BY AddressIsLease
      <4>3. \A j \in Indices(u) : held[h] = LeaseOf(u, j) <=> u = t /\ j = i
        BY <1>2a, LeaseInjective
      <4>4. LeasedIn(after, u) = {j \in Leased(u) : held[h] # LeaseOf(u, j)}
        BY <4>1, <4>2, <2>1, <1>5 DEF LeasedIn, Leased
      <4>5. \A j \in Leased(u) : j \in Indices(u)
        BY DEF Leased
      <4>6. LeasedIn(after, u) = IF u = t THEN Leased(u) \ {i} ELSE Leased(u)
        BY <4>3, <4>4, <4>5
      <4>7. Bitmap(table, u) = IF u = s THEN readSubnets[s] \ {idx} ELSE Bitmap(readSubnets, u)
        BY BitmapAfter DEF Clear
      <4>8. readSubnets[s] = Bitmap(readSubnets, s)
        BY <1>7 DEF Bitmap
      <4> QED BY <1>3, <1>4, <1>6, <1>7, <2>1, <4>6, <4>7, <4>8
    <3> QED BY <3>1 DEF Knows
  <2> QED BY <1>7, <2>1, ChangeInv
<1>8. CASE Readable /\ Change(h, readSubnets, held[h])
  <2>1. [held EXCEPT ![h] = held[h]] = held
    BY DEF IInv, TypeOK
  <2>2. ASSUME ~mishap
        PROVE  Knows(h, readSubnets, held[h])
    BY <1>5, <1>6, <1>8, <2>1, <2>2, LeasedIsLeasedIn DEF Knows
  <2>3. IsLease(held[h])
    BY <1>2a DEF IsLease
  <2> QED BY <1>8, <2>2, <2>3, ChangeInv
<1> QED BY <1>1, <1>7, <1>8 DEF Release

(***************************************************************************)
(* Remove: either somebody holds an address of the subnet, and the table   *)
(* drops a bitmap in use, or the bitmap it deletes was all '0'.            *)
(***************************************************************************)
LEMMA RemoveInv ==
  ASSUME IInv, TypeOK', NEW h \in Holder, NEW s \in Subnet, Remove(h, s)
  PROVE  IInv'
<1>1. CASE Refuse(h, "error")
  BY <1>1, RefuseInv
<1>2. CASE Readable /\ Change(h, Delete(readSubnets, s), held[h])
  <2> DEFINE table == Delete(readSubnets, s)
  <2>1. [held EXCEPT ![h] = held[h]] = held
    BY DEF IInv, TypeOK
  <2>2. ASSUME ~mishap
        PROVE  Knows(h, table, held[h])
    <3>1. held[h] # NoLease => \A g \in Holder \ {h} : held[g] # held[h]
      BY <2>2 DEF IInv, UniqueUnlessMishap, NoDuplicate
    <3>2. \A t \in Subnet : Bitmap(readSubnets, t) = Leased(t)
      BY <1>2, <2>2 DEF IInv, BitmapIsLeases
    <3>3. CASE \E g \in Holder : held[g] # NoLease /\ held[g].subnet = s
      <4>1. s \notin DOMAIN table
        BY DEF Delete
      <4> QED BY <2>1, <3>1, <3>3, <4>1 DEF Knows
    <3>4. CASE \A g \in Holder : held[g] # NoLease => held[g].subnet # s
      <4>1. Leased(s) = {}
        BY <3>4, AddressIsLease DEF Leased, LeaseOf
      <4>2. \A t \in Subnet : Bitmap(table, t) = Leased(t)
        <5> TAKE t \in Subnet
        <5>1. Bitmap(table, t) = IF t = s THEN {} ELSE Bitmap(readSubnets, t)
          BY DEF Bitmap, Delete
        <5> QED BY <3>2, <4>1, <5>1
      <4> QED BY <2>1, <3>1, <4>2, LeasedIsLeasedIn DEF Knows
    <3> QED BY <3>3, <3>4
  <2>3. held[h] # NoLease => IsLease(held[h])
    BY DEF IInv, HoldLeases
  <2> QED BY <1>2, <2>2, <2>3, ChangeInv
<1> QED BY <1>1, <1>2 DEF Remove

\* Truncating the file: nobody can read it now, and nothing else changes.
LEMMA CreateInv ==
  ASSUME IInv, TypeOK', NEW h \in Holder, Create(h)
  PROVE  IInv'
<1>1. HoldLeases'
  BY DEF IInv, HoldLeases, IsLease, Create
<1>2. FileThere'
  BY MarkAssumption DEF FileThere, Create
<1>3. UniqueUnlessMishap'
  BY DEF IInv, UniqueUnlessMishap, NoDuplicate, Create
<1>4. BitmapIsLeases'
  BY DEF BitmapIsLeases, Readable, Create
<1>5. FreshWriter'
  <2> SUFFICES ASSUME ~mishap', NEW g \in Holder, pc'[g] # "idle", ~stale'[g]
               PROVE  Knows(g, Subnets[g], result[g])'
    BY DEF FreshWriter
  <2>1. pc[g] # "idle" /\ ~stale[g] /\ ~mishap
    BY DEF Create, IInv, TypeOK
  <2>2. Knows(g, Subnets[g], result[g])
    BY <2>1 DEF IInv, FreshWriter
  <2> QED BY <2>2 DEF Knows, LeasedIn, Create
<1> QED BY <1>1, <1>2, <1>3, <1>4, <1>5 DEF IInv

(***************************************************************************)
(* Writing the file: a process that is not stale and drops nothing writes  *)
(* the bits of what is held from now on; all others are stale from now on. *)
(***************************************************************************)
LEMMA WriteInv ==
  ASSUME IInv, TypeOK', NEW h \in Holder, Write(h)
  PROVE  IInv'
<1>1. held' = After(h) /\ \A g \in Holder : After(h)[g] = IF g = h THEN result[h] ELSE held[g]
  BY DEF Write, Return, After, IInv, TypeOK
<1>2. \A g \in Holder : result'[g] = IF g = h THEN NoLease ELSE result[g]
  BY DEF Write, Return, Exit, IInv, TypeOK
<1>3. pc[h] = "write"
  BY DEF Write
<1>4. file' = Torn \/ (file' = Subnets[h] /\ Subnets[h] \in Table)
  BY DEF Write, IInv, TypeOK
<1>5. ASSUME ~mishap'
      PROVE  /\ ~mishap
             /\ result[h] # NoLease => \A g \in Holder \ {h} : held[g] # result[h]
             /\ \A s \in Subnet : Bitmap(Subnets[h], s) = LeasedIn(After(h), s)
  <2>1. ~mishap /\ ~stale[h] /\ ~Drops(h)
    BY <1>5 DEF Write
  <2>2. Knows(h, Subnets[h], result[h])
    BY <2>1, <1>3 DEF IInv, FreshWriter
  <2> QED BY <2>1, <2>2 DEF Knows, Drops, After
<1>6. HoldLeases'
  BY <1>1, <1>2 DEF IInv, HoldLeases, IsLease
<1>7. FileThere'
  BY <1>4, MarkAssumption DEF FileThere
<1>8. UniqueUnlessMishap'
  BY <1>1, <1>5 DEF IInv, UniqueUnlessMishap, NoDuplicate
<1>9. BitmapIsLeases'
  <2> SUFFICES ASSUME ~mishap', Readable', NEW s \in Subnet
               PROVE  Bitmap(readSubnets', s) = Leased(s)'
    BY DEF BitmapIsLeases, Bitmap
  <2>1. file' = Subnets[h] /\ file' \notin {NoFile, Empty, Torn}
    BY <1>4, MarkAssumption DEF Readable
  <2>2. readSubnets' = Subnets[h]
    BY <2>1 DEF readSubnets
  <2>3. Leased(s)' = LeasedIn(After(h), s)
    BY <1>1 DEF Leased, LeasedIn
  <2> QED BY <1>5, <2>2, <2>3
<1>10. FreshWriter'
  <2>1. \A g \in Holder : pc'[g] # "idle" => stale'[g]
    BY DEF Write, Return, Exit, IInv, TypeOK
  <2> QED BY <2>1 DEF FreshWriter
<1> QED BY <1>6, <1>7, <1>8, <1>9, <1>10 DEF IInv

\* A save that fails is a mishap: what is left to show is who holds leases.
LEMMA FailInv ==
  ASSUME IInv, TypeOK', NEW h \in Holder, Fail(h)
  PROVE  IInv'
<1>1. /\ mishap'
      /\ \A g \in Holder : held'[g] = IF g = h THEN result[h] ELSE held[g]
      /\ \A g \in Holder : result'[g] = IF g = h THEN NoLease ELSE result[g]
      /\ \A g \in Holder : pc'[g] = "write" => pc[g] = "write"
      /\ file' \in {file, Torn}
  BY DEF Fail, CreateFails, WriteFails, Return, Exit, IInv, TypeOK
<1>2. HoldLeases'
  BY <1>1 DEF IInv, HoldLeases, IsLease
<1>3. FileThere'
  BY <1>1, MarkAssumption DEF IInv, FileThere
<1> QED BY <1>1, <1>2, <1>3 DEF IInv, UniqueUnlessMishap, BitmapIsLeases, FreshWriter

\* A process that dies leaves the file, the leases and the others alone.
LEMMA CrashInv ==
  ASSUME IInv, TypeOK', NEW h \in Holder, Crash(h)
  PROVE  IInv'
<1>1. /\ UNCHANGED <<file, held, stale, mishap>>
      /\ \A g \in Holder : result'[g] = IF g = h THEN NoLease ELSE result[g]
      /\ \A g \in Holder : pc'[g] = IF g = h THEN "idle" ELSE pc[g]
      /\ \A g \in Holder : g # h => Subnets'[g] = Subnets[g]
  BY DEF Crash, Exit, IInv, TypeOK
<1>2. HoldLeases'
  BY <1>1 DEF IInv, HoldLeases, IsLease
<1>3. FileThere'
  BY <1>1 DEF IInv, FileThere
<1>4. UniqueUnlessMishap' /\ BitmapIsLeases'
  BY <1>1 DEF IInv, UniqueUnlessMishap, NoDuplicate, BitmapIsLeases, Readable, readSubnets,
              Bitmap, Leased
<1>5. FreshWriter'
  <2> SUFFICES ASSUME ~mishap', NEW g \in Holder, pc'[g] # "idle", ~stale'[g]
               PROVE  Knows(g, Subnets[g], result[g])'
    BY DEF FreshWriter
  <2>1. g # h /\ pc[g] # "idle" /\ ~stale[g] /\ ~mishap
    BY <1>1
  <2>2. Knows(g, Subnets[g], result[g])
    BY <2>1 DEF IInv, FreshWriter
  <2>3. Subnets'[g] = Subnets[g] /\ result'[g] = result[g]
    BY <1>1, <2>1
  <2> QED BY <1>1, <2>2, <2>3 DEF Knows, LeasedIn
<1> QED BY <1>2, <1>3, <1>4, <1>5 DEF IInv

\* Nothing is held and no file exists at the start.
LEMMA InitInv == Init => IInv
<1> SUFFICES ASSUME Init
             PROVE  IInv
  OBVIOUS
<1>1. NoSubnets \in Table
  <2>1. DOMAIN NoSubnets = {} /\ NoSubnets = [t \in DOMAIN NoSubnets |-> NoSubnets[t]]
    BY DEF NoSubnets
  <2> QED BY <2>1, TableMember
<1>2. TypeOK
  BY <1>1 DEF Init, TypeOK
<1>3. HoldLeases /\ FileThere /\ UniqueUnlessMishap /\ FreshWriter
  BY DEF Init, HoldLeases, FileThere, UniqueUnlessMishap, NoDuplicate, FreshWriter
<1>4. BitmapIsLeases
  <2> SUFFICES ASSUME NEW s \in Subnet
               PROVE  Bitmap(readSubnets, s) = Leased(s)
    BY DEF BitmapIsLeases
  <2>1. readSubnets = NoSubnets
    BY DEF Init, readSubnets
  <2>2. Leased(s) = {}
    BY AddressIsLease DEF Init, Leased
  <2> QED BY <2>1, <2>2, BitmapAfter
<1> QED BY <1>2, <1>3, <1>4 DEF IInv

\* Every step keeps the invariant.
LEMMA NextInv ==
  ASSUME IInv, [Next]_vars
  PROVE  IInv'
<1>1. TypeOK'
  BY NextTypeOK DEF IInv
<1>2. CASE UNCHANGED vars
  BY <1>1, <1>2 DEF vars, IInv, HoldLeases, IsLease, FileThere, UniqueUnlessMishap, NoDuplicate,
       BitmapIsLeases, Readable, readSubnets, Bitmap, Leased, FreshWriter, Knows, LeasedIn
<1>3. ASSUME NEW h \in Holder, Call(h) \/ Save(h) \/ Fail(h) \/ Crash(h)
      PROVE  IInv'
  BY <1>1, <1>3, AllocateInv, ReleaseInv, RemoveInv, CreateInv, WriteInv, FailInv, CrashInv
     DEF Call, Save
<1> QED BY <1>2, <1>3 DEF Next

(***************************************************************************)
(* The inductive invariant: what is held has a bit in every table that is  *)
(* not stale, on file or in memory, and nothing else has, short of a       *)
(* mishap.                                                                 *)
(***************************************************************************)
THEOREM Invariant == Spec => []IInv
BY InitInv, NextInv, PTL DEF Spec

(***************************************************************************)
(* However commands interleave, die and fail to save, two holders have the *)
(* same address only after one of the mishaps.                             *)
(***************************************************************************)
THEOREM Uniqueness == Spec => []UniqueUnlessMishap
<1>1. IInv => UniqueUnlessMishap
  BY DEF IInv
<1> QED BY <1>1, Invariant, PTL

(***************************************************************************)
(* Short of a mishap, a bitmap that can be read is the set of addresses    *)
(* held.                                                                   *)
(***************************************************************************)
THEOREM BitmapsAreLeases == Spec => []BitmapIsLeases
<1>1. IInv => BitmapIsLeases
  BY DEF IInv
<1> QED BY <1>1, Invariant, PTL

(***************************************************************************)
(* Allocate reports the subnet it was asked for as full only when all of   *)
(* its addresses are held.                                                 *)
(***************************************************************************)
THEOREM FullMeansFull == Spec => RefusedOnlyWhenFull
<1> DEFINE A == \A h \in Holder : \A s \in Subnet :
                  Allocate(h, s) /\ refused[h] # "full" /\ refused'[h] = "full" /\ ~mishap
                    => Leased(s) = Indices(s)
<1>1. ASSUME IInv
      PROVE  A
  <2> SUFFICES ASSUME NEW h \in Holder, NEW s \in Subnet, Allocate(h, s),
                      refused[h] # "full", refused'[h] = "full", ~mishap
               PROVE  Leased(s) = Indices(s)
    OBVIOUS
  <2>1. ~(\E table, lease : Change(h, table, lease)) /\ ~Refuse(h, "error")
    BY <1>1 DEF Change, Refuse, IInv, TypeOK
  <2>2. Readable /\ FreeIn(readSubnets, s) = {}
    BY <2>1 DEF Allocate
  <2>3. Bitmap(readSubnets, s) = Leased(s)
    BY <1>1, <2>2 DEF IInv, BitmapIsLeases
  <2> QED BY <2>2, <2>3 DEF FreeIn, Leased
<1> QED BY <1>1, Invariant, PTL DEF Spec, RefusedOnlyWhenFull

(***************************************************************************)
(* Once no process is at work on it, a file that cannot be read stays, and *)
(* no address is given or taken.                                           *)
(***************************************************************************)
THEOREM UnreadableIsFinal == Spec => FailStop
<1> DEFINE A == AllIdle /\ file \in {Empty, Torn} => AllIdle' /\ UNCHANGED <<file, held>>
<1>1. ASSUME [Next]_vars
      PROVE  A
  <2> SUFFICES ASSUME AllIdle, ~Readable
               PROVE  AllIdle' /\ UNCHANGED <<file, held>>
    BY DEF Readable
  <2>1. CASE UNCHANGED vars
    BY <2>1 DEF vars, AllIdle
  <2>2. ASSUME NEW h \in Holder, Call(h)
        PROVE  AllIdle' /\ UNCHANGED <<file, held>>
    BY <2>2 DEF Call, Allocate, Release, Remove, Refuse, AllIdle
  <2>3. ASSUME NEW h \in Holder, Save(h) \/ Fail(h) \/ Crash(h)
        PROVE  FALSE
    BY <2>3 DEF AllIdle, Save, Create, Write, Fail, CreateFails, WriteFails, Crash
  <2> QED BY <1>1, <2>1, <2>2, <2>3 DEF Next
<1> QED BY <1>1, PTL DEF Spec, FailStop

-----------------------------------------------------------------------------
(***************************************************************************)
(* The pool: what a process that is not stale is about to return is still  *)
(* the lowest free address.                                                *)
(***************************************************************************)
LowestFree(lease) ==
  \E s \in Subnet : \E idx \in Indices(s) \ Leased(s) :
    lease = LeaseOf(s, idx) /\ \A j \in Indices(s) \ Leased(s) : idx <= j

FreshChoice ==
  ~mishap => \A h \in Holder :
    pc[h] # "idle" /\ ~stale[h] /\ result[h] # NoLease /\ result[h] # held[h]
      => held[h] = NoLease /\ LowestFree(result[h])

\* A call that takes no other address than the lowest free one keeps it so.
LEMMA ChangeChoice ==
  ASSUME IInv, FreshChoice, NEW h \in Holder, NEW table, NEW lease, Change(h, table, lease),
         ~mishap /\ lease # NoLease /\ lease # held[h] => held[h] = NoLease /\ LowestFree(lease)
  PROVE  FreshChoice'
<1>1. /\ UNCHANGED <<held, mishap>>
      /\ \A g \in Holder : result'[g] = IF g = h THEN lease ELSE result[g]
      /\ \A g \in Holder : g # h => pc'[g] = pc[g] /\ stale'[g] = stale[g]
  BY DEF Change, IInv, TypeOK
<1>2. \A l : LowestFree(l)' <=> LowestFree(l)
  BY <1>1 DEF LowestFree, Leased
<1> QED BY <1>1, <1>2 DEF FreshChoice

\* Every step keeps the choice of a process that is not stale the lowest.
LEMMA NextChoice ==
  ASSUME IInv, FreshChoice, [Next]_vars
  PROVE  FreshChoice'
<1>1. CASE UNCHANGED vars
  BY <1>1 DEF vars, FreshChoice, LowestFree, Leased
<1>2. ASSUME NEW h \in Holder, \E why : Refuse(h, why)
      PROVE  FreshChoice'
  BY <1>2 DEF Refuse, FreshChoice, LowestFree, Leased
<1>3. ASSUME NEW h \in Holder, NEW s \in Subnet, Allocate(h, s)
      PROVE  FreshChoice'
  <2>1. ASSUME Readable, NEW idx \in FreeIn(readSubnets, s),
               \A j \in FreeIn(readSubnets, s) : idx <= j,
               NEW table, Change(h, table, LeaseOf(s, idx))
        PROVE  FreshChoice'
    <3>1. ASSUME ~mishap
          PROVE  LowestFree(LeaseOf(s, idx))
      <4>1. FreeIn(readSubnets, s) = Indices(s) \ Leased(s)
        BY <2>1, <3>1 DEF IInv, BitmapIsLeases, FreeIn
      <4> QED BY <2>1, <4>1 DEF LowestFree
    <3>2. held[h] = NoLease
      BY <1>3 DEF Allocate
    <3> QED BY <2>1, <3>1, <3>2, ChangeChoice
  <2> QED BY <1>2, <1>3, <2>1 DEF Allocate
<1>4. ASSUME NEW h \in Holder, Release(h) \/ \E s \in Subnet : Remove(h, s)
      PROVE  FreshChoice'
  BY <1>2, <1>4, ChangeChoice DEF Release, Remove
<1>5. ASSUME NEW h \in Holder, Create(h)
      PROVE  FreshChoice'
  BY <1>5 DEF Create, IInv, TypeOK, FreshChoice, LowestFree, Leased
<1>6. ASSUME NEW h \in Holder, Write(h)
      PROVE  FreshChoice'
  <2>1. \A g \in Holder : pc'[g] # "idle" => stale'[g]
    BY <1>6 DEF Write, Return, Exit, IInv, TypeOK
  <2> QED BY <2>1 DEF FreshChoice
<1>7. ASSUME NEW h \in Holder, Fail(h)
      PROVE  FreshChoice'
  BY <1>7 DEF Fail, CreateFails, WriteFails, FreshChoice
<1>8. ASSUME NEW h \in Holder, Crash(h)
      PROVE  FreshChoice'
  <2>1. /\ UNCHANGED <<held, stale, mishap>>
        /\ \A g \in Holder : g # h => result'[g] = result[g] /\ pc'[g] = pc[g]
        /\ pc'[h] = "idle"
    BY <1>8 DEF Crash, Exit, IInv, TypeOK
  <2>2. \A l : LowestFree(l)' <=> LowestFree(l)
    BY <2>1 DEF LowestFree, Leased
  <2> QED BY <2>1, <2>2 DEF FreshChoice
<1>9. CASE Next
  BY <1>9, <1>3, <1>4, <1>5, <1>6, <1>7, <1>8 DEF Next, Call, Save
<1> QED BY <1>1, <1>9

\* The pool counts addresses as the manager does.
LEMMA PoolArithmetic ==
  \A s, i : Pool!Indices(s) = Indices(s) /\ Pool!LeaseOf(s, i) = LeaseOf(s, i)
<1>1. Pool!Place = Place
  BY SMT DEF Pool!Place, Place
<1>2. \A s, i : Pool!Address(s, i) = Address(s, i)
  BY <1>1 DEF Pool!Address, Pool!numberToIP, Address, numberToIP
<1> QED BY <1>1, <1>2 DEF Pool!Indices, Pool!Size, Pool!LeaseOf, Indices, Size, LeaseOf

(***************************************************************************)
(* Short of a mishap a step of the processes is a step of the pool: the    *)
(* write of a process gives or takes one lease, all other steps stutter.   *)
(***************************************************************************)
LEMMA PoolStep ==
  ASSUME IInv, FreshChoice, [Next]_vars, ~mishap'
  PROVE  [Pool!PoolNext]_held
<1>1. CASE held' = held
  BY <1>1
<1>2. CASE held' # held
  <2>1. PICK h \in Holder : Write(h)
    BY <1>2 DEF Next, vars, Call, Allocate, Release, Remove, Change, Refuse, Save, Create,
                Fail, CreateFails, WriteFails, Crash
  <2>2. held' = [held EXCEPT ![h] = result[h]] /\ ~mishap /\ ~stale[h] /\ pc[h] # "idle"
    BY <2>1 DEF Write, Return
  <2>3. result[h] # held[h]
    BY <1>2, <2>2 DEF IInv, TypeOK
  <2>4. CASE result[h] = NoLease
    BY <2>2, <2>3, <2>4 DEF Pool!PoolNext, Pool!PoolRelease
  <2>5. CASE result[h] # NoLease
    <3>1. held[h] = NoLease /\ LowestFree(result[h])
      BY <2>2, <2>3, <2>5 DEF FreshChoice
    <3>2. PICK s \in Subnet : \E idx \in Indices(s) \ Leased(s) :
            result[h] = LeaseOf(s, idx) /\ \A j \in Indices(s) \ Leased(s) : idx <= j
      BY <3>1 DEF LowestFree
    <3>3. Pool!Free(s) = Indices(s) \ Leased(s)
      BY PoolArithmetic DEF Pool!Free, Pool!Taken, Leased
    <3>4. Pool!PoolAllocate(h, s)
      BY <2>2, <3>1, <3>2, <3>3, PoolArithmetic DEF Pool!PoolAllocate
    <3> QED BY <3>4 DEF Pool!PoolNext
  <2> QED BY <2>4, <2>5
<1> QED BY <1>1, <1>2

\* The choice is right from the start and stays so.
LEMMA Choice == Spec => []FreshChoice
<1>1. Init => FreshChoice
  BY DEF Init, FreshChoice
<1> QED BY <1>1, NextChoice, Invariant, PTL DEF Spec

(***************************************************************************)
(* Short of a mishap the concurrent processes implement the pool.          *)
(***************************************************************************)
THEOREM ConcurrentPool == Spec => PoolUnlessMishap
<1>1. IInv /\ FreshChoice /\ [Next]_vars => (~mishap' => [Pool!PoolNext]_held)
  BY PoolStep
<1> QED BY <1>1, Invariant, Choice, PTL DEF Spec, PoolUnlessMishap

-----------------------------------------------------------------------------
(***************************************************************************)
(* One command at a time whose callers remove unused bitmaps only: there   *)
(* is never a second process at work, so that the one there is never works *)
(* on an old table and never drops a bitmap in use.                        *)
(***************************************************************************)
Alone ==
  /\ ~mishap
  /\ \A g, h \in Holder : pc[g] # "idle" /\ pc[h] # "idle" => g = h
  /\ \A h \in Holder : pc[h] # "idle" => ~stale[h] /\ ~Drops(h)

\* The table a careful call changes has a bitmap for everything that is held.
LEMMA CarefulChange ==
  ASSUME IInv, Alone, AllIdle, NEW h \in Holder, CarefulCall(h)
  PROVE  Alone'
<1>1. ASSUME NEW why, Refuse(h, why)
      PROVE  Alone'
  BY <1>1 DEF Refuse, Alone, Drops, After
<1>2. ASSUME NEW table, NEW lease, Change(h, table, lease),
             \A g \in Holder : g # h /\ held[g] # NoLease => held[g].subnet \in DOMAIN table,
             lease # NoLease => lease.subnet \in DOMAIN table
      PROVE  Alone'
  <2>1. /\ UNCHANGED <<held, mishap>>
        /\ \A g \in Holder : pc'[g] # "idle" <=> g = h
        /\ Subnets'[h] = table /\ result'[h] = lease /\ ~stale'[h]
    BY <1>2 DEF Change, IInv, TypeOK, AllIdle
  <2>2. ~Drops(h)'
    BY <2>1, <1>2 DEF Drops, After, IInv, TypeOK
  <2> QED BY <2>1, <2>2 DEF Alone
<1>3. ASSUME Readable, NEW g \in Holder, held[g] # NoLease
      PROVE  held[g].subnet \in DOMAIN readSubnets
  <2>1. PICK s \in Subnet : \E i \in Indices(s) : held[g] = LeaseOf(s, i)
    BY <1>3 DEF IInv, HoldLeases, IsLease
  <2>2. PICK i \in Indices(s) : held[g] = LeaseOf(s, i)
    BY <2>1
  <2>3. i \in Bitmap(readSubnets, s)
    BY <1>3, <2>2 DEF IInv, Alone, BitmapIsLeases, Leased
  <2> QED BY <2>2, <2>3 DEF Bitmap, LeaseOf
<1>4. ASSUME NEW s \in Subnet, Allocate(h, s)
      PROVE  Alone'
  <2>1. ASSUME Readable, NEW idx, NEW bits, Change(h, Set(readSubnets, s, bits), LeaseOf(s, idx))
        PROVE  Alone'
    <3>1. s \in DOMAIN Set(readSubnets, s, bits)
            /\ DOMAIN readSubnets \subseteq DOMAIN Set(readSubnets, s, bits)
      BY DEF Set
    <3>2. LeaseOf(s, idx).subnet = s
      BY DEF LeaseOf
    <3> QED BY <1>2, <1>3, <2>1, <3>1, <3>2
  <2> QED BY <1>1, <1>4, <2>1 DEF Allocate
<1>5. CASE Release(h)
  <2>1. ASSUME Readable, NEW s, NEW bits, Change(h, Set(readSubnets, s, bits), NoLease)
        PROVE  Alone'
    <3>1. DOMAIN readSubnets \subseteq DOMAIN Set(readSubnets, s, bits)
      BY DEF Set
    <3> QED BY <1>2, <1>3, <2>1, <3>1
  <2>2. ASSUME Readable, Change(h, readSubnets, held[h])
        PROVE  Alone'
    BY <1>2, <1>3, <2>2
  <2> QED BY <1>1, <1>5, <2>1, <2>2 DEF Release
<1>6. ASSUME NEW s \in Subnet, Unused(s), Remove(h, s)
      PROVE  Alone'
  <2>1. ASSUME Readable, Change(h, Delete(readSubnets, s), held[h])
        PROVE  Alone'
    <3>1. DOMAIN Delete(readSubnets, s) = DOMAIN readSubnets \ {s}
      BY DEF Delete
    <3>2. \A g \in Holder : held[g] # NoLease => held[g].subnet \in DOMAIN Delete(readSubnets, s)
      BY <1>3, <1>6, <2>1, <3>1 DEF Unused
    <3> QED BY <1>2, <2>1, <3>2
  <2> QED BY <1>1, <1>6, <2>1 DEF Remove
<1> QED BY <1>4, <1>5, <1>6 DEF CarefulCall

\* Every serial step is a step, and keeps the process alone.
LEMMA SerialStep ==
  ASSUME IInv, Alone, [SerialNext]_vars
  PROVE  [Next]_vars /\ Alone'
<1>1. CASE UNCHANGED vars
  BY <1>1 DEF vars, Alone, Drops, After
<1>2. ASSUME NEW h \in Holder, AllIdle, CarefulCall(h)
      PROVE  [Next]_vars /\ Alone'
  BY <1>2, CarefulChange DEF CarefulCall, Next, Call
<1>3. ASSUME NEW h \in Holder, Create(h)
      PROVE  [Next]_vars /\ Alone'
  <2>1. Alone'
    BY <1>3 DEF Create, Alone, Drops, After, IInv, TypeOK
  <2> QED BY <1>3, <2>1 DEF Next, Save
<1>4. ASSUME NEW h \in Holder, Write(h)
      PROVE  [Next]_vars /\ Alone'
  <2>1. \A g \in Holder : pc'[g] = "idle"
    BY <1>4 DEF Write, Return, Exit, Alone, IInv, TypeOK
  <2>2. ~mishap'
    BY <1>4 DEF Write, Alone
  <2>3. Alone'
    BY <2>1, <2>2 DEF Alone
  <2> QED BY <1>4, <2>3 DEF Next, Save
<1>5. ASSUME NEW h \in Holder, Crash(h)
      PROVE  [Next]_vars /\ Alone'
  <2>1. \A g \in Holder : pc'[g] = "idle"
    BY <1>5 DEF Crash, Exit, Alone, IInv, TypeOK
  <2>2. ~mishap'
    BY <1>5 DEF Crash, Alone
  <2>3. Alone'
    BY <2>1, <2>2 DEF Alone
  <2> QED BY <1>5, <2>3 DEF Next
<1> QED BY <1>1, <1>2, <1>3, <1>4, <1>5 DEF SerialNext, Save

\* What holds in all behaviours holds in the serial ones, without mishap.
LEMMA SerialInv == SerialSpec => [](IInv /\ FreshChoice /\ Alone)
<1>1. Init => IInv /\ FreshChoice /\ Alone
  <2>1. Init => FreshChoice /\ Alone
    BY DEF Init, FreshChoice, Alone
  <2> QED BY <2>1, InitInv
<1>2. IInv /\ FreshChoice /\ Alone /\ [SerialNext]_vars => (IInv /\ FreshChoice /\ Alone)'
  <2> SUFFICES ASSUME IInv, FreshChoice, Alone, [SerialNext]_vars
               PROVE  (IInv /\ FreshChoice /\ Alone)'
    OBVIOUS
  <2>1. [Next]_vars /\ Alone'
    BY SerialStep
  <2> QED BY <2>1, NextInv, NextChoice
<1> QED BY <1>1, <1>2, PTL DEF SerialSpec

(***************************************************************************)
(* One command at a time never gives an address to two holders, whatever   *)
(* crashes there are in between, if no save fails and no caller removes    *)
(* the bitmap of an address in use.                                        *)
(***************************************************************************)
THEOREM SerialUniqueness == SerialSpec => []NoDuplicate
<1>1. IInv /\ FreshChoice /\ Alone => NoDuplicate
  BY DEF IInv, Alone, UniqueUnlessMishap
<1> QED BY <1>1, SerialInv, PTL

(***************************************************************************)
(* Under the same conditions it implements the pool of addresses.          *)
(***************************************************************************)
THEOREM SerialRefinement == SerialSpec => ImplementsPool
<1>1. Init => Pool!PoolInit
  BY DEF Init, Pool!PoolInit
<1>2. (IInv /\ FreshChoice /\ Alone) /\ (IInv /\ FreshChoice /\ Alone)' /\ [SerialNext]_vars
        => [Pool!PoolNext]_held
  <2> SUFFICES ASSUME IInv, FreshChoice, Alone, Alone', [SerialNext]_vars
               PROVE  [Pool!PoolNext]_held
    OBVIOUS
  <2>1. [Next]_vars /\ ~mishap'
    BY SerialStep DEF Alone
  <2> QED BY <2>1, PoolStep
<1> QED BY <1>1, <1>2, SerialInv, PTL DEF SerialSpec, ImplementsPool, Pool!PoolSpec
=============================================================================

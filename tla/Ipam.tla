-------------------------------- MODULE Ipam --------------------------------
(***************************************************************************)
(* The address manager of pkg/network/ipam.go as the commands use it       *)
(* (driver.go:26, save = true).  Every command is a process of its own;    *)
(* each call reads the file of all bitmaps, changes the copy in memory and *)
(* writes the whole file back, truncating it first.  Nothing locks the     *)
(* file, a failed save is only logged, and a process can die anywhere.     *)
(*                                                                         *)
(* A holder is a network (its gateway) or an endpoint (its IP), together   *)
(* with the process that is busy with it.                                  *)
(***************************************************************************)
EXTENDS SubnetTable

CONSTANTS
  Holder,   \* gateways and endpoints, one process each
  NoLease,  \* what a holder has that has no address
  NoFile,   \* subnets.json does not exist
  Empty,    \* subnets.json has been truncated
  Torn      \* subnets.json holds something that is not JSON

VARIABLES
  file,     \* the contents of subnets.json
  pc,       \* where the process of a holder is in its call
  Subnets,  \* ipam.Subnets of that process
  result,   \* what the holder has once its call returns
  held,     \* what the holder has: the lease its caller was given
  refused,  \* why its last call was refused
  stale,    \* the file was rewritten since the process read it
  mishap    \* an update was overwritten, a save failed, or a bitmap in use was removed

vars == <<file, pc, Subnets, result, held, refused, stale, mishap>>

ASSUME MarkAssumption ==
  /\ NoLease \notin Lease
  /\ {NoFile, Empty, Torn} \cap Table = {}
  /\ NoFile # Empty /\ NoFile # Torn /\ Empty # Torn

TypeOK ==
  /\ file \in Table \cup {NoFile, Empty, Torn}
  /\ pc \in [Holder -> {"idle", "create", "write"}]
  /\ Subnets \in [Holder -> Table]
  /\ result \in [Holder -> Lease \cup {NoLease}]
  /\ held \in [Holder -> Lease \cup {NoLease}]
  /\ refused \in [Holder -> {"no", "full", "error"}]
  /\ stale \in [Holder -> BOOLEAN]
  /\ mishap \in BOOLEAN

Init ==
  /\ file = NoFile
  /\ pc = [h \in Holder |-> "idle"]
  /\ Subnets = [h \in Holder |-> NoSubnets]
  /\ result = [h \in Holder |-> NoLease]
  /\ held = [h \in Holder |-> NoLease]
  /\ refused = [h \in Holder |-> "no"]
  /\ stale = [h \in Holder |-> FALSE]
  /\ mishap = FALSE

-----------------------------------------------------------------------------
(***************************************************************************)
(* readSubnets: a file that is not there is an empty table; one that does  *)
(* not parse is an error, and what the map then holds is not used.         *)
(***************************************************************************)
AlwaysReadable == TRUE   \* mutant: the error of json.Unmarshal is ignored
Readable    == file \notin {Empty, Torn}
readSubnets == IF file \in {NoFile, Empty, Torn} THEN NoSubnets ELSE file

\* The call returns an error and saves nothing.
Refuse(h, why) ==
  /\ refused' = [refused EXCEPT ![h] = why]
  /\ UNCHANGED <<file, pc, Subnets, result, held, stale, mishap>>

\* The change is made in memory; the deferred save is next.
Change(h, table, lease) ==
  /\ pc' = [pc EXCEPT ![h] = "create"]
  /\ Subnets' = [Subnets EXCEPT ![h] = table]
  /\ result' = [result EXCEPT ![h] = lease]
  /\ stale' = [stale EXCEPT ![h] = FALSE]
  /\ refused' = [refused EXCEPT ![h] = "no"]
  /\ UNCHANGED <<file, held, mishap>>

\* Allocate takes the first '0' of the bitmap.
Allocate(h, subnet) ==
  /\ pc[h] = "idle" /\ held[h] = NoLease
  /\ \/ ~Readable /\ Refuse(h, "error")
     \/ Readable /\ FreeIn(readSubnets, subnet) = {} /\ Refuse(h, "full")
     \/ /\ Readable
        /\ \E idx \in FreeIn(readSubnets, subnet) :
             /\ \A j \in FreeIn(readSubnets, subnet) : idx <= j
             /\ Change(h, Set(readSubnets, subnet, Mark(Bitmap(readSubnets, subnet), idx)),
                       LeaseOf(subnet, idx))

(***************************************************************************)
(* Release clears the bit of the address, which is the one its caller was  *)
(* given.  For an address that wrapped below its base the index is outside *)
(* the bitmap: the process panics, the deferred save runs all the same     *)
(* (err is nil) and the holder keeps its lease.                            *)
(***************************************************************************)
Release(h) ==
  /\ pc[h] = "idle" /\ held[h] # NoLease
  /\ LET subnet == held[h].subnet
         idx    == Index(subnet, held[h].ip)
     IN  \/ ~Readable /\ Refuse(h, "error")
         \/ Readable /\ subnet \notin DOMAIN readSubnets /\ Refuse(h, "error")
         \/ /\ Readable /\ subnet \in DOMAIN readSubnets
            /\ idx \in Indices(subnet)
            /\ Change(h, Set(readSubnets, subnet, Clear(readSubnets[subnet], idx)), NoLease)
         \/ /\ Readable /\ subnet \in DOMAIN readSubnets
            /\ idx \notin Indices(subnet)
            /\ Change(h, readSubnets, held[h])

\* Remove forgets the bitmap of a subnet, whoever has addresses of it.
Remove(h, subnet) ==
  /\ pc[h] = "idle"
  /\ \/ ~Readable /\ Refuse(h, "error")
     \/ Readable /\ Change(h, Delete(readSubnets, subnet), held[h])

-----------------------------------------------------------------------------
\* The process and its memory are gone.
Exit(h) ==
  /\ pc' = [pc EXCEPT ![h] = "idle"]
  /\ Subnets' = [Subnets EXCEPT ![h] = NoSubnets]
  /\ result' = [result EXCEPT ![h] = NoLease]
  /\ UNCHANGED refused

\* The call returns and the holder has what it gave or took.
Return(h) == Exit(h) /\ held' = [held EXCEPT ![h] = result[h]]

\* saveSubnets: os.Create truncates the file.
Create(h) ==
  /\ pc[h] = "create"
  /\ file' = Empty
  /\ pc' = [pc EXCEPT ![h] = "write"]
  /\ UNCHANGED <<Subnets, result, held, refused, stale, mishap>>

(***************************************************************************)
(* saveSubnets: file.Write, at the start of what the file holds by now.    *)
(* Longer contents of another process keep their tail, and the whole no    *)
(* longer parses; which of two tables of other subnets is the longer one,  *)
(* and how long a torn file is, is left open.                              *)
(***************************************************************************)
Covers(table) ==
  file \notin {Empty, Torn} =>
    DOMAIN file = DOMAIN table \/ ~(DOMAIN table \subseteq DOMAIN file)

LeavesTail(table) ==
  /\ file # Empty
  /\ file # Torn => ~(DOMAIN file \subseteq DOMAIN table)

\* What everybody has once the call of h returns.
After(h) == [held EXCEPT ![h] = result[h]]

\* The table h writes has no bitmap for an address somebody then holds.
Drops(h) ==
  \E g \in Holder : After(h)[g] # NoLease /\ After(h)[g].subnet \notin DOMAIN Subnets[h]

Write(h) ==
  /\ pc[h] = "write"
  /\ \/ Covers(Subnets[h]) /\ file' = Subnets[h]
     \/ LeavesTail(Subnets[h]) /\ file' = Torn
  /\ stale' = [g \in Holder |-> g # h /\ pc[g] # "idle"]
  /\ mishap' = (mishap \/ stale[h] \/ Drops(h))
  /\ Return(h)

\* os.Create or file.Write fails: a warning, and success for the caller.
CreateFails(h) ==
  /\ pc[h] = "create"
  /\ mishap' = TRUE
  /\ Return(h)
  /\ UNCHANGED <<file, stale>>

WriteFails(h) ==
  /\ pc[h] = "write"
  /\ file' \in {file, Torn}
  /\ mishap' = TRUE
  /\ Return(h)
  /\ UNCHANGED stale

\* The process is killed, or the machine stops.
Crash(h) ==
  /\ pc[h] # "idle"
  /\ Exit(h)
  /\ UNCHANGED <<file, held, stale, mishap>>

-----------------------------------------------------------------------------
Call(h) == Release(h) \/ \E s \in Subnet : Allocate(h, s) \/ Remove(h, s)
Save(h) == Create(h) \/ Write(h)
Fail(h) == CreateFails(h) \/ WriteFails(h)

Next == \E h \in Holder : Call(h) \/ Save(h) \/ Fail(h) \/ Crash(h)
Spec == Init /\ [][Next]_vars

(***************************************************************************)
(* One command at a time that may be killed, whose saves do not fail, of   *)
(* callers that remove the bitmap of a subnet only when no address of it   *)
(* is held.  (network.go:127 does not look.)                               *)
(***************************************************************************)
Unused(s) == \A h \in Holder : held[h] # NoLease => held[h].subnet # s
CarefulCall(h) ==
  Release(h) \/ \E s \in Subnet : Allocate(h, s) \/ (Unused(s) /\ Remove(h, s))
AllIdle == \A h \in Holder : pc[h] = "idle"

SerialNext == \E h \in Holder : (AllIdle /\ CarefulCall(h)) \/ Save(h) \/ Crash(h)

SerialSpec == Init /\ [][SerialNext]_vars

-----------------------------------------------------------------------------
Leased(s) == {i \in Indices(s) : \E h \in Holder : held[h] = LeaseOf(s, i)}

(***************************************************************************)
(* No two holders have the same address: what Allocate is for.             *)
(***************************************************************************)
NoDuplicate ==
  \A g, h \in Holder : g # h /\ held[g] # NoLease => held[g] # held[h]

(***************************************************************************)
(* A duplicate needs a mishap: an update based on a file rewritten since,  *)
(* a save that failed, or the removal of a bitmap in use.                  *)
(***************************************************************************)
UniqueUnlessMishap == ~mishap => NoDuplicate

(***************************************************************************)
(* Short of a mishap the bits set in a file that parses are exactly the    *)
(* addresses held: no address is lost to a bit nobody clears, and none is  *)
(* held whose bit is clear, whatever crashes and refusals there were.      *)
(***************************************************************************)
BitmapIsLeases ==
  ~mishap /\ Readable => \A s \in Subnet : Bitmap(readSubnets, s) = Leased(s)

(***************************************************************************)
(* Short of a mishap Allocate says "no allocatable ip" only when every     *)
(* address of the subnet it was asked for is held.                         *)
(***************************************************************************)
RefusedOnlyWhenFull ==
  [][\A h \in Holder : \A s \in Subnet :
       Allocate(h, s) /\ refused[h] # "full" /\ refused'[h] = "full" /\ ~mishap
         => Leased(s) = Indices(s)]_vars

(***************************************************************************)
(* A table that cannot be read is never replaced by another one: once the  *)
(* process that tore it is gone every call returns its error before it     *)
(* changes anything, no address is handed out, taken back or forgotten,    *)
(* and the file stays as it is.                                            *)
(***************************************************************************)
FailStop ==
  [][AllIdle /\ file \in {Empty, Torn} => AllIdle' /\ UNCHANGED <<file, held>>]_vars

(***************************************************************************)
(* Short of a mishap the interleaved reads, truncations and writes of all  *)
(* processes amount to the pool of AddressPool, a step of which is the     *)
(* write of a process.                                                     *)
(***************************************************************************)
Pool == INSTANCE AddressPool WITH leases <- held

PoolUnlessMishap == [][~mishap' => [Pool!PoolNext]_held]_vars

\* One command at a time: the pool, whatever the crashes.
ImplementsPool == Pool!PoolSpec
=============================================================================

--------------------------- MODULE NetworkProofs ---------------------------
(***************************************************************************)
(* Proofs about networks, for any networks, subnets, containers, commands  *)
(* and ports, and any number of failures.                                  *)
(***************************************************************************)
EXTENDS Network, SubnetTableProofs, FiniteSetTheorems

-----------------------------------------------------------------------------
(***************************************************************************)
(* What a command knows of itself: which of its steps create or delete a   *)
(* network and which are about a container, that it is busy with an        *)
(* address of its subnet once it has one, and that this address is its own *)
(* while it creates or connects, until it is stored.                       *)
(***************************************************************************)
Busywork(k, h) ==
  /\ k.at \in CreateLabel \cup DeleteLabel => k.ctn = Nobody
  /\ k.at \in ConnectLabel \cup LeaveLabel => k.ctn # Nobody
  /\ k.at # "allocate" => k.lease \in Leases /\ k.lease.subnet = k.subnet
  /\ h = IF k.at \in CreateLabel \cup ConnectLabel THEN k.lease ELSE NoLease

Commands ==
  \A p \in Proc : IF call[p] = Idle THEN held[p] = NoLease ELSE Busywork(call[p], held[p])

\* Only addresses Allocate gives out are stored.
Stored == /\ \A n \in Name : netFile[n] \in Lease => netFile[n] \in Leases
          /\ \A c \in Container : meta[c] # NoEndpoint => meta[c].lease \in Leases

NetInv == TypeOK /\ Commands /\ Stored

\* An address to give out belongs to one position of one subnet.
LEMMA LeasesAreLeases ==
  /\ \A s \in Subnet : \A i \in Indices(s) :
       LeaseOf(s, i) \in Leases /\ LeaseOf(s, i).subnet = s /\ LeaseOf(s, i) \in Lease
  /\ \A l \in Leases : /\ l \in Lease /\ l # NoLease
                       /\ \E s \in Subnet : \E i \in Indices(s) : l = LeaseOf(s, i)
<1>1. \A s \in Subnet : \A i \in Indices(s) : LeaseOf(s, i) \in Lease
  BY AddressIsIP
<1>2. \A s \in Subnet : \A i \in Indices(s) : LeaseOf(s, i).subnet = s
  BY DEF LeaseOf
<1>3. \A l \in Leases : \E s \in Subnet : \E i \in Indices(s) : l = LeaseOf(s, i)
  BY DEF Leases
<1>4. \A s \in Subnet : \A i \in Indices(s) : LeaseOf(s, i) \in Leases
  BY DEF Leases
<1>5. NoLease \notin Lease
  BY MarkAssumption
<1> QED BY <1>1, <1>2, <1>3, <1>4, <1>5

\* The fields of a command at work.
LEMMA CallFields ==
  ASSUME TypeOK, NEW p \in Proc, call[p] # Idle
  PROVE  /\ call[p] \in Call /\ call[p].name \in Name /\ call[p].subnet \in Subnet
         /\ call[p].lease \in Lease \cup {NoLease} /\ call[p].ctn \in Container \cup {Nobody}
         /\ call[p].err \in BOOLEAN
         /\ call[p].at \in {"allocate"} \cup CreateLabel \cup DeleteLabel
                             \cup ConnectLabel \cup LeaveLabel
BY DEF TypeOK, Call

\* A command that goes on changes nothing of itself but where it is.
LEMMA GotoCall ==
  ASSUME TypeOK, NEW p \in Proc, call[p] # Idle, NEW label, Goto(p, label),
         label \in {"allocate"} \cup CreateLabel \cup DeleteLabel \cup ConnectLabel \cup LeaveLabel
  PROVE  /\ call' \in [Proc -> Call \cup {Idle}]
         /\ call'[p] # Idle /\ call'[p] = [call[p] EXCEPT !.at = label]
         /\ call'[p].at = label /\ call'[p].name = call[p].name /\ call'[p].ctn = call[p].ctn
         /\ call'[p].subnet = call[p].subnet /\ call'[p].lease = call[p].lease
         /\ \A q \in Proc \ {p} : call'[q] = call[q]
<1>1. call[p] \in Call
  BY CallFields
<1>2. [call[p] EXCEPT !.at = label] \in Call
  BY <1>1 DEF Call
<1>3. call'[p] = [call[p] EXCEPT !.at = label] /\ \A q \in Proc \ {p} : call'[q] = call[q]
  BY DEF TypeOK, Goto
<1>4. call' \in [Proc -> Call \cup {Idle}]
  BY <1>2 DEF TypeOK, Goto
<1>5. [call[p] EXCEPT !.at = label] # Idle
  BY <1>2, MarkAssumption
<1>6. LET k == [call[p] EXCEPT !.at = label]
      IN  /\ k.at = label /\ k.name = call[p].name /\ k.ctn = call[p].ctn
          /\ k.subnet = call[p].subnet /\ k.lease = call[p].lease
  BY <1>1 DEF Call
<1> QED BY <1>3, <1>4, <1>5, <1>6

\* A step of one command that concerns the others and their addresses nothing.
LEMMA OthersStay ==
  ASSUME Commands, NEW p \in Proc,
         \A q \in Proc \ {p} : call'[q] = call[q] /\ held'[q] = held[q],
         IF call'[p] = Idle THEN held'[p] = NoLease ELSE Busywork(call'[p], held'[p])
  PROVE  Commands'
BY DEF Commands, Busywork

\* The owners of addresses are different things.
LEMMA Owners ==
  ASSUME NEW p \in Proc
  PROVE  /\ p \in Owner /\ p \notin Name /\ p \notin Container
         /\ Name \subseteq Owner /\ Container \subseteq Owner
BY OwnerAssumption DEF Owner

\* A command that returns is idle, and the address it had is lost.
LEMMA ReturnCall ==
  ASSUME NetInv, NEW p \in Proc, Return(p)
  PROVE  /\ call' \in [Proc -> Call \cup {Idle}] /\ held' \in [Owner -> Lease \cup {NoLease}]
         /\ lost' \subseteq Lease /\ mishap' \in BOOLEAN /\ doomed' \subseteq Name \cup Container
         /\ refused' \subseteq Rule /\ Commands'
<1>1. /\ call' \in [Proc -> Call \cup {Idle}] /\ call'[p] = Idle
      /\ \A q \in Proc \ {p} : call'[q] = call[q]
  BY DEF NetInv, TypeOK, Return
<1>2. /\ held' \in [Owner -> Lease \cup {NoLease}] /\ held'[p] = NoLease
      /\ \A o \in Owner \ {p} : held'[o] = held[o]
  BY Owners DEF NetInv, TypeOK, Return
<1>3. held[p] \in Lease \cup {NoLease}
  BY Owners DEF NetInv, TypeOK
<1>4. lost' \subseteq Lease
  BY <1>3 DEF NetInv, TypeOK, Return, Leaves
<1>5. Commands'
  BY <1>1, <1>2, Owners, OthersStay DEF NetInv
<1> QED BY <1>1, <1>2, <1>4, <1>5 DEF NetInv, TypeOK, Return

\* A command that goes on within what it does.
LEMMA GotoCommands ==
  ASSUME NetInv, NEW p \in Proc, call[p] # Idle, NEW label, Goto(p, label),
         \/ call[p].at \in CreateLabel /\ label \in CreateLabel
         \/ call[p].at \in DeleteLabel /\ label \in DeleteLabel
         \/ call[p].at \in ConnectLabel /\ label \in ConnectLabel
         \/ call[p].at \in LeaveLabel /\ label \in LeaveLabel,
         \A q \in Proc : held'[q] = held[q]
  PROVE  call' \in [Proc -> Call \cup {Idle}] /\ Commands'
<1>1. /\ call' \in [Proc -> Call \cup {Idle}] /\ call'[p] # Idle
      /\ call'[p].at = label /\ call'[p].ctn = call[p].ctn
      /\ call'[p].subnet = call[p].subnet /\ call'[p].lease = call[p].lease
      /\ \A q \in Proc \ {p} : call'[q] = call[q]
  BY GotoCall DEF NetInv
<1>2. Busywork(call[p], held[p])
  BY DEF NetInv, Commands
<1>3. Busywork(call'[p], held'[p])
  BY <1>1, <1>2 DEF Busywork, CreateLabel, DeleteLabel, ConnectLabel, LeaveLabel
<1> QED BY <1>1, <1>3, OthersStay DEF NetInv

\* What a command knows that is past its allocation.
LEMMA PastAllocate ==
  ASSUME NetInv, NEW p \in Proc, call[p] # Idle, call[p].at # "allocate"
  PROVE  call[p].lease \in Leases /\ call[p].lease.subnet = call[p].subnet
BY DEF NetInv, Commands, Busywork

\* An address that is given back leaves the types and the other commands alone.
LEMMA ReleaseTypes ==
  ASSUME NetInv, NEW p \in Proc, call[p] # Idle, NEW o \in Owner, ReleaseIP(p, o)
  PROVE  /\ table' \in Table /\ mishap' \in BOOLEAN /\ refused' = refused
         /\ held' \in [Owner -> Lease \cup {NoLease}] /\ lost' \subseteq Lease
         /\ \A q \in Owner \ {o} : held'[q] = held[q]
         /\ held'[o] = IF held[o] = call[p].lease THEN NoLease ELSE held[o]
<1> DEFINE s == call[p].subnet
           bits == Clear(table[s], Index(s, call[p].lease.ip))
<1>1. s \in Subnet /\ s \in DOMAIN table
  BY CallFields DEF NetInv, ReleaseIP, Known
<1>2. bits \in SUBSET Indices(s)
  BY <1>1, TableMember DEF NetInv, TypeOK, Clear
<1>3. table' \in Table
  BY <1>1, <1>2, TableOperations DEF NetInv, TypeOK, ReleaseIP
<1>4. held[o] \in Lease \cup {NoLease}
  BY DEF NetInv, TypeOK
<1>5. mishap' \in BOOLEAN
  BY DEF NetInv, TypeOK, ReleaseIP
<1>6. /\ held' \in [Owner -> Lease \cup {NoLease}]
      /\ \A q \in Owner \ {o} : held'[q] = held[q]
      /\ held'[o] = IF held[o] = call[p].lease THEN NoLease ELSE held[o]
  BY <1>4 DEF NetInv, TypeOK, ReleaseIP
<1> QED BY <1>3, <1>5, <1>6 DEF NetInv, TypeOK, ReleaseIP

-----------------------------------------------------------------------------
\* A command that begins: only what it is about to do is new.
LEMMA BeginInv ==
  ASSUME NetInv, NEW p \in Proc, call[p] = Idle,
         NEW k \in Call, call' = [call EXCEPT ![p] = k], Busywork(k, NoLease),
         UNCHANGED <<hostVars, held, lost, refused, faults>>,
         mishap' \in BOOLEAN, doomed' \subseteq Name \cup Container
  PROVE  NetInv'
<1>1. /\ call' \in [Proc -> Call \cup {Idle}] /\ call'[p] = k /\ k # Idle
      /\ \A q \in Proc \ {p} : call'[q] = call[q]
  BY MarkAssumption DEF NetInv, TypeOK
<1>2. held[p] = NoLease
  BY DEF NetInv, Commands
<1>3. Commands'
  BY <1>1, <1>2, OthersStay DEF NetInv
<1> QED BY <1>1, <1>3 DEF NetInv, TypeOK, Stored, hostVars

LEMMA CreateNetworkInv ==
  ASSUME NetInv, NEW p \in Proc, NEW n \in Name, NEW s \in Subnet, CreateNetwork(p, n, s)
  PROVE  NetInv'
<1> DEFINE k == [at |-> "allocate", name |-> n, subnet |-> s,
                 lease |-> NoLease, ctn |-> Nobody, err |-> FALSE]
<1>1. k \in Call /\ call' = [call EXCEPT ![p] = k] /\ call[p] = Idle
  BY DEF CreateNetwork, Call
<1>2. Busywork(k, NoLease)
  BY DEF Busywork, CreateLabel, DeleteLabel, ConnectLabel, LeaveLabel
<1>3. UNCHANGED <<hostVars, held, lost, refused, faults>> /\ mishap' \in BOOLEAN
      /\ doomed' \subseteq Name \cup Container
  BY DEF CreateNetwork, NetInv, TypeOK
<1> HIDE DEF k
<1> QED BY <1>1, <1>2, <1>3, BeginInv

LEMMA DeleteNetworkInv ==
  ASSUME NetInv, NEW p \in Proc, NEW n \in Name, DeleteNetwork(p, n)
  PROVE  NetInv'
<1> DEFINE k == [at |-> "unrule", name |-> n, subnet |-> netFile[n].subnet,
                 lease |-> netFile[n], ctn |-> Nobody, err |-> FALSE]
<1>0. netFile[n] \in Leases /\ netFile[n] \in Lease /\ netFile[n].subnet \in Subnet
  BY DEF DeleteNetwork, NetInv, Stored, Lease
<1>1. k \in Call /\ call' = [call EXCEPT ![p] = k] /\ call[p] = Idle
  BY <1>0 DEF DeleteNetwork, Call, DeleteLabel
<1>2. Busywork(k, NoLease)
  BY <1>0 DEF Busywork, CreateLabel, DeleteLabel, ConnectLabel, LeaveLabel
<1>3. UNCHANGED <<hostVars, held, lost, refused, faults>> /\ mishap' \in BOOLEAN
      /\ doomed' \subseteq Name \cup Container
  BY DEF DeleteNetwork, NetInv, TypeOK
<1> HIDE DEF k
<1> QED BY <1>1, <1>2, <1>3, BeginInv

LEMMA ConnectInv ==
  ASSUME NetInv, NEW p \in Proc, NEW c \in Container, NEW n \in Name, Connect(p, c, n)
  PROVE  NetInv'
<1> DEFINE k == [at |-> "allocate", name |-> n, subnet |-> netFile[n].subnet,
                 lease |-> NoLease, ctn |-> c, err |-> FALSE]
<1>0. netFile[n].subnet \in Subnet
  BY DEF Connect, NetInv, Stored, Lease
<1>1. k \in Call /\ call' = [call EXCEPT ![p] = k] /\ call[p] = Idle
  BY <1>0 DEF Connect, Call
<1>2. Busywork(k, NoLease)
  BY DEF Busywork, CreateLabel, DeleteLabel, ConnectLabel, LeaveLabel
<1>3. UNCHANGED <<hostVars, held, lost, refused, faults>> /\ mishap' \in BOOLEAN
      /\ doomed' \subseteq Name \cup Container
  BY DEF Connect, NetInv, TypeOK
<1> HIDE DEF k
<1> QED BY <1>1, <1>2, <1>3, BeginInv

LEMMA DisconnectInv ==
  ASSUME NetInv, NEW p \in Proc, NEW c \in Container, Disconnect(p, c)
  PROVE  NetInv'
<1> DEFINE k == [at |-> "giveback", name |-> meta[c].network,
                 subnet |-> meta[c].lease.subnet, lease |-> meta[c].lease,
                 ctn |-> c, err |-> FALSE]
<1>0. /\ meta[c].lease \in Leases /\ meta[c].lease \in Lease
      /\ meta[c].lease.subnet \in Subnet /\ meta[c].network \in Name
  BY DEF Disconnect, NetInv, TypeOK, Stored, Endpoint, Lease
<1>1. k \in Call /\ call' = [call EXCEPT ![p] = k] /\ call[p] = Idle
  BY <1>0 DEF Disconnect, Call, LeaveLabel
<1>2. c # Nobody
  BY MarkAssumption
<1>3. Busywork(k, NoLease)
  BY <1>0, <1>2 DEF Busywork, CreateLabel, DeleteLabel, ConnectLabel, LeaveLabel
<1>4. UNCHANGED <<hostVars, held, lost, refused, faults>> /\ mishap' \in BOOLEAN
      /\ doomed' \subseteq Name \cup Container
  BY DEF Disconnect, NetInv, TypeOK
<1> HIDE DEF k
<1> QED BY <1>1, <1>3, <1>4, BeginInv

\* A command that is killed, or whose step fails.
LEMMA QuitInv ==
  ASSUME NetInv, NEW p \in Proc, Return(p), UNCHANGED hostVars, faults' \in 0..MaxFaults
  PROVE  NetInv'
BY ReturnCall DEF NetInv, TypeOK, Stored, hostVars

LEMMA FaultCount ==
  ASSUME TypeOK
  PROVE  (Fault => faults' \in 0..MaxFaults) /\ (UNCHANGED faults => faults' \in 0..MaxFaults)
BY BoundAssumption, SMT DEF TypeOK, Fault

\* The part of the invariant that is about the host.
HostOK ==
  /\ netFile \in [Name -> Lease \cup {Absent, Empty, Torn}]
  /\ table \in Table
  /\ bridge \in [Name -> Bridge \cup {NoBridge}]
  /\ nat \in [Rule -> 0..MaxRules]
  /\ veth \in [Container -> Name \cup {NoBridge}]
  /\ meta \in [Container -> Endpoint \cup {NoEndpoint}]
  /\ Stored

\* A command that goes on and keeps the host in order.
LEMMA ContinueInv ==
  ASSUME NetInv, NEW p \in Proc, call[p] # Idle, NEW label, Continue(p, label),
         \/ call[p].at \in CreateLabel /\ label \in CreateLabel
         \/ call[p].at \in DeleteLabel /\ label \in DeleteLabel
         \/ call[p].at \in ConnectLabel /\ label \in ConnectLabel,
         HostOK'
  PROVE  NetInv'
<1>1. Goto(p, label) /\ UNCHANGED <<held, lost, mishap, refused, doomed, faults>>
  BY DEF Continue
<1>2. call' \in [Proc -> Call \cup {Idle}] /\ Commands'
  BY <1>1, GotoCommands
<1> QED BY <1>1, <1>2 DEF NetInv, TypeOK, HostOK

\* A step that fails changes nothing of the host.
LEMMA ErrorInv ==
  ASSUME NetInv, NEW p \in Proc, Error(p)
  PROVE  NetInv'
BY QuitInv, FaultCount DEF Error, NetInv

LEMMA AllocateInv ==
  ASSUME NetInv, NEW p \in Proc, AllocateIP(p)
  PROVE  NetInv'
<1> DEFINE s == call[p].subnet
<1>0. call[p] # Idle /\ call[p].at = "allocate" /\ s \in Subnet
  BY CallFields DEF AllocateIP, At, NetInv
<1>1. CASE Error(p)
  BY <1>1, ErrorInv
<1>2. ASSUME NEW idx \in FreeIn(table, s),
             table' = Set(table, s, Mark(Bitmap(table, s), idx)),
             held' = [held EXCEPT ![p] = LeaseOf(s, idx)],
             call' = [call EXCEPT ![p].lease = LeaseOf(s, idx),
                                  ![p].at = IF call[p].ctn = Nobody THEN "bridge" ELSE "veth"],
             UNCHANGED <<netFile, bridge, nat, veth, meta, lost, mishap, refused, doomed, faults>>
      PROVE  NetInv'
  <2> DEFINE l == LeaseOf(s, idx)
             label == IF call[p].ctn = Nobody THEN "bridge" ELSE "veth"
             k == [[call[p] EXCEPT !.lease = l] EXCEPT !.at = label]
  <2>1. idx \in Indices(s)
    BY DEF FreeIn
  <2>2. l \in Leases /\ l \in Lease /\ l.subnet = s
    BY <1>0, <2>1, LeasesAreLeases
  <2>3. call[p] \in Call /\ label \in CreateLabel \cup ConnectLabel
    BY <1>0, CallFields DEF NetInv, CreateLabel, ConnectLabel
  <2>4. k \in Call /\ k.at = label /\ k.lease = l /\ k.subnet = s /\ k.ctn = call[p].ctn
    BY <2>2, <2>3 DEF Call
  <2>5. call' = [call EXCEPT ![p] = k]
    BY <1>2 DEF NetInv, TypeOK
  <2>6. /\ call' \in [Proc -> Call \cup {Idle}] /\ call'[p] = k /\ k # Idle
        /\ \A q \in Proc \ {p} : call'[q] = call[q]
    BY <2>4, <2>5, MarkAssumption DEF NetInv, TypeOK
  <2>7. /\ held' \in [Owner -> Lease \cup {NoLease}] /\ held'[p] = l
        /\ \A q \in Owner \ {p} : held'[q] = held[q]
    BY <1>2, <2>2, Owners DEF NetInv, TypeOK
  <2>8. Busywork(k, l)
    BY <2>2, <2>4 DEF Busywork, CreateLabel, DeleteLabel, ConnectLabel, LeaveLabel
  <2>9. Commands'
    BY <2>6, <2>7, <2>8, Owners, OthersStay DEF NetInv
  <2>10. Mark(Bitmap(table, s), idx) \in SUBSET Indices(s)
    BY <1>0, <2>1, TableOperations DEF NetInv, TypeOK, Mark
  <2>11. table' \in Table
    BY <1>0, <1>2, <2>10, TableOperations DEF NetInv, TypeOK
  <2> QED BY <1>2, <2>6, <2>7, <2>9, <2>11 DEF NetInv, TypeOK, Stored
<1> QED BY <1>1, <1>2 DEF AllocateIP

\* The bridge of a network gets another state.
LEMMA BridgeInv ==
  ASSUME NetInv, NEW n \in Name, NEW b \in Bridge \cup {NoBridge},
         bridge' = [bridge EXCEPT ![n] = b], UNCHANGED <<netFile, table, nat, veth, meta>>
  PROVE  HostOK'
BY DEF NetInv, TypeOK, HostOK, Stored

\* A rule is added where there is room for it.
LEMMA RuleAdded ==
  ASSUME nat \in [Rule -> 0..MaxRules], NEW r, nat[r] < MaxRules
  PROVE  [nat EXCEPT ![r] = nat[r] + 1] \in [Rule -> 0..MaxRules]
<1>1. \A x \in Rule : nat[x] \in 0..MaxRules /\ (x = r => nat[x] + 1 \in 0..MaxRules)
  BY BoundAssumption, SMT
<1> QED BY <1>1

LEMMA CreateStepInv ==
  ASSUME NetInv, NEW p \in Proc, CreateStep(p)
  PROVE  NetInv'
<1> DEFINE n == call[p].name
           l == call[p].lease
<1>0. call[p] # Idle /\ call[p] \in Call /\ n \in Name /\ call[p].subnet \in Subnet
  <2>1. call[p] # Idle
    BY DEF CreateStep, EnsureBridgeInterface, SetInterfaceIP, SetInterfaceUp,
           setInterfaceIPTables, CreateFile, WriteFile, WriteUnlinked, At
  <2> QED BY <2>1, CallFields DEF NetInv
<1>b. bridge[n] # NoBridge => bridge[n] \in Bridge /\ bridge[n].addrs \in SUBSET Leases
                              /\ bridge[n].up \in BOOLEAN
  BY <1>0 DEF NetInv, TypeOK, Bridge
<1>1. CASE EnsureBridgeInterface(p)
  <2>1. PICK b \in Bridge \cup {NoBridge} : bridge' = [bridge EXCEPT ![n] = b]
    <3>1. [addrs |-> {}, up |-> FALSE] \in Bridge
      BY DEF Bridge
    <3>2. bridge[n] \in Bridge \cup {NoBridge}
      BY <1>b
    <3>3. bridge' = [bridge EXCEPT ![n] = IF bridge[n] = NoBridge
                                          THEN [addrs |-> {}, up |-> FALSE] ELSE bridge[n]]
      BY <1>0, <1>1 DEF EnsureBridgeInterface, NetInv, TypeOK
    <3> QED BY <3>1, <3>2, <3>3
  <2>2. HostOK'
    BY <1>0, <1>1, <2>1, BridgeInv DEF EnsureBridgeInterface
  <2> QED BY <1>0, <1>1, <2>2, ContinueInv DEF EnsureBridgeInterface, At, CreateLabel
<1>2. CASE SetInterfaceIP(p)
  <2>1. CASE Error(p)
    BY <2>1, ErrorInv
  <2>2. CASE /\ bridge[n] # NoBridge
             /\ bridge' = [bridge EXCEPT ![n].addrs = @ \cup {l}]
             /\ Continue(p, "up") /\ UNCHANGED <<netFile, table, nat, veth, meta>>
    <3>1. l \in Leases
      BY <1>2, <1>0, PastAllocate DEF SetInterfaceIP, At
    <3>2. [bridge[n] EXCEPT !.addrs = @ \cup {l}] \in Bridge
      BY <3>1, <2>2, <1>b DEF Bridge
    <3>3. bridge' = [bridge EXCEPT ![n] = [bridge[n] EXCEPT !.addrs = @ \cup {l}]]
      BY <1>0, <2>2 DEF NetInv, TypeOK
    <3>4. HostOK'
      BY <1>0, <2>2, <3>2, <3>3, BridgeInv
    <3> QED BY <1>0, <1>2, <2>2, <3>4, ContinueInv DEF SetInterfaceIP, At, CreateLabel
  <2> QED BY <1>2, <2>1, <2>2 DEF SetInterfaceIP
<1>3. CASE SetInterfaceUp(p)
  <2>1. CASE Error(p)
    BY <2>1, ErrorInv
  <2>2. CASE /\ bridge[n] # NoBridge
             /\ bridge' = [bridge EXCEPT ![n].up = TRUE]
             /\ Continue(p, "rule") /\ UNCHANGED <<netFile, table, nat, veth, meta>>
    <3>1. [bridge[n] EXCEPT !.up = TRUE] \in Bridge
      BY <2>2, <1>b DEF Bridge
    <3>2. bridge' = [bridge EXCEPT ![n] = [bridge[n] EXCEPT !.up = TRUE]]
      BY <1>0, <2>2 DEF NetInv, TypeOK
    <3>3. HostOK'
      BY <1>0, <2>2, <3>1, <3>2, BridgeInv
    <3> QED BY <1>0, <1>3, <2>2, <3>3, ContinueInv DEF SetInterfaceUp, At, CreateLabel
  <2> QED BY <1>3, <2>1, <2>2 DEF SetInterfaceUp
<1>4. CASE setInterfaceIPTables(p)
  <2>1. nat' \in [Rule -> 0..MaxRules]
    <3>1. PICK r : nat[r] < MaxRules /\ nat' = [nat EXCEPT ![r] = nat[r] + 1]
      BY <1>4 DEF setInterfaceIPTables
    <3> QED BY <3>1, RuleAdded DEF NetInv, TypeOK
  <2>2. HostOK'
    BY <1>4, <2>1 DEF setInterfaceIPTables, NetInv, TypeOK, HostOK, Stored
  <2> QED BY <1>0, <1>4, <2>2, ContinueInv DEF setInterfaceIPTables, At, CreateLabel
<1>5. CASE CreateFile(p)
  <2>1. /\ held' \in [Owner -> Lease \cup {NoLease}]
        /\ \A q \in Proc : held'[q] = held[q]
    BY <1>0, <1>5, Owners DEF CreateFile, NetInv, TypeOK
  <2>2. call' \in [Proc -> Call \cup {Idle}] /\ Commands'
    BY <1>0, <1>5, <2>1, GotoCommands DEF CreateFile, At, CreateLabel
  <2>3. lost' \subseteq Lease
    BY <1>0, <1>5, Owners DEF CreateFile, Leaves, NetInv, TypeOK
  <2>4. netFile' \in [Name -> Lease \cup {Absent, Empty, Torn}] /\ netFile'[n] \notin Lease
        /\ \A m \in Name \ {n} : netFile'[m] = netFile[m]
    BY <1>0, <1>5, MarkAssumption DEF CreateFile, NetInv, TypeOK
  <2>5. Stored'
    BY <1>5, <2>4 DEF CreateFile, NetInv, Stored
  <2> QED BY <1>5, <2>1, <2>2, <2>3, <2>4, <2>5 DEF CreateFile, NetInv, TypeOK
<1>6. CASE WriteFile(p)
  <2>1. l \in Leases /\ l \in Lease
    BY <1>0, <1>6, PastAllocate, LeasesAreLeases DEF WriteFile, At
  <2>2. held[n] \in Lease \cup {NoLease} /\ held[p] \in Lease \cup {NoLease} /\ n # p
    BY <1>0, Owners DEF NetInv, TypeOK
  <2>3. /\ held' \in [Owner -> Lease \cup {NoLease}] /\ held'[p] = NoLease
        /\ \A q \in Proc \ {p} : held'[q] = held[q]
    <3>1. PICK h \in Lease \cup {NoLease} : held' = [held EXCEPT ![n] = h, ![p] = NoLease]
      BY <1>6, <2>2 DEF WriteFile
    <3> QED BY <1>0, <2>2, <3>1, Owners DEF NetInv, TypeOK
  <2>4. /\ call' \in [Proc -> Call \cup {Idle}] /\ call'[p] = Idle
        /\ \A q \in Proc \ {p} : call'[q] = call[q]
    BY <1>6 DEF WriteFile, NetInv, TypeOK
  <2>5. Commands'
    BY <2>3, <2>4, OthersStay DEF NetInv
  <2>6. lost' \subseteq Lease
    BY <1>6, <2>2 DEF WriteFile, Leaves, NetInv, TypeOK
  <2>7. PICK f \in Lease \cup {Torn} :
          netFile' = [netFile EXCEPT ![n] = f] /\ (f \in Lease => f \in Leases)
    BY <1>6, <2>1, MarkAssumption DEF WriteFile
  <2>8. netFile' \in [Name -> Lease \cup {Absent, Empty, Torn}]
    BY <2>7 DEF NetInv, TypeOK
  <2>9. Stored'
    BY <1>6, <2>7 DEF WriteFile, NetInv, TypeOK, Stored
  <2> QED BY <1>6, <2>3, <2>4, <2>5, <2>6, <2>8, <2>9 DEF WriteFile, NetInv, TypeOK
<1>7. CASE WriteUnlinked(p)
  BY <1>7, ErrorInv DEF WriteUnlinked
<1> QED BY <1>1, <1>2, <1>3, <1>4, <1>5, <1>6, <1>7 DEF CreateStep

\* Rules are taken away only where they are.
LEMMA RulesDropped ==
  ASSUME nat \in [Rule -> 0..MaxRules], NEW rules
  PROVE  /\ Drop(rules) \in [Rule -> 0..MaxRules]
         /\ \A r : nat[r] > 0 => [nat EXCEPT ![r] = nat[r] - 1] \in [Rule -> 0..MaxRules]
<1>1. \A x \in Rule : nat[x] \in 0..MaxRules /\ (nat[x] > 0 => nat[x] - 1 \in 0..MaxRules)
  BY BoundAssumption, SMT
<1>2. Drop(rules) \in [Rule -> 0..MaxRules]
  BY <1>1 DEF Drop
<1>3. \A r : nat[r] > 0 => [nat EXCEPT ![r] = nat[r] - 1] \in [Rule -> 0..MaxRules]
  BY <1>1
<1> QED BY <1>2, <1>3

LEMMA DeleteStepInv ==
  ASSUME NetInv, NEW p \in Proc, DeleteStep(p)
  PROVE  NetInv'
<1> DEFINE n == call[p].name
           s == call[p].subnet
<1>0. call[p] # Idle /\ call[p] \in Call /\ n \in Name /\ s \in Subnet
  <2>1. call[p] # Idle
    BY DEF DeleteStep, clearInterfaceIPTables, DeleteInterface, ReleaseGateway, RemoveSubnet,
           removeNetwork, At
  <2> QED BY <2>1, CallFields DEF NetInv
<1>1. CASE clearInterfaceIPTables(p)
  <2>1. CASE Error(p)
    BY <2>1, ErrorInv
  <2>2. CASE ~Error(p)
    <3>1. PICK r : nat[r] > 0 /\ nat' = [nat EXCEPT ![r] = nat[r] - 1]
      BY <1>1, <2>2 DEF clearInterfaceIPTables
    <3>2. nat' \in [Rule -> 0..MaxRules]
      BY <3>1, RulesDropped DEF NetInv, TypeOK
    <3>3. HostOK'
      BY <1>1, <2>2, <3>2 DEF clearInterfaceIPTables, NetInv, TypeOK, HostOK, Stored
    <3> QED BY <1>0, <1>1, <2>2, <3>3, ContinueInv DEF clearInterfaceIPTables, At, DeleteLabel
  <2> QED BY <2>1, <2>2
<1>2. CASE DeleteInterface(p)
  <2>1. CASE Error(p)
    BY <2>1, ErrorInv
  <2>2. CASE ~Error(p)
    <3>1. bridge' \in [Name -> Bridge \cup {NoBridge}]
      BY <1>2, <2>2 DEF DeleteInterface, NetInv, TypeOK
    <3>2. veth' \in [Container -> Name \cup {NoBridge}]
      BY <1>2, <2>2 DEF DeleteInterface, NetInv, TypeOK
    <3>3. HostOK'
      BY <1>2, <2>2, <3>1, <3>2 DEF DeleteInterface, NetInv, TypeOK, HostOK, Stored
    <3> QED BY <1>0, <1>2, <2>2, <3>3, ContinueInv DEF DeleteInterface, At, DeleteLabel
  <2> QED BY <2>1, <2>2
<1>3. CASE ReleaseGateway(p)
  <2>1. CASE Error(p)
    BY <2>1, ErrorInv
  <2>2. CASE ~Error(p)
    <3>1. ReleaseIP(p, n) /\ Goto(p, "forget") /\ n \in Owner /\ n \notin Proc
      BY <1>0, <1>3, <2>2, Owners DEF ReleaseGateway
    <3>2. /\ table' \in Table /\ mishap' \in BOOLEAN /\ refused' = refused
          /\ held' \in [Owner -> Lease \cup {NoLease}] /\ lost' \subseteq Lease
          /\ \A q \in Owner \ {n} : held'[q] = held[q]
      BY <1>0, <3>1, ReleaseTypes
    <3>3. \A q \in Proc : held'[q] = held[q]
      BY <3>1, <3>2, Owners
    <3>4. call' \in [Proc -> Call \cup {Idle}] /\ Commands'
      BY <1>0, <1>3, <3>1, <3>3, GotoCommands DEF ReleaseGateway, At, DeleteLabel
    <3> QED BY <1>3, <2>2, <3>2, <3>4 DEF ReleaseGateway, NetInv, TypeOK, Stored
  <2> QED BY <2>1, <2>2
<1>4. CASE RemoveSubnet(p)
  <2>1. table' \in Table
    BY <1>0, <1>4, TableOperations DEF RemoveSubnet, NetInv, TypeOK
  <2>2. call' \in [Proc -> Call \cup {Idle}] /\ Commands'
    BY <1>0, <1>4, GotoCommands DEF RemoveSubnet, At, DeleteLabel
  <2>3. lost' \subseteq Lease /\ mishap' \in BOOLEAN
    BY <1>4 DEF RemoveSubnet, NetInv, TypeOK
  <2> QED BY <1>4, <2>1, <2>2, <2>3 DEF RemoveSubnet, NetInv, TypeOK, Stored
<1>5. CASE removeNetwork(p)
  <2>1. \A q \in Proc : call[q] # Idle =>
          LET k == [call[q] EXCEPT !.at = "unlinked"]
          IN  /\ k \in Call /\ k # Idle /\ k.at = "unlinked" /\ k.ctn = call[q].ctn
              /\ k.lease = call[q].lease /\ k.subnet = call[q].subnet
    <3> SUFFICES ASSUME NEW q \in Proc, call[q] # Idle
                 PROVE  LET k == [call[q] EXCEPT !.at = "unlinked"]
                        IN  /\ k \in Call /\ k # Idle /\ k.at = "unlinked"
                            /\ k.ctn = call[q].ctn /\ k.lease = call[q].lease
                            /\ k.subnet = call[q].subnet
      OBVIOUS
    <3>1. call[q] \in Call
      BY CallFields DEF NetInv
    <3>2. [call[q] EXCEPT !.at = "unlinked"] \in Call
      BY <3>1 DEF Call, CreateLabel
    <3>3. [call[q] EXCEPT !.at = "unlinked"] # Idle
      BY <3>2, MarkAssumption
    <3> QED BY <3>1, <3>2, <3>3 DEF Call
  <2>2. \A q \in Proc : call'[q] = IF q = p THEN Idle
                                   ELSE IF Busy(q, n) /\ At(q, "write")
                                        THEN [call[q] EXCEPT !.at = "unlinked"] ELSE call[q]
    BY <1>5 DEF removeNetwork
  <2>3. call' \in [Proc -> Call \cup {Idle}]
    <3>1. \A q \in Proc : call'[q] \in Call \cup {Idle}
      BY <2>1, <2>2 DEF NetInv, TypeOK, At
    <3>2. call' = [q \in Proc |-> call'[q]]
      BY <1>5 DEF removeNetwork
    <3> QED BY <3>1, <3>2
  <2>4. /\ held' \in [Owner -> Lease \cup {NoLease}]
        /\ \A q \in Proc : held'[q] = held[q]
    BY <1>0, <1>5, Owners DEF removeNetwork, NetInv, TypeOK
  <2>5. held[p] = NoLease
    BY <1>0, <1>5 DEF removeNetwork, At, NetInv, Commands, Busywork, CreateLabel, ConnectLabel
  <2>6. Commands'
    <3> SUFFICES ASSUME NEW q \in Proc
                 PROVE  IF call'[q] = Idle THEN held'[q] = NoLease
                        ELSE Busywork(call'[q], held'[q])
      BY DEF Commands, Busywork
    <3>1. CASE q = p
      BY <2>2, <2>4, <2>5, <3>1
    <3>2. CASE q # p /\ Busy(q, n) /\ At(q, "write")
      <4>1. call[q] # Idle /\ call[q].at = "write" /\ Busywork(call[q], held[q])
        BY <3>2 DEF At, NetInv, Commands
      <4>2. /\ call'[q] # Idle /\ call'[q].at = "unlinked" /\ call'[q].ctn = call[q].ctn
            /\ call'[q].lease = call[q].lease /\ call'[q].subnet = call[q].subnet
        BY <2>1, <2>2, <3>2, <4>1
      <4>3. Busywork(call'[q], held'[q])
        BY <2>4, <4>1, <4>2 DEF Busywork, CreateLabel, DeleteLabel, ConnectLabel, LeaveLabel
      <4> QED BY <4>2, <4>3
    <3>3. CASE q # p /\ ~(Busy(q, n) /\ At(q, "write"))
      BY <2>2, <2>4, <3>3 DEF NetInv, Commands
    <3> QED BY <3>1, <3>2, <3>3
  <2>7. lost' \subseteq Lease
    BY <1>0, <1>5, Owners DEF removeNetwork, Leaves, NetInv, TypeOK
  <2>8. doomed' \subseteq Name \cup Container
    BY <1>5 DEF removeNetwork, NetInv, TypeOK
  <2>9. netFile' \in [Name -> Lease \cup {Absent, Empty, Torn}]
    BY <1>5 DEF removeNetwork, NetInv, TypeOK
  <2>10. Stored'
    <3>1. \A m \in Name : netFile'[m] = IF m = n THEN Absent ELSE netFile[m]
      BY <1>5 DEF removeNetwork, NetInv, TypeOK
    <3> QED BY <1>5, <3>1, MarkAssumption DEF removeNetwork, NetInv, Stored
  <2> QED BY <1>5, <2>3, <2>4, <2>6, <2>7, <2>8, <2>9, <2>10 DEF removeNetwork, NetInv, TypeOK
<1> QED BY <1>1, <1>2, <1>3, <1>4, <1>5 DEF DeleteStep

\* The rules of the ports are added where there is room for all of them.
LEMMA RulesAdded ==
  ASSUME nat \in [Rule -> 0..MaxRules], NEW rules, \A r \in rules : nat[r] < MaxRules
  PROVE  Add(rules) \in [Rule -> 0..MaxRules]
<1>1. \A x \in Rule : /\ nat[x] \in 0..MaxRules
                      /\ nat[x] < MaxRules => nat[x] + 1 \in 0..MaxRules
  BY BoundAssumption, SMT
<1> QED BY <1>1 DEF Add

LEMMA ConnectStepInv ==
  ASSUME NetInv, NEW p \in Proc, ConnectStep(p)
  PROVE  NetInv'
<1> DEFINE n == call[p].name
           c == call[p].ctn
           l == call[p].lease
<1>0. /\ call[p] # Idle /\ call[p] \in Call /\ n \in Name /\ call[p].subnet \in Subnet
      /\ call[p].at \in ConnectLabel /\ c \in Container
  <2>1. call[p] # Idle /\ call[p].at \in ConnectLabel
    BY DEF ConnectStep, PlugVeth, RollbackIP, setPortMappingIPTables, setContainerNetwork,
           SaveEndpoint, At, ConnectLabel
  <2>2. c # Nobody
    BY <2>1 DEF NetInv, Commands, Busywork
  <2> QED BY <2>1, <2>2, CallFields DEF NetInv
<1>1. CASE PlugVeth(p)
  <2>1. veth' \in [Container -> Name \cup {NoBridge}]
    BY <1>0, <1>1 DEF PlugVeth, NetInv, TypeOK
  <2>2. HostOK'
    BY <1>1, <2>1 DEF PlugVeth, NetInv, TypeOK, HostOK, Stored
  <2>3. PICK label \in ConnectLabel :
          Goto(p, label) /\ UNCHANGED <<held, lost, mishap, refused, doomed>>
    BY <1>1 DEF PlugVeth, Continue, ConnectLabel
  <2>4. call' \in [Proc -> Call \cup {Idle}] /\ Commands'
    BY <1>0, <2>3, GotoCommands
  <2>5. faults' \in 0..MaxFaults
    BY <1>1, FaultCount DEF PlugVeth, Continue, NetInv
  <2> QED BY <2>2, <2>3, <2>4, <2>5 DEF HostOK, NetInv, TypeOK
<1>2. CASE RollbackIP(p)
  <2>1. CASE Error(p)
    BY <2>1, ErrorInv
  <2>2. CASE ~Error(p)
    <3>1. ReleaseIP(p, p) /\ call' = [call EXCEPT ![p] = Idle]
          /\ UNCHANGED <<netFile, bridge, nat, veth, meta, doomed, faults>>
      BY <1>2, <2>2 DEF RollbackIP
    <3>2. held[p] = l
      BY <1>0 DEF NetInv, Commands, Busywork
    <3>3. /\ table' \in Table /\ mishap' \in BOOLEAN /\ refused' = refused
          /\ held' \in [Owner -> Lease \cup {NoLease}] /\ lost' \subseteq Lease
          /\ \A q \in Owner \ {p} : held'[q] = held[q]
          /\ held'[p] = NoLease
      BY <1>0, <3>1, <3>2, Owners, ReleaseTypes
    <3>4. /\ call' \in [Proc -> Call \cup {Idle}] /\ call'[p] = Idle
          /\ \A q \in Proc \ {p} : call'[q] = call[q]
      BY <3>1 DEF NetInv, TypeOK
    <3>5. Commands'
      BY <3>3, <3>4, Owners, OthersStay DEF NetInv
    <3> QED BY <3>1, <3>3, <3>4, <3>5 DEF NetInv, TypeOK, Stored
  <2> QED BY <2>1, <2>2
<1>3. CASE setPortMappingIPTables(p)
  <2>1. nat' \in [Rule -> 0..MaxRules]
    BY <1>3, RulesAdded DEF setPortMappingIPTables, NetInv, TypeOK
  <2>2. HostOK'
    BY <1>3, <2>1 DEF setPortMappingIPTables, NetInv, TypeOK, HostOK, Stored
  <2>3. CASE Continue(p, "join")
    BY <1>0, <2>2, <2>3, ContinueInv DEF ConnectLabel
  <2>4. CASE Fault /\ Return(p)
    BY <2>2, <2>4, ReturnCall, FaultCount DEF HostOK, NetInv, TypeOK
  <2>5. CASE /\ Fault /\ Goto(p, "join")
             /\ UNCHANGED <<held, lost, mishap, doomed>>
             /\ \E left \in SUBSET PortRules(p) : refused' = refused \cup (PortRules(p) \ left)
    <3>1. PortRules(p) \subseteq Rule
      <4>1. l \in Leases
        BY <1>0, <1>3, PastAllocate DEF setPortMappingIPTables, At
      <4>2. PortMappings[c] \subseteq Port
        BY <1>0, PortAssumption
      <4> QED BY <4>1, <4>2 DEF PortRules, DNAT, Rule
    <3>2. refused' \subseteq Rule
      BY <2>5, <3>1 DEF NetInv, TypeOK
    <3>3. call' \in [Proc -> Call \cup {Idle}] /\ Commands'
      BY <1>0, <2>5, GotoCommands DEF ConnectLabel
    <3> QED BY <2>2, <2>5, <3>2, <3>3, FaultCount DEF HostOK, NetInv, TypeOK
  <2> QED BY <1>3, <2>3, <2>4, <2>5 DEF setPortMappingIPTables
<1>4. CASE setContainerNetwork(p)
  <2>1. nat' \in [Rule -> 0..MaxRules]
    BY <1>4, RulesDropped DEF setContainerNetwork, NetInv, TypeOK
  <2>2. HostOK'
    BY <1>4, <2>1 DEF setContainerNetwork, NetInv, TypeOK, HostOK, Stored
  <2>3. CASE Continue(p, "save")
    BY <1>0, <2>2, <2>3, ContinueInv DEF ConnectLabel
  <2>4. CASE Fault /\ Return(p)
    BY <2>2, <2>4, ReturnCall, FaultCount DEF HostOK, NetInv, TypeOK
  <2> QED BY <1>4, <2>3, <2>4 DEF setContainerNetwork
<1>5. CASE SaveEndpoint(p)
  <2>1. l \in Leases /\ l \in Lease
    BY <1>0, PastAllocate, LeasesAreLeases DEF ConnectLabel
  <2>2. /\ meta' \in [Container -> Endpoint \cup {NoEndpoint}] /\ meta'[c].lease = l
        /\ \A d \in Container \ {c} : meta'[d] = meta[d]
    BY <1>0, <1>5, <2>1 DEF SaveEndpoint, NetInv, TypeOK, Endpoint
  <2>3. Stored'
    BY <1>5, <2>1, <2>2 DEF SaveEndpoint, NetInv, Stored
  <2>4. /\ held' \in [Owner -> Lease \cup {NoLease}] /\ held'[p] = NoLease
        /\ \A q \in Proc \ {p} : held'[q] = held[q]
    <3>1. held[p] \in Lease \cup {NoLease}
      BY Owners DEF NetInv, TypeOK
    <3>2. held' = [[held EXCEPT ![c] = held[p]] EXCEPT ![p] = NoLease]
      BY <1>5 DEF SaveEndpoint
    <3> QED BY <1>0, <3>1, <3>2, Owners DEF NetInv, TypeOK
  <2>5. /\ call' \in [Proc -> Call \cup {Idle}] /\ call'[p] = Idle
        /\ \A q \in Proc \ {p} : call'[q] = call[q]
    BY <1>5 DEF SaveEndpoint, NetInv, TypeOK
  <2>6. Commands'
    BY <2>4, <2>5, OthersStay DEF NetInv
  <2>7. lost' \subseteq Lease
    BY <1>0, <1>5, Owners DEF SaveEndpoint, Leaves, NetInv, TypeOK
  <2> QED BY <1>5, <2>2, <2>3, <2>4, <2>5, <2>6, <2>7 DEF SaveEndpoint, NetInv, TypeOK
<1> QED BY <1>1, <1>2, <1>3, <1>4, <1>5 DEF ConnectStep

LEMMA LeaveStepInv ==
  ASSUME NetInv, NEW p \in Proc, DisconnectStep(p) \/ PleaseStopFirst(p)
  PROVE  NetInv'
<1> DEFINE c == call[p].ctn
           l == call[p].lease
<1>0. /\ call[p] # Idle /\ call[p] \in Call /\ call[p].at \in LeaveLabel /\ c \in Container
      /\ held[p] = NoLease /\ Busywork(call[p], held[p])
  <2>1. call[p] # Idle /\ call[p].at \in LeaveLabel
    BY DEF DisconnectStep, disconnectEndpoint, clearPortMappingIPTables, RemoveMetadata,
           PleaseStopFirst, At, LeaveLabel
  <2>2. Busywork(call[p], held[p])
    BY <2>1 DEF NetInv, Commands
  <2>3. c # Nobody /\ held[p] = NoLease
    BY <2>1, <2>2 DEF Busywork, LeaveLabel, CreateLabel, ConnectLabel
  <2> QED BY <2>1, <2>2, <2>3, CallFields DEF NetInv
<1>a. ASSUME call' = [call EXCEPT ![p] = Idle], \A q \in Proc : held'[q] = held[q]
      PROVE  call' \in [Proc -> Call \cup {Idle}] /\ Commands'
  <2>1. /\ call' \in [Proc -> Call \cup {Idle}] /\ call'[p] = Idle
        /\ \A q \in Proc \ {p} : call'[q] = call[q]
    BY <1>a DEF NetInv, TypeOK
  <2> QED BY <2>1, <1>a, <1>0, OthersStay DEF NetInv
<1>b. ASSUME KeepError(p), \A q \in Proc : held'[q] = held[q]
      PROVE  call' \in [Proc -> Call \cup {Idle}] /\ Commands'
  <2> DEFINE k == [[call[p] EXCEPT !.at = "unmap"] EXCEPT !.err = TRUE]
  <2>1. k \in Call /\ k.at = "unmap" /\ k.ctn = c /\ k.lease = l /\ k.subnet = call[p].subnet
    BY <1>0 DEF Call, LeaveLabel
  <2>2. call' = [call EXCEPT ![p] = k]
    BY <1>b DEF KeepError, NetInv, TypeOK
  <2>3. /\ call' \in [Proc -> Call \cup {Idle}] /\ call'[p] = k /\ k # Idle
        /\ \A q \in Proc \ {p} : call'[q] = call[q]
    BY <2>1, <2>2, MarkAssumption DEF NetInv, TypeOK
  <2>4. Busywork(k, held'[p])
    BY <2>1, <1>0, <1>b DEF Busywork, CreateLabel, DeleteLabel, ConnectLabel, LeaveLabel
  <2> QED BY <2>3, <2>4, <1>b, OthersStay DEF NetInv
<1>1. CASE disconnectEndpoint(p)
  <2>0. UNCHANGED <<netFile, bridge, nat, veth, meta, doomed>> /\ faults' \in 0..MaxFaults
    BY <1>1, FaultCount DEF disconnectEndpoint, NetInv
  <2>1. CASE KeepError(p) /\ UNCHANGED <<table, held, lost, mishap, refused>>
    BY <1>b, <2>0, <2>1 DEF NetInv, TypeOK, Stored
  <2>2. CASE call' = [call EXCEPT ![p] = Idle] /\ UNCHANGED <<table, held, lost, mishap, refused>>
    BY <1>a, <2>0, <2>2 DEF NetInv, TypeOK, Stored
  <2>3. CASE ReleaseIP(p, c) /\ Goto(p, "unmap")
    <3>1. /\ table' \in Table /\ mishap' \in BOOLEAN /\ refused' = refused
          /\ held' \in [Owner -> Lease \cup {NoLease}] /\ lost' \subseteq Lease
          /\ \A q \in Owner \ {c} : held'[q] = held[q]
      BY <1>0, <2>3, Owners, ReleaseTypes
    <3>2. \A q \in Proc : held'[q] = held[q]
      BY <1>0, <3>1, Owners
    <3>3. call' \in [Proc -> Call \cup {Idle}] /\ Commands'
      BY <1>0, <2>3, <3>2, GotoCommands DEF LeaveLabel
    <3> QED BY <2>0, <3>1, <3>3 DEF NetInv, TypeOK, Stored
  <2> QED BY <1>1, <2>1, <2>2, <2>3 DEF disconnectEndpoint
<1>2. CASE clearPortMappingIPTables(p)
  <2>1. nat' \in [Rule -> 0..MaxRules]
    BY <1>2, RulesDropped DEF clearPortMappingIPTables, NetInv, TypeOK
  <2>2. faults' \in 0..MaxFaults /\ UNCHANGED <<netFile, table, bridge, veth, meta>>
        /\ UNCHANGED <<held, lost, mishap, refused, doomed>>
    BY <1>2, FaultCount DEF clearPortMappingIPTables, NetInv
  <2>3. call' \in [Proc -> Call \cup {Idle}] /\ Commands'
    <3>1. CASE call[p].err
      BY <1>2, <1>a, <2>2, <3>1 DEF clearPortMappingIPTables
    <3>2. CASE ~call[p].err
      <4>1. Goto(p, "drop")
        BY <1>2, <3>2 DEF clearPortMappingIPTables, Goto
      <4> QED BY <1>0, <2>2, <4>1, GotoCommands DEF LeaveLabel
    <3> QED BY <3>1, <3>2
  <2> QED BY <2>1, <2>2, <2>3 DEF NetInv, TypeOK, Stored
<1>3. CASE RemoveMetadata(p)
  <2>1. /\ held' \in [Owner -> Lease \cup {NoLease}]
        /\ \A q \in Proc : held'[q] = held[q]
    BY <1>0, <1>3, Owners DEF RemoveMetadata, NetInv, TypeOK
  <2>2. call' \in [Proc -> Call \cup {Idle}] /\ Commands'
    BY <1>3, <1>a, <2>1 DEF RemoveMetadata
  <2>3. /\ meta' \in [Container -> Endpoint \cup {NoEndpoint}] /\ meta'[c] = NoEndpoint
        /\ \A d \in Container \ {c} : meta'[d] = meta[d]
    BY <1>0, <1>3 DEF RemoveMetadata, NetInv, TypeOK
  <2>4. Stored'
    BY <1>3, <2>3 DEF RemoveMetadata, NetInv, Stored
  <2>5. lost' \subseteq Lease
    BY <1>0, <1>3, Owners DEF RemoveMetadata, Leaves, NetInv, TypeOK
  <2>6. doomed' \subseteq Name \cup Container /\ veth' \in [Container -> Name \cup {NoBridge}]
    BY <1>3 DEF RemoveMetadata, NetInv, TypeOK
  <2> QED BY <1>3, <2>1, <2>2, <2>3, <2>4, <2>5, <2>6 DEF RemoveMetadata, NetInv, TypeOK
<1>4. CASE PleaseStopFirst(p)
  <2>1. call' \in [Proc -> Call \cup {Idle}] /\ Commands'
    BY <1>4, <1>a DEF PleaseStopFirst
  <2> QED BY <1>4, <2>1 DEF PleaseStopFirst, hostVars, NetInv, TypeOK, Stored
<1> QED BY <1>1, <1>2, <1>3, <1>4 DEF DisconnectStep

LEMMA NextNetInv == NetInv /\ [Next]_vars => NetInv'
<1> SUFFICES ASSUME NetInv, [Next]_vars PROVE NetInv'
  OBVIOUS
<1>1. CASE UNCHANGED vars
  BY <1>1 DEF vars, NetInv, TypeOK, Commands, Busywork, Stored
<1>2. ASSUME NEW p \in Proc, Begin(p) PROVE NetInv'
  BY <1>2, CreateNetworkInv, DeleteNetworkInv, ConnectInv, DisconnectInv DEF Begin
<1>3. ASSUME NEW p \in Proc, Step(p) \/ PleaseStopFirst(p) PROVE NetInv'
  BY <1>3, AllocateInv, CreateStepInv, DeleteStepInv, ConnectStepInv, LeaveStepInv DEF Step
<1>4. ASSUME NEW p \in Proc, Quit(p) PROVE NetInv'
  BY <1>4, QuitInv, FaultCount DEF Quit, NetInv
<1> QED BY <1>1, <1>2, <1>3, <1>4 DEF Next

LEMMA InitNetInv == Init => NetInv
<1> SUFFICES ASSUME Init PROVE NetInv
  OBVIOUS
<1>1. TypeOK
  <2>1. NoSubnets \in Table
    <3>1. DOMAIN NoSubnets = {} /\ NoSubnets = [t \in DOMAIN NoSubnets |-> NoSubnets[t]]
      BY DEF NoSubnets
    <3> QED BY <3>1, TableMember
  <2>2. nat \in [Rule -> 0..MaxRules] /\ faults \in 0..MaxFaults
    <3>1. 0 \in 0..MaxRules /\ 0 \in 0..MaxFaults
      BY BoundAssumption, SMT
    <3> QED BY <3>1 DEF Init
  <2> QED BY <2>1, <2>2 DEF Init, TypeOK
<1>2. Commands
  BY DEF Init, Commands, Owner
<1>3. Stored
  BY MarkAssumption DEF Init, Stored
<1> QED BY <1>1, <1>2, <1>3 DEF NetInv

LEMMA NetInvariant == Spec => []NetInv
BY InitNetInv, NextNetInv, PTL DEF Spec

(***************************************************************************)
(* The types hold in every behaviour of the network commands, whatever     *)
(* fails or is killed: what is written to a file, a bridge or the metadata *)
(* of a container is an address Allocate gave out.                         *)
(***************************************************************************)
THEOREM TypeCorrect == Spec => []TypeOK
<1>1. NetInv => TypeOK
  BY DEF NetInv
<1> QED BY <1>1, NetInvariant, PTL

-----------------------------------------------------------------------------
(***************************************************************************)
(* Addresses.  A step either leaves them alone, or lets owners lose theirs,*)
(* or passes one on, or changes the table.  What is said of them while     *)
(* nothing was released that is in use:                                    *)
(***************************************************************************)
Accounted ==
  /\ \A s \in Subnet : Bitmap(table, s) =
       {i \in Indices(s) : LeaseOf(s, i) \in lost \cup {held[o] : o \in Owner}}
  /\ \A o, q \in Owner : o # q /\ held[o] # NoLease => held[o] # held[q]
  /\ \A o \in Owner : held[o] \notin lost

LEMMA SameAddresses ==
  ASSUME Accounted, UNCHANGED <<table, held, lost>>
  PROVE  Accounted'
BY DEF Accounted

\* Owners that lose their addresses leave them behind.
LEMMA LosingAddresses ==
  ASSUME NetInv, Accounted, UNCHANGED table, NEW S \in SUBSET Owner,
         \A o \in Owner : held'[o] = IF o \in S THEN NoLease ELSE held[o],
         \A l : l \in lost' <=> l \in lost \/ (l # NoLease /\ \E o \in S : l = held[o])
  PROVE  Accounted'
<1> SUFFICES /\ \A s \in Subnet : Bitmap(table, s) =
                  {i \in Indices(s) : LeaseOf(s, i) \in lost' \cup {held'[o] : o \in Owner}}
             /\ \A o, q \in Owner : o # q /\ held'[o] # NoLease => held'[o] # held'[q]
             /\ \A o \in Owner : held'[o] \notin lost'
  BY DEF Accounted
<1>0. /\ \A s \in Subnet : Bitmap(table, s) =
           {i \in Indices(s) : LeaseOf(s, i) \in lost \cup {held[o] : o \in Owner}}
      /\ \A o, q \in Owner : o # q /\ held[o] # NoLease => held[o] # held[q]
      /\ \A o \in Owner : held[o] \notin lost
  BY DEF Accounted
<1>1. NoLease \notin lost
  BY MarkAssumption DEF NetInv, TypeOK
<1>2. ASSUME NEW s \in Subnet
      PROVE  Bitmap(table, s) =
               {i \in Indices(s) : LeaseOf(s, i) \in lost' \cup {held'[o] : o \in Owner}}
  <2>1. \A i \in Indices(s) : LeaseOf(s, i) # NoLease
    BY AddressIsIP, MarkAssumption
  <2>2. \A i \in Indices(s) : LeaseOf(s, i) \in lost' \cup {held'[o] : o \in Owner}
                              <=> LeaseOf(s, i) \in lost \cup {held[o] : o \in Owner}
    BY <2>1
  <2> QED BY <1>0, <2>2
<1>3. \A o, q \in Owner : o # q /\ held'[o] # NoLease => held'[o] # held'[q]
  BY <1>0
<1>4. \A o \in Owner : held'[o] \notin lost'
  BY <1>0, <1>1
<1> QED BY <1>2, <1>3, <1>4

\* An address that is passed on is there, and what the new owner had is lost.
LEMMA PassingAddress ==
  ASSUME NetInv, Accounted, UNCHANGED table,
         NEW p \in Owner, NEW o \in Owner, p # o,
         \A q \in Owner : held'[q] = IF q = o THEN held[p] ELSE IF q = p THEN NoLease ELSE held[q],
         lost' = Leaves(o)
  PROVE  Accounted'
<1> SUFFICES /\ \A s \in Subnet : Bitmap(table, s) =
                  {i \in Indices(s) : LeaseOf(s, i) \in lost' \cup {held'[q] : q \in Owner}}
             /\ \A q, r \in Owner : q # r /\ held'[q] # NoLease => held'[q] # held'[r]
             /\ \A q \in Owner : held'[q] \notin lost'
  BY DEF Accounted
<1>0. /\ \A s \in Subnet : Bitmap(table, s) =
           {i \in Indices(s) : LeaseOf(s, i) \in lost \cup {held[q] : q \in Owner}}
      /\ \A q, r \in Owner : q # r /\ held[q] # NoLease => held[q] # held[r]
      /\ \A q \in Owner : held[q] \notin lost
  BY DEF Accounted
<1>1. NoLease \notin lost
  BY MarkAssumption DEF NetInv, TypeOK
<1>2. ASSUME NEW s \in Subnet
      PROVE  Bitmap(table, s) =
               {i \in Indices(s) : LeaseOf(s, i) \in lost' \cup {held'[q] : q \in Owner}}
  <2>1. \A i \in Indices(s) : LeaseOf(s, i) # NoLease
    BY AddressIsIP, MarkAssumption
  <2>2. \A i \in Indices(s) : LeaseOf(s, i) \in lost' \cup {held'[q] : q \in Owner}
                              <=> LeaseOf(s, i) \in lost \cup {held[q] : q \in Owner}
    BY <2>1 DEF Leaves
  <2> QED BY <1>0, <2>2
<1>3. \A q, r \in Owner : q # r /\ held'[q] # NoLease => held'[q] # held'[r]
  BY <1>0
<1>4. \A q \in Owner : held'[q] \notin lost'
  BY <1>0, <1>1 DEF Leaves
<1> QED BY <1>2, <1>3, <1>4

\* A command that returns loses what it had.
LEMMA ReturnAccounted ==
  ASSUME NetInv, Accounted, NEW p \in Proc, Return(p), UNCHANGED table
  PROVE  Accounted'
<1>1. \A o \in Owner : held'[o] = IF o \in {p} THEN NoLease ELSE held[o]
  BY DEF Return, NetInv, TypeOK
<1>2. \A l : l \in lost' <=> l \in lost \/ (l # NoLease /\ \E o \in {p} : l = held[o])
  BY DEF Return, Leaves
<1>3. {p} \in SUBSET Owner /\ UNCHANGED table
  BY Owners DEF Return
<1> QED BY <1>1, <1>2, <1>3, LosingAddresses

(***************************************************************************)
(* An address is given back that only its owner has: the position that is  *)
(* cleared is its own, because a position of a bitmap has one address.     *)
(***************************************************************************)
LEMMA ReleaseAccounted ==
  ASSUME NetInv, Accounted, NEW p \in Proc, call[p] # Idle, call[p].at # "allocate",
         NEW o \in Owner, ReleaseIP(p, o),
         \A q \in Owner \ {o} : held[q] # call[p].lease
  PROVE  Accounted'
<1> DEFINE s == call[p].subnet
           l == call[p].lease
<1>0. l \in Leases /\ l.subnet = s /\ s \in Subnet
  BY PastAllocate, CallFields DEF NetInv
<1>1. PICK t \in Subnet : \E i \in Indices(t) : l = LeaseOf(t, i)
  BY <1>0, LeasesAreLeases
<1>2. t = s
  BY <1>0, <1>1, LeasesAreLeases
<1>3. PICK idx \in Indices(s) : l = LeaseOf(s, idx)
  BY <1>1, <1>2
<1>4. l.ip = Address(s, idx)
  BY <1>3 DEF LeaseOf
<1>5. Index(s, l.ip) = idx
  <2>1. Index(s, l.ip) \in Indices(s)
    BY DEF ReleaseIP, Panics
  <2> QED BY <1>0, <1>4, <2>1, SubnetAssumption, IndexOfAddress
<1>6. table' = Set(table, s, table[s] \ {idx}) /\ s \in DOMAIN table /\ lost' = lost \ {l}
  BY <1>5 DEF ReleaseIP, Known, Clear
<1> SUFFICES /\ \A u \in Subnet : Bitmap(table', u) =
                  {i \in Indices(u) : LeaseOf(u, i) \in lost' \cup {held'[q] : q \in Owner}}
             /\ \A q, r \in Owner : q # r /\ held'[q] # NoLease => held'[q] # held'[r]
             /\ \A q \in Owner : held'[q] \notin lost'
  BY DEF Accounted
<1>7. \A q \in Owner \ {o} : held[q] # l
  OBVIOUS
<1>8. /\ \A u \in Subnet : Bitmap(table, u) =
           {i \in Indices(u) : LeaseOf(u, i) \in lost \cup {held[q] : q \in Owner}}
      /\ \A q, r \in Owner : q # r /\ held[q] # NoLease => held[q] # held[r]
      /\ \A q \in Owner : held[q] \notin lost
  BY DEF Accounted
<1>9. \A q \in Owner : held'[q] = IF held[q] = l THEN NoLease ELSE held[q]
  BY <1>7, ReleaseTypes
<1>10. NoLease \notin lost /\ l # NoLease
  BY <1>0, LeasesAreLeases, MarkAssumption DEF NetInv, TypeOK
<1>11. ASSUME NEW u \in Subnet
       PROVE  Bitmap(table', u) =
                {i \in Indices(u) : LeaseOf(u, i) \in lost' \cup {held'[q] : q \in Owner}}
  <2>1. \A i \in Indices(u) : LeaseOf(u, i) # NoLease
    BY AddressIsIP, MarkAssumption
  <2>2. \A i \in Indices(u) : LeaseOf(u, i) = l <=> u = s /\ i = idx
    BY <1>0, <1>3, LeaseInjective
  <2>3. \A i \in Indices(u) : LeaseOf(u, i) \in lost' \cup {held'[q] : q \in Owner}
          <=> LeaseOf(u, i) \in lost \cup {held[q] : q \in Owner} /\ LeaseOf(u, i) # l
    BY <1>6, <1>9, <2>1
  <2>4. Bitmap(table', u) = IF u = s THEN Bitmap(table, s) \ {idx} ELSE Bitmap(table, u)
    BY <1>6, BitmapAfter DEF Bitmap
  <2> QED BY <1>8, <2>2, <2>3, <2>4
<1>12. \A q, r \in Owner : q # r /\ held'[q] # NoLease => held'[q] # held'[r]
  BY <1>8, <1>9
<1>13. \A q \in Owner : held'[q] \notin lost'
  BY <1>6, <1>8, <1>9, <1>10
<1> QED BY <1>11, <1>12, <1>13

\* Allocate gives out the address of a position that is nobody's.
LEMMA AllocateAccounted ==
  ASSUME NetInv, Accounted, NEW p \in Proc, AllocateIP(p)
  PROVE  Accounted'
<1> DEFINE s == call[p].subnet
<1>0. call[p] # Idle /\ s \in Subnet /\ held[p] = NoLease /\ p \in Owner
  <2>1. call[p] # Idle /\ call[p].at = "allocate"
    BY DEF AllocateIP, At
  <2>2. held[p] = NoLease
    BY <2>1 DEF NetInv, Commands, Busywork, CreateLabel, ConnectLabel
  <2> QED BY <2>1, <2>2, CallFields, Owners DEF NetInv
<1>1. CASE Error(p)
  BY <1>1, ReturnAccounted DEF Error, hostVars
<1>2. ASSUME NEW idx \in FreeIn(table, s),
             table' = Set(table, s, Mark(Bitmap(table, s), idx)),
             held' = [held EXCEPT ![p] = LeaseOf(s, idx)],
             UNCHANGED lost
      PROVE  Accounted'
  <2> DEFINE l == LeaseOf(s, idx)
  <2> SUFFICES /\ \A u \in Subnet : Bitmap(table', u) =
                    {i \in Indices(u) : LeaseOf(u, i) \in lost \cup {held'[q] : q \in Owner}}
               /\ \A q, r \in Owner : q # r /\ held'[q] # NoLease => held'[q] # held'[r]
               /\ \A q \in Owner : held'[q] \notin lost
    BY <1>2 DEF Accounted
  <2>1. /\ \A u \in Subnet : Bitmap(table, u) =
             {i \in Indices(u) : LeaseOf(u, i) \in lost \cup {held[q] : q \in Owner}}
        /\ \A q, r \in Owner : q # r /\ held[q] # NoLease => held[q] # held[r]
        /\ \A q \in Owner : held[q] \notin lost
    BY DEF Accounted
  <2>2. idx \in Indices(s) /\ idx \notin Bitmap(table, s)
    BY DEF FreeIn
  <2>3. l \notin lost /\ \A q \in Owner : held[q] # l
    BY <1>0, <2>1, <2>2
  <2>4. \A q \in Owner : held'[q] = IF q = p THEN l ELSE held[q]
    BY <1>2 DEF NetInv, TypeOK
  <2>5. ASSUME NEW u \in Subnet
        PROVE  Bitmap(table', u) =
                 {i \in Indices(u) : LeaseOf(u, i) \in lost \cup {held'[q] : q \in Owner}}
    <3>1. \A i \in Indices(u) : LeaseOf(u, i) # NoLease
      BY AddressIsIP, MarkAssumption
    <3>2. \A i \in Indices(u) : LeaseOf(u, i) = l <=> u = s /\ i = idx
      BY <1>0, <2>2, LeaseInjective
    <3>3. \A i \in Indices(u) : LeaseOf(u, i) \in lost \cup {held'[q] : q \in Owner}
            <=> LeaseOf(u, i) \in lost \cup {held[q] : q \in Owner} \/ LeaseOf(u, i) = l
      BY <1>0, <2>4, <3>1
    <3>4. Bitmap(table', u) = IF u = s THEN Bitmap(table, s) \cup {idx} ELSE Bitmap(table, u)
      BY <1>2, BitmapAfter DEF Mark
    <3> QED BY <2>1, <2>2, <3>2, <3>3, <3>4
  <2>6. \A q, r \in Owner : q # r /\ held'[q] # NoLease => held'[q] # held'[r]
    BY <2>1, <2>3, <2>4
  <2>7. \A q \in Owner : held'[q] \notin lost
    BY <2>1, <2>3, <2>4
  <2> QED BY <2>5, <2>6, <2>7
<1> QED BY <1>1, <1>2 DEF AllocateIP

\* The bitmap of a subnet goes when nobody has an address of it.
LEMMA RemoveAccounted ==
  ASSUME NetInv, Accounted, NEW p \in Proc, RemoveSubnet(p),
         \A o \in Owner : held[o] # NoLease => held[o].subnet # call[p].subnet
  PROVE  Accounted'
<1> DEFINE s == call[p].subnet
<1> SUFFICES /\ \A u \in Subnet : Bitmap(table', u) =
                  {i \in Indices(u) : LeaseOf(u, i) \in lost' \cup {held'[q] : q \in Owner}}
             /\ \A q, r \in Owner : q # r /\ held'[q] # NoLease => held'[q] # held'[r]
             /\ \A q \in Owner : held'[q] \notin lost'
  BY DEF Accounted
<1>1. /\ \A o \in Owner : held[o] # NoLease => held[o].subnet # s
      /\ table' = Delete(table, s) /\ lost' = {l \in lost : l.subnet # s} /\ held' = held
  BY DEF RemoveSubnet
<1>2. /\ \A u \in Subnet : Bitmap(table, u) =
           {i \in Indices(u) : LeaseOf(u, i) \in lost \cup {held[q] : q \in Owner}}
      /\ \A q, r \in Owner : q # r /\ held[q] # NoLease => held[q] # held[r]
      /\ \A q \in Owner : held[q] \notin lost
  BY DEF Accounted
<1>3. ASSUME NEW u \in Subnet
      PROVE  Bitmap(table', u) =
               {i \in Indices(u) : LeaseOf(u, i) \in lost' \cup {held'[q] : q \in Owner}}
  <2>1. \A i \in Indices(u) : LeaseOf(u, i) # NoLease /\ LeaseOf(u, i).subnet = u
    BY AddressIsIP, LeasesAreLeases, MarkAssumption
  <2>2. \A i \in Indices(u) : LeaseOf(u, i) \in lost' \cup {held'[q] : q \in Owner}
          <=> u # s /\ LeaseOf(u, i) \in lost \cup {held[q] : q \in Owner}
    BY <1>1, <2>1
  <2>3. Bitmap(table', u) = IF u = s THEN {} ELSE Bitmap(table, u)
    BY <1>1 DEF Bitmap, Delete
  <2> QED BY <1>2, <2>2, <2>3
<1> QED BY <1>1, <1>2, <1>3

\* The step releases no address of anybody else, nor a subnet with addresses in use.
Harmless(p) ==
  /\ \A o \in Owner :
       /\ \/ At(p, "release") /\ o = call[p].name
          \/ At(p, "rollback") /\ o = p
          \/ At(p, "giveback") /\ o = call[p].ctn
       /\ ReleaseIP(p, o)
       => \A q \in Owner \ {o} : held[q] # call[p].lease
  /\ RemoveSubnet(p) => \A o \in Owner : held[o] # NoLease => held[o].subnet # call[p].subnet

LEMMA NextAccounted ==
  ASSUME NetInv, Accounted, [Next]_vars, \A p \in Proc : Harmless(p)
  PROVE  Accounted'
<1>1. CASE UNCHANGED vars
  BY <1>1, SameAddresses DEF vars
<1>2. ASSUME NEW p \in Proc, Begin(p) \/ PleaseStopFirst(p) PROVE Accounted'
  <2>1. UNCHANGED <<table, held, lost>>
    <3>1. UNCHANGED <<hostVars, held, lost>>
      <4>1. ASSUME NEW n \in Name, DeleteNetwork(p, n)
            PROVE  UNCHANGED <<hostVars, held, lost>>
        BY <4>1 DEF DeleteNetwork
      <4>2. ASSUME NEW n \in Name, NEW s \in Subnet, CreateNetwork(p, n, s)
            PROVE  UNCHANGED <<hostVars, held, lost>>
        BY <4>2 DEF CreateNetwork
      <4>3. ASSUME NEW c \in Container, Disconnect(p, c)
            PROVE  UNCHANGED <<hostVars, held, lost>>
        BY <4>3 DEF Disconnect
      <4>4. ASSUME NEW c \in Container, NEW n \in Name, Connect(p, c, n)
            PROVE  UNCHANGED <<hostVars, held, lost>>
        BY <4>4 DEF Connect
      <4>5. CASE PleaseStopFirst(p)
        BY <4>5 DEF PleaseStopFirst
      <4> QED BY <1>2, <4>1, <4>2, <4>3, <4>4, <4>5 DEF Begin
    <3> QED BY <3>1 DEF hostVars
  <2> QED BY <2>1, SameAddresses
<1>3. ASSUME NEW p \in Proc, Quit(p) PROVE Accounted'
  BY <1>3, ReturnAccounted DEF Quit, hostVars
<1>4. ASSUME NEW p \in Proc, CreateStep(p) PROVE Accounted'
  <2> DEFINE n == call[p].name
  <2>1. CASE Error(p)
    BY <2>1, ReturnAccounted DEF Error, hostVars
  <2>2. CASE UNCHANGED <<table, held, lost>>
    BY <2>2, SameAddresses
  <2>3. CASE CreateFile(p)
    <3>1. n \in Name /\ {n} \in SUBSET Owner
      BY <2>3, CallFields, Owners DEF CreateFile, At, NetInv
    <3>2. \A o \in Owner : held'[o] = IF o \in {n} THEN NoLease ELSE held[o]
      BY <2>3 DEF CreateFile, NetInv, TypeOK
    <3>3. \A l : l \in lost' <=> l \in lost \/ (l # NoLease /\ \E o \in {n} : l = held[o])
      BY <2>3 DEF CreateFile, Leaves
    <3> QED BY <2>3, <3>1, <3>2, <3>3, LosingAddresses DEF CreateFile
  <2>4. CASE WriteFile(p)
    <3>1. n \in Owner /\ p \in Owner /\ n # p
      BY <2>4, CallFields, Owners DEF WriteFile, At, NetInv
    <3>2. CASE held' = [held EXCEPT ![n] = held[p], ![p] = NoLease] /\ lost' = Leaves(n)
      <4>1. \A q \in Owner : held'[q] = IF q = n THEN held[p]
                                        ELSE IF q = p THEN NoLease ELSE held[q]
        BY <3>1, <3>2 DEF NetInv, TypeOK
      <4>2. UNCHANGED table
        BY <2>4 DEF WriteFile
      <4> QED BY <3>1, <3>2, <4>1, <4>2, PassingAddress
    <3>3. CASE held' = [held EXCEPT ![n] = NoLease, ![p] = NoLease]
               /\ lost' = Leaves(n) \cup Leaves(p)
      <4>1. \A q \in Owner : held'[q] = IF q \in {n, p} THEN NoLease ELSE held[q]
        BY <3>3 DEF NetInv, TypeOK
      <4>2. \A l : l \in lost' <=> l \in lost \/ (l # NoLease /\ \E o \in {n, p} : l = held[o])
        BY <3>3 DEF Leaves
      <4>3. {n, p} \in SUBSET Owner /\ UNCHANGED table
        BY <2>4, <3>1 DEF WriteFile
      <4> QED BY <4>1, <4>2, <4>3, LosingAddresses
    <3> QED BY <2>4, <3>2, <3>3 DEF WriteFile
  <2> QED BY <1>4, <2>1, <2>2, <2>3, <2>4 DEF CreateStep, EnsureBridgeInterface, SetInterfaceIP,
             SetInterfaceUp, setInterfaceIPTables, WriteUnlinked, Continue
<1>5. ASSUME NEW p \in Proc, DeleteStep(p) PROVE Accounted'
  <2> DEFINE n == call[p].name
  <2>1. CASE Error(p)
    BY <2>1, ReturnAccounted DEF Error, hostVars
  <2>2. CASE UNCHANGED <<table, held, lost>>
    BY <2>2, SameAddresses
  <2>3. CASE ReleaseGateway(p) /\ ~Error(p)
    <3>1. call[p] # Idle /\ call[p].at # "allocate" /\ ReleaseIP(p, n) /\ n \in Owner
      BY <2>3, CallFields, Owners DEF ReleaseGateway, At, NetInv
    <3> QED BY <2>3, <3>1, ReleaseAccounted DEF Harmless, ReleaseGateway
  <2>4. CASE removeNetwork(p)
    <3>1. n \in Name /\ {n} \in SUBSET Owner
      BY <2>4, CallFields, Owners DEF removeNetwork, At, NetInv
    <3>2. \A o \in Owner : held'[o] = IF o \in {n} THEN NoLease ELSE held[o]
      BY <2>4 DEF removeNetwork, NetInv, TypeOK
    <3>3. \A l : l \in lost' <=> l \in lost \/ (l # NoLease /\ \E o \in {n} : l = held[o])
      BY <2>4 DEF removeNetwork, Leaves
    <3> QED BY <2>4, <3>1, <3>2, <3>3, LosingAddresses DEF removeNetwork
  <2>5. CASE RemoveSubnet(p)
    BY <2>5, RemoveAccounted DEF Harmless
  <2> QED BY <1>5, <2>1, <2>2, <2>3, <2>4, <2>5 DEF DeleteStep, clearInterfaceIPTables,
             DeleteInterface, Continue
<1>6. ASSUME NEW p \in Proc, ConnectStep(p) PROVE Accounted'
  <2> DEFINE c == call[p].ctn
  <2>1. CASE Return(p) /\ UNCHANGED table
    BY <2>1, ReturnAccounted
  <2>2. CASE UNCHANGED <<table, held, lost>>
    BY <2>2, SameAddresses
  <2>3. CASE RollbackIP(p) /\ ~Error(p)
    <3>1. call[p] # Idle /\ call[p].at # "allocate" /\ ReleaseIP(p, p)
      BY <2>3 DEF RollbackIP, At
    <3> QED BY <2>3, <3>1, Owners, ReleaseAccounted DEF Harmless, RollbackIP
  <2>4. CASE SaveEndpoint(p)
    <3>1. call[p] # Idle /\ c # Nobody
      BY <2>4 DEF SaveEndpoint, At, NetInv, Commands, Busywork, ConnectLabel
    <3>2. c \in Owner /\ p \in Owner /\ p # c
      BY <3>1, CallFields, Owners DEF NetInv
    <3>3. held' = [held EXCEPT ![c] = held[p], ![p] = NoLease]
          /\ lost' = Leaves(c) /\ UNCHANGED table
      BY <2>4 DEF SaveEndpoint
    <3>4. \A q \in Owner : held'[q] = IF q = c THEN held[p]
                                      ELSE IF q = p THEN NoLease ELSE held[q]
      BY <3>2, <3>3 DEF NetInv, TypeOK
    <3> QED BY <3>2, <3>3, <3>4, PassingAddress
  <2> QED BY <1>6, <2>1, <2>2, <2>3, <2>4 DEF ConnectStep, PlugVeth, RollbackIP,
             setPortMappingIPTables, setContainerNetwork, Continue, Error, hostVars
<1>7. ASSUME NEW p \in Proc, DisconnectStep(p) PROVE Accounted'
  <2> DEFINE c == call[p].ctn
  <2>0. call[p] # Idle /\ call[p].at # "allocate" /\ c \in Container
    <3>1. call[p] # Idle /\ call[p].at \in LeaveLabel
      BY <1>7 DEF DisconnectStep, disconnectEndpoint, clearPortMappingIPTables,
         RemoveMetadata, At, LeaveLabel
    <3>2. c # Nobody
      BY <3>1 DEF NetInv, Commands, Busywork
    <3> QED BY <3>1, <3>2, CallFields DEF NetInv, LeaveLabel
  <2>1. CASE ReleaseIP(p, c) /\ At(p, "giveback")
    BY <2>0, <2>1, Owners, ReleaseAccounted DEF Harmless
  <2>2. CASE UNCHANGED <<table, held, lost>>
    BY <2>2, SameAddresses
  <2>3. CASE RemoveMetadata(p)
    <3>1. \A o \in Owner : held'[o] = IF o \in {c} THEN NoLease ELSE held[o]
      BY <2>3 DEF RemoveMetadata, NetInv, TypeOK
    <3>2. \A l : l \in lost' <=> l \in lost \/ (l # NoLease /\ \E o \in {c} : l = held[o])
      BY <2>3 DEF RemoveMetadata, Leaves
    <3>3. {c} \in SUBSET Owner /\ UNCHANGED table
      BY <2>0, <2>3, Owners DEF RemoveMetadata
    <3> QED BY <3>1, <3>2, <3>3, LosingAddresses
  <2> QED BY <1>7, <2>1, <2>2, <2>3 DEF DisconnectStep, disconnectEndpoint,
             clearPortMappingIPTables
<1>8. ASSUME NEW p \in Proc, Step(p) PROVE Accounted'
  BY <1>4, <1>5, <1>6, <1>7, <1>8, AllocateAccounted DEF Step
<1> QED BY <1>1, <1>2, <1>3, <1>8 DEF Next

\* A mishap is remembered.
LEMMA MishapStays ==
  ASSUME [Next]_vars, mishap
  PROVE  mishap'
<1>1. ASSUME NEW p \in Proc, setPortMappingIPTables(p) PROVE mishap'
  BY <1>1 DEF setPortMappingIPTables, Continue, Return
<1>2. ASSUME NEW p \in Proc, Begin(p) \/ Step(p) \/ PleaseStopFirst(p) \/ Quit(p),
             ~setPortMappingIPTables(p)
      PROVE  mishap'
  BY <1>2 DEF Begin, CreateNetwork, DeleteNetwork, Connect, Disconnect, Step, Quit, Return,
       PleaseStopFirst, Error, Continue, AllocateIP, CreateStep, EnsureBridgeInterface,
       SetInterfaceIP, SetInterfaceUp, setInterfaceIPTables, CreateFile, WriteFile,
       WriteUnlinked, DeleteStep, clearInterfaceIPTables, DeleteInterface, ReleaseGateway,
       RemoveSubnet, removeNetwork, ConnectStep, PlugVeth, RollbackIP,
       setContainerNetwork, SaveEndpoint, DisconnectStep,
       disconnectEndpoint, clearPortMappingIPTables, RemoveMetadata, ReleaseIP
<1>3. UNCHANGED vars => mishap'
  BY DEF vars
<1> QED BY <1>1, <1>2, <1>3 DEF Next

(***************************************************************************)
(* Until an address in use is released or a subnet with addresses in use   *)
(* is removed, the bits that are set are the addresses somebody has and    *)
(* those that were lost, and nobody shares one (network.go, driver.go).    *)
(***************************************************************************)
THEOREM Addresses == Spec => []AddressesAccounted
<1>1. Init => AddressesAccounted
  <2> SUFFICES ASSUME Init PROVE AddressesAccounted
    OBVIOUS
  <2>1. \A s \in Subnet : Bitmap(table, s) = {}
    BY DEF Init, Bitmap, NoSubnets
  <2>2. \A o \in Owner : held[o] = NoLease
    BY DEF Init
  <2>3. \A s \in Subnet : \A i \in Indices(s) : LeaseOf(s, i) # NoLease
    BY AddressIsIP, MarkAssumption
  <2>4. lost = {}
    BY DEF Init
  <2> QED BY <2>1, <2>2, <2>3, <2>4 DEF AddressesAccounted
<1>2. NetInv /\ AddressesAccounted /\ [Next]_vars => AddressesAccounted'
  <2> SUFFICES ASSUME NetInv, AddressesAccounted, [Next]_vars, ~mishap'
               PROVE  Accounted'
    BY DEF AddressesAccounted, Accounted
  <2>1. ~mishap
    BY MishapStays
  <2>2. Accounted
    BY <2>1 DEF AddressesAccounted, Accounted
  <2>3. \A p \in Proc : Harmless(p)
    BY DEF Harmless, ReleaseIP, RemoveSubnet
  <2> QED BY <2>2, <2>3, NextAccounted
<1> QED BY <1>1, <1>2, NetInvariant, PTL DEF Spec

-----------------------------------------------------------------------------
(***************************************************************************)
(* Rules.  A MASQUERADE rule is no rule of a port, and a step of a command *)
(* counts one only for its own network and subnet.                         *)
(***************************************************************************)
LEMMA PortRulesApart ==
  ASSUME NEW p, NEW n, NEW s
  PROVE  Masquerade(n, s) \notin PortRules(p)
<1>1. DOMAIN Masquerade(n, s) = {"name", "subnet"}
  BY DEF Masquerade
<1>2. \A port, l : DOMAIN DNAT(port, l) = {"port", "to"}
  BY DEF DNAT
<1>3. \A port, l : Masquerade(n, s) # DNAT(port, l)
  BY <1>1, <1>2
<1> QED BY <1>3 DEF PortRules

LEMMA MasqueradeIsRule ==
  ASSUME NEW n \in Name, NEW s \in Subnet
  PROVE  /\ Masquerade(n, s) \in Rule
         /\ \A m, t : Masquerade(m, t) = Masquerade(n, s) <=> m = n /\ t = s
BY DEF Masquerade, Rule

\* What a step does to the rule of a network it is not about.
LEMMA OtherRules ==
  ASSUME NetInv, NEW n \in Name, NEW s \in Subnet, NEW p \in Proc,
         ConnectStep(p) \/ DisconnectStep(p)
  PROVE  nat'[Masquerade(n, s)] = nat[Masquerade(n, s)]
<1> DEFINE r == Masquerade(n, s)
<1>1. r \in Rule /\ r \notin PortRules(p)
  BY MasqueradeIsRule, PortRulesApart
<1>2. \A rules : rules \subseteq PortRules(p) =>
        Add(rules)[r] = nat[r] /\ Drop(rules)[r] = nat[r]
  BY <1>1 DEF Add, Drop
<1>3. \/ nat' = nat
      \/ \E rules \in SUBSET PortRules(p) : nat' = Add(rules) \/ nat' = Drop(rules)
  <2>1. ASSUME ConnectStep(p)
        PROVE  nat' = nat \/ \E rules \in SUBSET PortRules(p) : nat' = Add(rules) \/ nat' = Drop(rules)
    <3>1. CASE PlugVeth(p)
      BY <3>1 DEF PlugVeth
    <3>2. CASE RollbackIP(p)
      BY <3>2 DEF RollbackIP, Error, hostVars
    <3>3. CASE setPortMappingIPTables(p)
      BY <3>3 DEF setPortMappingIPTables
    <3>4. CASE setContainerNetwork(p)
      <4>1. nat' = nat \/ \E left \in SUBSET PortRules(p) : nat' = Drop(PortRules(p) \ left)
        BY <3>4 DEF setContainerNetwork
      <4>2. \A left : PortRules(p) \ left \in SUBSET PortRules(p)
        OBVIOUS
      <4> QED BY <4>1, <4>2
    <3>5. CASE SaveEndpoint(p)
      BY <3>5 DEF SaveEndpoint
    <3> QED BY <2>1, <3>1, <3>2, <3>3, <3>4, <3>5 DEF ConnectStep
  <2>2. ASSUME DisconnectStep(p)
        PROVE  nat' = nat \/ \E rules \in SUBSET PortRules(p) : nat' = Add(rules) \/ nat' = Drop(rules)
    <3>1. CASE disconnectEndpoint(p)
      BY <3>1 DEF disconnectEndpoint
    <3>2. CASE clearPortMappingIPTables(p)
      <4>1. \/ nat' = Drop(PortRules(p))
            \/ \E left \in SUBSET PortRules(p) : nat' = Drop(PortRules(p) \ left)
        BY <3>2 DEF clearPortMappingIPTables
      <4>2. \A left : PortRules(p) \ left \in SUBSET PortRules(p)
        OBVIOUS
      <4> QED BY <4>1, <4>2
    <3>3. CASE RemoveMetadata(p)
      BY <3>3 DEF RemoveMetadata
    <3> QED BY <2>2, <3>1, <3>2, <3>3 DEF DisconnectStep
  <2> QED BY <2>1, <2>2
<1> HIDE DEF r
<1>4. nat'[r] = nat[r]
  BY <1>2, <1>3
<1> QED BY <1>4 DEF r

(***************************************************************************)
(* A command stays what it is: it goes on with the same network, container *)
(* and subnet, or returns.  Only removeNetwork moves another command, one  *)
(* with the same network.                                                  *)
(***************************************************************************)
SameCall(q) == /\ call[q] # Idle /\ call'[q].name = call[q].name
               /\ call'[q].ctn = call[q].ctn /\ call'[q].subnet = call[q].subnet

Works(p) == Step(p) \/ PleaseStopFirst(p) \/ Quit(p)

LEMMA CallsStay ==
  ASSUME NetInv, NEW p \in Proc, Works(p)
  PROVE  /\ call[p] # Idle
         /\ call'[p] = Idle \/ SameCall(p)
         /\ \A q \in Proc \ {p} :
              \/ call'[q] = call[q]
              \/ /\ removeNetwork(p) /\ SameCall(q) /\ call[q].name = call[p].name
                 /\ call'[q] # Idle /\ call'[q].at = "unlinked"
<1> DEFINE Others == \A q \in Proc \ {p} : call'[q] = call[q]
<1>1. ASSUME call' = [call EXCEPT ![p] = Idle]
      PROVE  call'[p] = Idle /\ Others
  BY <1>1 DEF NetInv, TypeOK
<1>2. ASSUME Return(p)
      PROVE  call'[p] = Idle /\ Others
  BY <1>1, <1>2 DEF Return
<1>3. ASSUME call[p] # Idle,
             NEW label \in CreateLabel \cup DeleteLabel \cup ConnectLabel \cup LeaveLabel,
             Goto(p, label)
      PROVE  SameCall(p) /\ Others
  BY <1>3, GotoCall DEF NetInv, SameCall
<1>4. call[p] # Idle
  BY DEF Works, Step, CreateStep, DeleteStep, ConnectStep, DisconnectStep, AllocateIP,
     EnsureBridgeInterface, SetInterfaceIP, SetInterfaceUp, setInterfaceIPTables, CreateFile,
     WriteFile, WriteUnlinked, clearInterfaceIPTables, DeleteInterface, ReleaseGateway,
     RemoveSubnet, removeNetwork, PlugVeth, RollbackIP, setPortMappingIPTables,
     setContainerNetwork, SaveEndpoint, disconnectEndpoint, clearPortMappingIPTables,
     RemoveMetadata, PleaseStopFirst, Quit, At
<1>5. CASE AllocateIP(p)
  <2>1. CASE Error(p)
    BY <1>2, <1>4, <2>1 DEF Error
  <2>2. ASSUME NEW l, NEW label,
               call' = [call EXCEPT ![p].lease = l, ![p].at = label]
        PROVE  SameCall(p) /\ Others
    <3>1. call[p] \in Call
      BY <1>4, CallFields DEF NetInv
    <3>2. call'[p] = [[call[p] EXCEPT !.lease = l] EXCEPT !.at = label] /\ Others
      BY <2>2 DEF NetInv, TypeOK
    <3> QED BY <1>4, <3>1, <3>2 DEF SameCall, Call
  <2>3. CASE ~Error(p)
    <3>1. PICK l, label : call' = [call EXCEPT ![p].lease = l, ![p].at = label]
      <4>1. PICK idx \in FreeIn(table, call[p].subnet) :
               call' = [call EXCEPT ![p].lease = LeaseOf(call[p].subnet, idx),
                          ![p].at = IF call[p].ctn = Nobody THEN "bridge" ELSE "veth"]
        BY <1>5, <2>3 DEF AllocateIP
      <4> QED BY <4>1
    <3> QED BY <1>4, <2>2, <3>1
  <2> QED BY <1>4, <2>1, <2>3
<1>6. CASE CreateStep(p)
  <2>1. \/ Return(p) \/ call' = [call EXCEPT ![p] = Idle]
        \/ \E label \in CreateLabel : Goto(p, label)
    BY <1>6 DEF CreateStep, EnsureBridgeInterface, SetInterfaceIP, SetInterfaceUp,
       setInterfaceIPTables, CreateFile, WriteFile, WriteUnlinked, Continue, Error, CreateLabel
  <2> QED BY <1>1, <1>2, <1>3, <1>4, <2>1
<1>7. CASE DeleteStep(p)
  <2>1. CASE removeNetwork(p)
    <3>1. call'[p] = Idle
      BY <2>1 DEF removeNetwork
    <3>2. ASSUME NEW q \in Proc \ {p}
          PROVE  \/ call'[q] = call[q]
                 \/ /\ SameCall(q) /\ call[q].name = call[p].name
                    /\ call'[q] # Idle /\ call'[q].at = "unlinked"
      <4>1. CASE Busy(q, call[p].name) /\ At(q, "write")
        <5>1. call[q] # Idle /\ call[q] \in Call
          BY <4>1, CallFields DEF At, NetInv
        <5>2. call'[q] = [call[q] EXCEPT !.at = "unlinked"]
          BY <2>1, <4>1 DEF removeNetwork
        <5>3. call'[q] # Idle /\ call'[q].at = "unlinked" /\ SameCall(q)
          <6>1. [call[q] EXCEPT !.at = "unlinked"] \in Call
            BY <5>1 DEF Call, CreateLabel
          <6>2. call'[q] # Idle
            BY <5>2, <6>1, MarkAssumption
          <6> QED BY <5>1, <5>2, <6>2 DEF SameCall, Call
        <5>4. call[q].ctn \notin Name /\ call[p].name \in Name
          BY <1>4, <5>1, CallFields, MarkAssumption, OwnerAssumption DEF NetInv
        <5>5. call[q].name = call[p].name
          BY <4>1, <5>4 DEF Busy
        <5> QED BY <5>3, <5>5
      <4>2. CASE ~(Busy(q, call[p].name) /\ At(q, "write"))
        BY <2>1, <4>2 DEF removeNetwork
      <4> QED BY <4>1, <4>2
    <3> QED BY <1>4, <2>1, <3>1, <3>2
  <2>2. CASE ~removeNetwork(p)
    <3>1. Return(p) \/ \E label \in DeleteLabel : Goto(p, label)
      BY <1>7, <2>2 DEF DeleteStep, clearInterfaceIPTables, DeleteInterface, ReleaseGateway,
         RemoveSubnet, Continue, Error, DeleteLabel
    <3> QED BY <1>2, <1>3, <1>4, <3>1
  <2> QED BY <2>1, <2>2
<1>8. CASE ConnectStep(p)
  <2>1. \/ Return(p) \/ call' = [call EXCEPT ![p] = Idle]
        \/ \E label \in ConnectLabel : Goto(p, label)
    BY <1>8 DEF ConnectStep, PlugVeth, RollbackIP, setPortMappingIPTables, setContainerNetwork,
       SaveEndpoint, Continue, Error, ConnectLabel
  <2> QED BY <1>1, <1>2, <1>3, <1>4, <2>1
<1>9. CASE DisconnectStep(p) \/ PleaseStopFirst(p)
  <2>1. ASSUME KeepError(p)
        PROVE  SameCall(p) /\ Others
    <3>1. call[p] \in Call
      BY <1>4, CallFields DEF NetInv
    <3>2. call'[p] = [[call[p] EXCEPT !.at = "unmap"] EXCEPT !.err = TRUE] /\ Others
      BY <2>1 DEF KeepError, NetInv, TypeOK
    <3> QED BY <1>4, <3>1, <3>2 DEF SameCall, Call
  <2>2. CASE disconnectEndpoint(p)
    <3>1. KeepError(p) \/ call' = [call EXCEPT ![p] = Idle] \/ Goto(p, "unmap")
      BY <2>2 DEF disconnectEndpoint
    <3>2. "unmap" \in CreateLabel \cup DeleteLabel \cup ConnectLabel \cup LeaveLabel
      BY DEF LeaveLabel
    <3> QED BY <1>1, <1>3, <1>4, <2>1, <3>1, <3>2
  <2>3. CASE clearPortMappingIPTables(p)
    <3>1. CASE call[p].err
      BY <1>1, <1>4, <2>3, <3>1 DEF clearPortMappingIPTables
    <3>2. CASE ~call[p].err
      <4>1. Goto(p, "drop")
        BY <2>3, <3>2 DEF clearPortMappingIPTables, Goto
      <4>2. "drop" \in CreateLabel \cup DeleteLabel \cup ConnectLabel \cup LeaveLabel
        BY DEF LeaveLabel
      <4> QED BY <1>3, <1>4, <4>1, <4>2
    <3> QED BY <3>1, <3>2
  <2>4. CASE RemoveMetadata(p) \/ PleaseStopFirst(p)
    BY <1>1, <1>4, <2>4 DEF RemoveMetadata, PleaseStopFirst
  <2> QED BY <1>9, <2>2, <2>3, <2>4 DEF DisconnectStep
<1>10. CASE Quit(p)
  BY <1>2, <1>4, <1>10 DEF Quit
<1> QED BY <1>4, <1>5, <1>6, <1>7, <1>8, <1>9, <1>10 DEF Works, Step

(***************************************************************************)
(* A command that is about another network, or about a container, leaves a *)
(* network's file, bridge, rules and address alone.                        *)
(***************************************************************************)
Alone(n) == /\ netFile'[n] = netFile[n] /\ bridge'[n] = bridge[n] /\ held'[n] = held[n]
            /\ \A s \in Subnet : nat'[Masquerade(n, s)] = nat[Masquerade(n, s)]

LEMMA Foreign ==
  ASSUME NetInv, NEW p \in Proc, NEW n \in Name, Works(p),
         call[p].name # n \/ call[p].ctn # Nobody
  PROVE  Alone(n)
<1>0. /\ call[p] # Idle /\ call[p].name \in Name /\ call[p].subnet \in Subnet
      /\ Busywork(call[p], held[p]) /\ n \in Owner /\ n # p /\ n \notin Container
  <2>1. call[p] # Idle
    BY CallsStay
  <2>2. Busywork(call[p], held[p])
    BY <2>1 DEF NetInv, Commands
  <2> QED BY <2>1, <2>2, CallFields, Owners, OwnerAssumption DEF NetInv
<1>1. ASSUME Return(p) PROVE held'[n] = held[n]
  BY <1>0, <1>1 DEF Return, NetInv, TypeOK
<1>2. ASSUME Error(p) PROVE Alone(n)
  BY <1>1, <1>2 DEF Error, hostVars, Alone, Return
<1>3. ASSUME NEW o \in Owner, o # n, ReleaseIP(p, o) PROVE held'[n] = held[n]
  BY <1>0, <1>3, ReleaseTypes
<1>4. CASE AllocateIP(p)
  <2>1. CASE Error(p)
    BY <1>2, <2>1
  <2>2. CASE ~Error(p)
    <3>1. PICK l : held' = [held EXCEPT ![p] = l]
      BY <1>4, <2>2 DEF AllocateIP
    <3>2. held'[n] = held[n]
      BY <1>0, <3>1 DEF NetInv, TypeOK
    <3>3. UNCHANGED <<netFile, bridge, nat>>
      BY <1>4, <2>2 DEF AllocateIP
    <3> QED BY <3>2, <3>3 DEF Alone
  <2> QED BY <2>1, <2>2
<1>5. CASE CreateStep(p)
  <2>1. call[p].name # n
    BY <1>0, <1>5 DEF Busywork, CreateStep, EnsureBridgeInterface, SetInterfaceIP,
       SetInterfaceUp, setInterfaceIPTables, CreateFile, WriteFile, WriteUnlinked, At, CreateLabel
  <2>2. CASE Error(p)
    BY <1>2, <2>2
  <2>3. netFile'[n] = netFile[n]
    BY <1>5, <2>1 DEF CreateStep, EnsureBridgeInterface, SetInterfaceIP,
       SetInterfaceUp, setInterfaceIPTables, CreateFile, WriteFile, WriteUnlinked, Error,
       hostVars, NetInv, TypeOK
  <2>4. bridge'[n] = bridge[n]
    BY <1>5, <2>1 DEF CreateStep, EnsureBridgeInterface, SetInterfaceIP,
       SetInterfaceUp, setInterfaceIPTables, CreateFile, WriteFile, WriteUnlinked, Error,
       hostVars, NetInv, TypeOK
  <2>5. CASE ~Error(p)
    <3>1. held'[n] = held[n]
      BY <1>0, <1>5, <2>1, <2>5 DEF CreateStep, EnsureBridgeInterface, SetInterfaceIP,
         SetInterfaceUp, setInterfaceIPTables, CreateFile, WriteFile, WriteUnlinked,
         Continue, NetInv, TypeOK
    <3>2. \A s \in Subnet : nat'[Masquerade(n, s)] = nat[Masquerade(n, s)]
      <4>1. CASE setInterfaceIPTables(p)
        <5>1. nat' = [nat EXCEPT ![Masquerade(call[p].name, call[p].subnet)] = @ + 1]
          BY <4>1 DEF setInterfaceIPTables
        <5>2. \A s \in Subnet : Masquerade(call[p].name, call[p].subnet) # Masquerade(n, s)
          BY <1>0, <2>1, MasqueradeIsRule
        <5> QED BY <5>1, <5>2, MasqueradeIsRule DEF NetInv, TypeOK
      <4>2. CASE ~setInterfaceIPTables(p)
        BY <1>5, <2>5, <4>2 DEF CreateStep, EnsureBridgeInterface, SetInterfaceIP,
           SetInterfaceUp, CreateFile, WriteFile, WriteUnlinked
      <4> QED BY <4>1, <4>2
    <3> QED BY <2>3, <2>4, <3>1, <3>2 DEF Alone
  <2> QED BY <2>2, <2>5
<1>6. CASE DeleteStep(p)
  <2>1. call[p].name # n
    BY <1>0, <1>6 DEF Busywork, DeleteStep, clearInterfaceIPTables, DeleteInterface,
       ReleaseGateway, RemoveSubnet, removeNetwork, At, DeleteLabel
  <2>2. CASE Error(p)
    BY <1>2, <2>2
  <2>3. CASE ~Error(p)
    <3>1. netFile'[n] = netFile[n]
      BY <1>6, <2>1, <2>3 DEF DeleteStep, clearInterfaceIPTables, DeleteInterface,
         ReleaseGateway, RemoveSubnet, removeNetwork, NetInv, TypeOK
    <3>2. bridge'[n] = bridge[n]
      BY <1>6, <2>1, <2>3 DEF DeleteStep, clearInterfaceIPTables, DeleteInterface,
         ReleaseGateway, RemoveSubnet, removeNetwork, NetInv, TypeOK
    <3>3. held'[n] = held[n]
      <4>1. CASE ReleaseGateway(p)
        <5>1. ReleaseIP(p, call[p].name) /\ call[p].name \in Owner
          BY <1>0, <2>3, <4>1, Owners DEF ReleaseGateway
        <5> QED BY <1>3, <2>1, <5>1
      <4>2. CASE ~ReleaseGateway(p)
        BY <1>0, <1>6, <2>1, <2>3, <4>2 DEF DeleteStep, clearInterfaceIPTables, DeleteInterface,
           RemoveSubnet, removeNetwork, Continue, NetInv, TypeOK
      <4> QED BY <4>1, <4>2
    <3>4. \A s \in Subnet : nat'[Masquerade(n, s)] = nat[Masquerade(n, s)]
      <4>1. CASE clearInterfaceIPTables(p)
        <5>1. nat' = [nat EXCEPT ![Masquerade(call[p].name, call[p].subnet)] = @ - 1]
          BY <2>3, <4>1 DEF clearInterfaceIPTables
        <5>2. \A s \in Subnet : Masquerade(call[p].name, call[p].subnet) # Masquerade(n, s)
          BY <1>0, <2>1, MasqueradeIsRule
        <5> QED BY <5>1, <5>2, MasqueradeIsRule DEF NetInv, TypeOK
      <4>2. CASE ~clearInterfaceIPTables(p)
        BY <1>6, <2>3, <4>2 DEF DeleteStep, DeleteInterface, ReleaseGateway, RemoveSubnet,
           removeNetwork
      <4> QED BY <4>1, <4>2
    <3> QED BY <3>1, <3>2, <3>3, <3>4 DEF Alone
  <2> QED BY <2>2, <2>3
<1>7. CASE ConnectStep(p)
  <2>1. UNCHANGED <<netFile, bridge>>
    BY <1>7 DEF ConnectStep, PlugVeth, RollbackIP, setPortMappingIPTables,
       setContainerNetwork, SaveEndpoint, Error, hostVars
  <2>2. \A s \in Subnet : nat'[Masquerade(n, s)] = nat[Masquerade(n, s)]
    BY <1>7, OtherRules
  <2>3. call[p].ctn # n
    BY <1>0, CallFields, MarkAssumption DEF NetInv
  <2>4. held'[n] = held[n]
    <3>1. CASE RollbackIP(p)
      <4>1. Error(p) \/ ReleaseIP(p, p)
        BY <3>1 DEF RollbackIP
      <4> QED BY <1>0, <1>2, <1>3, <4>1, Owners DEF Alone
    <3>2. CASE SaveEndpoint(p)
      BY <1>0, <2>3, <3>2 DEF SaveEndpoint, NetInv, TypeOK
    <3>3. CASE ~RollbackIP(p) /\ ~SaveEndpoint(p)
      <4>1. Return(p) \/ held' = held
        BY <1>7, <3>3 DEF ConnectStep, PlugVeth, setPortMappingIPTables, setContainerNetwork,
           Continue
      <4> QED BY <1>1, <4>1
    <3> QED BY <3>1, <3>2, <3>3
  <2> QED BY <2>1, <2>2, <2>4 DEF Alone
<1>8. CASE DisconnectStep(p)
  <2>1. UNCHANGED <<netFile, bridge>>
    BY <1>8 DEF DisconnectStep, disconnectEndpoint, clearPortMappingIPTables, RemoveMetadata
  <2>2. \A s \in Subnet : nat'[Masquerade(n, s)] = nat[Masquerade(n, s)]
    BY <1>8, OtherRules
  <2>3. call[p].ctn # n /\ call[p].ctn \in Owner
    <3>1. call[p].at \in LeaveLabel
      BY <1>8 DEF DisconnectStep, disconnectEndpoint, clearPortMappingIPTables,
         RemoveMetadata, At, LeaveLabel
    <3>2. call[p].ctn # Nobody
      BY <1>0, <3>1 DEF Busywork
    <3> QED BY <1>0, <3>2, CallFields, Owners DEF NetInv
  <2>4. held'[n] = held[n]
    <3>1. CASE ReleaseIP(p, call[p].ctn)
      BY <1>3, <2>3, <3>1
    <3>2. CASE ~ReleaseIP(p, call[p].ctn)
      BY <1>0, <1>8, <2>3, <3>2 DEF DisconnectStep, disconnectEndpoint,
         clearPortMappingIPTables, RemoveMetadata, NetInv, TypeOK
    <3> QED BY <3>1, <3>2
  <2> QED BY <2>1, <2>2, <2>4 DEF Alone
<1>9. CASE PleaseStopFirst(p)
  BY <1>9 DEF PleaseStopFirst, hostVars, Alone
<1>10. CASE Quit(p)
  BY <1>1, <1>10 DEF Quit, hostVars, Alone
<1> QED BY <1>4, <1>5, <1>6, <1>7, <1>8, <1>9, <1>10 DEF Works, Step

\* A command that begins: the others and the host stay as they are.
LEMMA BeginStays ==
  ASSUME NetInv, NEW p \in Proc, Begin(p)
  PROVE  /\ call[p] = Idle /\ \A q \in Proc \ {p} : call'[q] = call[q]
         /\ UNCHANGED <<netFile, bridge, nat, held>> /\ doomed \subseteq doomed'
         /\ call'[p] # Idle
         /\ \/ /\ call'[p].ctn = Nobody /\ call'[p].at = "allocate"
               /\ netFile[call'[p].name] \notin Lease
            \/ /\ call'[p].ctn = Nobody /\ call'[p].at = "unrule" /\ call'[p].name \in doomed'
               /\ call'[p].subnet = netFile[call'[p].name].subnet
            \/ call'[p].ctn # Nobody
<1>1. call[p] = Idle
  BY DEF Begin, CreateNetwork, DeleteNetwork, Connect, Disconnect
<1>2. \A q \in Proc \ {p} : call'[q] = call[q]
  <2>1. ASSUME NEW n \in Name, NEW s \in Subnet, CreateNetwork(p, n, s)
        PROVE  \A q \in Proc \ {p} : call'[q] = call[q]
    BY <2>1 DEF CreateNetwork, NetInv, TypeOK
  <2>2. ASSUME NEW n \in Name, DeleteNetwork(p, n)
        PROVE  \A q \in Proc \ {p} : call'[q] = call[q]
    BY <2>2 DEF DeleteNetwork, NetInv, TypeOK
  <2>3. ASSUME NEW c \in Container, Disconnect(p, c)
        PROVE  \A q \in Proc \ {p} : call'[q] = call[q]
    BY <2>3 DEF Disconnect, NetInv, TypeOK
  <2>4. ASSUME NEW c \in Container, NEW n \in Name, Connect(p, c, n)
        PROVE  \A q \in Proc \ {p} : call'[q] = call[q]
    BY <2>4 DEF Connect, NetInv, TypeOK
  <2> QED BY <2>1, <2>2, <2>3, <2>4 DEF Begin
<1>3. ASSUME NEW n \in Name, NEW s \in Subnet, CreateNetwork(p, n, s)
      PROVE  /\ UNCHANGED <<netFile, bridge, nat, held>> /\ doomed \subseteq doomed'
             /\ call'[p] # Idle /\ call'[p].ctn = Nobody /\ call'[p].at = "allocate"
             /\ netFile[call'[p].name] \notin Lease
  <2> DEFINE k == [at |-> "allocate", name |-> n, subnet |-> s,
                   lease |-> NoLease, ctn |-> Nobody, err |-> FALSE]
  <2>1. call'[p] = k /\ k \in Call
    BY <1>3 DEF CreateNetwork, Call, NetInv, TypeOK
  <2>2. k # Idle
    BY <2>1, MarkAssumption
  <2> QED BY <1>3, <2>1, <2>2 DEF CreateNetwork, hostVars
<1>4. ASSUME NEW n \in Name, DeleteNetwork(p, n)
      PROVE  /\ UNCHANGED <<netFile, bridge, nat, held>> /\ doomed \subseteq doomed'
             /\ call'[p] # Idle /\ call'[p].ctn = Nobody /\ call'[p].at = "unrule"
             /\ call'[p].name \in doomed' /\ call'[p].subnet = netFile[call'[p].name].subnet
  <2> DEFINE k == [at |-> "unrule", name |-> n, subnet |-> netFile[n].subnet,
                   lease |-> netFile[n], ctn |-> Nobody, err |-> FALSE]
  <2>1. call'[p] = k
    BY <1>4 DEF DeleteNetwork, NetInv, TypeOK
  <2>2. netFile[n] \in Lease /\ netFile[n].subnet \in Subnet
    BY <1>4 DEF DeleteNetwork, Lease
  <2>3. k \in Call
    BY <2>2 DEF Call, DeleteLabel
  <2>4. k # Idle
    BY <2>3, MarkAssumption
  <2> QED BY <1>4, <2>1, <2>4 DEF DeleteNetwork, hostVars
<1>5. ASSUME NEW c \in Container, Disconnect(p, c) \/ \E n \in Name : Connect(p, c, n)
      PROVE  /\ UNCHANGED <<netFile, bridge, nat, held>> /\ doomed \subseteq doomed'
             /\ call'[p] # Idle /\ call'[p].ctn # Nobody
  <2>1. call'[p].ctn = c
    <3>1. Disconnect(p, c) => call'[p].ctn = c
      BY DEF Disconnect, NetInv, TypeOK
    <3>2. \A n \in Name : Connect(p, c, n) => call'[p].ctn = c
      BY DEF Connect, NetInv, TypeOK
    <3> QED BY <1>5, <3>1, <3>2
  <2>3. c # Nobody
    BY MarkAssumption
  <2>4. call'[p] # Idle
    <3>1. CASE Disconnect(p, c)
      <4> DEFINE k == [at |-> "giveback", name |-> meta[c].network,
                        subnet |-> meta[c].lease.subnet, lease |-> meta[c].lease,
                        ctn |-> c, err |-> FALSE]
      <4>1. call'[p] = k
        BY <3>1 DEF Disconnect, NetInv, TypeOK
      <4>2. k \in Call
        <5>1. meta[c].lease \in Lease /\ meta[c].lease.subnet \in Subnet /\ meta[c].network \in Name
          BY <3>1 DEF Disconnect, NetInv, TypeOK, Endpoint, Lease
        <5> QED BY <5>1 DEF Call, LeaveLabel
      <4> QED BY <4>1, <4>2, MarkAssumption
    <3>2. ASSUME NEW n \in Name, Connect(p, c, n)
          PROVE  call'[p] # Idle
      <4> DEFINE k == [at |-> "allocate", name |-> n, subnet |-> netFile[n].subnet,
                        lease |-> NoLease, ctn |-> c, err |-> FALSE]
      <4>1. call'[p] = k
        BY <3>2 DEF Connect, NetInv, TypeOK
      <4>2. k \in Call
        <5>1. netFile[n].subnet \in Subnet
          BY <3>2 DEF Connect, Lease
        <5> QED BY <5>1 DEF Call
      <4> QED BY <4>1, <4>2, MarkAssumption
    <3> QED BY <1>5, <3>1, <3>2
  <2>5. UNCHANGED <<netFile, bridge, nat, held>> /\ doomed \subseteq doomed'
    BY <1>5 DEF Disconnect, Connect, hostVars
  <2> QED BY <2>1, <2>3, <2>4, <2>5
<1> QED BY <1>1, <1>2, <1>3, <1>4, <1>5 DEF Begin

\* Who is busy with a network has its name.
LEMMA BusyName ==
  ASSUME TypeOK, NEW q \in Proc, NEW n \in Name
  PROVE  Busy(q, n) <=> call[q] # Idle /\ call[q].name = n
<1>1. call[q] # Idle => call[q].ctn # n
  BY CallFields, MarkAssumption, OwnerAssumption
<1> QED BY <1>1 DEF Busy

(***************************************************************************)
(* A delete that failed after it took the rule away leaves a network that  *)
(* no command, delete or create, gets any further with (driver.go:79,      *)
(* network.go).                                                            *)
(***************************************************************************)
THEOREM HalfDeletedStays == Spec => HalfDeletedIsFinal
<1>1. ASSUME NetInv, [Next]_vars, NEW n \in Name, HalfDeleted(n)
      PROVE  HalfDeleted(n)' /\ netFile'[n] = netFile[n]
  <2> DEFINE s == netFile[n].subnet
             Stuck(k) == (k.at = "unrule" /\ k.subnet = s) \/ k.ctn # Nobody
  <2>0. TypeOK /\ TypeOK' /\ netFile[n] \in Lease /\ s \in Subnet
    BY <1>1, NextNetInv DEF NetInv, HalfDeleted, Lease
  <2>1. \A q \in Proc : call[q] # Idle /\ call[q].name = n => Stuck(call[q])
    BY <1>1, <2>0, BusyName DEF HalfDeleted
  <2>2. ASSUME netFile'[n] = netFile[n], nat'[Masquerade(n, s)] = nat[Masquerade(n, s)],
               \A q \in Proc : call'[q] # Idle /\ call'[q].name = n => Stuck(call'[q])
        PROVE  HalfDeleted(n)' /\ netFile'[n] = netFile[n]
    <3>1. \A q \in Proc : Busy(q, n)' <=> call'[q] # Idle /\ call'[q].name = n
      <4>1. \A q \in Proc : call'[q] # Idle => call'[q].ctn # n
        BY <2>0, MarkAssumption, OwnerAssumption DEF TypeOK, Call
      <4> QED BY <4>1 DEF Busy
    <3>2. nat'[Masquerade(n, netFile'[n].subnet)] = 0
      BY <1>1, <2>2 DEF HalfDeleted
    <3> QED BY <2>0, <2>2, <3>1, <3>2 DEF HalfDeleted
  <2>3. CASE UNCHANGED vars
    BY <2>1, <2>2, <2>3 DEF vars
  <2>4. ASSUME NEW p \in Proc, Begin(p)
        PROVE  HalfDeleted(n)' /\ netFile'[n] = netFile[n]
    <3>1. /\ \A q \in Proc \ {p} : call'[q] = call[q]
          /\ UNCHANGED <<netFile, nat>>
          /\ call'[p].name = n => Stuck(call'[p])
      BY <1>1, <2>0, <2>4, BeginStays
    <3> QED BY <2>1, <2>2, <3>1
  <2>5. ASSUME NEW p \in Proc, Works(p)
        PROVE  HalfDeleted(n)' /\ netFile'[n] = netFile[n]
    <3>0. /\ call[p] # Idle /\ (call'[p] = Idle \/ SameCall(p))
          /\ \A q \in Proc \ {p} :
               \/ call'[q] = call[q]
               \/ removeNetwork(p) /\ SameCall(q) /\ call[q].name = call[p].name
      BY <1>1, <2>5, CallsStay
    <3>1. CASE call[p].name # n \/ call[p].ctn # Nobody
      <4>1. netFile'[n] = netFile[n] /\ nat'[Masquerade(n, s)] = nat[Masquerade(n, s)]
        BY <1>1, <2>0, <2>5, <3>1, Foreign DEF Alone
      <4>2. removeNetwork(p) => call[p].name # n
        <5>1. removeNetwork(p) => call[p].ctn = Nobody
          BY <1>1, <3>0 DEF removeNetwork, At, NetInv, Commands, Busywork, DeleteLabel
        <5> QED BY <3>1, <5>1
      <4>3. \A q \in Proc : call'[q] # Idle /\ call'[q].name = n => Stuck(call'[q])
        BY <2>1, <3>0, <3>1, <4>2 DEF SameCall
      <4> QED BY <2>2, <4>1, <4>3
    <3>2. CASE call[p].name = n /\ call[p].ctn = Nobody
      <4>1. call[p].at = "unrule" /\ call[p].subnet = s
        BY <2>1, <3>0, <3>2
      <4>2. clearInterfaceIPTables(p) \/ Quit(p)
        BY <2>5, <4>1 DEF Works, Step, CreateStep, DeleteStep, ConnectStep, DisconnectStep,
           AllocateIP, EnsureBridgeInterface, SetInterfaceIP, SetInterfaceUp,
           setInterfaceIPTables, CreateFile, WriteFile, WriteUnlinked, DeleteInterface,
           ReleaseGateway, RemoveSubnet, removeNetwork, PlugVeth, RollbackIP,
           setPortMappingIPTables, setContainerNetwork, SaveEndpoint, disconnectEndpoint,
           clearPortMappingIPTables, RemoveMetadata, PleaseStopFirst, At
      <4>3. nat[Masquerade(call[p].name, call[p].subnet)] = 0
        BY <1>1, <3>2, <4>1 DEF HalfDeleted
      <4>4. Error(p) \/ Quit(p)
        <5>1. ~(nat[Masquerade(call[p].name, call[p].subnet)] > 0)
          BY <4>3, SMT
        <5> QED BY <4>2, <5>1 DEF clearInterfaceIPTables
      <4>5. UNCHANGED <<netFile, nat>> /\ Return(p)
        BY <4>4 DEF Error, Quit, hostVars
      <4>6. call'[p] = Idle /\ \A q \in Proc \ {p} : call'[q] = call[q]
        BY <2>0, <4>5 DEF Return, TypeOK
      <4> QED BY <2>1, <2>2, <4>5, <4>6
    <3> QED BY <3>1, <3>2
  <2> QED BY <1>1, <2>3, <2>4, <2>5 DEF Next, Works
<1>2. NetInv /\ [Next]_vars =>
        [\A n \in Name : HalfDeleted(n) => HalfDeleted(n)' /\ netFile'[n] = netFile[n]]_vars
  BY <1>1
<1> QED BY <1>2, NetInvariant, PTL DEF Spec, HalfDeletedIsFinal

-----------------------------------------------------------------------------
(***************************************************************************)
(* What a command that creates a network relies on, as long as nobody      *)
(* began to delete it: the bridge, the address on it, that it is up and    *)
(* the rule, one after the other.  Deletes are of doomed networks.         *)
(***************************************************************************)
Reached(k) ==
  LET b == bridge[k.name]
  IN  /\ k.at \notin DeleteLabel
      /\ k.at \in {"address", "up", "rule", "create", "write"} => b # NoBridge
      /\ k.at \in {"up", "rule", "create", "write"} => k.lease \in b.addrs
      /\ k.at \in {"rule", "create", "write"} => b.up
      /\ k.at \in {"create", "write"} => nat[Masquerade(k.name, k.subnet)] > 0

Creating(q, n) == call[q] # Idle /\ call[q].name = n /\ call[q].ctn = Nobody

Progress == \A n \in Name \ doomed : \A q \in Proc : Creating(q, n) => Reached(call[q])

UpInv == NetInv /\ Progress /\ SavedNetworkIsUp

\* What network n has stays while it is created again.
Grows(n) ==
  /\ bridge[n] # NoBridge => /\ bridge'[n] # NoBridge
                             /\ bridge[n].addrs \subseteq bridge'[n].addrs
                             /\ bridge[n].up => bridge'[n].up
  /\ \A s \in Subnet : nat[Masquerade(n, s)] > 0 => nat'[Masquerade(n, s)] > 0

\* A network that is left alone, or grows, is as ready as it was.
LEMMA AloneGrows ==
  ASSUME NEW n, Alone(n) \/ UNCHANGED <<bridge, nat>>
  PROVE  Grows(n)
BY DEF Alone, Grows

LEMMA ReachedStays ==
  ASSUME NetInv, NEW n \in Name, Grows(n), NEW q \in Proc,
         Creating(q, n), Reached(call[q]), call'[q] = call[q]
  PROVE  Reached(call[q])'
BY CallFields DEF Grows, Creating, Reached, NetInv

\* What SavedNetworkIsUp says of one network.
Up(n) == /\ bridge[n] # NoBridge /\ bridge[n].up /\ netFile[n] \in bridge[n].addrs
         /\ nat[Masquerade(n, netFile[n].subnet)] > 0
         /\ held[n] = netFile[n]

LEMMA UpStays ==
  ASSUME NetInv, NEW n \in Name, Grows(n), netFile[n] \in Lease, Up(n),
         netFile'[n] = netFile[n], held'[n] = held[n]
  PROVE  Up(n)'
<1>1. netFile[n].subnet \in Subnet
  BY DEF Lease
<1> QED BY <1>1 DEF Up, Grows

\* A step of the command that creates a network nobody began to delete.
LEMMA CreatingInv ==
  ASSUME UpInv, NEW p \in Proc, NEW n \in Name \ doomed, Works(p), Creating(p, n)
  PROVE  /\ Grows(n)
         /\ Creating(p, n)' => Reached(call[p])'
         /\ netFile'[n] \in Lease => Up(n)'
<1>0. /\ call[p] # Idle /\ call[p] \in Call /\ call[p].subnet \in Subnet /\ NetInv
      /\ call[p].name = n /\ call[p].ctn = Nobody /\ n \in Owner /\ p \in Owner /\ n # p
      /\ call[p].at \notin DeleteLabel /\ Busywork(call[p], held[p])
  BY CallFields, Owners DEF UpInv, Progress, Creating, Reached, NetInv, Commands
<1>1. bridge[n] # NoBridge => bridge[n] \in Bridge
  BY <1>0 DEF NetInv, TypeOK
<1>2. netFile[n] \in Lease => Up(n)
  BY <1>0 DEF UpInv, SavedNetworkIsUp, Up
<1>3. Reached(call[p])
  BY DEF UpInv, Progress
<1>4. ASSUME NEW label, Goto(p, label),
             label \in CreateLabel
      PROVE  /\ call'[p].at = label /\ call'[p].name = n /\ call'[p].subnet = call[p].subnet
             /\ call'[p].lease = call[p].lease
  BY <1>0, <1>4, GotoCall DEF NetInv
<1>5. ASSUME Grows(n), netFile'[n] = netFile[n], held'[n] = held[n]
      PROVE  netFile'[n] \in Lease => Up(n)'
  BY <1>0, <1>2, <1>5, UpStays
<1>6. ASSUME Return(p), UNCHANGED hostVars
      PROVE  /\ Grows(n)
             /\ Creating(p, n)' => Reached(call[p])'
             /\ netFile'[n] \in Lease => Up(n)'
  <2>1. call'[p] = Idle /\ held'[n] = held[n]
    BY <1>0, <1>6 DEF Return, NetInv, TypeOK
  <2>2. Grows(n) /\ netFile' = netFile
    BY <1>6 DEF hostVars, Grows
  <2> QED BY <1>5, <2>1, <2>2 DEF Creating
<1>7. CASE Quit(p) \/ Error(p)
  BY <1>6, <1>7 DEF Quit, Error
<1>8. CASE AllocateIP(p) /\ ~Error(p)
  <2>1. PICK l : /\ call' = [call EXCEPT ![p].lease = l, ![p].at = "bridge"]
                 /\ held' = [held EXCEPT ![p] = l]
                 /\ UNCHANGED <<netFile, bridge, nat>>
    <3>1. PICK idx \in FreeIn(table, call[p].subnet) :
             /\ call' = [call EXCEPT ![p].lease = LeaseOf(call[p].subnet, idx),
                          ![p].at = IF call[p].ctn = Nobody THEN "bridge" ELSE "veth"]
             /\ held' = [held EXCEPT ![p] = LeaseOf(call[p].subnet, idx)]
             /\ UNCHANGED <<netFile, bridge, nat>>
      BY <1>8 DEF AllocateIP
    <3> QED BY <1>0, <3>1
  <2>2. call'[p] = [[call[p] EXCEPT !.lease = l] EXCEPT !.at = "bridge"]
    BY <2>1, <1>0 DEF NetInv, TypeOK
  <2>3. call'[p].at = "bridge"
    BY <1>0, <2>2 DEF Call
  <2>4. held'[n] = held[n] /\ Grows(n)
    BY <1>0, <2>1 DEF NetInv, TypeOK, Grows
  <2> QED BY <1>5, <2>1, <2>3, <2>4 DEF Reached, DeleteLabel
<1>9. CASE EnsureBridgeInterface(p)
  <2>1. /\ bridge' = [bridge EXCEPT ![n] = IF bridge[n] = NoBridge
                                          THEN [addrs |-> {}, up |-> FALSE] ELSE bridge[n]]
        /\ UNCHANGED <<netFile, nat, held>> /\ Goto(p, "address")
    BY <1>0, <1>9 DEF EnsureBridgeInterface, Continue
  <2>2. [addrs |-> {}, up |-> FALSE] \in Bridge
    BY DEF Bridge
  <2>3. Grows(n) /\ bridge'[n] # NoBridge
    BY <2>1, <2>2, MarkAssumption DEF UpInv, NetInv, TypeOK, Grows
  <2>4. call'[p].at = "address" /\ call'[p].name = n
    BY <1>4, <2>1 DEF CreateLabel
  <2> QED BY <1>5, <2>1, <2>3, <2>4 DEF Reached, DeleteLabel
<1>10. CASE SetInterfaceIP(p) /\ ~Error(p)
  <2> DEFINE l == call[p].lease
             b == [bridge[n] EXCEPT !.addrs = @ \cup {l}]
  <2>1. /\ bridge[n] # NoBridge /\ bridge' = [bridge EXCEPT ![n].addrs = @ \cup {l}]
        /\ UNCHANGED <<netFile, nat, held>> /\ Goto(p, "up")
    BY <1>0, <1>10 DEF SetInterfaceIP, Continue
  <2>2. bridge'[n] = b
    BY <1>0, <2>1 DEF NetInv, TypeOK
  <2>3. b \in Bridge /\ b.addrs = bridge[n].addrs \cup {l} /\ b.up = bridge[n].up
    <3>1. l \in Leases
      BY <1>0, <1>10, PastAllocate DEF SetInterfaceIP, At
    <3> QED BY <1>1, <2>1, <3>1 DEF Bridge
  <2>4. Grows(n) /\ bridge'[n] # NoBridge /\ l \in bridge'[n].addrs
    BY <2>1, <2>2, <2>3, MarkAssumption DEF Grows
  <2>5. call'[p].at = "up" /\ call'[p].name = n /\ call'[p].lease = l
    BY <1>4, <2>1 DEF CreateLabel
  <2> QED BY <1>5, <2>1, <2>4, <2>5 DEF Reached, DeleteLabel
<1>11. CASE SetInterfaceUp(p) /\ ~Error(p)
  <2> DEFINE b == [bridge[n] EXCEPT !.up = TRUE]
  <2>1. /\ bridge[n] # NoBridge /\ bridge' = [bridge EXCEPT ![n].up = TRUE]
        /\ UNCHANGED <<netFile, nat, held>> /\ Goto(p, "rule") /\ call[p].at = "up"
    BY <1>0, <1>11 DEF SetInterfaceUp, Continue, At
  <2>2. bridge'[n] = b
    BY <1>0, <2>1 DEF NetInv, TypeOK
  <2>3. b \in Bridge /\ b.addrs = bridge[n].addrs /\ b.up
    BY <1>1, <2>1 DEF Bridge
  <2>4. Grows(n) /\ bridge'[n] # NoBridge /\ call[p].lease \in bridge'[n].addrs /\ bridge'[n].up
    BY <1>0, <1>3, <2>1, <2>2, <2>3, MarkAssumption DEF Grows, Reached
  <2>5. call'[p].at = "rule" /\ call'[p].name = n /\ call'[p].lease = call[p].lease
    BY <1>4, <2>1 DEF CreateLabel
  <2> QED BY <1>5, <2>1, <2>4, <2>5 DEF Reached, DeleteLabel
<1>12. CASE setInterfaceIPTables(p)
  <2> DEFINE r == Masquerade(n, call[p].subnet)
  <2>1. /\ nat' = [nat EXCEPT ![r] = nat[r] + 1]
        /\ UNCHANGED <<netFile, bridge, held>> /\ Goto(p, "create") /\ call[p].at = "rule"
    BY <1>0, <1>12 DEF setInterfaceIPTables, Continue, At
  <2>2. r \in Rule /\ nat[r] \in 0..MaxRules
    BY <1>0, MasqueradeIsRule DEF NetInv, TypeOK
  <2>3. nat'[r] = nat[r] + 1 /\ \A x \in Rule \ {r} : nat'[x] = nat[x]
    BY <1>0, <2>1, <2>2 DEF NetInv, TypeOK
  <2>4. nat'[r] > 0
    BY <2>2, <2>3, BoundAssumption, SMT
  <2>5. \A s \in Subnet : nat[Masquerade(n, s)] > 0 => nat'[Masquerade(n, s)] > 0
    BY <2>3, <2>4, MasqueradeIsRule
  <2>6. Grows(n)
    BY <2>1, <2>5 DEF Grows
  <2>7. /\ call'[p].at = "create" /\ call'[p].name = n /\ call'[p].lease = call[p].lease
        /\ call'[p].subnet = call[p].subnet
    BY <1>4, <2>1 DEF CreateLabel
  <2> QED BY <1>0, <1>3, <1>5, <2>1, <2>4, <2>6, <2>7 DEF Reached, DeleteLabel
<1>13. CASE CreateFile(p)
  <2>1. /\ netFile' = [netFile EXCEPT ![n] = Empty]
        /\ UNCHANGED <<bridge, nat>> /\ Goto(p, "write") /\ call[p].at = "create"
    BY <1>0, <1>13 DEF CreateFile, At
  <2>2. netFile'[n] \notin Lease
    BY <1>0, <2>1, MarkAssumption DEF NetInv, TypeOK
  <2>3. /\ call'[p].at = "write" /\ call'[p].name = n /\ call'[p].lease = call[p].lease
        /\ call'[p].subnet = call[p].subnet
    BY <1>4, <2>1 DEF CreateLabel
  <2> QED BY <1>0, <1>3, <2>1, <2>2, <2>3 DEF Reached, DeleteLabel, Grows
<1>14. CASE WriteFile(p)
  <2>1. /\ UNCHANGED <<bridge, nat>> /\ call[p].at = "write"
        /\ call' = [call EXCEPT ![p] = Idle]
    BY <1>14 DEF WriteFile, At
  <2>2. Grows(n) /\ call'[p] = Idle
    BY <1>0, <2>1 DEF NetInv, TypeOK, Grows
  <2>3. ASSUME netFile'[n] \in Lease
        PROVE  Up(n)'
    <3>1. /\ netFile' = [netFile EXCEPT ![n] = call[p].lease]
          /\ held' = [held EXCEPT ![n] = held[p], ![p] = NoLease]
      BY <1>0, <1>14, <2>3, MarkAssumption DEF WriteFile, NetInv, TypeOK
    <3>2. held[p] = call[p].lease /\ call[p].lease.subnet = call[p].subnet
      BY <1>0, <2>1 DEF Busywork, CreateLabel
    <3>3. netFile'[n] = call[p].lease /\ held'[n] = call[p].lease
      BY <1>0, <3>1, <3>2 DEF NetInv, TypeOK
    <3> QED BY <1>0, <1>3, <2>1, <3>2, <3>3 DEF Reached, Up
  <2> QED BY <2>2, <2>3 DEF Creating
<1>15. CreateStep(p) \/ AllocateIP(p) \/ Quit(p)
  <2>1. ~DeleteStep(p)
    BY <1>0 DEF DeleteStep, clearInterfaceIPTables, DeleteInterface, ReleaseGateway,
       RemoveSubnet, removeNetwork, At, DeleteLabel
  <2>2. ~ConnectStep(p) /\ ~DisconnectStep(p) /\ ~PleaseStopFirst(p)
    <3>1. call[p].at \notin ConnectLabel \cup LeaveLabel
      BY <1>0 DEF Busywork
    <3> QED BY <3>1 DEF ConnectStep, PlugVeth, RollbackIP, setPortMappingIPTables,
       setContainerNetwork, SaveEndpoint, DisconnectStep, disconnectEndpoint,
       clearPortMappingIPTables, RemoveMetadata, PleaseStopFirst, At, ConnectLabel, LeaveLabel
  <2> QED BY <2>1, <2>2 DEF Works, Step
<1> QED BY <1>7, <1>8, <1>9, <1>10, <1>11, <1>12, <1>13, <1>14, <1>15
    DEF CreateStep, WriteUnlinked

LEMMA NextUpInv == UpInv /\ [Next]_vars => UpInv'
<1> SUFFICES ASSUME UpInv, [Next]_vars PROVE UpInv'
  OBVIOUS
<1>0. NetInv /\ NetInv' /\ Progress
  BY NextNetInv DEF UpInv
<1>1. \A n \in Name : netFile[n] \in Lease /\ n \notin doomed => Up(n)
  BY DEF UpInv, SavedNetworkIsUp, Up
<1>2. ASSUME \A n \in Name \ doomed' :
               /\ \A q \in Proc : Creating(q, n)' => Reached(call[q])'
               /\ netFile'[n] \in Lease => Up(n)'
      PROVE  UpInv'
  BY <1>0, <1>2 DEF UpInv, Progress, SavedNetworkIsUp, Up
<1>3. CASE UNCHANGED vars
  BY <1>3 DEF vars, UpInv, NetInv, TypeOK, Commands, Busywork, Stored, Progress, Creating,
     Reached, SavedNetworkIsUp
<1>4. ASSUME NEW p \in Proc, Begin(p) PROVE UpInv'
  <2> SUFFICES ASSUME NEW n \in Name \ doomed'
               PROVE  /\ \A q \in Proc : Creating(q, n)' => Reached(call[q])'
                      /\ netFile'[n] \in Lease => Up(n)'
    BY <1>2
  <2>1. /\ \A q \in Proc \ {p} : call'[q] = call[q]
        /\ UNCHANGED <<netFile, bridge, nat, held>> /\ n \in Name \ doomed
        /\ Creating(p, n)' => call'[p].at = "allocate"
    BY <1>0, <1>4, BeginStays DEF Creating
  <2>2. Grows(n)
    BY <2>1, AloneGrows
  <2>3. netFile'[n] \in Lease => Up(n)'
    BY <1>0, <1>1, <2>1, <2>2, UpStays
  <2>4. ASSUME NEW q \in Proc, Creating(q, n)'
        PROVE  Reached(call[q])'
    <3>1. CASE q = p
      BY <2>1, <2>4, <3>1 DEF Reached, DeleteLabel
    <3>2. CASE q # p
      <4>1. call'[q] = call[q] /\ Creating(q, n)
        BY <2>1, <2>4, <3>2 DEF Creating
      <4>2. Reached(call[q])
        BY <1>0, <2>1, <4>1 DEF Progress
      <4> QED BY <1>0, <2>2, <4>1, <4>2, ReachedStays
    <3> QED BY <3>1, <3>2
  <2> QED BY <2>3, <2>4
<1>5. ASSUME NEW p \in Proc, Works(p) PROVE UpInv'
  <2> SUFFICES ASSUME NEW n \in Name \ doomed'
               PROVE  /\ \A q \in Proc : Creating(q, n)' => Reached(call[q])'
                      /\ netFile'[n] \in Lease => Up(n)'
    BY <1>2
  <2>0. /\ call[p] # Idle /\ (call'[p] = Idle \/ SameCall(p))
        /\ \A q \in Proc \ {p} :
             \/ call'[q] = call[q]
             \/ removeNetwork(p) /\ SameCall(q) /\ call[q].name = call[p].name
    BY <1>0, <1>5, CallsStay
  <2>1. CASE n \in doomed
    <3>1. removeNetwork(p)
      <4>1. doomed \subseteq doomed' \/ removeNetwork(p) \/ RemoveMetadata(p)
        BY <1>5 DEF Works, Step, CreateStep, DeleteStep, ConnectStep, DisconnectStep,
           AllocateIP, EnsureBridgeInterface, SetInterfaceIP, SetInterfaceUp,
           setInterfaceIPTables, CreateFile, WriteFile, WriteUnlinked, clearInterfaceIPTables,
           DeleteInterface, ReleaseGateway, RemoveSubnet, PlugVeth, RollbackIP,
           setPortMappingIPTables, setContainerNetwork, SaveEndpoint, disconnectEndpoint,
           clearPortMappingIPTables, PleaseStopFirst, Quit, Return, Error, Continue
      <4>2. call[p].ctn # n
        BY <1>0, <2>0, CallFields, MarkAssumption, OwnerAssumption DEF NetInv
      <4>3. RemoveMetadata(p) => n \in doomed'
        BY <2>1, <4>2 DEF RemoveMetadata
      <4> QED BY <2>1, <4>1, <4>3
    <3>2. call[p].name = n /\ ~InUse(p, n) /\ netFile' = [netFile EXCEPT ![n] = Absent]
          /\ call'[p] = Idle
      BY <2>1, <3>1 DEF removeNetwork
    <3>3. netFile'[n] \notin Lease
      BY <1>0, <3>2, MarkAssumption DEF NetInv, TypeOK
    <3>4. ASSUME NEW q \in Proc
          PROVE  ~Creating(q, n)'
      <4>1. CASE q = p
        BY <3>2, <4>1 DEF Creating
      <4>2. CASE q # p
        <5>1. ~(call[q] # Idle /\ call[q].name = n)
          BY <1>0, <3>2, <4>2, BusyName DEF InUse, NetInv
        <5> QED BY <2>0, <3>2, <4>2, <5>1 DEF Creating, SameCall
      <4> QED BY <4>1, <4>2
    <3> QED BY <3>3, <3>4
  <2>2. CASE n \notin doomed /\ Creating(p, n)
    <3>1. /\ Grows(n) /\ (Creating(p, n)' => Reached(call[p])')
          /\ netFile'[n] \in Lease => Up(n)'
      BY <1>5, <2>2, CreatingInv
    <3>2. ~removeNetwork(p)
      BY <1>0, <2>2 DEF Progress, Reached, removeNetwork, At, DeleteLabel
    <3>3. ASSUME NEW q \in Proc \ {p}, Creating(q, n)'
          PROVE  Reached(call[q])'
      <4>1. call'[q] = call[q] /\ Creating(q, n)
        BY <2>0, <3>2, <3>3 DEF Creating
      <4>2. Reached(call[q])
        BY <1>0, <2>2, <4>1 DEF Progress
      <4> QED BY <1>0, <3>1, <4>1, <4>2, ReachedStays
    <3> QED BY <3>1, <3>3
  <2>3. CASE n \notin doomed /\ ~Creating(p, n)
    <3>1. call[p].name # n \/ call[p].ctn # Nobody
      BY <2>0, <2>3 DEF Creating
    <3>2. Alone(n)
      BY <1>0, <1>5, <3>1, Foreign
    <3>3. Grows(n) /\ netFile'[n] = netFile[n] /\ held'[n] = held[n]
      BY <3>2, AloneGrows DEF Alone
    <3>4. netFile'[n] \in Lease => Up(n)'
      BY <1>0, <1>1, <2>3, <3>3, UpStays
    <3>5. ASSUME NEW q \in Proc, Creating(q, n)'
          PROVE  Reached(call[q])'
      <4>1. q # p
        BY <2>0, <2>3, <3>5 DEF Creating, SameCall
      <4>2. removeNetwork(p) => call[p].name # n
        <5>1. removeNetwork(p) => call[p].ctn = Nobody
          BY <1>0, <2>0 DEF removeNetwork, At, NetInv, Commands, Busywork, DeleteLabel
        <5> QED BY <3>1, <5>1
      <4>3. call'[q] = call[q] /\ Creating(q, n)
        BY <2>0, <3>5, <4>1, <4>2 DEF Creating, SameCall
      <4>4. Reached(call[q])
        BY <1>0, <2>3, <4>3 DEF Progress
      <4> QED BY <1>0, <3>3, <4>3, <4>4, ReachedStays
    <3> QED BY <3>4, <3>5
  <2> QED BY <2>1, <2>2, <2>3
<1> QED BY <1>3, <1>4, <1>5 DEF Next, Works

(***************************************************************************)
(* A network that is saved and that nobody began to delete has its bridge, *)
(* up and with the gateway's address, its rule, and the gateway's address  *)
(* to itself, whatever other commands do, fail at or are killed in.        *)
(***************************************************************************)
THEOREM SavedStaysUp == Spec => []SavedNetworkIsUp
<1>1. Init => UpInv
  <2>1. Init => Progress
    BY DEF Init, Progress, Creating
  <2>2. Init => SavedNetworkIsUp
    BY MarkAssumption DEF Init, SavedNetworkIsUp
  <2> QED BY <2>1, <2>2, InitNetInv DEF UpInv
<1>2. UpInv => SavedNetworkIsUp
  BY DEF UpInv
<1> QED BY <1>1, <1>2, NextUpInv, PTL DEF Spec

-----------------------------------------------------------------------------
(***************************************************************************)
(* Endpoints.  A command joins a container to a network from its Connect   *)
(* until it has saved the endpoint, and leaves it from its Disconnect on.  *)
(***************************************************************************)
Joins(p, c)  == call[p] # Idle /\ call[p].ctn = c /\ call[p].at \notin LeaveLabel
Leaving(p, c) == call[p] # Idle /\ call[p].ctn = c /\ call[p].at \in LeaveLabel

\* A command that goes on stays what it is, and so does its address.
LEMMA WorkGoesOn ==
  ASSUME NetInv, NEW p \in Proc, Works(p), call'[p] # Idle
  PROVE  /\ SameCall(p)
         /\ call'[p].at \in LeaveLabel <=> call[p].at \in LeaveLabel
         /\ call'[p].at \in DeleteLabel <=> call[p].at \in DeleteLabel
         /\ call[p].at # "allocate" => call'[p].lease = call[p].lease
         /\ call'[p].at # "allocate"
<1>0. call[p] # Idle /\ SameCall(p) /\ call[p] \in Call
  BY CallsStay, CallFields DEF NetInv
<1> DEFINE Kept == /\ call'[p].at \in LeaveLabel <=> call[p].at \in LeaveLabel
                   /\ call'[p].at \in DeleteLabel <=> call[p].at \in DeleteLabel
                   /\ call[p].at # "allocate" => call'[p].lease = call[p].lease
                   /\ call'[p].at # "allocate"
<1>1. ASSUME NEW label,
             \/ call[p].at \in CreateLabel /\ label \in CreateLabel
             \/ call[p].at \in DeleteLabel /\ label \in DeleteLabel
             \/ call[p].at \in ConnectLabel /\ label \in ConnectLabel
             \/ call[p].at \in LeaveLabel /\ label \in LeaveLabel,
             Goto(p, label)
      PROVE  Kept
  <2>1. call'[p].at = label /\ call'[p].lease = call[p].lease
    BY <1>0, <1>1, GotoCall DEF NetInv
  <2> QED BY <1>1, <2>1 DEF CreateLabel, DeleteLabel, ConnectLabel, LeaveLabel
<1>2. ~Return(p) /\ call' # [call EXCEPT ![p] = Idle]
  BY DEF Return, NetInv, TypeOK
<1>3. CASE AllocateIP(p)
  <2> DEFINE label == IF call[p].ctn = Nobody THEN "bridge" ELSE "veth"
  <2>1. PICK idx \in FreeIn(table, call[p].subnet) :
           call' = [call EXCEPT ![p].lease = LeaseOf(call[p].subnet, idx), ![p].at = label]
    BY <1>2, <1>3 DEF AllocateIP, Error
  <2>2. call'[p] = [[call[p] EXCEPT !.lease = LeaseOf(call[p].subnet, idx)] EXCEPT !.at = label]
    BY <2>1 DEF NetInv, TypeOK
  <2>3. call'[p].at = label
    BY <1>0, <2>2 DEF Call
  <2>4. call[p].at = "allocate"
    BY <1>3 DEF AllocateIP, At
  <2>5. label \in {"bridge", "veth"}
    OBVIOUS
  <2> HIDE DEF label
  <2> QED BY <1>0, <2>3, <2>4, <2>5 DEF DeleteLabel, LeaveLabel
<1>4. CASE CreateStep(p)
  <2>1. call[p].at \in CreateLabel /\ \E label \in CreateLabel : Goto(p, label)
    BY <1>2, <1>4 DEF CreateStep, EnsureBridgeInterface, SetInterfaceIP, SetInterfaceUp,
       setInterfaceIPTables, CreateFile, WriteFile, WriteUnlinked, Continue, Error, CreateLabel, At
  <2> QED BY <1>0, <1>1, <2>1
<1>5. CASE DeleteStep(p)
  <2>1. call[p].at \in DeleteLabel /\ ~removeNetwork(p)
    BY <1>5 DEF DeleteStep, clearInterfaceIPTables, DeleteInterface, ReleaseGateway,
       RemoveSubnet, removeNetwork, DeleteLabel, At
  <2>2. \E label \in DeleteLabel : Goto(p, label)
    BY <1>2, <1>5, <2>1 DEF DeleteStep, clearInterfaceIPTables, DeleteInterface, ReleaseGateway,
       RemoveSubnet, Continue, Error, DeleteLabel
  <2> QED BY <1>0, <1>1, <2>1, <2>2
<1>6. CASE ConnectStep(p)
  <2>1. call[p].at \in ConnectLabel /\ \E label \in ConnectLabel : Goto(p, label)
    BY <1>2, <1>6 DEF ConnectStep, PlugVeth, RollbackIP, setPortMappingIPTables,
       setContainerNetwork, SaveEndpoint, Continue, Error, ConnectLabel, At
  <2> QED BY <1>0, <1>1, <2>1
<1>7. CASE DisconnectStep(p)
  <2>0. call[p].at \in LeaveLabel
    BY <1>7 DEF DisconnectStep, disconnectEndpoint, clearPortMappingIPTables, RemoveMetadata,
       LeaveLabel, At
  <2>1. CASE KeepError(p)
    <3>1. call'[p] = [[call[p] EXCEPT !.at = "unmap"] EXCEPT !.err = TRUE]
      BY <2>1 DEF KeepError, NetInv, TypeOK
    <3>2. call'[p].at = "unmap" /\ call'[p].lease = call[p].lease
      BY <1>0, <3>1 DEF Call
    <3> QED BY <1>0, <2>0, <3>2 DEF LeaveLabel, DeleteLabel
  <2>2. CASE Goto(p, "unmap") \/ Goto(p, "drop")
    <3>1. "unmap" \in LeaveLabel /\ "drop" \in LeaveLabel
      BY DEF LeaveLabel
    <3> QED BY <1>0, <1>1, <2>0, <2>2, <3>1
  <2>3. KeepError(p) \/ Goto(p, "unmap") \/ Goto(p, "drop")
    BY <1>2, <1>7 DEF DisconnectStep, disconnectEndpoint, clearPortMappingIPTables,
       RemoveMetadata, Goto
  <2> QED BY <1>0, <2>1, <2>2, <2>3
<1>8. ~PleaseStopFirst(p) /\ ~Quit(p)
  BY <1>2 DEF PleaseStopFirst, Quit
<1> QED BY <1>0, <1>3, <1>4, <1>5, <1>6, <1>7, <1>8 DEF Works, Step

\* A step does nothing to what other commands do about containers.
LEMMA OthersWork ==
  ASSUME NetInv, NetInv', NEW p \in Proc, Works(p), NEW q \in Proc \ {p}
  PROVE  /\ call'[q] = Idle <=> call[q] = Idle
         /\ call'[q] # Idle => SameCall(q)
         /\ call'[q] # Idle /\ call'[q].ctn # Nobody => call'[q] = call[q]
         /\ call'[q] # Idle /\ call'[q].at \notin CreateLabel => call'[q] = call[q]
<1>1. CASE call'[q] = call[q]
  BY <1>1 DEF SameCall
<1>2. CASE call'[q] # call[q]
  <2>1. SameCall(q) /\ call'[q] # Idle /\ call'[q].at = "unlinked" /\ call[q] # Idle
    BY <1>2, CallsStay DEF SameCall
  <2>2. call'[q].at \in CreateLabel
    BY <2>1 DEF CreateLabel
  <2>3. Busywork(call'[q], held'[q])
    BY <2>1 DEF NetInv, Commands
  <2>4. call'[q].ctn = Nobody
    BY <2>2, <2>3 DEF Busywork
  <2> QED BY <2>1, <2>2, <2>4
<1> QED BY <1>1, <1>2

\* What a step does to a container: it is the one the command is about, or its bridge goes.
LEMMA ContainerState ==
  ASSUME NetInv, NEW p \in Proc, Works(p)
  PROVE  /\ \A c \in Container : \/ meta'[c] = meta[c]
                                 \/ c = call[p].ctn /\ (SaveEndpoint(p) \/ RemoveMetadata(p))
         /\ \A c \in Container : \/ veth'[c] = veth[c]
                                 \/ c = call[p].ctn /\ (PlugVeth(p) \/ RemoveMetadata(p))
                                 \/ DeleteInterface(p) /\ veth[c] = call[p].name
         /\ \A c \in Container : \/ held'[c] = held[c]
                                 \/ /\ c = call[p].ctn
                                    /\ SaveEndpoint(p) \/ call[p].at \in LeaveLabel
         /\ \A x \in doomed : \/ x \in doomed'
                              \/ removeNetwork(p) /\ x = call[p].name /\ ~InUse(p, x)
                              \/ /\ RemoveMetadata(p) /\ x = call[p].ctn
                                 /\ \A q \in Proc \ {p} : ~Busy(q, x)
         /\ doomed' \subseteq doomed /\ (mishap => mishap')
<1>0. /\ call[p] # Idle /\ call[p].name \in Name /\ p \in Owner
      /\ \A c \in Container : c \in Owner /\ c # p /\ c # call[p].name
  <2>1. call[p] # Idle
    BY CallsStay
  <2> QED BY <2>1, CallFields, Owners, OwnerAssumption DEF NetInv
<1>1. \A c \in Container : \/ meta'[c] = meta[c]
                           \/ c = call[p].ctn /\ (SaveEndpoint(p) \/ RemoveMetadata(p))
  <2>1. CASE SaveEndpoint(p) \/ RemoveMetadata(p)
    BY <2>1 DEF SaveEndpoint, RemoveMetadata, NetInv, TypeOK
  <2>2. CASE ~(SaveEndpoint(p) \/ RemoveMetadata(p))
    <3>1. meta' = meta
      BY <2>2 DEF Works, Step, CreateStep, DeleteStep, ConnectStep, DisconnectStep, AllocateIP,
         EnsureBridgeInterface, SetInterfaceIP, SetInterfaceUp, setInterfaceIPTables, CreateFile,
         WriteFile, WriteUnlinked, clearInterfaceIPTables, DeleteInterface, ReleaseGateway,
         RemoveSubnet, removeNetwork, PlugVeth, RollbackIP, setPortMappingIPTables,
         setContainerNetwork, disconnectEndpoint, clearPortMappingIPTables, PleaseStopFirst, Quit,
         Error, hostVars
    <3> QED BY <3>1
  <2> QED BY <2>1, <2>2
<1>2. \A c \in Container : \/ veth'[c] = veth[c]
                           \/ c = call[p].ctn /\ (PlugVeth(p) \/ RemoveMetadata(p))
                           \/ DeleteInterface(p) /\ veth[c] = call[p].name
  <2>1. CASE PlugVeth(p) \/ RemoveMetadata(p)
    BY <2>1 DEF PlugVeth, RemoveMetadata, NetInv, TypeOK
  <2>2. CASE DeleteInterface(p)
    BY <2>2 DEF DeleteInterface, Error, hostVars
  <2>3. CASE ~(PlugVeth(p) \/ RemoveMetadata(p) \/ DeleteInterface(p))
    <3>1. veth' = veth
      BY <2>3 DEF Works, Step, CreateStep, DeleteStep, ConnectStep, DisconnectStep, AllocateIP,
         EnsureBridgeInterface, SetInterfaceIP, SetInterfaceUp, setInterfaceIPTables, CreateFile,
         WriteFile, WriteUnlinked, clearInterfaceIPTables, ReleaseGateway,
         RemoveSubnet, removeNetwork, RollbackIP, setPortMappingIPTables, SaveEndpoint,
         setContainerNetwork, disconnectEndpoint, clearPortMappingIPTables, PleaseStopFirst, Quit,
         Error, hostVars
    <3> QED BY <3>1
  <2> QED BY <2>1, <2>2, <2>3
<1>3. ASSUME NEW c \in Container
      PROVE  \/ held'[c] = held[c]
             \/ c = call[p].ctn /\ (SaveEndpoint(p) \/ call[p].at \in LeaveLabel)
  <2>1. ASSUME Return(p) PROVE held'[c] = held[c]
    BY <1>0, <2>1 DEF Return, NetInv, TypeOK
  <2>2. ASSUME NEW o \in Owner, o # c, ReleaseIP(p, o) PROVE held'[c] = held[c]
    BY <1>0, <2>2, ReleaseTypes
  <2>3. CASE AllocateIP(p)
    <3>1. Error(p) \/ \E l : held' = [held EXCEPT ![p] = l]
      BY <2>3 DEF AllocateIP
    <3> QED BY <1>0, <2>1, <3>1 DEF Error, NetInv, TypeOK
  <2>4. CASE CreateStep(p)
    <3>1. Return(p) \/ held' = held \/ CreateFile(p) \/ WriteFile(p)
      BY <2>4 DEF CreateStep, EnsureBridgeInterface, SetInterfaceIP, SetInterfaceUp,
         setInterfaceIPTables, WriteUnlinked, Continue, Error
    <3>2. CASE CreateFile(p)
      BY <1>0, <3>2 DEF CreateFile, NetInv, TypeOK
    <3>3. CASE WriteFile(p)
      BY <1>0, <3>3 DEF WriteFile, NetInv, TypeOK
    <3> QED BY <2>1, <3>1, <3>2, <3>3
  <2>5. CASE DeleteStep(p)
    <3>1. Return(p) \/ held' = held \/ ReleaseIP(p, call[p].name) \/ removeNetwork(p)
      BY <2>5 DEF DeleteStep, clearInterfaceIPTables, DeleteInterface, ReleaseGateway,
         RemoveSubnet, Continue, Error
    <3>2. CASE removeNetwork(p)
      BY <1>0, <3>2 DEF removeNetwork, NetInv, TypeOK
    <3> QED BY <1>0, <2>1, <2>2, <3>1, <3>2, Owners
  <2>6. CASE ConnectStep(p)
    <3>1. Return(p) \/ held' = held \/ ReleaseIP(p, p) \/ SaveEndpoint(p)
      BY <2>6 DEF ConnectStep, PlugVeth, RollbackIP, setPortMappingIPTables, setContainerNetwork,
         Continue, Error
    <3>2. CASE SaveEndpoint(p)
      BY <1>0, <3>2 DEF SaveEndpoint, NetInv, TypeOK
    <3> QED BY <1>0, <2>1, <2>2, <3>1, <3>2
  <2>7. CASE DisconnectStep(p)
    <3>0. call[p].at \in LeaveLabel
      BY <2>7 DEF DisconnectStep, disconnectEndpoint, clearPortMappingIPTables, RemoveMetadata,
         LeaveLabel, At
    <3>1. held' = held \/ ReleaseIP(p, call[p].ctn) \/ RemoveMetadata(p)
      BY <2>7 DEF DisconnectStep, disconnectEndpoint, clearPortMappingIPTables
    <3>2. CASE RemoveMetadata(p)
      BY <1>0, <3>0, <3>2 DEF RemoveMetadata, NetInv, TypeOK
    <3>3. CASE ReleaseIP(p, call[p].ctn)
      <4>1. \A o \in Owner \ {call[p].ctn} : held'[o] = held[o]
        BY <3>3 DEF ReleaseIP, NetInv, TypeOK
      <4> QED BY <1>0, <3>0, <4>1
    <3> QED BY <3>0, <3>1, <3>2, <3>3
  <2>8. CASE PleaseStopFirst(p) \/ Quit(p)
    BY <2>1, <2>8 DEF PleaseStopFirst, Quit
  <2> QED BY <2>3, <2>4, <2>5, <2>6, <2>7, <2>8 DEF Works, Step
<1>4. /\ \A x \in doomed : \/ x \in doomed'
                           \/ removeNetwork(p) /\ x = call[p].name /\ ~InUse(p, x)
                           \/ /\ RemoveMetadata(p) /\ x = call[p].ctn
                              /\ \A q \in Proc \ {p} : ~Busy(q, x)
      /\ doomed' \subseteq doomed
  <2>1. CASE removeNetwork(p)
    BY <2>1 DEF removeNetwork
  <2>2. CASE RemoveMetadata(p)
    BY <2>2 DEF RemoveMetadata
  <2>3. CASE ~removeNetwork(p) /\ ~RemoveMetadata(p)
    <3>1. doomed' = doomed
      BY <2>3 DEF Works, Step, CreateStep, DeleteStep, ConnectStep, DisconnectStep, AllocateIP,
         EnsureBridgeInterface, SetInterfaceIP, SetInterfaceUp, setInterfaceIPTables, CreateFile,
         WriteFile, WriteUnlinked, clearInterfaceIPTables, DeleteInterface, ReleaseGateway,
         RemoveSubnet, PlugVeth, RollbackIP, setPortMappingIPTables, SaveEndpoint,
         setContainerNetwork, disconnectEndpoint, clearPortMappingIPTables, PleaseStopFirst, Quit,
         Error, Continue, Return
    <3> QED BY <3>1
  <2> QED BY <2>1, <2>2, <2>3
<1>5. mishap => mishap'
  BY DEF Works, Step, CreateStep, DeleteStep, ConnectStep, DisconnectStep, AllocateIP,
     EnsureBridgeInterface, SetInterfaceIP, SetInterfaceUp, setInterfaceIPTables, CreateFile,
     WriteFile, WriteUnlinked, clearInterfaceIPTables, DeleteInterface, ReleaseGateway,
     RemoveSubnet, removeNetwork, PlugVeth, RollbackIP, setPortMappingIPTables, SaveEndpoint,
     setContainerNetwork, disconnectEndpoint, clearPortMappingIPTables, PleaseStopFirst, Quit,
     RemoveMetadata, Error, Continue, Return, ReleaseIP
<1> QED BY <1>1, <1>2, <1>3, <1>4, <1>5

\* How a command begins, and what it takes for granted about its container.
LEMMA BeginsWith ==
  ASSUME NetInv, NEW p \in Proc, Begin(p)
  PROVE  /\ UNCHANGED <<meta, veth, held, nat>> /\ (mishap => mishap')
         /\ call[p] = Idle /\ call'[p] # Idle /\ \A q \in Proc \ {p} : call'[q] = call[q]
         /\ \/ call'[p].ctn = Nobody /\ call'[p].at = "allocate" /\ doomed' = doomed
            \/ /\ call'[p].ctn = Nobody /\ call'[p].at = "unrule"
               /\ doomed' = doomed \cup {call'[p].name}
            \/ /\ call'[p].ctn \in Container /\ call'[p].at = "allocate" /\ doomed' = doomed
               /\ meta[call'[p].ctn] = NoEndpoint
               /\ \A q \in Proc : ~Joins(q, call'[p].ctn)
            \/ /\ call'[p].ctn \in Container /\ call'[p].at = "giveback"
               /\ meta[call'[p].ctn] # NoEndpoint /\ call'[p].lease = meta[call'[p].ctn].lease
               /\ doomed' = doomed \cup {call'[p].ctn}
               /\ mishap' = (mishap \/ call'[p].ctn \in doomed)
<1>0. /\ call[p] = Idle /\ call'[p] # Idle /\ \A q \in Proc \ {p} : call'[q] = call[q]
      /\ UNCHANGED <<held, nat>>
  BY BeginStays
<1>1. ASSUME NEW n \in Name, NEW s \in Subnet, CreateNetwork(p, n, s)
      PROVE  /\ UNCHANGED <<meta, veth>> /\ (mishap => mishap')
             /\ call'[p].ctn = Nobody /\ call'[p].at = "allocate" /\ doomed' = doomed
  BY <1>1 DEF CreateNetwork, hostVars, NetInv, TypeOK
<1>2. ASSUME NEW n \in Name, DeleteNetwork(p, n)
      PROVE  /\ UNCHANGED <<meta, veth>> /\ (mishap => mishap')
             /\ call'[p].ctn = Nobody /\ call'[p].at = "unrule"
             /\ doomed' = doomed \cup {call'[p].name}
  BY <1>2 DEF DeleteNetwork, hostVars, NetInv, TypeOK
<1>3. ASSUME NEW c \in Container, NEW n \in Name, Connect(p, c, n)
      PROVE  /\ UNCHANGED <<meta, veth>> /\ (mishap => mishap')
             /\ call'[p].ctn \in Container /\ call'[p].at = "allocate" /\ doomed' = doomed
             /\ meta[call'[p].ctn] = NoEndpoint
             /\ \A q \in Proc : ~Joins(q, call'[p].ctn)
  <2>1. call'[p].ctn = c /\ call'[p].at = "allocate"
    BY <1>3 DEF Connect, NetInv, TypeOK
  <2>2. /\ UNCHANGED <<meta, veth, mishap, doomed>> /\ meta[c] = NoEndpoint
        /\ \A q \in Proc : ~Joins(q, c)
    BY <1>3 DEF Connect, hostVars, Joins
  <2> QED BY <2>1, <2>2
<1>4. ASSUME NEW c \in Container, Disconnect(p, c)
      PROVE  /\ UNCHANGED <<meta, veth>> /\ (mishap => mishap')
             /\ call'[p].ctn \in Container /\ call'[p].at = "giveback"
             /\ meta[call'[p].ctn] # NoEndpoint /\ call'[p].lease = meta[call'[p].ctn].lease
             /\ doomed' = doomed \cup {call'[p].ctn}
             /\ mishap' = (mishap \/ call'[p].ctn \in doomed)
  <2>1. call'[p].ctn = c /\ call'[p].at = "giveback" /\ call'[p].lease = meta[c].lease
    BY <1>4 DEF Disconnect, NetInv, TypeOK
  <2>2. /\ UNCHANGED <<meta, veth>> /\ meta[c] # NoEndpoint
        /\ doomed' = doomed \cup {c} /\ mishap' = (mishap \/ c \in doomed)
    BY <1>4 DEF Disconnect, hostVars
  <2> QED BY <2>1, <2>2
<1> QED BY <1>0, <1>1, <1>2, <1>3, <1>4 DEF Begin

(***************************************************************************)
(* The invariant about endpoints.  One command at most joins a container,  *)
(* and the container has no endpoint until it is through; whoever leaves   *)
(* or deletes has begun to; and a container that nobody began to take away *)
(* has its address and its interface, from the step that plugs it in.      *)
(***************************************************************************)
OneJoins == \A p, q \in Proc : \A c \in Container : Joins(p, c) /\ Joins(q, c) => p = q

JoinsNew == \A p \in Proc : \A c \in Container : Joins(p, c) => meta[c] = NoEndpoint

Begun ==
  \A p \in Proc : call[p] # Idle =>
    /\ call[p].at \in LeaveLabel => call[p].ctn \in doomed
    /\ call[p].at \in DeleteLabel => call[p].name \in doomed

Plugged(p) == call[p].at \in {"ports", "join", "save"}

PluggedIn ==
  \A p \in Proc : \A c \in Container :
    Joins(p, c) /\ Plugged(p) /\ {c, call[p].name} \cap doomed = {} => veth[c] = call[p].name

Connected ==
  \A c \in Container : meta[c] # NoEndpoint /\ c \notin doomed =>
    /\ held[c] = meta[c].lease
    /\ meta[c].network \notin doomed => veth[c] = meta[c].network

EndpointInv == NetInv /\ OneJoins /\ JoinsNew /\ Begun /\ PluggedIn /\ Connected

\* A command that begins.
LEMMA BeginEndpoints ==
  ASSUME EndpointInv, NEW p \in Proc, Begin(p)
  PROVE  OneJoins' /\ JoinsNew' /\ Begun' /\ PluggedIn' /\ Connected'
<1>0. /\ UNCHANGED <<meta, veth, held>> /\ doomed \subseteq doomed'
      /\ call[p] = Idle /\ \A q \in Proc \ {p} : call'[q] = call[q]
  BY BeginsWith DEF EndpointInv
<1>1. \A c \in Container : Joins(p, c)' => /\ meta[c] = NoEndpoint /\ ~Plugged(p)'
                                           /\ \A q \in Proc : ~Joins(q, c)
  BY BeginsWith, MarkAssumption DEF EndpointInv, Joins, LeaveLabel, Plugged
<1>2. \A q \in Proc \ {p} : \A c \in Container : Joins(q, c)' <=> Joins(q, c)
  BY <1>0 DEF Joins
<1>3. OneJoins'
  BY <1>1, <1>2 DEF OneJoins, EndpointInv
<1>4. JoinsNew'
  BY <1>0, <1>1, <1>2 DEF JoinsNew, EndpointInv
<1>5. Begun'
  <2>1. /\ call'[p].at \in LeaveLabel => call'[p].ctn \in doomed'
        /\ call'[p].at \in DeleteLabel => call'[p].name \in doomed'
    BY BeginsWith DEF EndpointInv, LeaveLabel, DeleteLabel
  <2>2. \A q \in Proc \ {p} : call'[q] # Idle =>
          /\ call'[q].at \in LeaveLabel => call'[q].ctn \in doomed'
          /\ call'[q].at \in DeleteLabel => call'[q].name \in doomed'
    BY <1>0 DEF Begun, EndpointInv
  <2> QED BY <2>1, <2>2 DEF Begun
<1>6. PluggedIn'
  BY <1>0, <1>1, <1>2 DEF PluggedIn, Plugged, EndpointInv
<1>7. Connected'
  BY <1>0 DEF Connected, EndpointInv
<1> QED BY <1>3, <1>4, <1>5, <1>6, <1>7

\* What a command is about stays doomed until it returns.
LEMMA StaysDoomed ==
  ASSUME NetInv, NEW p \in Proc, Works(p), NEW x \in doomed
  PROVE  /\ \A q \in Proc : call'[q] # Idle /\ Busy(q, x) => x \in doomed'
         /\ \A c \in Container : meta'[c] # NoEndpoint /\ meta'[c] = meta[c]
                 /\ x \in {c, meta[c].network} => x \in doomed'
<1>1. x \in doomed' \/ (removeNetwork(p) /\ ~InUse(p, x) /\ x \in Name)
        \/ /\ RemoveMetadata(p) /\ x = call[p].ctn /\ x \in Container
           /\ \A q \in Proc \ {p} : ~Busy(q, x)
  <2>1. call[p] # Idle
    BY CallsStay
  <2>2. RemoveMetadata(p) => call[p].ctn # Nobody
    BY <2>1 DEF RemoveMetadata, At, LeaveLabel, NetInv, Commands, Busywork
  <2> QED BY <2>1, <2>2, ContainerState, CallFields DEF NetInv
<1>2. removeNetwork(p) \/ RemoveMetadata(p) => call'[p] = Idle
  BY DEF removeNetwork, RemoveMetadata, NetInv, TypeOK
<1>3. ASSUME NEW q \in Proc, call'[q] # Idle, Busy(q, x)
      PROVE  x \in doomed'
  BY <1>1, <1>2, <1>3 DEF InUse
<1>4. ASSUME NEW c \in Container, meta'[c] # NoEndpoint, meta'[c] = meta[c],
             x \in {c, meta[c].network}
      PROVE  x \in doomed'
  <2>1. meta[c].network \in Name
    BY <1>4 DEF NetInv, TypeOK, Endpoint
  <2>2. CASE removeNetwork(p) /\ ~InUse(p, x) /\ x \in Name
    <3>1. x = meta[c].network
      BY <1>4, <2>2, OwnerAssumption
    <3> QED BY <1>4, <2>2, <3>1 DEF InUse
  <2>3. CASE RemoveMetadata(p) /\ x = call[p].ctn /\ x \in Container
    <3>1. x = c
      BY <1>4, <2>1, <2>3, OwnerAssumption
    <3>2. meta'[c] = NoEndpoint
      BY <2>3, <3>1 DEF RemoveMetadata, NetInv, TypeOK
    <3> QED BY <1>4, <3>2
  <2> QED BY <1>1, <2>2, <2>3
<1> QED BY <1>3, <1>4

\* Who joins and leaves a container after a step did so before.
LEMMA JoinsStay ==
  ASSUME NetInv, NetInv', NEW p \in Proc, Works(p), NEW q \in Proc, NEW c \in Container
  PROVE  /\ Joins(q, c)' => Joins(q, c)
         /\ Leaving(q, c)' => Leaving(q, c) /\ call'[q].lease = call[q].lease
         /\ q # p /\ call'[q] # Idle /\ call'[q].ctn = c => call'[q] = call[q]
         /\ q # p => (Leaving(q, c)' <=> Leaving(q, c))
<1>0. c # Nobody
  BY MarkAssumption
<1>1. CASE q # p
  <2>1. call'[q] # Idle /\ call'[q].ctn = c => call'[q] = call[q]
    BY <1>0, <1>1, OthersWork
  <2>2. call[q] # Idle => call'[q] # Idle /\ call'[q].ctn = call[q].ctn
    BY <1>1, OthersWork DEF SameCall
  <2> QED BY <1>1, <2>1, <2>2 DEF Joins, Leaving
<1>2. CASE q = p
  <2>1. call[p] # Idle /\ (call[p].at = "allocate" => call[p].at \notin LeaveLabel)
    BY CallsStay DEF LeaveLabel
  <2> QED BY <1>2, <2>1, WorkGoesOn DEF Joins, Leaving, SameCall
<1> QED BY <1>1, <1>2

\* The step that plugs a container in.
LEMMA PlugsIn ==
  ASSUME NetInv, NEW p \in Proc, Works(p), NEW c \in Container, Joins(p, c),
         call'[p] # Idle, Plugged(p)'
  PROVE  Plugged(p) \/ (PlugVeth(p) /\ veth'[c] = call[p].name)
<1>0. call[p] # Idle /\ call[p].ctn = c /\ c # Nobody /\ call[p].at \notin LeaveLabel
  BY MarkAssumption DEF Joins
<1>1. call[p].at \notin CreateLabel \cup DeleteLabel
  BY <1>0 DEF NetInv, Commands, Busywork
<1>2. CASE call[p].at = "allocate"
  <2>1. AllocateIP(p) \/ Quit(p)
    BY <1>0, <1>2 DEF Works, Step, CreateStep, DeleteStep, ConnectStep, DisconnectStep,
       EnsureBridgeInterface, SetInterfaceIP, SetInterfaceUp, setInterfaceIPTables, CreateFile,
       WriteFile, WriteUnlinked, clearInterfaceIPTables, DeleteInterface, ReleaseGateway,
       RemoveSubnet, removeNetwork, PlugVeth, RollbackIP, setPortMappingIPTables,
       setContainerNetwork, SaveEndpoint, disconnectEndpoint, clearPortMappingIPTables,
       RemoveMetadata, PleaseStopFirst, At
  <2>2. ~Return(p)
    BY DEF Return, NetInv, TypeOK
  <2>3. PICK l : call' = [call EXCEPT ![p].lease = l, ![p].at = "veth"]
    BY <1>0, <2>1, <2>2 DEF AllocateIP, Error, Quit
  <2>4. call'[p].at = "veth"
    <3>1. call[p] \in Call
      BY <1>0, CallFields DEF NetInv
    <3>2. call'[p] = [[call[p] EXCEPT !.lease = l] EXCEPT !.at = "veth"]
      BY <2>3 DEF NetInv, TypeOK
    <3> QED BY <3>1, <3>2 DEF Call
  <2> QED BY <2>4 DEF Plugged
<1>3. CASE call[p].at = "veth"
  <2>1. PlugVeth(p) \/ Quit(p)
    BY <1>0, <1>3 DEF Works, Step, CreateStep, DeleteStep, ConnectStep, DisconnectStep, AllocateIP,
       EnsureBridgeInterface, SetInterfaceIP, SetInterfaceUp, setInterfaceIPTables, CreateFile,
       WriteFile, WriteUnlinked, clearInterfaceIPTables, DeleteInterface, ReleaseGateway,
       RemoveSubnet, removeNetwork, RollbackIP, setPortMappingIPTables,
       setContainerNetwork, SaveEndpoint, disconnectEndpoint, clearPortMappingIPTables,
       RemoveMetadata, PleaseStopFirst, At
  <2>2. ~Return(p)
    BY DEF Return, NetInv, TypeOK
  <2>3. ~Goto(p, "rollback")
    <3>1. "rollback" \in ConnectLabel
      BY DEF ConnectLabel
    <3>2. Goto(p, "rollback") => call'[p].at = "rollback"
      BY <1>0, <3>1, GotoCall DEF NetInv
    <3> QED BY <3>2 DEF Plugged
  <2>4. PlugVeth(p) /\ veth' = [veth EXCEPT ![c] = call[p].name]
    BY <1>0, <2>1, <2>2, <2>3 DEF PlugVeth, Quit, Continue
  <2> QED BY <2>4 DEF NetInv, TypeOK
<1>4. CASE call[p].at = "rollback"
  <2>1. RollbackIP(p) \/ Quit(p)
    BY <1>0, <1>4 DEF Works, Step, CreateStep, DeleteStep, ConnectStep, DisconnectStep, AllocateIP,
       EnsureBridgeInterface, SetInterfaceIP, SetInterfaceUp, setInterfaceIPTables, CreateFile,
       WriteFile, WriteUnlinked, clearInterfaceIPTables, DeleteInterface, ReleaseGateway,
       RemoveSubnet, removeNetwork, PlugVeth, setPortMappingIPTables,
       setContainerNetwork, SaveEndpoint, disconnectEndpoint, clearPortMappingIPTables,
       RemoveMetadata, PleaseStopFirst, At
  <2> QED BY <2>1 DEF RollbackIP, Quit, Error, Return, NetInv, TypeOK
<1>5. call[p].at \in {"allocate", "veth", "rollback"} \cup {"ports", "join", "save"}
  BY <1>0, <1>1, CallFields DEF NetInv, ConnectLabel
<1> QED BY <1>2, <1>3, <1>4, <1>5 DEF Plugged

\* A step of a command.
LEMMA WorkEndpoints ==
  ASSUME EndpointInv, NetInv', NEW p \in Proc, Works(p)
  PROVE  OneJoins' /\ JoinsNew' /\ Begun' /\ PluggedIn' /\ Connected'
<1> USE DEF EndpointInv
<1>0. /\ call[p] # Idle /\ NetInv
      /\ RemoveMetadata(p) => call[p].at \in LeaveLabel /\ call[p].ctn \in doomed
      /\ SaveEndpoint(p) => call[p].at = "save"
      /\ PlugVeth(p) => call[p].at = "veth"
      /\ DeleteInterface(p) => call[p].name \in doomed
  BY CallsStay DEF Begun, RemoveMetadata, SaveEndpoint, PlugVeth, DeleteInterface, At,
     LeaveLabel, DeleteLabel
<1>1. \A c \in Container : /\ SaveEndpoint(p) /\ call[p].ctn = c => Joins(p, c) /\ ~RemoveMetadata(p)
                           /\ PlugVeth(p) /\ call[p].ctn = c => Joins(p, c)
  BY <1>0 DEF Joins, LeaveLabel
<1>2. \A c \in Container : SaveEndpoint(p) /\ call[p].ctn = c =>
        /\ call' = [call EXCEPT ![p] = Idle] /\ meta' = [meta EXCEPT ![c] =
              [network |-> call[p].name, lease |-> call[p].lease]]
        /\ held' = [held EXCEPT ![c] = held[p], ![p] = NoLease]
        /\ UNCHANGED <<veth, doomed>>
  BY DEF SaveEndpoint
<1>3. OneJoins'
  BY <1>0, JoinsStay DEF OneJoins
<1>4. JoinsNew'
  <2> SUFFICES ASSUME NEW q \in Proc, NEW c \in Container, Joins(q, c)' PROVE meta'[c] = NoEndpoint
    BY DEF JoinsNew
  <2>1. Joins(q, c) /\ meta[c] = NoEndpoint
    BY <1>0, JoinsStay DEF JoinsNew
  <2>2. CASE SaveEndpoint(p) /\ call[p].ctn = c
    <3>1. q = p
      BY <1>1, <2>1, <2>2 DEF OneJoins
    <3>2. call'[p] = Idle
      BY <1>2, <2>2 DEF NetInv, TypeOK
    <3> QED BY <3>1, <3>2 DEF Joins
  <2>3. CASE RemoveMetadata(p) /\ call[p].ctn = c
    BY <2>3 DEF RemoveMetadata, NetInv, TypeOK
  <2> QED BY <1>0, <2>1, <2>2, <2>3, ContainerState
<1>5. Begun'
  <2> SUFFICES ASSUME NEW q \in Proc, call'[q] # Idle
               PROVE  /\ call'[q].at \in LeaveLabel => call'[q].ctn \in doomed'
                      /\ call'[q].at \in DeleteLabel => call'[q].name \in doomed'
    BY DEF Begun
  <2>1. /\ call[q] # Idle /\ call'[q].ctn = call[q].ctn /\ call'[q].name = call[q].name
        /\ call'[q].at \in LeaveLabel => call[q].at \in LeaveLabel
        /\ call'[q].at \in DeleteLabel => call[q].at \in DeleteLabel
    <3>1. CASE q = p
      BY <1>0, <3>1, WorkGoesOn DEF SameCall
    <3>2. CASE q # p
      <4>1. SameCall(q) /\ (call'[q].at \notin CreateLabel => call'[q] = call[q])
        BY <1>0, <3>2, OthersWork
      <4> QED BY <4>1 DEF SameCall, CreateLabel, LeaveLabel, DeleteLabel
    <3> QED BY <3>1, <3>2
  <2>2. \A x \in doomed : x \in {call[q].name, call[q].ctn} => x \in doomed'
    BY <1>0, <2>1, StaysDoomed DEF Busy
  <2> QED BY <2>1, <2>2 DEF Begun
<1>6. PluggedIn'
  <2> SUFFICES ASSUME NEW q \in Proc, NEW c \in Container, Joins(q, c)', Plugged(q)',
                      {c, call'[q].name} \cap doomed' = {}
               PROVE  veth'[c] = call'[q].name
    BY DEF PluggedIn
  <2>1. Joins(q, c) /\ call'[q] # Idle /\ call'[q].name = call[q].name
    <3>1. Joins(q, c) /\ call'[q] # Idle
      BY <1>0, JoinsStay DEF Joins
    <3> QED BY <1>0, <3>1, WorkGoesOn, OthersWork DEF SameCall
  <2>2. {c, call[q].name} \cap doomed = {}
    BY <1>0, <2>1, StaysDoomed DEF Busy, Joins
  <2>3. CASE Plugged(q)
    <3>1. veth[c] = call[q].name
      BY <2>1, <2>2, <2>3 DEF PluggedIn
    <3>2. ~(PlugVeth(p) /\ call[p].ctn = c)
      BY <1>0, <1>1, <2>1, <2>3 DEF OneJoins, Plugged
    <3>3. ~(RemoveMetadata(p) /\ call[p].ctn = c)
      BY <1>0, <2>2
    <3>4. ~(DeleteInterface(p) /\ veth[c] = call[p].name)
      BY <1>0, <2>2, <3>1
    <3> QED BY <1>0, <2>1, <3>1, <3>2, <3>3, <3>4, ContainerState
  <2>4. CASE ~Plugged(q)
    <3>1. q = p
      BY <1>0, <2>1, <2>4, JoinsStay DEF Plugged, Joins
    <3> QED BY <1>0, <2>1, <2>4, <3>1, PlugsIn
  <2> QED BY <2>3, <2>4
<1>7. Connected'
  <2> SUFFICES ASSUME NEW c \in Container, meta'[c] # NoEndpoint, c \notin doomed'
               PROVE  /\ held'[c] = meta'[c].lease
                      /\ meta'[c].network \notin doomed' => veth'[c] = meta'[c].network
    BY DEF Connected
  <2>1. CASE meta'[c] = meta[c]
    <3>1. c \notin doomed /\ (meta[c].network \notin doomed' => meta[c].network \notin doomed)
      BY <1>0, <2>1, StaysDoomed
    <3>2. ~(call[p].ctn = c /\ (SaveEndpoint(p) \/ PlugVeth(p)))
      BY <1>1, <2>1 DEF JoinsNew
    <3>3. ~(call[p].ctn = c /\ (RemoveMetadata(p) \/ call[p].at \in LeaveLabel))
      BY <1>0, <3>1 DEF Begun
    <3>4. held'[c] = held[c] /\ held[c] = meta[c].lease
      BY <1>0, <2>1, <3>1, <3>2, <3>3, ContainerState DEF Connected
    <3>5. ASSUME meta[c].network \notin doomed
          PROVE  veth'[c] = meta[c].network
      <4>1. veth[c] = meta[c].network
        BY <2>1, <3>1, <3>5 DEF Connected
      <4>2. ~(DeleteInterface(p) /\ veth[c] = call[p].name)
        BY <1>0, <3>5, <4>1
      <4> QED BY <1>0, <3>2, <3>3, <4>1, <4>2, ContainerState
    <3> QED BY <2>1, <3>1, <3>4, <3>5
  <2>2. CASE SaveEndpoint(p) /\ c = call[p].ctn
    <3>1. /\ meta'[c].network = call[p].name /\ meta'[c].lease = call[p].lease
          /\ UNCHANGED <<veth, doomed>>
      BY <1>2, <2>2 DEF NetInv, TypeOK
    <3>2. held'[c] = held[p]
      BY <1>2, <2>2, Owners DEF NetInv, TypeOK
    <3>3. held[p] = call[p].lease
      BY <1>0, <2>2 DEF NetInv, Commands, Busywork, ConnectLabel
    <3>4. Joins(p, c) /\ Plugged(p)
      BY <1>0, <1>1, <2>2 DEF Plugged
    <3> QED BY <3>1, <3>2, <3>3, <3>4 DEF PluggedIn
  <2>3. CASE RemoveMetadata(p) /\ c = call[p].ctn
    BY <2>3 DEF RemoveMetadata, NetInv, TypeOK
  <2> QED BY <1>0, <2>1, <2>2, <2>3, ContainerState
<1> QED BY <1>3, <1>4, <1>5, <1>6, <1>7

-----------------------------------------------------------------------------
(***************************************************************************)
(* Short of a mishap one command at most leaves a container, with the      *)
(* endpoint that is saved.                                                 *)
(***************************************************************************)
LeavesOnce ==
  ~mishap => \A p \in Proc : \A c \in Container : Leaving(p, c) =>
    /\ meta[c] # NoEndpoint /\ call[p].lease = meta[c].lease
    /\ \A q \in Proc \ {p} : ~Leaving(q, c)

LEMMA BeginLeaves ==
  ASSUME EndpointInv, LeavesOnce, NEW p \in Proc, Begin(p)
  PROVE  LeavesOnce'
<1> SUFFICES ASSUME ~mishap', NEW q \in Proc, NEW c \in Container, Leaving(q, c)'
             PROVE  /\ meta'[c] # NoEndpoint /\ call'[q].lease = meta'[c].lease
                    /\ \A r \in Proc \ {q} : ~Leaving(r, c)'
  BY DEF LeavesOnce
<1>1. /\ ~mishap /\ UNCHANGED meta /\ call[p] = Idle
      /\ \A r \in Proc \ {p} : call'[r] = call[r] /\ (Leaving(r, c)' <=> Leaving(r, c))
  BY BeginsWith DEF EndpointInv, Leaving
<1>2. Leaving(p, c)' => /\ c \notin doomed /\ meta[c] # NoEndpoint
                        /\ call'[p].lease = meta[c].lease
  BY BeginsWith, MarkAssumption DEF EndpointInv, Leaving, LeaveLabel
<1>3. \A r \in Proc : Leaving(r, c) => c \in doomed
  BY DEF EndpointInv, Begun, Leaving
<1> QED BY <1>1, <1>2, <1>3 DEF LeavesOnce

LEMMA WorkLeaves ==
  ASSUME EndpointInv, NetInv', LeavesOnce, NEW p \in Proc, Works(p)
  PROVE  LeavesOnce'
<1> SUFFICES ASSUME ~mishap', NEW q \in Proc, NEW c \in Container, Leaving(q, c)'
             PROVE  /\ meta'[c] # NoEndpoint /\ call'[q].lease = meta'[c].lease
                    /\ \A r \in Proc \ {q} : ~Leaving(r, c)'
  BY DEF LeavesOnce
<1>1. ~mishap /\ Leaving(q, c) /\ call'[q].lease = call[q].lease
  BY ContainerState, JoinsStay DEF EndpointInv
<1>2. /\ meta[c] # NoEndpoint /\ call[q].lease = meta[c].lease
      /\ \A r \in Proc \ {q} : ~Leaving(r, c)'
  BY <1>1, JoinsStay DEF EndpointInv, LeavesOnce
<1>3. ~(call[p].ctn = c /\ SaveEndpoint(p))
  BY <1>2 DEF EndpointInv, JoinsNew, SaveEndpoint, At, Joins, LeaveLabel
<1>4. ~(call[p].ctn = c /\ RemoveMetadata(p))
  <2> SUFFICES ASSUME call[p].ctn = c, RemoveMetadata(p) PROVE FALSE
    OBVIOUS
  <2>1. Leaving(p, c)
    BY DEF RemoveMetadata, At, Leaving, LeaveLabel
  <2>2. p = q
    BY <1>1, <2>1 DEF LeavesOnce
  <2>3. call'[p] = Idle
    BY DEF RemoveMetadata, EndpointInv, NetInv, TypeOK
  <2> QED BY <2>2, <2>3 DEF Leaving
<1>5. meta'[c] = meta[c]
  BY <1>3, <1>4, ContainerState DEF EndpointInv
<1> QED BY <1>1, <1>2, <1>5

-----------------------------------------------------------------------------
(***************************************************************************)
(* Rules of ports are counted: a rule that was never refused is in the nat *)
(* table at least once for every container whose saved endpoint needs it   *)
(* and nobody has cleared, and for every command that has added it and not *)
(* yet saved the endpoint.                                                 *)
(***************************************************************************)
PortRule == {DNAT(port, l) : port \in Port, l \in Leases}

Maps(c, r) == meta[c] # NoEndpoint /\ \E port \in PortMappings[c] : r = DNAT(port, meta[c].lease)

Unmaps(p, c) == call[p] # Idle /\ call[p].ctn = c /\ call[p].at \in {"giveback", "unmap"}
Keeps(c)     == c \notin doomed \/ \E p \in Proc : Unmaps(p, c)
Added(p)     == call[p] # Idle /\ call[p].at \in {"join", "save"}

Users(r) == {c \in Container : Maps(c, r) /\ Keeps(c)}
              \cup {p \in Proc : Added(p) /\ r \in PortRules(p)}

Counted ==
  ~mishap => \A r \in PortRule \ refused :
               IsFiniteSet(Users(r)) /\ Cardinality(Users(r)) <= nat[r]

\* A set that grows and shrinks no faster than its bound.
LEMMA CountAfter ==
  ASSUME NEW S, IsFiniteSet(S), NEW n \in Nat, Cardinality(S) <= n, NEW T, NEW m \in Nat,
         \/ T \subseteq S /\ n <= m
         \/ \E x : T \subseteq S \cup {x} /\ n + 1 <= m
         \/ \E x \in S : T \subseteq S \ {x} /\ n <= m + 1
         \/ \E x \in S : \E y : T \subseteq (S \ {x}) \cup {y} /\ n <= m
  PROVE  IsFiniteSet(T) /\ Cardinality(T) <= m
<1>1. Cardinality(S) \in Nat
  BY FS_CardinalityType
<1>2. ASSUME NEW U, IsFiniteSet(U), Cardinality(U) <= m, T \subseteq U
      PROVE  IsFiniteSet(T) /\ Cardinality(T) <= m
  <2>1. IsFiniteSet(T) /\ Cardinality(T) <= Cardinality(U)
    BY <1>2, FS_Subset
  <2>2. Cardinality(T) \in Nat /\ Cardinality(U) \in Nat
    BY <1>2, <2>1, FS_CardinalityType
  <2> QED BY <1>2, <2>1, <2>2
<1>3. CASE T \subseteq S /\ n <= m
  BY <1>1, <1>2, <1>3
<1>4. ASSUME NEW x, T \subseteq S \cup {x}, n + 1 <= m
      PROVE  IsFiniteSet(T) /\ Cardinality(T) <= m
  <2>1. IsFiniteSet(S \cup {x}) /\ Cardinality(S \cup {x}) <= Cardinality(S) + 1
    BY <1>1, FS_AddElement
  <2>2. Cardinality(S \cup {x}) \in Nat
    BY <2>1, FS_CardinalityType
  <2>3. Cardinality(S \cup {x}) <= m
    BY <1>1, <1>4, <2>1, <2>2
  <2> QED BY <1>2, <1>4, <2>1, <2>3
<1>5. ASSUME NEW x \in S, T \subseteq S \ {x}, n <= m + 1
      PROVE  IsFiniteSet(T) /\ Cardinality(T) <= m
  <2>1. IsFiniteSet(S \ {x}) /\ Cardinality(S \ {x}) = Cardinality(S) - 1
    BY FS_RemoveElement
  <2>2. Cardinality(S \ {x}) <= m
    BY <1>1, <1>5, <2>1
  <2> QED BY <1>2, <1>5, <2>1, <2>2
<1>6. ASSUME NEW x \in S, NEW y, T \subseteq (S \ {x}) \cup {y}, n <= m
      PROVE  IsFiniteSet(T) /\ Cardinality(T) <= m
  <2>1. IsFiniteSet(S \ {x}) /\ Cardinality(S \ {x}) = Cardinality(S) - 1
    BY FS_RemoveElement
  <2>2. /\ IsFiniteSet((S \ {x}) \cup {y})
        /\ Cardinality((S \ {x}) \cup {y}) = IF y \in S \ {x} THEN Cardinality(S \ {x})
                                             ELSE Cardinality(S \ {x}) + 1
    BY <2>1, FS_AddElement
  <2>3. Cardinality((S \ {x}) \cup {y}) <= m
    BY <1>1, <1>6, <2>1, <2>2
  <2> QED BY <1>2, <1>6, <2>2, <2>3
<1> QED BY <1>3, <1>4, <1>5, <1>6

\* A rule that was refused once counts as refused for good.
LEMMA RefusedStays ==
  ASSUME NEW p \in Proc, Begin(p) \/ Works(p)
  PROVE  refused \subseteq refused'
<1>1. Begin(p) => refused' = refused
  BY DEF Begin, CreateNetwork, DeleteNetwork, Connect, Disconnect
<1>2. setPortMappingIPTables(p) => refused \subseteq refused'
  BY DEF setPortMappingIPTables, Continue, Return
<1>3. Works(p) => setPortMappingIPTables(p) \/ refused' = refused
  BY DEF Works, Step, CreateStep, DeleteStep, ConnectStep, DisconnectStep, AllocateIP,
     EnsureBridgeInterface, SetInterfaceIP, SetInterfaceUp, setInterfaceIPTables, CreateFile,
     WriteFile, WriteUnlinked, clearInterfaceIPTables, DeleteInterface, ReleaseGateway, ReleaseIP,
     RemoveSubnet, removeNetwork, PlugVeth, RollbackIP, setContainerNetwork, SaveEndpoint,
     disconnectEndpoint, clearPortMappingIPTables, RemoveMetadata, PleaseStopFirst, Quit,
     Error, Return, Continue
<1> QED BY <1>1, <1>2, <1>3

\* What a step does to a rule of a port.
LEMMA PortRuleAfter ==
  ASSUME NetInv, NEW p \in Proc, Works(p), NEW r \in PortRule
  PROVE  /\ r \in Rule /\ nat[r] \in Nat
         /\ setPortMappingIPTables(p) =>
              \/ nat'[r] >= nat[r] /\ call'[p] = Idle
              \/ r \in refused'
              \/ nat'[r] = IF r \in PortRules(p) THEN nat[r] + 1 ELSE nat[r]
         /\ setContainerNetwork(p) =>
              \/ UNCHANGED nat
              \/ /\ call'[p] = Idle
                 /\ nat'[r] + (IF r \in PortRules(p) THEN 1 ELSE 0) >= nat[r]
         /\ clearPortMappingIPTables(p) =>
              nat'[r] + (IF r \in PortRules(p) THEN 1 ELSE 0) >= nat[r]
         /\ \/ setPortMappingIPTables(p) \/ setContainerNetwork(p) \/ clearPortMappingIPTables(p)
            \/ nat'[r] = nat[r]
<1>1. r \in Rule /\ \A n, s : r # Masquerade(n, s)
  <2>1. PICK port \in Port, l \in Leases : r = DNAT(port, l)
    BY DEF PortRule
  <2>2. r \in Rule
    BY <2>1 DEF DNAT, Rule
  <2>3. DOMAIN r = {"port", "to"} /\ \A n, s : DOMAIN Masquerade(n, s) = {"name", "subnet"}
    BY <2>1 DEF DNAT, Masquerade
  <2> QED BY <2>2, <2>3
<1>2. nat[r] \in Nat
  BY <1>1, BoundAssumption DEF NetInv, TypeOK
<1>3. \A rules : /\ Add(rules)[r] = IF r \in rules THEN nat[r] + 1 ELSE nat[r]
                 /\ Drop(rules)[r] = IF r \in rules /\ nat[r] > 0 THEN nat[r] - 1 ELSE nat[r]
  BY <1>1 DEF Add, Drop
<1>4. Return(p) => call'[p] = Idle
  BY DEF Return, NetInv, TypeOK
<1>5. ASSUME setPortMappingIPTables(p)
      PROVE  \/ nat'[r] >= nat[r] /\ call'[p] = Idle
             \/ r \in refused'
             \/ nat'[r] = IF r \in PortRules(p) THEN nat[r] + 1 ELSE nat[r]
  <2>1. CASE nat' = Add(PortRules(p))
    BY <1>3, <2>1
  <2>2. ASSUME Return(p), NEW left, nat' = Add(left) PROVE nat'[r] >= nat[r] /\ call'[p] = Idle
    BY <1>2, <1>3, <1>4, <2>2
  <2>3. ASSUME NEW left, nat' = Add(left), left \subseteq PortRules(p),
               refused' = refused \cup (PortRules(p) \ left)
        PROVE  r \in refused' \/ nat'[r] = IF r \in PortRules(p) THEN nat[r] + 1 ELSE nat[r]
    BY <1>3, <2>3
  <2> QED BY <1>5, <2>1, <2>2, <2>3 DEF setPortMappingIPTables
<1>6. ASSUME NEW left, nat' = Drop(PortRules(p) \ left)
      PROVE  nat'[r] + (IF r \in PortRules(p) THEN 1 ELSE 0) >= nat[r]
  BY <1>2, <1>3, <1>6
<1>7. ASSUME setContainerNetwork(p)
      PROVE  \/ UNCHANGED nat
             \/ /\ call'[p] = Idle
                /\ nat'[r] + (IF r \in PortRules(p) THEN 1 ELSE 0) >= nat[r]
  BY <1>4, <1>6, <1>7 DEF setContainerNetwork
<1>8. ASSUME clearPortMappingIPTables(p)
      PROVE  nat'[r] + (IF r \in PortRules(p) THEN 1 ELSE 0) >= nat[r]
  <2>1. nat' = Drop(PortRules(p)) => nat' = Drop(PortRules(p) \ {})
    OBVIOUS
  <2> QED BY <1>6, <1>8, <2>1 DEF clearPortMappingIPTables
<1>9. CASE setInterfaceIPTables(p) \/ clearInterfaceIPTables(p)
  <2>1. \/ nat' = nat
        \/ \E x : nat' = [nat EXCEPT ![Masquerade(call[p].name, call[p].subnet)] = x]
    BY <1>9 DEF setInterfaceIPTables, clearInterfaceIPTables, Error, hostVars
  <2>2. nat'[r] = nat[r]
    BY <1>1, <2>1 DEF NetInv, TypeOK
  <2> QED BY <1>1, <1>2, <1>5, <1>7, <1>8, <2>2
<1>10. CASE ~(setInterfaceIPTables(p) \/ clearInterfaceIPTables(p))
  <2>1. \/ setPortMappingIPTables(p) \/ setContainerNetwork(p) \/ clearPortMappingIPTables(p)
        \/ nat' = nat
    BY <1>10 DEF Works, Step, CreateStep, DeleteStep, ConnectStep, DisconnectStep, AllocateIP,
       EnsureBridgeInterface, SetInterfaceIP, SetInterfaceUp, CreateFile,
       WriteFile, WriteUnlinked, DeleteInterface, ReleaseGateway,
       RemoveSubnet, removeNetwork, PlugVeth, RollbackIP, SaveEndpoint,
       disconnectEndpoint, RemoveMetadata, PleaseStopFirst, Quit, Error, hostVars
  <2> QED BY <1>1, <1>2, <1>5, <1>7, <1>8, <2>1
<1> QED BY <1>9, <1>10

\* Who adds the rules of its ports, and who clears them.
LEMMA AddedBy ==
  ASSUME NetInv, NEW p \in Proc, Works(p), call'[p] # Idle, call[p].ctn # Nobody
  PROVE  /\ Added(p)' => PortRules(p)' = PortRules(p) /\ (Added(p) \/ setPortMappingIPTables(p))
         /\ call'[p].at \in {"giveback", "unmap"} => call[p].at \in {"giveback", "unmap"}
<1>0. /\ call[p] # Idle /\ SameCall(p) /\ call'[p].at # "allocate"
      /\ call'[p].at \in LeaveLabel <=> call[p].at \in LeaveLabel
      /\ call[p].at # "allocate" => call'[p].lease = call[p].lease
  BY CallsStay, WorkGoesOn
<1>1. ~Return(p) /\ call' # [call EXCEPT ![p] = Idle]
  BY DEF Return, NetInv, TypeOK
<1>2. ASSUME call[p].at = "drop"
      PROVE  FALSE
  <2>1. PleaseStopFirst(p) \/ RemoveMetadata(p) \/ Quit(p)
    BY <1>0, <1>2 DEF Works, Step, CreateStep, DeleteStep, ConnectStep, DisconnectStep, AllocateIP,
       EnsureBridgeInterface, SetInterfaceIP, SetInterfaceUp, setInterfaceIPTables, CreateFile,
       WriteFile, WriteUnlinked, clearInterfaceIPTables, DeleteInterface, ReleaseGateway,
       RemoveSubnet, removeNetwork, PlugVeth, RollbackIP, setPortMappingIPTables,
       setContainerNetwork, SaveEndpoint, disconnectEndpoint, clearPortMappingIPTables, At
  <2> QED BY <1>1, <2>1 DEF PleaseStopFirst, RemoveMetadata, Quit
<1>3. call'[p].at \in {"giveback", "unmap"} => call[p].at \in {"giveback", "unmap"}
  BY <1>0, <1>2 DEF LeaveLabel
<1>4. ASSUME Added(p)'
      PROVE  Added(p) \/ setPortMappingIPTables(p)
  <2> SUFFICES ASSUME ~Added(p) PROVE setPortMappingIPTables(p)
    OBVIOUS
  <2>1. call'[p].at \in {"join", "save"} /\ Joins(p, call[p].ctn) /\ call[p].ctn \in Container
    BY <1>0, <1>4, CallFields DEF Added, Joins, NetInv, LeaveLabel
  <2>2. Plugged(p)'
    BY <2>1 DEF Plugged
  <2>3. ~PlugVeth(p)
    <3>1. /\ "rollback" \in ConnectLabel /\ "ports" \in ConnectLabel
      BY DEF ConnectLabel
    <3>2. ASSUME NEW label \in {"rollback", "ports"}, Goto(p, label) PROVE FALSE
      <4>1. call'[p].at = label
        BY <1>0, <3>1, <3>2, GotoCall DEF NetInv
      <4> QED BY <2>1, <4>1
    <3> QED BY <3>2 DEF PlugVeth, Continue
  <2>4. Plugged(p)
    BY <2>1, <2>2, <2>3, PlugsIn
  <2>5. call[p].at = "ports"
    BY <1>0, <2>4 DEF Plugged, Added
  <2>6. setPortMappingIPTables(p) \/ Quit(p)
    BY <1>0, <2>5 DEF Works, Step, CreateStep, DeleteStep, ConnectStep, DisconnectStep, AllocateIP,
       EnsureBridgeInterface, SetInterfaceIP, SetInterfaceUp, setInterfaceIPTables, CreateFile,
       WriteFile, WriteUnlinked, clearInterfaceIPTables, DeleteInterface, ReleaseGateway,
       RemoveSubnet, removeNetwork, PlugVeth, RollbackIP, PleaseStopFirst, RemoveMetadata,
       setContainerNetwork, SaveEndpoint, disconnectEndpoint, clearPortMappingIPTables, At
  <2> QED BY <1>1, <2>6 DEF Quit
<1>5. Added(p)' => PortRules(p)' = PortRules(p)
  <2>1. call[p].at = "allocate" => ~Added(p) /\ ~setPortMappingIPTables(p)
    BY DEF Added, setPortMappingIPTables, At
  <2>2. call'[p].lease = call[p].lease /\ call'[p].ctn = call[p].ctn =>
          PortRules(p)' = PortRules(p)
    BY DEF PortRules
  <2> QED BY <1>0, <1>4, <2>1, <2>2 DEF SameCall
<1> QED BY <1>3, <1>4, <1>5

\* The users of a rule that a step adds.
LEMMA NewUsers ==
  ASSUME EndpointInv, NetInv', LeavesOnce, ~mishap, NEW p \in Proc, Works(p),
         NEW r \in PortRule, NEW x \in Users(r)'
  PROVE  \/ x \in Users(r) /\ (x = p => Added(p) /\ Added(p)')
         \/ x = p /\ setPortMappingIPTables(p) /\ r \in PortRules(p) /\ call'[p] # Idle
         \/ x = call[p].ctn /\ SaveEndpoint(p) /\ r \in PortRules(p)
<1>0. NetInv /\ call[p] # Idle
  BY CallsStay DEF EndpointInv
<1>1. CASE x \in Proc
  <2>1. x \notin Container
    BY <1>1, OwnerAssumption
  <2>2. Added(x)' /\ r \in PortRules(x)' /\ call'[x] # Idle
    BY <2>1 DEF Users, Added
  <2>3. call'[x].ctn # Nobody
    BY <1>1, <2>2 DEF Added, ConnectLabel, NetInv, Commands, Busywork
  <2>4. CASE x # p
    <3>1. call'[x] = call[x]
      BY <1>0, <1>1, <2>2, <2>3, <2>4, OthersWork
    <3>2. Added(x) /\ r \in PortRules(x)
      BY <2>2, <3>1 DEF Added, PortRules
    <3> QED BY <1>1, <2>4, <3>2 DEF Users
  <2>5. CASE x = p
    <3>1. call[p].ctn # Nobody
      BY <1>0, <2>2, <2>3, <2>5, WorkGoesOn DEF SameCall
    <3>2. r \in PortRules(p) /\ (Added(p) \/ setPortMappingIPTables(p))
      BY <1>0, <2>2, <2>5, <3>1, AddedBy
    <3> QED BY <2>2, <2>5, <3>2 DEF Users
  <2> QED BY <2>4, <2>5
<1>2. CASE x \notin Proc
  <2>1. x \in Container /\ Maps(x, r)' /\ Keeps(x)' /\ x # p
    BY <1>2 DEF Users
  <2>2. CASE meta'[x] = meta[x]
    <3>1. Maps(x, r)
      BY <2>1, <2>2 DEF Maps
    <3>2. Keeps(x)
      <4>1. CASE x \notin doomed'
        BY <1>0, <2>1, <2>2, <3>1, <4>1, StaysDoomed DEF Keeps, Maps
      <4>2. ASSUME NEW q \in Proc, Unmaps(q, x)'
            PROVE  Unmaps(q, x)
        <5>1. x # Nobody /\ call'[q] # Idle /\ call'[q].ctn = x
          BY <2>1, <4>2, MarkAssumption DEF Unmaps
        <5>2. CASE q # p
          <6>1. call'[q] = call[q]
            BY <1>0, <5>1, <5>2, OthersWork
          <6> QED BY <4>2, <6>1 DEF Unmaps
        <5>3. CASE q = p
          <6>1. call[p].ctn = x
            BY <1>0, <5>1, <5>3, WorkGoesOn DEF SameCall
          <6>2. call[p].at \in {"giveback", "unmap"}
            BY <1>0, <4>2, <5>1, <5>3, <6>1, AddedBy DEF Unmaps
          <6> QED BY <1>0, <5>3, <6>1, <6>2 DEF Unmaps
        <5> QED BY <5>2, <5>3
      <4> QED BY <2>1, <4>1, <4>2 DEF Keeps
    <3> QED BY <2>1, <3>1, <3>2 DEF Users
  <2>3. CASE x = call[p].ctn /\ SaveEndpoint(p)
    <3>1. meta'[x].lease = call[p].lease
      BY <2>1, <2>3 DEF SaveEndpoint, NetInv, TypeOK
    <3>2. r \in PortRules(p)
      BY <2>1, <2>3, <3>1 DEF Maps, PortRules
    <3> QED BY <2>3, <3>2
  <2>4. CASE x = call[p].ctn /\ RemoveMetadata(p)
    <3>1. meta'[x] = NoEndpoint
      BY <1>0, <2>1, <2>4 DEF RemoveMetadata, NetInv, TypeOK
    <3> QED BY <2>1, <3>1 DEF Maps
  <2> QED BY <1>0, <2>1, <2>2, <2>3, <2>4, ContainerState
<1> QED BY <1>1, <1>2

\* Who clears its rules used them, and does not use them any more.
LEMMA ClearedUser ==
  ASSUME EndpointInv, NetInv', LeavesOnce, ~mishap, NEW p \in Proc, clearPortMappingIPTables(p),
         NEW r \in PortRule, r \in PortRules(p), NEW c, c = call[p].ctn
  PROVE  c \in Users(r) /\ c \notin Users(r)'
<1>0. NetInv /\ call[p] # Idle /\ call[p].at = "unmap" /\ c \in Container /\ c \notin Proc /\ Works(p)
  <2>1. call[p] # Idle /\ call[p].at = "unmap"
    BY DEF clearPortMappingIPTables, At
  <2>2. c # Nobody
    BY <2>1 DEF EndpointInv, NetInv, Commands, Busywork, LeaveLabel
  <2> QED BY <2>1, <2>2, CallFields, OwnerAssumption DEF EndpointInv, NetInv, Works, Step, DisconnectStep
<1>1. Leaving(p, c) /\ Unmaps(p, c)
  BY <1>0 DEF Leaving, Unmaps, LeaveLabel
<1>2. /\ meta[c] # NoEndpoint /\ call[p].lease = meta[c].lease
      /\ \A q \in Proc \ {p} : ~Leaving(q, c)
  BY <1>0, <1>1 DEF LeavesOnce
<1>3. c \in Users(r)
  BY <1>0, <1>1, <1>2 DEF Users, Maps, Keeps, PortRules
<1>4. c \in doomed'
  <2>1. c \in doomed
    BY <1>0, <1>1 DEF EndpointInv, Begun, Leaving
  <2> QED BY <2>1 DEF clearPortMappingIPTables
<1>5. \A q \in Proc \ {p} : ~Unmaps(q, c)'
  <2>1. \A q \in Proc \ {p} : Unmaps(q, c)' => Leaving(q, c)'
    BY DEF Unmaps, Leaving, LeaveLabel
  <2> QED BY <1>0, <1>2, <2>1, JoinsStay
<1>6. ~Unmaps(p, c)'
  <2>1. CASE call[p].err
    <3>1. call'[p] = Idle
      BY <1>0, <2>1 DEF clearPortMappingIPTables, NetInv, TypeOK
    <3> QED BY <3>1 DEF Unmaps
  <2>2. CASE ~call[p].err
    <3>1. call'[p] = [call[p] EXCEPT !.at = "drop"]
      BY <1>0, <2>2 DEF clearPortMappingIPTables, NetInv, TypeOK
    <3>2. call[p] \in Call
      BY <1>0, CallFields DEF NetInv
    <3>3. call'[p].at = "drop"
      BY <3>1, <3>2 DEF Call
    <3> QED BY <3>3 DEF Unmaps
  <2> QED BY <2>1, <2>2
<1>7. c \notin Users(r)'
  BY <1>0, <1>4, <1>5, <1>6 DEF Users, Keeps
<1> QED BY <1>3, <1>7

LEMMA WorkCounted ==
  ASSUME EndpointInv, NetInv', LeavesOnce, Counted, NEW p \in Proc, Works(p)
  PROVE  Counted'
<1> SUFFICES ASSUME ~mishap', NEW r \in PortRule, r \notin refused'
             PROVE  IsFiniteSet(Users(r)') /\ Cardinality(Users(r)') <= nat'[r]
  BY DEF Counted
<1>0. ~mishap /\ NetInv /\ call[p] # Idle
  BY CallsStay, ContainerState DEF EndpointInv
<1>1. /\ r \in Rule /\ nat[r] \in Nat /\ nat'[r] \in Nat
      /\ IsFiniteSet(Users(r)) /\ Cardinality(Users(r)) <= nat[r]
  <2>1. r \in Rule /\ nat[r] \in Nat
    BY <1>0, PortRuleAfter
  <2>2. nat'[r] \in Nat
    BY <2>1, BoundAssumption DEF NetInv, TypeOK
  <2>3. r \notin refused
    BY RefusedStays
  <2> QED BY <1>0, <2>1, <2>2, <2>3 DEF Counted
<1> DEFINE S == Users(r)
           T == Users(r)'
           n == nat[r]
           m == nat'[r]
<1>2. \A x \in T : \/ x \in S /\ (x = p => Added(p) /\ Added(p)')
                   \/ x = p /\ setPortMappingIPTables(p) /\ r \in PortRules(p) /\ call'[p] # Idle
                   \/ x = call[p].ctn /\ SaveEndpoint(p) /\ r \in PortRules(p)
  BY <1>0, NewUsers
<1>3. /\ setPortMappingIPTables(p) => call[p].at = "ports"
      /\ setContainerNetwork(p) => call[p].at = "join"
      /\ SaveEndpoint(p) => call[p].at = "save" /\ call'[p] = Idle
      /\ clearPortMappingIPTables(p) => call[p].at = "unmap"
  <2>1. SaveEndpoint(p) => call'[p] = Idle
    BY <1>0 DEF SaveEndpoint, NetInv, TypeOK
  <2> QED BY <2>1 DEF setPortMappingIPTables, setContainerNetwork, SaveEndpoint,
             clearPortMappingIPTables, At
<1>4. p \notin Container /\ (Added(p) /\ r \in PortRules(p) <=> p \in S)
  BY OwnerAssumption DEF Users
<1>5. \/ T \subseteq S /\ n <= m
      \/ \E x : T \subseteq S \cup {x} /\ n + 1 <= m
      \/ \E x \in S : T \subseteq S \ {x} /\ n <= m + 1
      \/ \E x \in S : \E y : T \subseteq (S \ {x}) \cup {y} /\ n <= m
  <2>1. CASE setPortMappingIPTables(p)
    <3>1. \A x \in T : x \in S \/ (x = p /\ r \in PortRules(p) /\ call'[p] # Idle)
      BY <1>2, <1>3, <2>1
    <3>2. \/ m >= n /\ call'[p] = Idle
          \/ m = IF r \in PortRules(p) THEN n + 1 ELSE n
      BY <1>0, <2>1, PortRuleAfter
    <3>3. CASE r \in PortRules(p) /\ call'[p] # Idle
      <4>1. T \subseteq S \cup {p} /\ n + 1 <= m
        BY <1>1, <3>1, <3>2, <3>3
      <4> QED BY <4>1
    <3>4. CASE ~(r \in PortRules(p) /\ call'[p] # Idle)
      <4>1. T \subseteq S /\ n <= m
        BY <1>1, <3>1, <3>2, <3>4
      <4> QED BY <4>1
    <3> QED BY <3>3, <3>4
  <2>2. CASE setContainerNetwork(p)
    <3>1. T \subseteq S
      BY <1>2, <1>3, <2>2
    <3>2. CASE UNCHANGED nat
      BY <1>1, <3>1, <3>2
    <3>3. CASE call'[p] = Idle /\ m + (IF r \in PortRules(p) THEN 1 ELSE 0) >= n
      <4>1. p \notin T
        BY <1>2, <1>3, <2>2, <3>3 DEF Added
      <4>2. CASE r \in PortRules(p)
        <5>1. p \in S
          BY <1>0, <1>3, <1>4, <2>2, <4>2 DEF Added
        <5>2. T \subseteq S \ {p} /\ n <= m + 1
          BY <1>1, <3>1, <3>3, <4>1, <4>2
        <5> QED BY <5>1, <5>2
      <4>3. CASE r \notin PortRules(p)
        BY <1>1, <3>1, <3>3, <4>3
      <4> QED BY <4>2, <4>3
    <3> QED BY <1>0, <2>2, <3>2, <3>3, PortRuleAfter
  <2>3. CASE clearPortMappingIPTables(p)
    <3>1. T \subseteq S
      BY <1>2, <1>3, <2>3
    <3>2. m + (IF r \in PortRules(p) THEN 1 ELSE 0) >= n
      BY <1>0, <2>3, PortRuleAfter
    <3>3. CASE r \in PortRules(p)
      <4>1. call[p].ctn \in S /\ call[p].ctn \notin T
        BY <1>0, <2>3, <3>3, ClearedUser
      <4>2. T \subseteq S \ {call[p].ctn} /\ n <= m + 1
        BY <1>1, <3>1, <3>2, <3>3, <4>1
      <4> QED BY <4>1, <4>2
    <3>4. CASE r \notin PortRules(p)
      BY <1>1, <3>1, <3>2, <3>4
    <3> QED BY <3>3, <3>4
  <2>4. CASE SaveEndpoint(p)
    <3>1. m = n
      BY <1>0, <1>3, <2>4 DEF SaveEndpoint
    <3>2. \A x \in T : (x \in S /\ x # p) \/ (x = call[p].ctn /\ r \in PortRules(p))
      BY <1>2, <1>3, <2>4 DEF Added, setPortMappingIPTables, At
    <3>3. CASE r \in PortRules(p)
      <4>1. p \in S
        BY <1>0, <1>3, <1>4, <2>4, <3>3 DEF Added
      <4>2. T \subseteq (S \ {p}) \cup {call[p].ctn} /\ n <= m
        BY <1>1, <3>1, <3>2
      <4> QED BY <4>1, <4>2
    <3>4. CASE r \notin PortRules(p)
      BY <1>1, <3>1, <3>2, <3>4
    <3> QED BY <3>3, <3>4
  <2>5. CASE ~(\/ setPortMappingIPTables(p) \/ setContainerNetwork(p)
               \/ clearPortMappingIPTables(p) \/ SaveEndpoint(p))
    <3>1. m = n
      BY <1>0, <2>5, PortRuleAfter
    <3>2. T \subseteq S
      BY <1>2, <2>5
    <3> QED BY <1>1, <3>1, <3>2
  <2> QED BY <2>1, <2>2, <2>3, <2>4, <2>5
<1> HIDE DEF S, T, n, m
<1>6. IsFiniteSet(T) /\ Cardinality(T) <= m
  BY <1>1, <1>5, CountAfter DEF S, n, m
<1> QED BY <1>6 DEF T, m

LEMMA BeginCounted ==
  ASSUME EndpointInv, NetInv', Counted, NEW p \in Proc, Begin(p)
  PROVE  Counted'
<1> SUFFICES ASSUME ~mishap', NEW r \in PortRule, r \notin refused'
             PROVE  IsFiniteSet(Users(r)') /\ Cardinality(Users(r)') <= nat'[r]
  BY DEF Counted
<1>1. /\ ~mishap /\ UNCHANGED <<meta, nat>> /\ doomed \subseteq doomed'
      /\ call[p] = Idle /\ \A q \in Proc \ {p} : call'[q] = call[q]
      /\ call'[p].at \in {"allocate", "unrule", "giveback"}
      /\ \A c \in Container : Unmaps(p, c)' => c \notin doomed
  BY BeginsWith, MarkAssumption DEF EndpointInv, Unmaps
<1>2. IsFiniteSet(Users(r)) /\ Cardinality(Users(r)) <= nat[r]
  BY <1>1, RefusedStays DEF Counted
<1>3. ASSUME NEW c \in Container, Maps(c, r)', Keeps(c)'
      PROVE  Maps(c, r) /\ Keeps(c)
  <2>1. Maps(c, r)
    BY <1>1, <1>3 DEF Maps
  <2>2. Keeps(c)
    BY <1>1, <1>3 DEF Keeps, Unmaps
  <2> QED BY <2>1, <2>2
<1>4. ASSUME NEW q \in Proc, Added(q)', r \in PortRules(q)'
      PROVE  Added(q) /\ r \in PortRules(q)
  BY <1>1, <1>4 DEF Added, PortRules
<1>5. Users(r)' \subseteq Users(r)
  BY <1>3, <1>4 DEF Users
<1>6. Cardinality(Users(r)') <= Cardinality(Users(r)) /\ IsFiniteSet(Users(r)')
  BY <1>2, <1>5, FS_Subset
<1>7. nat[r] \in Int
  <2>1. r \in Rule
    <3>1. PICK port \in Port, l \in Leases : r = DNAT(port, l)
      BY DEF PortRule
    <3> QED BY <3>1 DEF DNAT, Rule
  <2> QED BY <2>1, BoundAssumption DEF EndpointInv, NetInv, TypeOK
<1>8. Cardinality(Users(r)) \in Int /\ Cardinality(Users(r)') \in Int
  BY <1>2, <1>6, FS_CardinalityType
<1> QED BY <1>1, <1>2, <1>6, <1>7, <1>8

(***************************************************************************)
(* A container whose saved endpoint nobody began to disconnect has its     *)
(* address, its interface in the bridge of a network nobody began to       *)
(* delete, and, short of a mishap, a rule for each of its ports that no    *)
(* command was refused (network.go, driver.go), however many commands      *)
(* connect, disconnect, fail or are killed.                                *)
(***************************************************************************)
THEOREM Reachable == Spec => []ConnectedIsReachable
<1> DEFINE Inv == EndpointInv /\ LeavesOnce /\ Counted
<1>1. Init => Inv
  <2> SUFFICES ASSUME Init PROVE Inv
    OBVIOUS
  <2>1. \A p \in Proc : call[p] = Idle
    BY DEF Init
  <2>2. \A c \in Container : meta[c] = NoEndpoint
    BY DEF Init
  <2>3. EndpointInv
    BY <2>1, <2>2, InitNetInv DEF EndpointInv, OneJoins, JoinsNew, Begun, PluggedIn, Connected, Joins
  <2>4. LeavesOnce
    BY <2>1 DEF LeavesOnce, Leaving
  <2>5. ASSUME NEW r \in PortRule
        PROVE  IsFiniteSet(Users(r)) /\ Cardinality(Users(r)) <= nat[r]
    <3>1. Users(r) = {}
      BY <2>1, <2>2 DEF Users, Maps, Added
    <3>2. PICK port \in Port, l \in Leases : r = DNAT(port, l)
      BY DEF PortRule
    <3>3. r \in Rule
      BY <3>2 DEF DNAT, Rule
    <3>4. nat[r] = 0
      BY <3>3 DEF Init
    <3> QED BY <3>1, <3>4, FS_EmptySet
  <2> QED BY <2>3, <2>4, <2>5 DEF Counted
<1>2. Inv /\ [Next]_vars => Inv'
  <2> SUFFICES ASSUME Inv, [Next]_vars PROVE Inv'
    OBVIOUS
  <2>0. NetInv'
    BY NextNetInv DEF EndpointInv
  <2>1. CASE UNCHANGED vars
    <3>1. OneJoins' /\ JoinsNew' /\ Begun' /\ PluggedIn' /\ Connected'
      BY <2>1 DEF vars, EndpointInv, OneJoins, JoinsNew, Begun, PluggedIn, Connected, Joins, Plugged
    <3>2. LeavesOnce'
      BY <2>1 DEF vars, LeavesOnce, Leaving
    <3>3. \A r : Users(r)' = Users(r)
      BY <2>1 DEF vars, Users, Maps, Keeps, Unmaps, Added, PortRules
    <3>4. Counted'
      BY <2>1, <3>3 DEF vars, Counted
    <3> QED BY <2>0, <3>1, <3>2, <3>4 DEF EndpointInv
  <2>2. ASSUME NEW p \in Proc, Begin(p) PROVE Inv'
    BY <2>0, <2>2, BeginEndpoints, BeginLeaves, BeginCounted DEF EndpointInv
  <2>3. ASSUME NEW p \in Proc, Works(p) PROVE Inv'
    BY <2>0, <2>3, WorkEndpoints, WorkLeaves, WorkCounted DEF EndpointInv
  <2> QED BY <2>1, <2>2, <2>3 DEF Next, Works
<1>3. Inv => ConnectedIsReachable
  <2> SUFFICES ASSUME Inv, NEW c \in Container, meta[c] # NoEndpoint, c \notin doomed
               PROVE  /\ held[c] = meta[c].lease
                      /\ meta[c].network \notin doomed => veth[c] = meta[c].network
                      /\ ~mishap => \A port \in PortMappings[c] :
                           LET r == DNAT(port, meta[c].lease) IN r \notin refused => nat[r] > 0
    BY DEF ConnectedIsReachable
  <2>1. ASSUME ~mishap, NEW port \in PortMappings[c], DNAT(port, meta[c].lease) \notin refused
        PROVE  nat[DNAT(port, meta[c].lease)] > 0
    <3> DEFINE r == DNAT(port, meta[c].lease)
    <3>1. meta[c].lease \in Leases /\ port \in Port
      BY PortAssumption DEF EndpointInv, NetInv, Stored
    <3>2. r \in PortRule /\ r \in Rule /\ r \notin refused
      BY <2>1, <3>1 DEF PortRule, DNAT, Rule
    <3>3. c \in Users(r)
      BY DEF Users, Maps, Keeps
    <3> HIDE DEF r
    <3>4. IsFiniteSet(Users(r)) /\ Cardinality(Users(r)) <= nat[r]
      BY <2>1, <3>2 DEF Counted
    <3>5. Cardinality(Users(r)) # 0 /\ Cardinality(Users(r)) \in Nat
      BY <3>3, <3>4, FS_EmptySet, FS_CardinalityType
    <3>6. nat[r] \in Nat
      BY <3>2, BoundAssumption DEF EndpointInv, NetInv, TypeOK
    <3>7. nat[r] > 0
      BY <3>4, <3>5, <3>6
    <3> QED BY <3>7 DEF r
  <2> QED BY <2>1 DEF EndpointInv, Connected
<1> QED BY <1>1, <1>2, <1>3, PTL DEF Spec

-----------------------------------------------------------------------------
(***************************************************************************)
(* One command at a time and none of them failing: bridges, rules and      *)
(* addresses are those of the networks and endpoints saved, but for what   *)
(* the command at work, k, has made and not saved, or taken away already.  *)
(***************************************************************************)
Doing(k, labels) == k # Idle /\ k.at \in labels
ForNetwork(k, n, labels)   == Doing(k, labels) /\ k.name = n /\ k.ctn = Nobody
ForContainer(k, c, labels) == Doing(k, labels) /\ k.ctn = c

Saved(n)  == netFile[n] \in Lease
Joined(c) == meta[c] # NoEndpoint

\* What the command at work found when it began, and what it brings about.
Creates(k) ==
  Doing(k, {"allocate"} \cup CreateLabel) /\ k.ctn = Nobody =>
    /\ k.at # "unlinked"
    /\ netFile[k.name] = (IF k.at = "write" THEN Empty ELSE Absent)
    /\ \A m \in Name : Saved(m) => netFile[m].subnet # k.subnet
    /\ k.at # "allocate" => k.lease = LeaseOf(k.subnet, 0)

Deletes(k) ==
  Doing(k, DeleteLabel) =>
    /\ netFile[k.name] = k.lease
    /\ \A c \in Container : Joined(c) => meta[c].network # k.name

Connects(k) ==
  Doing(k, {"allocate"} \cup ConnectLabel) /\ k.ctn # Nobody =>
    /\ k.at # "rollback" /\ ~Joined(k.ctn)
    /\ Saved(k.name) /\ netFile[k.name].subnet = k.subnet

Disconnects(k) ==
  Doing(k, LeaveLabel) =>
    ~k.err /\ Joined(k.ctn) /\ meta[k.ctn].network = k.name /\ meta[k.ctn].lease = k.lease

\* A network has a subnet of its own, and the first address of it.
Own(k) ==
  /\ \A n \in Name : Saved(n) => netFile[n] = LeaseOf(netFile[n].subnet, 0)
  /\ \A m, n \in Name : Saved(m) /\ Saved(n) /\ netFile[m].subnet = netFile[n].subnet => m = n
  /\ \A n \in Name : ~Saved(n) /\ ~ForNetwork(k, n, {"write"}) => netFile[n] = Absent
  /\ \A c \in Container : Joined(c) =>
       Saved(meta[c].network) /\ netFile[meta[c].network].subnet = meta[c].lease.subnet

Holds(k) ==
  /\ lost = {}
  /\ \A n \in Name : held[n] =
       IF Saved(n) /\ ~ForNetwork(k, n, {"forget", "remove"}) THEN netFile[n] ELSE NoLease
  /\ \A c \in Container : held[c] =
       IF Joined(c) /\ ~ForContainer(k, c, {"unmap", "drop"}) THEN meta[c].lease ELSE NoLease

Bridges(k) ==
  \A n \in Name : bridge[n] # NoBridge <=>
    \/ Saved(n) /\ ~ForNetwork(k, n, {"release", "forget", "remove"})
    \/ ForNetwork(k, n, {"address", "up", "rule", "create", "write"})

HasRule(k, n, s) ==
  \/ Saved(n) /\ netFile[n].subnet = s /\ ~ForNetwork(k, n, {"unlink", "release", "forget", "remove"})
  \/ ForNetwork(k, n, {"create", "write"}) /\ k.subnet = s

Masqueraded(k) ==
  \A n \in Name, s \in Subnet : nat[Masquerade(n, s)] = IF HasRule(k, n, s) THEN 1 ELSE 0

\* The containers that have a rule of their ports in the nat table.
Has(k, c, r) ==
  /\ r.port \in PortMappings[c]
  /\ \/ Joined(c) /\ r.to = meta[c].lease.ip /\ ~ForContainer(k, c, {"drop"})
     \/ ForContainer(k, c, {"join", "save"}) /\ r.to = k.lease.ip
Having(k, r) == {c \in Container : Has(k, c, r)}

Mapped(k) ==
  \A r \in PortRule : IsFiniteSet(Having(k, r)) /\ nat[r] = Cardinality(Having(k, r))

Found(k) == Creates(k) /\ Deletes(k) /\ Connects(k) /\ Disconnects(k)
State(k) == Found(k) /\ Own(k) /\ Holds(k) /\ Bridges(k) /\ Masqueraded(k) /\ Mapped(k)

\* The gateway's address, the first of a subnet, can be given back.
GatewayReturns == \A s \in Subnet : Index(s, Address(s, 0)) \in Indices(s)

AtATime == \A p, q \in Proc : call[p] # Idle /\ call[q] # Idle => p = q

SerialInv ==
  /\ NetInv /\ Accounted /\ AtATime /\ GatewayReturns
  /\ AllIdle => State(Idle)
  /\ \A p \in Proc : call[p] # Idle => State(call[p])

\* In a subnet of more than one position the first address does not wrap.
LEMMA GatewayWraps ==
  ASSUME NEW s \in Subnet, Size(s) > 1
  PROVE  0 \in Indices(s) /\ Index(s, Address(s, 0)) \in Indices(s)
<1>1. IsSubnet(s) /\ Size(s) \in Nat
  BY SubnetAssumption, SizeBound
<1>2. 0 \in Indices(s) /\ Size(s) - 1 # 0
  BY <1>1, SMT DEF Indices
<1> QED BY <1>1, <1>2, IndexOfAddress

\* Command k has become k2, at another label.
Follows(k, k2, label) ==
  /\ k2 # Idle /\ k2.at = label /\ k2.name = k.name /\ k2.ctn = k.ctn
  /\ k2.subnet = k.subnet /\ k2.lease = k.lease /\ k2.err = k.err

\* What k is doing of labels, k2 is doing, and to the same.
Alike(k, k2, labels) ==
  \A x : /\ ForNetwork(k, x, labels) <=> ForNetwork(k2, x, labels)
         /\ ForContainer(k, x, labels) <=> ForContainer(k2, x, labels)

LEMMA GotoFollows ==
  ASSUME NetInv, NEW p \in Proc, NEW k, k = call[p], k # Idle, NEW label, Goto(p, label),
         label \in {"allocate"} \cup CreateLabel \cup DeleteLabel \cup ConnectLabel \cup LeaveLabel,
         NEW k2, k2 = call'[p]
  PROVE  Follows(k, k2, label)
<1>1. /\ k2 # Idle /\ k2 = [k EXCEPT !.at = label]
      /\ k2.at = label /\ k2.name = k.name /\ k2.ctn = k.ctn
      /\ k2.subnet = k.subnet /\ k2.lease = k.lease
  BY GotoCall DEF NetInv
<1>2. k2.err = k.err
  BY <1>1, CallFields DEF NetInv, Call
<1> QED BY <1>1, <1>2 DEF Follows

\* Steps that do not tell the labels apart.
LEMMA FollowsAlike ==
  ASSUME NEW k, NEW k2, NEW labels
  PROVE  /\ \A label : k # Idle /\ Follows(k, k2, label) /\ (k.at \in labels <=> label \in labels)
                       => Alike(k, k2, labels)
         /\ ~Doing(k, labels) /\ ~Doing(k2, labels) => Alike(k, k2, labels)
BY DEF Follows, Alike, Doing, ForNetwork, ForContainer

LEMMA OwnStays ==
  ASSUME NEW k, NEW k2, Own(k), UNCHANGED <<netFile, meta>>, Alike(k, k2, {"write"})
  PROVE  Own(k2)'
BY DEF Own, Saved, Joined, Alike

LEMMA HoldsStays ==
  ASSUME NEW k, NEW k2, Holds(k), UNCHANGED <<netFile, meta, lost>>,
         \A o \in Name \cup Container : held'[o] = held[o],
         Alike(k, k2, {"forget", "remove"}), Alike(k, k2, {"unmap", "drop"})
  PROVE  Holds(k2)'
BY DEF Holds, Saved, Joined, Alike

LEMMA BridgesStay ==
  ASSUME NEW k, NEW k2, Bridges(k), UNCHANGED netFile,
         \A n \in Name : bridge[n] = NoBridge <=> bridge'[n] = NoBridge,
         Alike(k, k2, {"release", "forget", "remove"}),
         Alike(k, k2, {"address", "up", "rule", "create", "write"})
  PROVE  Bridges(k2)'
BY DEF Bridges, Saved, Alike

LEMMA MasqueradedStays ==
  ASSUME NEW k, NEW k2, Masqueraded(k), UNCHANGED netFile,
         \A n \in Name, s \in Subnet : nat'[Masquerade(n, s)] = nat[Masquerade(n, s)],
         Alike(k, k2, {"unlink", "release", "forget", "remove"}), Alike(k, k2, {"create", "write"}),
         Doing(k, {"create", "write"}) => k2.subnet = k.subnet
  PROVE  Masqueraded(k2)'
<1>1. \A n \in Name, s \in Subnet : HasRule(k2, n, s)' <=> HasRule(k, n, s)
  BY DEF HasRule, Saved, Alike, ForNetwork
<1> QED BY <1>1 DEF Masqueraded

LEMMA MappedStays ==
  ASSUME NEW k, NEW k2, Mapped(k), UNCHANGED meta, \A r \in PortRule : nat'[r] = nat[r],
         Alike(k, k2, {"drop"}), Alike(k, k2, {"join", "save"}),
         Doing(k, {"join", "save"}) => k2.lease = k.lease
  PROVE  Mapped(k2)'
<1>1. \A c \in Container, r \in PortRule : Has(k2, c, r)' <=> Has(k, c, r)
  BY DEF Has, Joined, Alike, ForContainer
<1>2. \A r \in PortRule : Having(k2, r)' = Having(k, r)
  BY <1>1 DEF Having
<1> QED BY <1>2 DEF Mapped

\* Rules of ports and of networks are different rules.
LEMMA RulesApart ==
  /\ \A r \in PortRule : r \in Rule /\ \A n, s : r # Masquerade(n, s)
  /\ \A port \in Port, l \in Leases : DNAT(port, l) \in PortRule
  /\ \A r \in PortRule : \E port \in Port, l \in Leases : r = DNAT(port, l)
<1>1. ASSUME NEW port \in Port, NEW l \in Leases, NEW n, NEW s
      PROVE  DNAT(port, l) \in Rule /\ DNAT(port, l) # Masquerade(n, s)
  <2>1. DOMAIN DNAT(port, l) = {"port", "to"} /\ DOMAIN Masquerade(n, s) = {"name", "subnet"}
    BY DEF DNAT, Masquerade
  <2> QED BY <2>1 DEF DNAT, Rule
<1> QED BY <1>1 DEF PortRule

-----------------------------------------------------------------------------
\* What is known of the network a command creates.
LEMMA AtCreate ==
  ASSUME NetInv, NEW p \in Proc, NEW k, k = call[p], k # Idle, k.at \in CreateLabel, State(k)
  PROVE  /\ k.ctn = Nobody /\ k.name \in Name /\ k.subnet \in Subnet /\ k.at # "unlinked"
         /\ k.lease \in Lease /\ k.lease = LeaseOf(k.subnet, 0) /\ held[p] = k.lease
         /\ netFile[k.name] = (IF k.at = "write" THEN Empty ELSE Absent)
         /\ netFile[k.name] \notin Lease /\ held[k.name] = NoLease
         /\ \A m \in Name : Saved(m) => netFile[m].subnet # k.subnet
<1>1. /\ k.name \in Name /\ k.subnet \in Subnet
  BY CallFields DEF NetInv
<1>2. k.ctn = Nobody /\ held[p] = k.lease /\ k.lease \in Leases
  BY DEF NetInv, Commands, Busywork, CreateLabel
<1>3. Creates(k) /\ Doing(k, {"allocate"} \cup CreateLabel) /\ k.at # "allocate"
  BY DEF State, Found, Doing, CreateLabel
<1>4. netFile[k.name] \notin Lease
  BY <1>2, <1>3, MarkAssumption DEF Creates
<1>5. held[k.name] = NoLease
  BY <1>1, <1>4 DEF State, Holds, Saved
<1> QED BY <1>1, <1>2, <1>3, <1>4, <1>5, LeasesAreLeases DEF Creates

\* A step of a creation that saves nothing yet.
LEMMA CreatesOn ==
  ASSUME NetInv, NEW p \in Proc, NEW k, k = call[p], k # Idle, k.at \in CreateLabel, State(k),
         NEW k2, NEW label, Follows(k, k2, label),
         label \in {"address", "up", "rule", "create"}, k.at # "write",
         UNCHANGED <<netFile, meta, lost>>, \A o \in Name \cup Container : held'[o] = held[o]
  PROVE  Found(k2)' /\ Own(k2)' /\ Holds(k2)'
<1>1. Found(k2)'
  <2>1. Creates(k2)'
    BY AtCreate DEF Creates, Follows, Saved
  <2>2. Deletes(k2)' /\ Disconnects(k2)' /\ Connects(k2)'
    BY AtCreate DEF Deletes, Disconnects, Connects, Doing, Follows, DeleteLabel, LeaveLabel
  <2> QED BY <2>1, <2>2 DEF Found
<1>2. Own(k2)'
  <2>1. Alike(k, k2, {"write"})
    BY FollowsAlike
  <2> QED BY <2>1, OwnStays DEF State
<1>3. Holds(k2)'
  <2>1. Alike(k, k2, {"forget", "remove"}) /\ Alike(k, k2, {"unmap", "drop"})
    <3>1. k.at \notin {"forget", "remove", "unmap", "drop"}
      BY DEF CreateLabel
    <3> QED BY <3>1, FollowsAlike
  <2> QED BY <2>1, HoldsStays DEF State
<1> QED BY <1>1, <1>2, <1>3

LEMMA SerialBridge ==
  ASSUME NetInv, NEW p \in Proc, NEW k, k = call[p], State(k), NEW k2, k2 = call'[p],
         EnsureBridgeInterface(p)
  PROVE  State(k2)'
<1>0. k # Idle /\ k.at = "bridge" /\ k.at \in CreateLabel /\ Goto(p, "address")
  BY DEF EnsureBridgeInterface, At, CreateLabel, Continue
<1>1. Follows(k, k2, "address")
  BY <1>0, GotoFollows DEF CreateLabel
<1>2. Found(k2)' /\ Own(k2)' /\ Holds(k2)'
  BY <1>0, <1>1, CreatesOn DEF EnsureBridgeInterface, Continue
<1>3. Bridges(k2)'
  <2>1. /\ bridge'[k.name] # NoBridge
        /\ \A n \in Name \ {k.name} : bridge'[n] = bridge[n]
    <3> DEFINE new == [addrs |-> {}, up |-> FALSE]
    <3>1. new \in Bridge /\ k.name \in Name
      BY <1>0, AtCreate DEF Bridge
    <3>2. bridge' = [bridge EXCEPT ![k.name] = IF bridge[k.name] = NoBridge THEN new ELSE bridge[k.name]]
      BY DEF EnsureBridgeInterface
    <3> HIDE DEF new
    <3> QED BY <3>1, <3>2, MarkAssumption DEF NetInv, TypeOK
  <2>2. ForNetwork(k2, k.name, {"address"})
    BY <1>0, <1>1, AtCreate DEF Follows, ForNetwork, Doing
  <2>3. \A n \in Name \ {k.name} : \A labels : ~ForNetwork(k, n, labels) /\ ~ForNetwork(k2, n, labels)
    BY <1>1 DEF Follows, ForNetwork
  <2>4. ForNetwork(k2, k.name, {"address", "up", "rule", "create", "write"})
    BY <2>2 DEF ForNetwork, Doing
  <2> QED BY <2>1, <2>3, <2>4 DEF EnsureBridgeInterface, State, Bridges, Saved
<1>4. Masqueraded(k2)'
  <2>1. Alike(k, k2, {"unlink", "release", "forget", "remove"}) /\ Alike(k, k2, {"create", "write"})
    BY <1>0, <1>1, FollowsAlike
  <2> QED BY <1>1, <2>1, MasqueradedStays DEF State, EnsureBridgeInterface, Follows
<1>5. Mapped(k2)'
  <2>1. Alike(k, k2, {"drop"}) /\ Alike(k, k2, {"join", "save"})
    BY <1>0, <1>1, FollowsAlike
  <2> QED BY <1>1, <2>1, MappedStays DEF State, EnsureBridgeInterface, Follows
<1> QED BY <1>2, <1>3, <1>4, <1>5 DEF State

\* The address and the state of a bridge that is there.
LEMMA SerialUp ==
  ASSUME NetInv, NEW p \in Proc, NEW k, k = call[p], State(k), NEW k2, k2 = call'[p],
         SetInterfaceIP(p) \/ SetInterfaceUp(p)
  PROVE  State(k2)'
<1>0. k # Idle /\ k.at \in {"address", "up"} /\ k.at \in CreateLabel
  BY DEF SetInterfaceIP, SetInterfaceUp, At, CreateLabel
<1>1. k.name \in Name /\ bridge[k.name] # NoBridge
  <2>1. ForNetwork(k, k.name, {"address", "up", "rule", "create", "write"})
    BY <1>0, AtCreate DEF ForNetwork, Doing
  <2> QED BY <1>0, <2>1, AtCreate DEF State, Bridges
<1>2. PICK label \in {"up", "rule"} : Continue(p, label)
  BY <1>1 DEF SetInterfaceIP, SetInterfaceUp
<1>3. /\ UNCHANGED <<netFile, table, nat, veth, meta>>
      /\ \/ bridge' = [bridge EXCEPT ![k.name].addrs = @ \cup {k.lease}]
         \/ bridge' = [bridge EXCEPT ![k.name].up = TRUE]
  BY <1>1 DEF SetInterfaceIP, SetInterfaceUp
<1>4. Follows(k, k2, label)
  BY <1>0, <1>2, GotoFollows DEF Continue, CreateLabel
<1>5. Found(k2)' /\ Own(k2)' /\ Holds(k2)'
  BY <1>0, <1>2, <1>3, <1>4, CreatesOn DEF Continue
<1>6. Bridges(k2)'
  <2>1. \A n \in Name : bridge[n] = NoBridge <=> bridge'[n] = NoBridge
    <3>1. bridge[k.name] \in Bridge
      BY <1>1 DEF NetInv, TypeOK
    <3> DEFINE a == [bridge[k.name] EXCEPT !.addrs = @ \cup {k.lease}]
               b == [bridge[k.name] EXCEPT !.up = TRUE]
    <3>2. a \in Bridge /\ b \in Bridge
      <4>1. k.lease \in Leases
        BY <1>0, PastAllocate DEF NetInv, CreateLabel
      <4> QED BY <3>1, <4>1 DEF Bridge
    <3>3. bridge' = [bridge EXCEPT ![k.name] = a] \/ bridge' = [bridge EXCEPT ![k.name] = b]
      BY <1>3
    <3> HIDE DEF a, b
    <3> QED BY <1>1, <3>2, <3>3, MarkAssumption DEF NetInv, TypeOK
  <2>2. /\ Alike(k, k2, {"release", "forget", "remove"})
        /\ Alike(k, k2, {"address", "up", "rule", "create", "write"})
    BY <1>0, <1>4, FollowsAlike
  <2> QED BY <1>3, <2>1, <2>2, BridgesStay DEF State
<1>7. Masqueraded(k2)'
  <2>1. Alike(k, k2, {"unlink", "release", "forget", "remove"}) /\ Alike(k, k2, {"create", "write"})
    BY <1>0, <1>4, FollowsAlike
  <2> QED BY <1>3, <1>4, <2>1, MasqueradedStays DEF State, Follows
<1>8. Mapped(k2)'
  <2>1. Alike(k, k2, {"drop"}) /\ Alike(k, k2, {"join", "save"})
    BY <1>0, <1>4, FollowsAlike
  <2> QED BY <1>3, <1>4, <2>1, MappedStays DEF State, Follows
<1> QED BY <1>5, <1>6, <1>7, <1>8 DEF State

LEMMA SerialRule ==
  ASSUME NetInv, NEW p \in Proc, NEW k, k = call[p], State(k), NEW k2, k2 = call'[p],
         setInterfaceIPTables(p)
  PROVE  State(k2)'
<1>0. /\ k # Idle /\ k.at = "rule" /\ k.at \in CreateLabel /\ Continue(p, "create")
      /\ UNCHANGED <<netFile, table, bridge, veth, meta>>
      /\ nat' = [nat EXCEPT ![Masquerade(k.name, k.subnet)] = nat[Masquerade(k.name, k.subnet)] + 1]
  BY DEF setInterfaceIPTables, At, CreateLabel
<1>1. Follows(k, k2, "create")
  BY <1>0, GotoFollows DEF Continue, CreateLabel
<1>2. Found(k2)' /\ Own(k2)' /\ Holds(k2)'
  BY <1>0, <1>1, CreatesOn DEF Continue
<1>3. Bridges(k2)'
  <2>1. /\ Alike(k, k2, {"release", "forget", "remove"})
        /\ Alike(k, k2, {"address", "up", "rule", "create", "write"})
    BY <1>0, <1>1, FollowsAlike
  <2> QED BY <1>0, <2>1, BridgesStay DEF State
<1>4. Masqueraded(k2)'
  <2>1. k.name \in Name /\ k.subnet \in Subnet /\ k.ctn = Nobody /\ ~Saved(k.name)
    BY <1>0, AtCreate DEF Saved
  <2>2. \A n \in Name, s \in Subnet :
          HasRule(k2, n, s)' <=> HasRule(k, n, s) \/ (n = k.name /\ s = k.subnet)
    BY <1>0, <1>1, <2>1 DEF HasRule, Follows, ForNetwork, Doing, Saved
  <2>3. ~HasRule(k, k.name, k.subnet)
    BY <1>0, <2>1 DEF HasRule, ForNetwork, Doing
  <2>4. \A n \in Name, s \in Subnet : nat'[Masquerade(n, s)] =
          IF n = k.name /\ s = k.subnet THEN nat[Masquerade(n, s)] + 1 ELSE nat[Masquerade(n, s)]
    BY <1>0, <2>1, MasqueradeIsRule DEF NetInv, TypeOK
  <2> QED BY <2>1, <2>2, <2>3, <2>4 DEF State, Masqueraded
<1>5. Mapped(k2)'
  <2>1. Alike(k, k2, {"drop"}) /\ Alike(k, k2, {"join", "save"})
    BY <1>0, <1>1, FollowsAlike
  <2>2. \A r \in PortRule : nat'[r] = nat[r]
    BY <1>0, RulesApart DEF NetInv, TypeOK
  <2> QED BY <1>0, <1>1, <2>1, <2>2, MappedStays DEF State, Follows
<1> QED BY <1>2, <1>3, <1>4, <1>5 DEF State

\* The file is there, and empty.
LEMMA SerialFile ==
  ASSUME NetInv, NEW p \in Proc, NEW k, k = call[p], State(k), NEW k2, k2 = call'[p],
         CreateFile(p)
  PROVE  State(k2)'
<1>0. /\ k # Idle /\ k.at = "create" /\ k.at \in CreateLabel /\ Goto(p, "write")
      /\ UNCHANGED <<table, bridge, nat, veth, meta>>
  BY DEF CreateFile, At, CreateLabel
<1>1. Follows(k, k2, "write")
  BY <1>0, GotoFollows DEF CreateLabel
<1>2. /\ k.name \in Name /\ k.ctn = Nobody /\ ~Saved(k.name) /\ held[k.name] = NoLease
      /\ k.lease = LeaseOf(k.subnet, 0) /\ \A m \in Name : Saved(m) => netFile[m].subnet # k.subnet
  BY <1>0, AtCreate DEF Saved
<1>3. /\ netFile'[k.name] = Empty /\ \A n \in Name \ {k.name} : netFile'[n] = netFile[n]
      /\ \A o \in Owner : held'[o] = held[o]
      /\ lost' = lost
  BY <1>2, Owners DEF CreateFile, NetInv, TypeOK, Leaves
<1>4. \A n \in Name : /\ Saved(n)' <=> Saved(n)
                      /\ Saved(n) => netFile'[n] = netFile[n]
  BY <1>2, <1>3, MarkAssumption DEF Saved
<1>5. Found(k2)'
  <2>1. Creates(k2)'
    BY <1>1, <1>2, <1>3, <1>4 DEF Creates, Follows
  <2>2. Deletes(k2)' /\ Disconnects(k2)' /\ Connects(k2)'
    BY <1>1, <1>2 DEF Deletes, Disconnects, Connects, Doing, Follows, DeleteLabel, LeaveLabel
  <2> QED BY <2>1, <2>2 DEF Found
<1>6. Own(k2)'
  <2>1. ForNetwork(k2, k.name, {"write"}) /\ \A n : ~ForNetwork(k, n, {"write"})
    BY <1>0, <1>1, <1>2 DEF ForNetwork, Doing, Follows
  <2>2. \A n \in Name : Saved(n) => n # k.name
    BY <1>2
  <2>3. /\ \A n \in Name : Saved(n)' => netFile'[n] = LeaseOf(netFile'[n].subnet, 0)
        /\ \A m, n \in Name : Saved(m)' /\ Saved(n)' /\ netFile'[m].subnet = netFile'[n].subnet => m = n
    BY <1>4 DEF State, Own
  <2>4. \A n \in Name : ~Saved(n)' /\ ~ForNetwork(k2, n, {"write"}) => netFile'[n] = Absent
    BY <1>3, <1>4, <2>1 DEF State, Own
  <2>5. \A c \in Container : Joined(c)' =>
          Saved(meta[c].network)' /\ netFile'[meta[c].network].subnet = meta[c].lease.subnet
    <3>1. \A c \in Container : Joined(c) => meta[c].network \in Name
      BY DEF Joined, NetInv, TypeOK, Endpoint
    <3> QED BY <1>0, <1>4, <3>1 DEF State, Own, Joined
  <2> QED BY <1>0, <2>3, <2>4, <2>5 DEF Own
<1>7. Holds(k2)'
  <2>1. Alike(k, k2, {"forget", "remove"}) /\ Alike(k, k2, {"unmap", "drop"})
    BY <1>0, <1>1, FollowsAlike
  <2>2. Name \subseteq Owner /\ Container \subseteq Owner
    BY DEF Owner
  <2> QED BY <1>0, <1>3, <1>4, <2>1, <2>2 DEF State, Holds, Joined, Alike
<1>8. Bridges(k2)'
  <2>1. /\ Alike(k, k2, {"release", "forget", "remove"})
        /\ Alike(k, k2, {"address", "up", "rule", "create", "write"})
    BY <1>0, <1>1, FollowsAlike
  <2> QED BY <1>0, <1>4, <2>1 DEF State, Bridges, Alike
<1>9. Masqueraded(k2)'
  <2>1. Alike(k, k2, {"unlink", "release", "forget", "remove"}) /\ Alike(k, k2, {"create", "write"})
    BY <1>0, <1>1, FollowsAlike
  <2>2. \A n \in Name, s \in Subnet : HasRule(k2, n, s)' <=> HasRule(k, n, s)
    BY <1>1, <1>4, <2>1 DEF HasRule, Alike, Follows
  <2> QED BY <1>0, <2>2 DEF State, Masqueraded
<1>10. Mapped(k2)'
  <2>1. Alike(k, k2, {"drop"}) /\ Alike(k, k2, {"join", "save"})
    BY <1>0, <1>1, FollowsAlike
  <2> QED BY <1>0, <1>1, <2>1, MappedStays DEF State, Follows
<1> QED BY <1>5, <1>6, <1>7, <1>8, <1>9, <1>10 DEF State

\* The network is saved, and the command is done.
LEMMA SerialWrite ==
  ASSUME NetInv, NEW p \in Proc, NEW k, k = call[p], State(k), WriteFile(p)
  PROVE  call'[p] = Idle /\ State(Idle)'
<1>0. /\ k # Idle /\ k.at = "write" /\ k.at \in CreateLabel
      /\ UNCHANGED <<table, bridge, nat, veth, meta>> /\ call'[p] = Idle
  BY DEF WriteFile, At, CreateLabel, NetInv, TypeOK
<1>2. /\ k.name \in Name /\ k.ctn = Nobody /\ ~Saved(k.name) /\ held[k.name] = NoLease
      /\ k.lease = LeaseOf(k.subnet, 0) /\ k.lease \in Lease /\ held[p] = k.lease
      /\ netFile[k.name] = Empty /\ \A m \in Name : Saved(m) => netFile[m].subnet # k.subnet
  BY <1>0, AtCreate DEF Saved
<1>3. /\ netFile' = [netFile EXCEPT ![k.name] = k.lease]
      /\ held' = [held EXCEPT ![k.name] = held[p], ![p] = NoLease] /\ lost' = Leaves(k.name)
  BY <1>2 DEF WriteFile
<1>4. /\ netFile'[k.name] = k.lease /\ \A n \in Name \ {k.name} : netFile'[n] = netFile[n]
      /\ held'[k.name] = k.lease
      /\ \A o \in (Name \cup Container) \ {k.name} : held'[o] = held[o]
      /\ lost' = lost
  <2>1. netFile'[k.name] = k.lease /\ \A n \in Name \ {k.name} : netFile'[n] = netFile[n]
    BY <1>2, <1>3 DEF NetInv, TypeOK
  <2>2. held' = [[held EXCEPT ![k.name] = held[p]] EXCEPT ![p] = NoLease]
    BY <1>3
  <2>3. /\ p # k.name /\ p \notin Name \cup Container
        /\ Name \subseteq Owner /\ Container \subseteq Owner /\ p \in Owner
    BY <1>2, Owners
  <2>4. held'[k.name] = k.lease /\ \A o \in (Name \cup Container) \ {k.name} : held'[o] = held[o]
    BY <1>2, <2>2, <2>3 DEF NetInv, TypeOK
  <2>5. lost' = lost
    BY <1>2, <1>3 DEF Leaves
  <2> QED BY <2>1, <2>4, <2>5
<1>5. \A n \in Name : /\ Saved(n)' <=> Saved(n) \/ n = k.name
                      /\ Saved(n) => netFile'[n] = netFile[n] /\ n # k.name
  BY <1>2, <1>4 DEF Saved
<1>6. k.lease.subnet = k.subnet
  BY <1>2 DEF LeaseOf
<1>7. /\ \A labels, x : ~ForNetwork(Idle, x, labels) /\ ~ForContainer(Idle, x, labels)
      /\ \A labels, x : ForNetwork(k, x, labels) <=> x = k.name /\ "write" \in labels
      /\ \A c \in Container : \A labels : ~ForContainer(k, c, labels)
  BY <1>0, <1>2, MarkAssumption DEF ForNetwork, ForContainer, Doing
<1>8. Found(Idle)'
  BY DEF Found, Creates, Deletes, Connects, Disconnects, Doing
<1>9. Own(Idle)'
  <2>1. /\ \A n \in Name : Saved(n)' => netFile'[n] = LeaseOf(netFile'[n].subnet, 0)
        /\ \A m, n \in Name : Saved(m)' /\ Saved(n)' /\ netFile'[m].subnet = netFile'[n].subnet => m = n
    BY <1>2, <1>4, <1>5, <1>6 DEF State, Own
  <2>2. \A n \in Name : ~Saved(n)' => netFile'[n] = Absent
    BY <1>4, <1>5, <1>7 DEF State, Own
  <2>3. \A c \in Container : Joined(c)' =>
          Saved(meta[c].network)' /\ netFile'[meta[c].network].subnet = meta[c].lease.subnet
    <3>1. \A c \in Container : Joined(c) => meta[c].network \in Name
      BY DEF Joined, NetInv, TypeOK, Endpoint
    <3> QED BY <1>0, <1>5, <3>1 DEF State, Own, Joined
  <2> QED BY <1>0, <2>1, <2>2, <2>3 DEF Own
<1>10. Holds(Idle)'
  <2>1. \A n \in Name : held'[n] = IF Saved(n)' THEN netFile'[n] ELSE NoLease
    BY <1>4, <1>5, <1>7 DEF State, Holds
  <2>2. \A c \in Container : held'[c] = IF Joined(c) THEN meta[c].lease ELSE NoLease
    BY <1>2, <1>4, <1>7, OwnerAssumption DEF State, Holds
  <2> QED BY <1>0, <1>4, <1>7, <2>1, <2>2 DEF State, Holds, Joined
<1>11. Bridges(Idle)'
  BY <1>0, <1>5, <1>7 DEF State, Bridges
<1>12. Masqueraded(Idle)'
  <2>1. \A n \in Name, s \in Subnet : HasRule(Idle, n, s)' <=> HasRule(k, n, s)
    BY <1>4, <1>5, <1>6, <1>7 DEF HasRule
  <2> QED BY <1>0, <2>1 DEF State, Masqueraded
<1>13. Mapped(Idle)'
  <2>1. Alike(k, Idle, {"drop"}) /\ Alike(k, Idle, {"join", "save"})
    BY <1>0, FollowsAlike DEF Doing
  <2>2. ~Doing(k, {"join", "save"})
    BY <1>0 DEF Doing
  <2> QED BY <1>0, <2>1, <2>2, MappedStays DEF State
<1> QED BY <1>0, <1>8, <1>9, <1>10, <1>11, <1>12, <1>13 DEF State

\* The labels that say nothing of what is there.
Plain(k) == k = Idle \/ k.at \in {"allocate", "bridge", "unrule", "veth", "ports", "giveback"}

LEMMA PlainStays ==
  ASSUME NEW k, State(k), Plain(k), NEW k2, Plain(k2), UNCHANGED <<netFile, bridge, nat, meta, lost>>,
         \A o \in Name \cup Container : held'[o] = held[o]
  PROVE  Own(k2)' /\ Holds(k2)' /\ Bridges(k2)' /\ Masqueraded(k2)' /\ Mapped(k2)'
<1> DEFINE telling == {"write", "forget", "remove", "unmap", "drop", "release", "address", "up",
                       "rule", "create", "unlink", "join", "save"}
<1>1. ~Doing(k, telling) /\ ~Doing(k2, telling)
  BY DEF Plain, Doing
<1>2. \A labels \in SUBSET telling : ~Doing(k, labels) /\ ~Doing(k2, labels)
  BY <1>1 DEF Doing
<1>3. \A labels \in SUBSET telling : Alike(k, k2, labels)
  BY <1>2, FollowsAlike
<1>4. /\ {"write"} \in SUBSET telling /\ {"forget", "remove"} \in SUBSET telling
      /\ {"unmap", "drop"} \in SUBSET telling /\ {"release", "forget", "remove"} \in SUBSET telling
      /\ {"address", "up", "rule", "create", "write"} \in SUBSET telling
      /\ {"unlink", "release", "forget", "remove"} \in SUBSET telling
      /\ {"create", "write"} \in SUBSET telling /\ {"drop"} \in SUBSET telling
      /\ {"join", "save"} \in SUBSET telling
  OBVIOUS
<1> HIDE DEF telling
<1>5. Own(k2)'
  BY <1>3, <1>4, OwnStays DEF State
<1>6. Holds(k2)'
  BY <1>3, <1>4, HoldsStays DEF State
<1>7. Bridges(k2)'
  BY <1>3, <1>4, BridgesStay DEF State
<1>8. Masqueraded(k2)'
  BY <1>2, <1>3, <1>4, MasqueradedStays DEF State
<1>9. Mapped(k2)'
  BY <1>2, <1>3, <1>4, MappedStays DEF State
<1> QED BY <1>5, <1>6, <1>7, <1>8, <1>9

\* Nobody has an address of a subnet that is no network's, or of one that is being deleted.
LEMMA NobodyHas ==
  ASSUME NetInv, NEW k, State(k), NEW s \in Subnet, \A p \in Proc : held[p] = NoLease,
         \A n \in Name : Saved(n) /\ netFile[n].subnet = s =>
           held[n] = NoLease /\ \A c \in Container : Joined(c) => meta[c].network # n
  PROVE  \A o \in Owner : held[o] # NoLease => held[o].subnet # s
<1>1. ASSUME NEW n \in Name, held[n] # NoLease
      PROVE  held[n].subnet # s
  BY <1>1 DEF State, Holds
<1>2. ASSUME NEW c \in Container, held[c] # NoLease
      PROVE  held[c].subnet # s
  <2>1. Joined(c) /\ held[c] = meta[c].lease
    BY <1>2 DEF State, Holds
  <2>2. meta[c].network \in Name
    BY <2>1 DEF Joined, NetInv, TypeOK, Endpoint
  <2> QED BY <2>1, <2>2 DEF State, Own
<1> QED BY <1>1, <1>2 DEF Owner

\* A command at work holds its address, and the others, which are idle, none.
LEMMA IdleHold ==
  ASSUME NetInv, AtATime, NEW p \in Proc, call[p] # Idle
  PROVE  /\ \A q \in Proc \ {p} : call[q] = Idle /\ held[q] = NoLease
         /\ call[p].at \notin CreateLabel \cup ConnectLabel => held[p] = NoLease
BY DEF NetInv, AtATime, Commands, Busywork

LEMMA SerialAllocate ==
  ASSUME NetInv, Accounted, AtATime, NEW p \in Proc, NEW k, k = call[p], State(k),
         NEW k2, k2 = call'[p], AllocateIP(p)
  PROVE  State(k2)'
<1>0. /\ k # Idle /\ k.at = "allocate" /\ k \in Call /\ k.name \in Name /\ k.subnet \in Subnet
      /\ k.ctn \in Container \cup {Nobody} /\ held[p] = NoLease
      /\ \A q \in Proc : held[q] = NoLease
      /\ Name \subseteq Owner /\ Container \subseteq Owner
      /\ p \in Owner /\ p \notin Name \cup Container
  <2>1. k # Idle /\ k.at = "allocate"
    BY DEF AllocateIP, At
  <2> QED BY <2>1, CallFields, IdleHold, Owners DEF NetInv, CreateLabel, ConnectLabel
<1> DEFINE s == k.subnet
<1>1. k.ctn = Nobody => Bitmap(table, s) = {}
  <2> SUFFICES ASSUME k.ctn = Nobody PROVE Bitmap(table, s) = {}
    OBVIOUS
  <2>1. \A n \in Name : ~(Saved(n) /\ netFile[n].subnet = s)
    BY <1>0 DEF State, Found, Creates, Doing
  <2>2. \A o \in Owner : held[o] # NoLease => held[o].subnet # s
    BY <1>0, <2>1, NobodyHas
  <2>3. \A i \in Indices(s) : LeaseOf(s, i) # NoLease /\ LeaseOf(s, i).subnet = s
    BY <1>0, LeasesAreLeases, MarkAssumption
  <2>4. lost = {}
    BY DEF State, Holds
  <2> QED BY <1>0, <2>2, <2>3, <2>4 DEF Accounted
<1>2. 0 \in Indices(s) /\ \A i \in Indices(s) : i \in Nat
  <2>1. Size(s) \in Nat /\ 1 <= Size(s)
    BY <1>0, SubnetAssumption, SizeBound
  <2> QED BY <2>1, SMT DEF Indices
<1>3. CASE Error(p) /\ FreeIn(table, s) = {}
  <2>1. k.ctn # Nobody
    BY <1>1, <1>2, <1>3 DEF FreeIn
  <2>2. k2 = Idle /\ lost' = lost /\ \A o \in Name \cup Container : held'[o] = held[o]
    BY <1>0, <1>3 DEF Error, Return, Leaves, NetInv, TypeOK
  <2>3. Found(Idle)'
    BY DEF Found, Creates, Deletes, Connects, Disconnects, Doing
  <2>4. Plain(k) /\ Plain(Idle)
    BY <1>0 DEF Plain
  <2> QED BY <1>3, <2>2, <2>3, <2>4, PlainStays DEF Error, hostVars, State
<1>4. ASSUME NEW idx \in FreeIn(table, s), \A j \in FreeIn(table, s) : idx <= j,
             held' = [held EXCEPT ![p] = LeaseOf(s, idx)],
             call' = [call EXCEPT ![p].lease = LeaseOf(s, idx),
                                  ![p].at = IF call[p].ctn = Nobody THEN "bridge" ELSE "veth"],
             UNCHANGED <<netFile, bridge, nat, veth, meta, lost, mishap, doomed, faults>>
      PROVE  State(k2)'
  <2> DEFINE label == IF k.ctn = Nobody THEN "bridge" ELSE "veth"
             l == LeaseOf(s, idx)
             new == [[k EXCEPT !.lease = l] EXCEPT !.at = label]
  <2>1. idx \in Indices(s) /\ l \in Lease
    BY <1>0, <1>4, LeasesAreLeases DEF FreeIn
  <2>2. /\ new \in Call /\ new.at = label /\ new.name = k.name /\ new.subnet = s
        /\ new.ctn = k.ctn /\ new.lease = l
    <3>1. label \in {"bridge", "veth"}
      OBVIOUS
    <3> HIDE DEF label, l
    <3> QED BY <1>0, <2>1, <3>1 DEF Call, CreateLabel, ConnectLabel
  <2>3. call' = [call EXCEPT ![p] = new]
    BY <1>4 DEF NetInv, TypeOK
  <2>4. k2 = new /\ k2 # Idle
    BY <2>2, <2>3, MarkAssumption DEF NetInv, TypeOK
  <2> HIDE DEF new, l, label
  <2>5. \A o \in Name \cup Container : held'[o] = held[o]
    BY <1>0, <1>4 DEF NetInv, TypeOK
  <2>6. k.ctn = Nobody => idx = 0
    <3> SUFFICES ASSUME k.ctn = Nobody PROVE idx = 0
      OBVIOUS
    <3>1. 0 \in FreeIn(table, s)
      BY <1>1, <1>2 DEF FreeIn
    <3> QED BY <1>2, <1>4, <2>1, <3>1
  <2>7. Found(k2)'
    <3>1. k.ctn = Nobody => /\ netFile[k.name] = Absent
                            /\ \A m \in Name : Saved(m) => netFile[m].subnet # s
      BY <1>0 DEF State, Found, Creates, Doing
    <3>2. k.ctn # Nobody => ~Joined(k.ctn) /\ Saved(k.name) /\ netFile[k.name].subnet = s
      BY <1>0 DEF State, Found, Connects, Doing
    <3>3. Creates(k2)'
      BY <1>4, <2>2, <2>4, <2>6, <3>1 DEF Creates, Saved, l, label
    <3>4. Connects(k2)'
      BY <1>4, <2>2, <2>4, <3>2 DEF Connects, Saved, Joined, label
    <3>5. Deletes(k2)' /\ Disconnects(k2)'
      BY <2>2, <2>4 DEF Deletes, Disconnects, Doing, DeleteLabel, LeaveLabel, label
    <3> QED BY <3>3, <3>4, <3>5 DEF Found
  <2>8. Plain(k) /\ Plain(k2)
    BY <1>0, <2>2, <2>4 DEF Plain, label
  <2> QED BY <1>4, <2>5, <2>7, <2>8, PlainStays DEF State
<1> QED BY <1>3, <1>4 DEF AllocateIP

-----------------------------------------------------------------------------
\* What is known of the network a command deletes.
LEMMA AtDelete ==
  ASSUME NetInv, NEW p \in Proc, NEW k, k = call[p], k # Idle, k.at \in DeleteLabel, State(k)
  PROVE  /\ k.ctn = Nobody /\ k.name \in Name /\ k.subnet \in Subnet
         /\ k.lease \in Lease /\ k.lease = LeaseOf(k.subnet, 0) /\ k.lease.subnet = k.subnet
         /\ Saved(k.name) /\ netFile[k.name] = k.lease
         /\ \A c \in Container : Joined(c) => meta[c].network # k.name
         /\ \A n \in Name \ {k.name} : Saved(n) => netFile[n].subnet # k.subnet
<1>1. k.name \in Name /\ k.subnet \in Subnet
  BY CallFields DEF NetInv
<1>2. k.ctn = Nobody /\ k.lease \in Leases /\ k.lease.subnet = k.subnet
  BY DEF NetInv, Commands, Busywork, DeleteLabel
<1>3. netFile[k.name] = k.lease /\ \A c \in Container : Joined(c) => meta[c].network # k.name
  BY DEF State, Found, Deletes, Doing
<1>4. k.lease \in Lease /\ Saved(k.name)
  BY <1>2, <1>3, LeasesAreLeases DEF Saved
<1>5. k.lease = LeaseOf(k.subnet, 0) /\ \A n \in Name \ {k.name} : Saved(n) => netFile[n].subnet # k.subnet
  BY <1>1, <1>2, <1>3, <1>4 DEF State, Own
<1> QED BY <1>1, <1>2, <1>3, <1>4, <1>5

\* A step of a deletion before the file is removed.
LEMMA DeletesOn ==
  ASSUME NetInv, NEW p \in Proc, NEW k, k = call[p], k # Idle, k.at \in DeleteLabel, State(k),
         NEW k2, NEW label, Follows(k, k2, label), label \in DeleteLabel,
         UNCHANGED <<netFile, meta>>
  PROVE  Found(k2)' /\ Own(k2)'
<1>1. Found(k2)'
  <2>1. Deletes(k2)'
    BY AtDelete DEF Deletes, Follows, Joined
  <2>2. Creates(k2)' /\ Disconnects(k2)' /\ Connects(k2)'
    BY AtDelete DEF Creates, Disconnects, Connects, Doing, Follows, DeleteLabel, LeaveLabel,
       CreateLabel, ConnectLabel
  <2> QED BY <2>1, <2>2 DEF Found
<1>2. Own(k2)'
  <2>1. Alike(k, k2, {"write"})
    BY FollowsAlike DEF DeleteLabel
  <2> QED BY <2>1, OwnStays DEF State
<1> QED BY <1>1, <1>2

LEMMA SerialUnrule ==
  ASSUME NetInv, NEW p \in Proc, NEW k, k = call[p], State(k), NEW k2, k2 = call'[p],
         clearInterfaceIPTables(p)
  PROVE  State(k2)'
<1>0. k # Idle /\ k.at = "unrule" /\ k.at \in DeleteLabel
  BY DEF clearInterfaceIPTables, At, DeleteLabel
<1>1. /\ k.name \in Name /\ k.subnet \in Subnet /\ k.ctn = Nobody /\ Saved(k.name)
      /\ netFile[k.name].subnet = k.subnet /\ k.lease \in Lease
  BY <1>0, AtDelete
<1>2. nat[Masquerade(k.name, k.subnet)] = 1
  <2>1. HasRule(k, k.name, k.subnet)
    BY <1>0, <1>1 DEF HasRule, ForNetwork, Doing
  <2> QED BY <1>1, <2>1 DEF State, Masqueraded
<1>3. /\ Continue(p, "unlink") /\ UNCHANGED <<netFile, table, bridge, veth, meta>>
      /\ nat' = [nat EXCEPT ![Masquerade(k.name, k.subnet)] = nat[Masquerade(k.name, k.subnet)] - 1]
  BY <1>2 DEF clearInterfaceIPTables
<1>4. Follows(k, k2, "unlink")
  BY <1>0, <1>3, GotoFollows DEF Continue, DeleteLabel
<1>5. Found(k2)' /\ Own(k2)'
  BY <1>0, <1>3, <1>4, DeletesOn DEF DeleteLabel
<1>6. Holds(k2)'
  <2>1. Alike(k, k2, {"forget", "remove"}) /\ Alike(k, k2, {"unmap", "drop"})
    BY <1>0, <1>4, FollowsAlike
  <2> QED BY <1>3, <2>1, HoldsStays DEF State, Continue
<1>7. Bridges(k2)'
  <2>1. /\ Alike(k, k2, {"release", "forget", "remove"})
        /\ Alike(k, k2, {"address", "up", "rule", "create", "write"})
    BY <1>0, <1>4, FollowsAlike
  <2> QED BY <1>3, <2>1, BridgesStay DEF State
<1>8. Masqueraded(k2)'
  <2>1. \A n \in Name, s \in Subnet :
          HasRule(k2, n, s)' <=> HasRule(k, n, s) /\ ~(n = k.name /\ s = k.subnet)
    BY <1>0, <1>1, <1>3, <1>4 DEF HasRule, Follows, ForNetwork, Doing, Saved
  <2>2. \A n \in Name, s \in Subnet : nat'[Masquerade(n, s)] =
          IF n = k.name /\ s = k.subnet THEN 0 ELSE nat[Masquerade(n, s)]
    <3>1. 1 - 1 = 0
      OBVIOUS
    <3>2. nat' = [nat EXCEPT ![Masquerade(k.name, k.subnet)] = 0]
      BY <1>2, <1>3, <3>1
    <3> QED BY <1>1, <3>2, MasqueradeIsRule DEF NetInv, TypeOK
  <2> QED BY <1>1, <2>1, <2>2 DEF State, Masqueraded
<1>9. Mapped(k2)'
  <2>1. Alike(k, k2, {"drop"}) /\ Alike(k, k2, {"join", "save"})
    BY <1>0, <1>4, FollowsAlike
  <2>2. \A r \in PortRule : nat'[r] = nat[r]
    BY <1>3, RulesApart DEF NetInv, TypeOK
  <2> QED BY <1>3, <1>4, <2>1, <2>2, MappedStays DEF State, Follows
<1> QED BY <1>5, <1>6, <1>7, <1>8, <1>9 DEF State

LEMMA SerialUnlink ==
  ASSUME NetInv, NEW p \in Proc, NEW k, k = call[p], State(k), NEW k2, k2 = call'[p],
         DeleteInterface(p)
  PROVE  State(k2)'
<1>0. k # Idle /\ k.at = "unlink" /\ k.at \in DeleteLabel
  BY DEF DeleteInterface, At, DeleteLabel
<1>1. k.name \in Name /\ k.ctn = Nobody /\ Saved(k.name) /\ bridge[k.name] # NoBridge
  <2>1. k.name \in Name /\ k.ctn = Nobody /\ Saved(k.name)
    BY <1>0, AtDelete
  <2> QED BY <1>0, <2>1 DEF State, Bridges, ForNetwork, Doing
<1>2. /\ Continue(p, "release") /\ UNCHANGED <<netFile, table, nat, meta>>
      /\ bridge' = [bridge EXCEPT ![k.name] = NoBridge]
  BY <1>1 DEF DeleteInterface
<1>3. Follows(k, k2, "release")
  BY <1>0, <1>2, GotoFollows DEF Continue, DeleteLabel
<1>4. Found(k2)' /\ Own(k2)'
  BY <1>0, <1>2, <1>3, DeletesOn DEF DeleteLabel
<1>5. Holds(k2)'
  <2>1. Alike(k, k2, {"forget", "remove"}) /\ Alike(k, k2, {"unmap", "drop"})
    BY <1>0, <1>3, FollowsAlike
  <2> QED BY <1>2, <2>1, HoldsStays DEF State, Continue
<1>6. Bridges(k2)'
  <2>1. /\ bridge'[k.name] = NoBridge /\ \A n \in Name \ {k.name} : bridge'[n] = bridge[n]
    BY <1>1, <1>2 DEF NetInv, TypeOK
  <2>2. /\ \A n \in Name \ {k.name} : \A labels : ~ForNetwork(k, n, labels) /\ ~ForNetwork(k2, n, labels)
        /\ ForNetwork(k2, k.name, {"release", "forget", "remove"})
        /\ ~ForNetwork(k2, k.name, {"address", "up", "rule", "create", "write"})
    BY <1>1, <1>3 DEF Follows, ForNetwork, Doing
  <2> QED BY <1>2, <2>1, <2>2 DEF State, Bridges, Saved
<1>7. Masqueraded(k2)'
  <2>1. Alike(k, k2, {"unlink", "release", "forget", "remove"}) /\ Alike(k, k2, {"create", "write"})
    BY <1>0, <1>3, FollowsAlike
  <2> QED BY <1>2, <1>3, <2>1, MasqueradedStays DEF State, Follows
<1>8. Mapped(k2)'
  <2>1. Alike(k, k2, {"drop"}) /\ Alike(k, k2, {"join", "save"})
    BY <1>0, <1>3, FollowsAlike
  <2> QED BY <1>2, <1>3, <2>1, MappedStays DEF State, Follows
<1> QED BY <1>4, <1>5, <1>6, <1>7, <1>8 DEF State

\* Steps of a deletion that take neither the bridge, nor the rule, nor the file.
LEMMA DeletesInTable ==
  ASSUME NEW k, State(k), k # Idle, NEW k2,
         \/ k.at = "release" /\ Follows(k, k2, "forget")
         \/ k.at = "forget" /\ Follows(k, k2, "remove"),
         UNCHANGED <<netFile, bridge, nat, meta>>
  PROVE  Bridges(k2)' /\ Masqueraded(k2)' /\ Mapped(k2)'
<1>1. PICK label \in {"forget", "remove"} : Follows(k, k2, label)
  OBVIOUS
<1>2. Bridges(k2)'
  <2>1. /\ Alike(k, k2, {"release", "forget", "remove"})
        /\ Alike(k, k2, {"address", "up", "rule", "create", "write"})
    BY <1>1, FollowsAlike
  <2> QED BY <2>1, BridgesStay DEF State
<1>3. Masqueraded(k2)'
  <2>1. Alike(k, k2, {"unlink", "release", "forget", "remove"}) /\ Alike(k, k2, {"create", "write"})
    BY <1>1, FollowsAlike
  <2> QED BY <1>1, <2>1, MasqueradedStays DEF State, Follows
<1>4. Mapped(k2)'
  <2>1. Alike(k, k2, {"drop"}) /\ Alike(k, k2, {"join", "save"})
    BY <1>1, FollowsAlike
  <2> QED BY <1>1, <2>1, MappedStays DEF State, Follows
<1> QED BY <1>2, <1>3, <1>4

\* An address that somebody has is of a position of a subnet that is known.
LEMMA HeldIsKnown ==
  ASSUME NetInv, Accounted, NEW o \in Owner, NEW s \in Subnet, NEW i \in Indices(s),
         held[o] = LeaseOf(s, i)
  PROVE  s \in DOMAIN table
<1>1. i \in Bitmap(table, s)
  BY DEF Accounted
<1> QED BY <1>1 DEF Bitmap

LEMMA SerialGateway ==
  ASSUME NetInv, Accounted, GatewayReturns, NEW p \in Proc, NEW k, k = call[p], State(k),
         NEW k2, k2 = call'[p], ReleaseGateway(p)
  PROVE  State(k2)'
<1>0. k # Idle /\ k.at = "release" /\ k.at \in DeleteLabel
  BY DEF ReleaseGateway, At, DeleteLabel
<1>1. /\ k.name \in Name /\ k.ctn = Nobody /\ Saved(k.name) /\ netFile[k.name] = k.lease
      /\ k.subnet \in Subnet /\ k.lease = LeaseOf(k.subnet, 0) /\ k.lease \in Lease
  BY <1>0, AtDelete
<1>2. held[k.name] = k.lease /\ k.name \in Owner
  <2>1. ~ForNetwork(k, k.name, {"forget", "remove"})
    BY <1>0 DEF ForNetwork, Doing
  <2> QED BY <1>1, <2>1 DEF State, Holds, Owner
<1>3. Known(p) /\ ~Panics(p)
  <2>1. 0 \in Indices(k.subnet)
    <3>1. Size(k.subnet) \in Nat /\ 1 <= Size(k.subnet)
      BY <1>1, SubnetAssumption, SizeBound
    <3> QED BY <3>1, SMT DEF Indices
  <2>2. Known(p)
    BY <1>1, <1>2, <2>1, HeldIsKnown DEF Known
  <2>3. k.lease.ip = Address(k.subnet, 0)
    BY <1>1 DEF LeaseOf
  <2> QED BY <1>1, <2>2, <2>3 DEF Panics, GatewayReturns
<1>4. /\ ReleaseIP(p, k.name) /\ Goto(p, "forget")
      /\ UNCHANGED <<netFile, bridge, nat, veth, meta, doomed, faults>>
  BY <1>3 DEF ReleaseGateway
<1>5. Follows(k, k2, "forget")
  BY <1>0, <1>4, GotoFollows DEF DeleteLabel
<1>6. Found(k2)' /\ Own(k2)'
  BY <1>0, <1>4, <1>5, DeletesOn DEF DeleteLabel
<1>7. Holds(k2)'
  <2>1. /\ held'[k.name] = NoLease /\ \A o \in Owner \ {k.name} : held'[o] = held[o]
        /\ lost' = lost \ {k.lease}
    BY <1>0, <1>2, <1>4, ReleaseTypes DEF ReleaseIP
  <2>2. /\ \A n \in Name \ {k.name} : \A labels : ~ForNetwork(k, n, labels) /\ ~ForNetwork(k2, n, labels)
        /\ ForNetwork(k2, k.name, {"forget", "remove"})
    BY <1>1, <1>5 DEF Follows, ForNetwork, Doing
  <2>3. \A n \in Name : held'[n] =
          IF Saved(n) /\ ~ForNetwork(k2, n, {"forget", "remove"}) THEN netFile[n] ELSE NoLease
    BY <2>1, <2>2 DEF State, Holds, Owner
  <2>4. Alike(k, k2, {"unmap", "drop"})
    BY <1>0, <1>5, FollowsAlike
  <2>5. \A c \in Container : held'[c] = held[c]
    BY <1>1, <2>1, OwnerAssumption DEF Owner
  <2> QED BY <1>4, <2>1, <2>3, <2>4, <2>5 DEF State, Holds, Saved, Joined, Alike
<1> QED BY <1>0, <1>4, <1>5, <1>6, <1>7, DeletesInTable DEF State

\* The subnet is forgotten, and nobody has an address of it.
LEMMA SerialForget ==
  ASSUME NetInv, AtATime, NEW p \in Proc, NEW k, k = call[p], State(k),
         NEW k2, k2 = call'[p], RemoveSubnet(p)
  PROVE  /\ State(k2)'
         /\ \A o \in Owner : held[o] # NoLease => held[o].subnet # k.subnet
<1>0. k # Idle /\ k.at = "forget" /\ k.at \in DeleteLabel /\ Goto(p, "remove")
      /\ UNCHANGED <<netFile, bridge, nat, veth, meta, held, doomed, faults>>
      /\ lost' = {l \in lost : l.subnet # k.subnet}
  BY DEF RemoveSubnet, At, DeleteLabel
<1>1. Follows(k, k2, "remove")
  BY <1>0, GotoFollows DEF DeleteLabel
<1>2. Found(k2)' /\ Own(k2)'
  BY <1>0, <1>1, DeletesOn DEF DeleteLabel
<1>3. Holds(k2)'
  <2>1. Alike(k, k2, {"forget", "remove"}) /\ Alike(k, k2, {"unmap", "drop"})
    BY <1>0, <1>1, FollowsAlike
  <2>2. lost' = lost
    BY <1>0 DEF State, Holds
  <2> QED BY <1>0, <2>1, <2>2, HoldsStays DEF State
<1>4. State(k2)'
  BY <1>0, <1>1, <1>2, <1>3, DeletesInTable DEF State
<1>5. \A o \in Owner : held[o] # NoLease => held[o].subnet # k.subnet
  <2>1. \A q \in Proc : held[q] = NoLease
    BY <1>0, IdleHold DEF CreateLabel, ConnectLabel
  <2>2. k.name \in Name /\ k.ctn = Nobody /\ k.subnet \in Subnet
    BY <1>0, AtDelete
  <2>3. held[k.name] = NoLease
    BY <1>0, <2>2 DEF State, Holds, ForNetwork, Doing
  <2>4. \A n \in Name : Saved(n) /\ netFile[n].subnet = k.subnet =>
          held[n] = NoLease /\ \A c \in Container : Joined(c) => meta[c].network # n
    BY <1>0, <2>3, AtDelete
  <2> QED BY <2>1, <2>2, <2>4, NobodyHas
<1> QED BY <1>4, <1>5

\* The file is removed, and the command is done.
LEMMA SerialRemove ==
  ASSUME NetInv, NEW p \in Proc, NEW k, k = call[p], State(k), removeNetwork(p)
  PROVE  call'[p] = Idle /\ State(Idle)'
<1>0. /\ k # Idle /\ k.at = "remove" /\ k.at \in DeleteLabel /\ call'[p] = Idle
      /\ UNCHANGED <<table, bridge, nat, veth, meta>>
      /\ netFile' = [netFile EXCEPT ![k.name] = Absent]
      /\ held' = [held EXCEPT ![k.name] = NoLease] /\ lost' = Leaves(k.name)
  BY DEF removeNetwork, At, DeleteLabel
<1>1. /\ k.name \in Name /\ k.ctn = Nobody /\ Saved(k.name) /\ netFile[k.name].subnet = k.subnet
      /\ \A c \in Container : Joined(c) => meta[c].network # k.name
  BY <1>0, AtDelete
<1>2. /\ \A labels, x : ~ForNetwork(Idle, x, labels) /\ ~ForContainer(Idle, x, labels)
      /\ \A labels, x : ForNetwork(k, x, labels) <=> x = k.name /\ "remove" \in labels
      /\ \A c \in Container : \A labels : ~ForContainer(k, c, labels)
  BY <1>0, <1>1, MarkAssumption DEF ForNetwork, ForContainer, Doing
<1>3. /\ netFile'[k.name] = Absent /\ \A n \in Name \ {k.name} : netFile'[n] = netFile[n]
      /\ \A o \in Name \cup Container : held'[o] = held[o]
      /\ lost' = lost
  <2>1. held[k.name] = NoLease
    BY <1>1, <1>2 DEF State, Holds
  <2>2. Name \subseteq Owner /\ Container \subseteq Owner
    BY DEF Owner
  <2> QED BY <1>0, <1>1, <2>1, <2>2 DEF NetInv, TypeOK, Leaves
<1>4. \A n \in Name : /\ Saved(n)' <=> Saved(n) /\ n # k.name
                      /\ n # k.name => netFile'[n] = netFile[n]
  BY <1>3, MarkAssumption DEF Saved
<1>5. Found(Idle)'
  BY DEF Found, Creates, Deletes, Connects, Disconnects, Doing
<1>6. Own(Idle)'
  <2>1. /\ \A n \in Name : Saved(n)' => netFile'[n] = LeaseOf(netFile'[n].subnet, 0)
        /\ \A m, n \in Name : Saved(m)' /\ Saved(n)' /\ netFile'[m].subnet = netFile'[n].subnet => m = n
    BY <1>4 DEF State, Own
  <2>2. \A n \in Name : ~Saved(n)' => netFile'[n] = Absent
    BY <1>2, <1>3, <1>4 DEF State, Own
  <2>3. \A c \in Container : Joined(c)' =>
          Saved(meta[c].network)' /\ netFile'[meta[c].network].subnet = meta[c].lease.subnet
    <3>1. \A c \in Container : Joined(c) => meta[c].network \in Name \ {k.name}
      BY <1>1 DEF Joined, NetInv, TypeOK, Endpoint
    <3> QED BY <1>0, <1>4, <3>1 DEF State, Own, Joined
  <2> QED BY <1>0, <2>1, <2>2, <2>3 DEF Own
<1>7. Holds(Idle)'
  <2>1. \A n \in Name : held'[n] = IF Saved(n)' THEN netFile'[n] ELSE NoLease
    BY <1>2, <1>3, <1>4 DEF State, Holds
  <2>2. \A c \in Container : held'[c] = IF Joined(c) THEN meta[c].lease ELSE NoLease
    BY <1>2, <1>3 DEF State, Holds
  <2> QED BY <1>0, <1>2, <1>3, <2>1, <2>2 DEF State, Holds, Joined
<1>8. Bridges(Idle)'
  BY <1>0, <1>2, <1>4 DEF State, Bridges
<1>9. Masqueraded(Idle)'
  <2>1. \A n \in Name, s \in Subnet : HasRule(Idle, n, s)' <=> HasRule(k, n, s)
    BY <1>2, <1>4 DEF HasRule
  <2> QED BY <1>0, <2>1 DEF State, Masqueraded
<1>10. Mapped(Idle)'
  <2>1. Alike(k, Idle, {"drop"}) /\ Alike(k, Idle, {"join", "save"})
    BY <1>0, FollowsAlike DEF Doing
  <2>2. ~Doing(k, {"join", "save"})
    BY <1>0 DEF Doing
  <2> QED BY <1>0, <2>1, <2>2, MappedStays DEF State
<1> QED BY <1>0, <1>5, <1>6, <1>7, <1>8, <1>9, <1>10 DEF State

-----------------------------------------------------------------------------
\* What is known of the container a command connects.
LEMMA AtConnect ==
  ASSUME NetInv, NEW p \in Proc, NEW k, k = call[p], k # Idle, k.at \in ConnectLabel, State(k)
  PROVE  /\ k.ctn \in Container /\ k.ctn # Nobody /\ k.name \in Name /\ k.subnet \in Subnet
         /\ k.lease \in Leases /\ k.lease \in Lease /\ k.lease.subnet = k.subnet /\ held[p] = k.lease
         /\ k.at # "rollback" /\ ~Joined(k.ctn) /\ held[k.ctn] = NoLease
         /\ Saved(k.name) /\ netFile[k.name].subnet = k.subnet
<1>1. /\ k.name \in Name /\ k.subnet \in Subnet /\ k.ctn \in Container \cup {Nobody}
  BY CallFields DEF NetInv
<1>2. k.ctn # Nobody /\ k.lease \in Leases /\ k.lease.subnet = k.subnet /\ held[p] = k.lease
  BY DEF NetInv, Commands, Busywork, ConnectLabel
<1>3. /\ k.at # "rollback" /\ ~Joined(k.ctn) /\ Saved(k.name) /\ netFile[k.name].subnet = k.subnet
  BY <1>2 DEF State, Found, Connects, Doing
<1>4. held[k.ctn] = NoLease
  BY <1>1, <1>2, <1>3 DEF State, Holds
<1> QED BY <1>1, <1>2, <1>3, <1>4, LeasesAreLeases

\* A step of a connection before the endpoint is saved.
LEMMA ConnectsOn ==
  ASSUME NetInv, NEW p \in Proc, NEW k, k = call[p], k # Idle, k.at \in ConnectLabel, State(k),
         NEW k2, NEW label, Follows(k, k2, label), label \in ConnectLabel \ {"rollback"},
         UNCHANGED <<netFile, bridge, meta, lost>>, held' = held,
         \A n \in Name, s \in Subnet : nat'[Masquerade(n, s)] = nat[Masquerade(n, s)]
  PROVE  Found(k2)' /\ Own(k2)' /\ Holds(k2)' /\ Bridges(k2)' /\ Masqueraded(k2)'
<1>1. Found(k2)'
  <2>1. Connects(k2)'
    BY AtConnect DEF Connects, Follows, Joined, Saved
  <2>2. Creates(k2)' /\ Disconnects(k2)' /\ Deletes(k2)'
    BY AtConnect DEF Creates, Disconnects, Deletes, Doing, Follows, DeleteLabel, LeaveLabel,
       CreateLabel, ConnectLabel
  <2> QED BY <2>1, <2>2 DEF Found
<1>2. \A labels \in {{"write"}, {"forget", "remove"}, {"unmap", "drop"}, {"release", "forget", "remove"},
                     {"address", "up", "rule", "create", "write"},
                     {"unlink", "release", "forget", "remove"}, {"create", "write"}} :
        k.at \notin labels /\ label \notin labels
  BY DEF ConnectLabel
<1>3. \A labels \in {{"write"}, {"forget", "remove"}, {"unmap", "drop"}, {"release", "forget", "remove"},
                     {"address", "up", "rule", "create", "write"},
                     {"unlink", "release", "forget", "remove"}, {"create", "write"}} :
        Alike(k, k2, labels)
  BY <1>2, FollowsAlike
<1>4. Own(k2)'
  BY <1>3, OwnStays DEF State
<1>5. Holds(k2)'
  BY <1>3, HoldsStays DEF State
<1>6. Bridges(k2)'
  BY <1>3, BridgesStay DEF State
<1>7. Masqueraded(k2)'
  <2>1. ~Doing(k, {"create", "write"})
    BY <1>2 DEF Doing
  <2> QED BY <1>3, <2>1, MasqueradedStays DEF State
<1> QED BY <1>1, <1>4, <1>5, <1>6, <1>7

\* Nothing fails.
LEMMA NoFault ==
  ASSUME NetInv, faults' = faults
  PROVE  ~Fault
<1>1. faults \in Int
  BY BoundAssumption DEF NetInv, TypeOK
<1> QED BY <1>1 DEF Fault

LEMMA SerialPlug ==
  ASSUME NetInv, faults' = faults, NEW p \in Proc, NEW k, k = call[p], State(k),
         NEW k2, k2 = call'[p], PlugVeth(p)
  PROVE  State(k2)'
<1>0. k # Idle /\ k.at = "veth" /\ k.at \in ConnectLabel
  BY DEF PlugVeth, At, ConnectLabel
<1>1. bridge[k.name] # NoBridge
  <2>1. k.name \in Name /\ Saved(k.name) /\ k.ctn # Nobody
    BY <1>0, AtConnect
  <2> QED BY <2>1 DEF State, Bridges, ForNetwork
<1>2. Continue(p, "ports") /\ UNCHANGED <<netFile, table, bridge, nat, meta>>
  BY <1>1, NoFault DEF PlugVeth
<1>3. Follows(k, k2, "ports")
  BY <1>0, <1>2, GotoFollows DEF Continue, ConnectLabel
<1>4. Found(k2)' /\ Own(k2)' /\ Holds(k2)' /\ Bridges(k2)' /\ Masqueraded(k2)'
  BY <1>0, <1>2, <1>3, ConnectsOn DEF Continue, ConnectLabel
<1>5. Mapped(k2)'
  <2>1. Alike(k, k2, {"drop"}) /\ Alike(k, k2, {"join", "save"})
    BY <1>0, <1>3, FollowsAlike
  <2> QED BY <1>2, <1>3, <2>1, MappedStays DEF State, Follows
<1> QED BY <1>4, <1>5 DEF State

\* The rules of a container's ports are those to its address.
LEMMA PortRulesAre ==
  ASSUME NEW p \in Proc, NEW r \in PortRule
  PROVE  r \in PortRules(p) <=> r.port \in PortMappings[call[p].ctn] /\ r.to = call[p].lease.ip
<1>1. PICK port \in Port, l \in Leases : r = DNAT(port, l)
  BY DEF PortRule
<1>2. r.port = port /\ r.to = l.ip /\ r = [port |-> port, to |-> l.ip]
  BY <1>1 DEF DNAT
<1>3. ASSUME NEW x, DNAT(x, call[p].lease) = r
      PROVE  x = port /\ call[p].lease.ip = l.ip
  <2>1. DNAT(x, call[p].lease).port = x /\ DNAT(x, call[p].lease).to = call[p].lease.ip
    BY DEF DNAT
  <2> QED BY <1>2, <1>3, <2>1
<1>4. call[p].lease.ip = l.ip => DNAT(port, call[p].lease) = r
  BY <1>2 DEF DNAT
<1> QED BY <1>2, <1>3, <1>4 DEF PortRules

\* Rules of ports are added and dropped, one copy of each.
LEMMA AddDrop ==
  ASSUME NetInv, NEW p \in Proc
  PROVE  /\ \A n \in Name, s \in Subnet :
              /\ Add(PortRules(p))[Masquerade(n, s)] = nat[Masquerade(n, s)]
              /\ Drop(PortRules(p))[Masquerade(n, s)] = nat[Masquerade(n, s)]
         /\ \A r \in PortRule :
              /\ nat[r] \in Nat
              /\ Add(PortRules(p))[r] = IF r \in PortRules(p) THEN nat[r] + 1 ELSE nat[r]
              /\ Drop(PortRules(p))[r] = IF r \in PortRules(p) /\ nat[r] > 0 THEN nat[r] - 1 ELSE nat[r]
<1>1. \A n \in Name, s \in Subnet : Masquerade(n, s) \in Rule /\ Masquerade(n, s) \notin PortRules(p)
  BY MasqueradeIsRule, PortRulesApart
<1>2. \A r \in PortRule : r \in Rule
  BY RulesApart
<1>3. \A r \in Rule : nat[r] \in Nat
  BY BoundAssumption DEF NetInv, TypeOK
<1> QED BY <1>1, <1>2, <1>3 DEF Add, Drop

LEMMA SerialPorts ==
  ASSUME NetInv, faults' = faults, NEW p \in Proc, NEW k, k = call[p], State(k),
         NEW k2, k2 = call'[p], setPortMappingIPTables(p)
  PROVE  State(k2)'
<1>0. /\ k # Idle /\ k.at = "ports" /\ k.at \in ConnectLabel /\ Continue(p, "join")
      /\ nat' = Add(PortRules(p)) /\ UNCHANGED <<netFile, table, bridge, veth, meta>>
  BY NoFault DEF setPortMappingIPTables, At, ConnectLabel
<1>1. Follows(k, k2, "join")
  BY <1>0, GotoFollows DEF Continue, ConnectLabel
<1>2. Found(k2)' /\ Own(k2)' /\ Holds(k2)' /\ Bridges(k2)' /\ Masqueraded(k2)'
  BY <1>0, <1>1, AddDrop, ConnectsOn DEF Continue, ConnectLabel
<1>3. Mapped(k2)'
  <2>1. k.ctn \in Container /\ ~Joined(k.ctn)
    BY <1>0, AtConnect
  <2>2. ASSUME NEW r \in PortRule
        PROVE  IsFiniteSet(Having(k2, r)') /\ nat'[r] = Cardinality(Having(k2, r)')
    <3>1. /\ nat[r] \in Nat /\ IsFiniteSet(Having(k, r)) /\ nat[r] = Cardinality(Having(k, r))
          /\ nat'[r] = IF r \in PortRules(p) THEN nat[r] + 1 ELSE nat[r]
      BY <1>0, AddDrop DEF State, Mapped
    <3>2. \A c \in Container : Has(k2, c, r)' <=> Has(k, c, r) \/ (c = k.ctn /\ r \in PortRules(p))
      BY <1>0, <1>1, PortRulesAre DEF Has, ForContainer, Doing, Follows, Joined
    <3>3. Having(k2, r)' = IF r \in PortRules(p) THEN Having(k, r) \cup {k.ctn} ELSE Having(k, r)
      BY <2>1, <3>2 DEF Having
    <3>4. k.ctn \notin Having(k, r)
      BY <1>0, <2>1 DEF Having, Has, ForContainer, Doing
    <3> QED BY <3>1, <3>3, <3>4, FS_AddElement
  <2> QED BY <2>2 DEF Mapped
<1> QED BY <1>2, <1>3 DEF State

LEMMA SerialJoin ==
  ASSUME NetInv, faults' = faults, NEW p \in Proc, NEW k, k = call[p], State(k),
         NEW k2, k2 = call'[p], setContainerNetwork(p)
  PROVE  State(k2)'
<1>0. /\ k # Idle /\ k.at = "join" /\ k.at \in ConnectLabel /\ Continue(p, "save")
      /\ UNCHANGED <<netFile, table, bridge, nat, veth, meta>>
  BY NoFault DEF setContainerNetwork, At, ConnectLabel
<1>1. Follows(k, k2, "save")
  BY <1>0, GotoFollows DEF Continue, ConnectLabel
<1>2. Found(k2)' /\ Own(k2)' /\ Holds(k2)' /\ Bridges(k2)' /\ Masqueraded(k2)'
  BY <1>0, <1>1, ConnectsOn DEF Continue, ConnectLabel
<1>3. Mapped(k2)'
  <2>1. Alike(k, k2, {"drop"}) /\ Alike(k, k2, {"join", "save"})
    BY <1>0, <1>1, FollowsAlike
  <2> QED BY <1>0, <1>1, <2>1, MappedStays DEF State, Follows
<1> QED BY <1>2, <1>3 DEF State

\* The endpoint is saved, and the command is done.
LEMMA SerialSave ==
  ASSUME NetInv, NEW p \in Proc, NEW k, k = call[p], State(k), SaveEndpoint(p)
  PROVE  call'[p] = Idle /\ State(Idle)'
<1>0. /\ k # Idle /\ k.at = "save" /\ k.at \in ConnectLabel /\ call'[p] = Idle
      /\ UNCHANGED <<netFile, table, bridge, nat, veth>>
      /\ meta' = [meta EXCEPT ![k.ctn] = [network |-> k.name, lease |-> k.lease]]
      /\ held' = [held EXCEPT ![k.ctn] = held[p], ![p] = NoLease] /\ lost' = Leaves(k.ctn)
  BY DEF SaveEndpoint, At, ConnectLabel, NetInv, TypeOK
<1>1. /\ k.ctn \in Container /\ k.ctn # Nobody /\ k.name \in Name /\ k.lease \in Lease
      /\ k.lease.subnet = k.subnet /\ held[p] = k.lease /\ ~Joined(k.ctn) /\ held[k.ctn] = NoLease
      /\ Saved(k.name) /\ netFile[k.name].subnet = k.subnet
  BY <1>0, AtConnect
<1>2. /\ \A labels, x : ~ForNetwork(Idle, x, labels) /\ ~ForContainer(Idle, x, labels)
      /\ \A labels, x : ~ForNetwork(k, x, labels)
      /\ \A labels, x : ForContainer(k, x, labels) <=> x = k.ctn /\ "save" \in labels
  BY <1>0, <1>1, MarkAssumption DEF ForNetwork, ForContainer, Doing
<1>3. /\ meta'[k.ctn].network = k.name /\ meta'[k.ctn].lease = k.lease /\ meta'[k.ctn] # NoEndpoint
      /\ \A c \in Container \ {k.ctn} : meta'[c] = meta[c]
  <2>1. [network |-> k.name, lease |-> k.lease] \in Endpoint
    BY <1>1 DEF Endpoint
  <2> QED BY <1>0, <1>1, <2>1, MarkAssumption DEF NetInv, TypeOK
<1>4. /\ held'[k.ctn] = k.lease /\ \A o \in (Name \cup Container) \ {k.ctn} : held'[o] = held[o]
      /\ lost' = lost
  <2>1. held' = [[held EXCEPT ![k.ctn] = held[p]] EXCEPT ![p] = NoLease]
    BY <1>0
  <2>2. /\ p # k.ctn /\ p \notin Name \cup Container
        /\ Name \subseteq Owner /\ Container \subseteq Owner /\ p \in Owner
    BY <1>1, Owners
  <2>3. held'[k.ctn] = k.lease /\ \A o \in (Name \cup Container) \ {k.ctn} : held'[o] = held[o]
    BY <1>1, <2>1, <2>2 DEF NetInv, TypeOK
  <2>4. lost' = lost
    BY <1>0, <1>1 DEF Leaves
  <2> QED BY <2>3, <2>4
<1>5. \A c \in Container : /\ Joined(c)' <=> Joined(c) \/ c = k.ctn
                           /\ Joined(c) => meta'[c] = meta[c] /\ c # k.ctn
  BY <1>1, <1>3 DEF Joined
<1>6. Found(Idle)'
  BY DEF Found, Creates, Deletes, Connects, Disconnects, Doing
<1>7. Own(Idle)'
  <2>1. \A c \in Container : Joined(c)' =>
          Saved(meta'[c].network) /\ netFile[meta'[c].network].subnet = meta'[c].lease.subnet
    BY <1>1, <1>3, <1>5 DEF State, Own
  <2>2. \A n : Saved(n)' <=> Saved(n)
    BY <1>0 DEF Saved
  <2>3. \A c \in Container : Joined(c)' =>
          Saved(meta[c].network)' /\ netFile'[meta'[c].network].subnet = meta'[c].lease.subnet
    BY <1>0, <2>1 DEF Saved
  <2> QED BY <1>0, <1>2, <2>2, <2>3 DEF State, Own
<1>8. Holds(Idle)'
  <2>1. \A n \in Name : held'[n] = held[n]
    BY <1>1, <1>4, OwnerAssumption
  <2>2. \A c \in Container : held'[c] = IF Joined(c)' THEN meta'[c].lease ELSE NoLease
    BY <1>2, <1>3, <1>4, <1>5 DEF State, Holds
  <2> QED BY <1>0, <1>2, <1>4, <2>1, <2>2 DEF State, Holds, Saved
<1>9. Bridges(Idle)'
  BY <1>0, <1>2 DEF State, Bridges, Saved
<1>10. Masqueraded(Idle)'
  BY <1>0, <1>2 DEF State, Masqueraded, HasRule, Saved
<1>11. Mapped(Idle)'
  <2>1. \A c \in Container, r \in PortRule : Has(Idle, c, r)' <=> Has(k, c, r)
    BY <1>2, <1>3, <1>5 DEF Has
  <2>2. \A r \in PortRule : Having(Idle, r)' = Having(k, r)
    BY <2>1 DEF Having
  <2> QED BY <1>0, <2>2 DEF State, Mapped
<1> QED BY <1>0, <1>6, <1>7, <1>8, <1>9, <1>10, <1>11 DEF State

-----------------------------------------------------------------------------
\* What is known of the container a command disconnects.
LEMMA AtLeave ==
  ASSUME NetInv, NEW p \in Proc, NEW k, k = call[p], k # Idle, k.at \in LeaveLabel, State(k)
  PROVE  /\ k.ctn \in Container /\ k.ctn # Nobody /\ k.name \in Name /\ k.subnet \in Subnet
         /\ k.lease \in Leases /\ k.lease.subnet = k.subnet /\ ~k.err
         /\ Joined(k.ctn) /\ meta[k.ctn].network = k.name /\ meta[k.ctn].lease = k.lease
         /\ Saved(k.name)
<1>1. /\ k.name \in Name /\ k.subnet \in Subnet /\ k.ctn \in Container \cup {Nobody}
  BY CallFields DEF NetInv
<1>2. k.ctn # Nobody /\ k.lease \in Leases /\ k.lease.subnet = k.subnet
  BY DEF NetInv, Commands, Busywork, LeaveLabel
<1>3. ~k.err /\ Joined(k.ctn) /\ meta[k.ctn].network = k.name /\ meta[k.ctn].lease = k.lease
  BY DEF State, Found, Disconnects, Doing
<1>4. Saved(k.name)
  BY <1>1, <1>2, <1>3 DEF State, Own
<1> QED BY <1>1, <1>2, <1>3, <1>4

\* A step of a disconnection before the endpoint is dropped.
LEMMA LeavesOn ==
  ASSUME NetInv, NEW p \in Proc, NEW k, k = call[p], k # Idle, k.at \in LeaveLabel, State(k),
         NEW k2, NEW label, Follows(k, k2, label), label \in LeaveLabel,
         UNCHANGED <<netFile, bridge, meta>>,
         \A n \in Name, s \in Subnet : nat'[Masquerade(n, s)] = nat[Masquerade(n, s)]
  PROVE  Found(k2)' /\ Own(k2)' /\ Bridges(k2)' /\ Masqueraded(k2)'
<1>1. Found(k2)'
  <2>1. Disconnects(k2)'
    BY AtLeave DEF Disconnects, Follows, Joined
  <2>2. Creates(k2)' /\ Connects(k2)' /\ Deletes(k2)'
    BY AtLeave DEF Creates, Connects, Deletes, Doing, Follows, DeleteLabel, LeaveLabel,
       CreateLabel, ConnectLabel
  <2> QED BY <2>1, <2>2 DEF Found
<1>2. \A labels \in {{"write"}, {"release", "forget", "remove"},
                     {"address", "up", "rule", "create", "write"},
                     {"unlink", "release", "forget", "remove"}, {"create", "write"}} :
        k.at \notin labels /\ label \notin labels
  BY DEF LeaveLabel
<1>3. \A labels \in {{"write"}, {"release", "forget", "remove"},
                     {"address", "up", "rule", "create", "write"},
                     {"unlink", "release", "forget", "remove"}, {"create", "write"}} :
        Alike(k, k2, labels)
  BY <1>2, FollowsAlike
<1>4. Own(k2)'
  BY <1>3, OwnStays DEF State
<1>5. Bridges(k2)'
  BY <1>3, BridgesStay DEF State
<1>6. Masqueraded(k2)'
  <2>1. ~Doing(k, {"create", "write"})
    BY <1>2 DEF Doing
  <2> QED BY <1>3, <2>1, MasqueradedStays DEF State
<1> QED BY <1>1, <1>4, <1>5, <1>6

LEMMA SerialGiveback ==
  ASSUME NetInv, Accounted, faults' = faults, NEW p \in Proc, NEW k, k = call[p], State(k),
         NEW k2, k2 = call'[p], disconnectEndpoint(p)
  PROVE  State(k2)'
<1>0. /\ k # Idle /\ k.at = "giveback" /\ k.at \in LeaveLabel
      /\ UNCHANGED <<netFile, bridge, nat, veth, meta, doomed>>
  BY DEF disconnectEndpoint, At, LeaveLabel
<1>1. /\ k.ctn \in Container /\ k.ctn # Nobody /\ k.name \in Name /\ k.subnet \in Subnet
      /\ k.lease \in Leases /\ k.lease.subnet = k.subnet
      /\ Joined(k.ctn) /\ meta[k.ctn].lease = k.lease /\ Saved(k.name)
  BY <1>0, AtLeave
<1>2. held[k.ctn] = k.lease /\ k.ctn \in Owner
  <2>1. ~ForContainer(k, k.ctn, {"unmap", "drop"})
    BY <1>0 DEF ForContainer, Doing
  <2> QED BY <1>1, <2>1 DEF State, Holds, Owner
<1>3. Known(p)
  <2>1. PICK t \in Subnet : \E i \in Indices(t) : k.lease = LeaseOf(t, i)
    BY <1>1, LeasesAreLeases
  <2>2. t = k.subnet
    BY <1>1, <2>1, LeasesAreLeases
  <2>3. PICK i \in Indices(k.subnet) : k.lease = LeaseOf(k.subnet, i)
    BY <2>1, <2>2
  <2> QED BY <1>1, <1>2, <2>3, HeldIsKnown DEF Known
<1>4. CASE call' = [call EXCEPT ![p] = Idle] /\ UNCHANGED <<table, held, lost, mishap, faults>>
  <2>1. k2 = Idle
    BY <1>4 DEF NetInv, TypeOK
  <2>2. Found(Idle)'
    BY DEF Found, Creates, Deletes, Connects, Disconnects, Doing
  <2>3. Plain(k) /\ Plain(Idle)
    BY <1>0 DEF Plain
  <2> QED BY <1>0, <1>4, <2>1, <2>2, <2>3, PlainStays DEF State
<1>5. CASE ReleaseIP(p, k.ctn) /\ Goto(p, "unmap")
  <2>1. Follows(k, k2, "unmap")
    BY <1>0, <1>5, GotoFollows DEF LeaveLabel
  <2>2. Found(k2)' /\ Own(k2)' /\ Bridges(k2)' /\ Masqueraded(k2)'
    BY <1>0, <2>1, LeavesOn DEF LeaveLabel
  <2>3. Holds(k2)'
    <3>1. /\ held'[k.ctn] = NoLease /\ \A o \in Owner \ {k.ctn} : held'[o] = held[o]
          /\ lost' = lost \ {k.lease}
      BY <1>0, <1>2, <1>5, ReleaseTypes DEF ReleaseIP
    <3>2. /\ \A c \in Container \ {k.ctn} : \A labels :
               ~ForContainer(k, c, labels) /\ ~ForContainer(k2, c, labels)
          /\ ForContainer(k2, k.ctn, {"unmap", "drop"})
      BY <2>1 DEF Follows, ForContainer, Doing
    <3>3. \A c \in Container : held'[c] =
            IF Joined(c) /\ ~ForContainer(k2, c, {"unmap", "drop"}) THEN meta[c].lease ELSE NoLease
      BY <3>1, <3>2 DEF State, Holds, Owner
    <3>4. Alike(k, k2, {"forget", "remove"})
      BY <1>0, <2>1, FollowsAlike
    <3>5. \A n \in Name : held'[n] = held[n]
      BY <1>1, <3>1, OwnerAssumption DEF Owner
    <3> QED BY <1>0, <3>1, <3>3, <3>4, <3>5 DEF State, Holds, Saved, Joined, Alike
  <2>4. Mapped(k2)'
    <3>1. Alike(k, k2, {"drop"}) /\ Alike(k, k2, {"join", "save"})
      BY <1>0, <2>1, FollowsAlike
    <3> QED BY <1>0, <2>1, <3>1, MappedStays DEF State, Follows
  <2> QED BY <2>2, <2>3, <2>4 DEF State
<1> QED BY <1>1, <1>3, <1>4, <1>5, NoFault DEF disconnectEndpoint, Saved

LEMMA SerialUnmap ==
  ASSUME NetInv, faults' = faults, NEW p \in Proc, NEW k, k = call[p], State(k),
         NEW k2, k2 = call'[p], clearPortMappingIPTables(p)
  PROVE  State(k2)'
<1>0. /\ k # Idle /\ k.at = "unmap" /\ k.at \in LeaveLabel /\ nat' = Drop(PortRules(p))
      /\ UNCHANGED <<netFile, table, bridge, veth, meta, held, lost, mishap, doomed>>
  BY NoFault DEF clearPortMappingIPTables, At, LeaveLabel
<1>1. /\ k.ctn \in Container /\ k.ctn # Nobody /\ ~k.err
      /\ Joined(k.ctn) /\ meta[k.ctn].lease = k.lease
  BY <1>0, AtLeave
<1>2. Follows(k, k2, "drop")
  <2>1. Goto(p, "drop")
    BY <1>1 DEF clearPortMappingIPTables, Goto
  <2> QED BY <1>0, <2>1, GotoFollows DEF LeaveLabel
<1>3. Found(k2)' /\ Own(k2)' /\ Bridges(k2)' /\ Masqueraded(k2)'
  BY <1>0, <1>2, AddDrop, LeavesOn DEF LeaveLabel
<1>4. Holds(k2)'
  <2>1. Alike(k, k2, {"forget", "remove"}) /\ Alike(k, k2, {"unmap", "drop"})
    BY <1>0, <1>2, FollowsAlike
  <2> QED BY <1>0, <2>1, HoldsStays DEF State
<1>5. Mapped(k2)'
  <2>1. ASSUME NEW r \in PortRule
        PROVE  IsFiniteSet(Having(k2, r)') /\ nat'[r] = Cardinality(Having(k2, r)')
    <3>1. /\ nat[r] \in Nat /\ IsFiniteSet(Having(k, r)) /\ nat[r] = Cardinality(Having(k, r))
          /\ nat'[r] = IF r \in PortRules(p) /\ nat[r] > 0 THEN nat[r] - 1 ELSE nat[r]
      BY <1>0, AddDrop DEF State, Mapped
    <3>2. \A c \in Container : Has(k2, c, r)' <=> Has(k, c, r) /\ ~(c = k.ctn /\ r \in PortRules(p))
      BY <1>0, <1>1, <1>2, PortRulesAre DEF Has, ForContainer, Doing, Follows, Joined
    <3>3. Having(k2, r)' = IF r \in PortRules(p) THEN Having(k, r) \ {k.ctn} ELSE Having(k, r)
      BY <3>2 DEF Having
    <3>4. CASE r \notin PortRules(p)
      BY <3>1, <3>3, <3>4
    <3>5. CASE r \in PortRules(p)
      <4>1. k.ctn \in Having(k, r)
        BY <1>0, <1>1, <3>5, PortRulesAre DEF Having, Has, ForContainer, Doing
      <4>2. /\ IsFiniteSet(Having(k, r) \ {k.ctn})
            /\ Cardinality(Having(k, r) \ {k.ctn}) = Cardinality(Having(k, r)) - 1
        BY <3>1, <4>1, FS_RemoveElement
      <4>3. nat[r] # 0
        BY <3>1, <4>1, FS_EmptySet
      <4>4. nat'[r] = nat[r] - 1
        BY <3>1, <3>5, <4>3
      <4> QED BY <3>1, <3>3, <3>5, <4>2, <4>4
    <3> QED BY <3>4, <3>5
  <2> QED BY <2>1 DEF Mapped
<1> QED BY <1>3, <1>4, <1>5 DEF State

\* The metadata is gone, and the command is done.
LEMMA SerialDrop ==
  ASSUME NetInv, NEW p \in Proc, NEW k, k = call[p], State(k), RemoveMetadata(p)
  PROVE  call'[p] = Idle /\ State(Idle)'
<1>0. /\ k # Idle /\ k.at = "drop" /\ k.at \in LeaveLabel /\ call'[p] = Idle
      /\ UNCHANGED <<netFile, table, bridge, nat>>
      /\ meta' = [meta EXCEPT ![k.ctn] = NoEndpoint]
      /\ held' = [held EXCEPT ![k.ctn] = NoLease] /\ lost' = Leaves(k.ctn)
  BY DEF RemoveMetadata, At, LeaveLabel, NetInv, TypeOK
<1>1. k.ctn \in Container /\ k.ctn # Nobody
  BY <1>0, AtLeave
<1>2. /\ \A labels, x : ~ForNetwork(Idle, x, labels) /\ ~ForContainer(Idle, x, labels)
      /\ \A labels, x : ~ForNetwork(k, x, labels)
      /\ \A labels, x : ForContainer(k, x, labels) <=> x = k.ctn /\ "drop" \in labels
  BY <1>0, <1>1, MarkAssumption DEF ForNetwork, ForContainer, Doing
<1>3. /\ meta'[k.ctn] = NoEndpoint /\ \A c \in Container \ {k.ctn} : meta'[c] = meta[c]
      /\ \A o \in Name \cup Container : held'[o] = held[o]
      /\ lost' = lost
  <2>1. held[k.ctn] = NoLease
    BY <1>1, <1>2 DEF State, Holds
  <2>2. Name \subseteq Owner /\ Container \subseteq Owner
    BY DEF Owner
  <2> QED BY <1>0, <1>1, <2>1, <2>2 DEF NetInv, TypeOK, Leaves
<1>4. \A c \in Container : /\ Joined(c)' <=> Joined(c) /\ c # k.ctn
                           /\ Joined(c)' => meta'[c] = meta[c]
  BY <1>3 DEF Joined
<1>5. Found(Idle)'
  BY DEF Found, Creates, Deletes, Connects, Disconnects, Doing
<1>6. Own(Idle)'
  <2>1. \A c \in Container : Joined(c)' =>
          Saved(meta'[c].network) /\ netFile[meta'[c].network].subnet = meta'[c].lease.subnet
    BY <1>4 DEF State, Own
  <2>2. \A n : Saved(n)' <=> Saved(n)
    BY <1>0 DEF Saved
  <2>3. \A c \in Container : Joined(c)' =>
          Saved(meta[c].network)' /\ netFile'[meta'[c].network].subnet = meta'[c].lease.subnet
    BY <1>0, <2>1 DEF Saved
  <2> QED BY <1>0, <1>2, <2>2, <2>3 DEF State, Own
<1>7. Holds(Idle)'
  <2>1. \A c \in Container : held'[c] = IF Joined(c)' THEN meta'[c].lease ELSE NoLease
    BY <1>2, <1>3, <1>4 DEF State, Holds
  <2> QED BY <1>0, <1>2, <1>3, <2>1 DEF State, Holds, Saved
<1>8. Bridges(Idle)'
  BY <1>0, <1>2 DEF State, Bridges, Saved
<1>9. Masqueraded(Idle)'
  BY <1>0, <1>2 DEF State, Masqueraded, HasRule, Saved
<1>10. Mapped(Idle)'
  <2>1. \A c \in Container, r \in PortRule : Has(Idle, c, r)' <=> Has(k, c, r)
    BY <1>2, <1>3, <1>4 DEF Has
  <2>2. \A r \in PortRule : Having(Idle, r)' = Having(k, r)
    BY <2>1 DEF Having
  <2> QED BY <1>0, <2>2 DEF State, Mapped
<1> QED BY <1>0, <1>5, <1>6, <1>7, <1>8, <1>9, <1>10 DEF State

-----------------------------------------------------------------------------
\* A command begins on what the last one left.
LEMMA SerialBegin ==
  ASSUME NetInv, State(Idle), NEW p \in Proc, CarefulBegin(p), NEW k2, k2 = call'[p]
  PROVE  State(k2)'
<1>1. /\ \A n \in Name : ~Saved(n) => netFile[n] = Absent
      /\ \A c \in Container : Joined(c) => Saved(meta[c].network)
      /\ \A c \in Container : Joined(c) =>
           netFile[meta[c].network].subnet = meta[c].lease.subnet
  BY DEF State, Own, ForNetwork, Doing
<1>a. ASSUME UNCHANGED <<hostVars, held, lost>>, Plain(k2), Found(k2)'
      PROVE  State(k2)'
  <2>1. Plain(Idle)
    BY DEF Plain
  <2> QED BY <1>a, <2>1, PlainStays DEF hostVars, State
<1>2. ASSUME NEW n \in Name, NEW s \in Subnet, \A m \in Name : netFile[m] \in Lease => netFile[m].subnet # s,
             CreateNetwork(p, n, s)
      PROVE  State(k2)'
  <2>1. k2 = [at |-> "allocate", name |-> n, subnet |-> s, lease |-> NoLease, ctn |-> Nobody, err |-> FALSE]
    BY <1>2 DEF CreateNetwork, NetInv, TypeOK
  <2>2. k2.at = "allocate" /\ k2.name = n /\ k2.subnet = s /\ k2.ctn = Nobody
    BY <2>1
  <2>3. UNCHANGED <<hostVars, held, lost>> /\ netFile' = netFile /\ netFile[n] = Absent
    BY <1>1, <1>2 DEF CreateNetwork, hostVars, Saved
  <2>4. Found(k2)'
    <3>1. Creates(k2)'
      BY <1>2, <2>2, <2>3 DEF Creates, Saved
    <3>2. Deletes(k2)' /\ Connects(k2)' /\ Disconnects(k2)'
      BY <2>2 DEF Deletes, Connects, Disconnects, Doing, DeleteLabel, LeaveLabel
    <3> QED BY <3>1, <3>2 DEF Found
  <2> QED BY <1>a, <2>2, <2>3, <2>4 DEF Plain
<1>3. ASSUME NEW n \in Name, \A c \in Container : meta[c] # NoEndpoint => meta[c].network # n,
             DeleteNetwork(p, n)
      PROVE  State(k2)'
  <2>1. k2 = [at |-> "unrule", name |-> n, subnet |-> netFile[n].subnet, lease |-> netFile[n],
              ctn |-> Nobody, err |-> FALSE]
    BY <1>3 DEF DeleteNetwork, NetInv, TypeOK
  <2>2. k2.at = "unrule" /\ k2.name = n /\ k2.lease = netFile[n] /\ k2.ctn = Nobody
    BY <2>1
  <2>3. UNCHANGED <<hostVars, held, lost>> /\ netFile' = netFile /\ meta' = meta
    BY <1>3 DEF DeleteNetwork, hostVars
  <2>4. Found(k2)'
    <3>1. Deletes(k2)'
      BY <1>3, <2>2, <2>3 DEF Deletes, Joined
    <3>2. Creates(k2)' /\ Connects(k2)' /\ Disconnects(k2)'
      BY <2>2 DEF Creates, Connects, Disconnects, Doing, CreateLabel, ConnectLabel, LeaveLabel
    <3> QED BY <3>1, <3>2 DEF Found
  <2> QED BY <1>a, <2>2, <2>3, <2>4 DEF Plain
<1>4. ASSUME NEW c \in Container, NEW n \in Name, Connect(p, c, n)
      PROVE  State(k2)'
  <2>1. k2 = [at |-> "allocate", name |-> n, subnet |-> netFile[n].subnet, lease |-> NoLease,
              ctn |-> c, err |-> FALSE]
    BY <1>4 DEF Connect, NetInv, TypeOK
  <2>2. k2.at = "allocate" /\ k2.name = n /\ k2.subnet = netFile[n].subnet /\ k2.ctn = c
    BY <2>1
  <2>3. /\ UNCHANGED <<hostVars, held, lost>> /\ netFile' = netFile /\ meta' = meta
        /\ c # Nobody /\ ~Joined(c) /\ Saved(n)
    BY <1>4, MarkAssumption DEF Connect, hostVars, Joined, Saved
  <2>4. Found(k2)'
    <3>1. Connects(k2)'
      BY <2>2, <2>3 DEF Connects, Joined, Saved
    <3>2. Creates(k2)' /\ Deletes(k2)' /\ Disconnects(k2)'
      BY <2>2, <2>3 DEF Creates, Deletes, Disconnects, Doing, DeleteLabel, LeaveLabel
    <3> QED BY <3>1, <3>2 DEF Found
  <2> QED BY <1>a, <2>2, <2>3, <2>4 DEF Plain
<1>5. ASSUME NEW c \in Container, Disconnect(p, c)
      PROVE  State(k2)'
  <2>1. k2 = [at |-> "giveback", name |-> meta[c].network, subnet |-> meta[c].lease.subnet,
              lease |-> meta[c].lease, ctn |-> c, err |-> FALSE]
    BY <1>5 DEF Disconnect, NetInv, TypeOK
  <2>2. /\ k2.at = "giveback" /\ k2.name = meta[c].network /\ k2.lease = meta[c].lease
        /\ k2.ctn = c /\ k2.err = FALSE
    BY <2>1
  <2>3. UNCHANGED <<hostVars, held, lost>> /\ meta' = meta /\ Joined(c)
    BY <1>5 DEF Disconnect, hostVars, Joined
  <2>4. Found(k2)'
    <3>1. Disconnects(k2)'
      BY <2>2, <2>3 DEF Disconnects, Joined
    <3>2. Creates(k2)' /\ Deletes(k2)' /\ Connects(k2)'
      BY <2>2 DEF Creates, Deletes, Connects, Doing, CreateLabel, DeleteLabel, ConnectLabel
    <3> QED BY <3>1, <3>2 DEF Found
  <2> QED BY <1>a, <2>2, <2>3, <2>4 DEF Plain
<1> QED BY <1>2, <1>3, <1>4, <1>5 DEF CarefulBegin

LEMMA SerialStep ==
  ASSUME NetInv, Accounted, AtATime, GatewayReturns, faults' = faults,
         NEW p \in Proc, NEW k, k = call[p], State(k), Step(p), NEW k2, k2 = call'[p]
  PROVE  State(k2)'
<1>1. CASE CreateStep(p)
  <2>1. ~WriteUnlinked(p)
    BY AtCreate DEF WriteUnlinked, At, CreateLabel
  <2> QED BY <1>1, <2>1, SerialBridge, SerialUp, SerialRule, SerialFile, SerialWrite DEF CreateStep
<1>2. CASE DeleteStep(p)
  BY <1>2, SerialUnrule, SerialUnlink, SerialGateway, SerialForget, SerialRemove DEF DeleteStep
<1>3. CASE ConnectStep(p)
  <2>1. ~RollbackIP(p)
    BY AtConnect DEF RollbackIP, At, ConnectLabel
  <2> QED BY <1>3, <2>1, SerialPlug, SerialPorts, SerialJoin, SerialSave DEF ConnectStep
<1>4. CASE DisconnectStep(p)
  BY <1>4, SerialGiveback, SerialUnmap, SerialDrop DEF DisconnectStep
<1> QED BY <1>1, <1>2, <1>3, <1>4, SerialAllocate DEF Step

\* What is released is one's own, and a subnet goes when nobody has an address of it.
LEMMA SerialHarmless ==
  ASSUME NetInv, Accounted, AtATime, NEW p \in Proc, call[p] # Idle => State(call[p])
  PROVE  Harmless(p)
<1>1. ASSUME NEW k, k = call[p], k # Idle, NEW o \in Owner,
             \/ k.at = "release" /\ o = k.name
             \/ k.at = "rollback" /\ o = p
             \/ k.at = "giveback" /\ o = k.ctn
      PROVE  \A q \in Owner \ {o} : held[q] # k.lease
  <2>0. State(k)
    BY <1>1
  <2>1. CASE k.at = "release" /\ o = k.name
    <3>1. k.at \in DeleteLabel
      BY <2>1 DEF DeleteLabel
    <3>2. k.name \in Name /\ Saved(k.name) /\ netFile[k.name] = k.lease /\ k.lease \in Lease
      BY <1>1, <2>0, <3>1, AtDelete
    <3>3. held[o] = k.lease /\ k.lease # NoLease
      BY <2>0, <2>1, <3>2, MarkAssumption DEF State, Holds, ForNetwork, Doing
    <3> QED BY <3>3 DEF Accounted
  <2>2. CASE k.at = "rollback"
    BY <1>1, <2>0, <2>2, AtConnect DEF ConnectLabel
  <2>3. CASE k.at = "giveback" /\ o = k.ctn
    <3>1. k.at \in LeaveLabel
      BY <2>3 DEF LeaveLabel
    <3>2. k.ctn \in Container /\ Joined(k.ctn) /\ meta[k.ctn].lease = k.lease /\ k.lease \in Leases
      BY <1>1, <2>0, <3>1, AtLeave
    <3>3. held[o] = k.lease /\ k.lease # NoLease
      BY <2>0, <2>3, <3>2, LeasesAreLeases DEF State, Holds, ForContainer, Doing
    <3> QED BY <3>3 DEF Accounted
  <2> QED BY <1>1, <2>1, <2>2, <2>3
<1>2. ASSUME RemoveSubnet(p)
      PROVE  \A o \in Owner : held[o] # NoLease => held[o].subnet # call[p].subnet
  <2>1. PICK k : k = call[p]
    OBVIOUS
  <2>2. PICK k2 : k2 = call'[p]
    OBVIOUS
  <2>3. State(k)
    BY <1>2, <2>1 DEF RemoveSubnet, At
  <2> QED BY <1>2, <2>1, <2>2, <2>3, SerialForget
<1>3. PICK k : k = call[p]
  OBVIOUS
<1>4. \A o \in Owner :
        /\ \/ At(p, "release") /\ o = call[p].name
           \/ At(p, "rollback") /\ o = p
           \/ At(p, "giveback") /\ o = call[p].ctn
        /\ ReleaseIP(p, o)
        => \A q \in Owner \ {o} : held[q] # call[p].lease
  BY <1>1, <1>3 DEF At
<1> QED BY <1>2, <1>4 DEF Harmless

LEMMA NextSerial == SerialInv /\ [SerialNext]_vars => SerialInv'
<1> SUFFICES ASSUME SerialInv, [SerialNext]_vars PROVE SerialInv'
  OBVIOUS
<1>0. NetInv /\ Accounted /\ AtATime /\ GatewayReturns
  BY DEF SerialInv
<1>1. [Next]_vars
  BY DEF SerialNext, Careful, CarefulBegin, Next, Begin
<1>2. NetInv'
  BY <1>0, <1>1, NextNetInv
<1>3. Accounted'
  <2>1. \A p \in Proc : Harmless(p)
    BY <1>0, SerialHarmless DEF SerialInv
  <2> QED BY <1>0, <1>1, <2>1, NextAccounted
<1>4. ASSUME NEW p \in Proc, (AllIdle /\ CarefulBegin(p)) \/ Step(p), faults' = faults
      PROVE  SerialInv'
  <2>1. \A q \in Proc \ {p} : call[q] = Idle /\ call'[q] = Idle
    <3>1. CASE AllIdle /\ CarefulBegin(p)
      BY <1>0, <3>1, BeginsWith DEF AllIdle, CarefulBegin, Begin
    <3>2. CASE Step(p)
      <4>1. /\ call[p] # Idle
            /\ \A q \in Proc \ {p} : call'[q] = call[q] \/ SameCall(q)
        BY <1>0, <3>2, CallsStay DEF Works
      <4> QED BY <1>0, <4>1 DEF AtATime, SameCall
    <3> QED BY <1>4, <3>1, <3>2
  <2>2. PICK k : k = call[p]
    OBVIOUS
  <2>3. PICK k2 : k2 = call'[p]
    OBVIOUS
  <2>4. State(k2)'
    <3>1. CASE AllIdle /\ CarefulBegin(p)
      BY <1>0, <2>3, <3>1, SerialBegin DEF SerialInv
    <3>2. CASE Step(p)
      <4>1. call[p] # Idle
        BY <1>0, <3>2, CallsStay DEF Works
      <4>2. State(k)
        BY <2>2, <4>1 DEF SerialInv
      <4> QED BY <1>0, <1>4, <2>2, <2>3, <3>2, <4>2, SerialStep
    <3> QED BY <1>4, <3>1, <3>2
  <2>5. AtATime'
    BY <2>1 DEF AtATime
  <2>6. AllIdle' => State(Idle)'
    <3>1. AllIdle' => k2 = Idle
      BY <2>3 DEF AllIdle
    <3> QED BY <2>4, <3>1
  <2>7. \A q \in Proc : call'[q] # Idle => q = p
    BY <2>1
  <2>8. \A q \in Proc : call'[q] # Idle => State(call[q])'
    BY <2>3, <2>4, <2>7
  <2> QED BY <1>0, <1>2, <1>3, <2>5, <2>6, <2>8 DEF SerialInv, GatewayReturns
<1>5. CASE UNCHANGED vars
  <2>1. \A k : State(k)' <=> State(k)
    BY <1>5 DEF vars, State, Found, Creates, Deletes, Connects, Disconnects, Own, Holds, Bridges,
       Masqueraded, HasRule, Mapped, Having, Has, Saved, Joined
  <2>2. AtATime' /\ (AllIdle' <=> AllIdle)
    BY <1>0, <1>5 DEF vars, AtATime, AllIdle
  <2>3. \A p \in Proc : call'[p] # Idle => State(call[p])'
    BY <1>5, <2>1 DEF vars, SerialInv
  <2> QED BY <1>0, <1>2, <1>3, <2>1, <2>2, <2>3 DEF SerialInv, GatewayReturns
<1> QED BY <1>4, <1>5 DEF SerialNext, Careful

-----------------------------------------------------------------------------
(***************************************************************************)
(* One command at a time, none of which fails, leaves nothing behind: when *)
(* no command is at work the bridges, the rules, each as often as needed,  *)
(* and the addresses are those of the networks and endpoints that are      *)
(* saved (network.go, driver.go).  The address of a gateway must be one    *)
(* that can be given back: without it, in a subnet of the single address   *)
(* x.y.z.255, Release panics after the bridge and its rule are gone.       *)
(***************************************************************************)
THEOREM NothingLeft == GatewayReturns /\ SerialSpec => []CleanWhenIdle
<1>1. GatewayReturns /\ Init => SerialInv
  <2> SUFFICES ASSUME GatewayReturns, Init PROVE SerialInv
    OBVIOUS
  <2>1. /\ \A p \in Proc : call[p] = Idle
        /\ \A n \in Name : netFile[n] = Absent /\ bridge[n] = NoBridge /\ ~Saved(n)
        /\ \A c \in Container : ~Joined(c)
        /\ \A o \in Owner : held[o] = NoLease
        /\ lost = {} /\ \A r \in Rule : nat[r] = 0
    BY MarkAssumption DEF Init, Saved, Joined
  <2>2. Accounted
    <3>1. \A s \in Subnet : Bitmap(table, s) = {}
      BY DEF Init, Bitmap, NoSubnets
    <3>2. \A s \in Subnet : \A i \in Indices(s) : LeaseOf(s, i) # NoLease
      BY AddressIsIP, MarkAssumption
    <3> QED BY <2>1, <3>1, <3>2 DEF Accounted
  <2>3. State(Idle)
    <3>1. \A labels, x : ~ForNetwork(Idle, x, labels) /\ ~ForContainer(Idle, x, labels)
      BY DEF ForNetwork, ForContainer, Doing
    <3>2. Found(Idle)
      BY DEF Found, Creates, Deletes, Connects, Disconnects, Doing
    <3>3. Own(Idle) /\ Bridges(Idle)
      BY <2>1, <3>1 DEF Own, Bridges
    <3>4. Holds(Idle)
      BY <2>1 DEF Holds, Owner
    <3>5. Masqueraded(Idle)
      BY <2>1, <3>1, MasqueradeIsRule DEF Masqueraded, HasRule
    <3>6. Mapped(Idle)
      <4>1. \A r \in PortRule : Having(Idle, r) = {}
        BY <2>1, <3>1 DEF Having, Has
      <4> QED BY <2>1, <4>1, RulesApart, FS_EmptySet DEF Mapped
    <3> QED BY <3>2, <3>3, <3>4, <3>5, <3>6 DEF State
  <2> QED BY <2>1, <2>2, <2>3, InitNetInv DEF SerialInv, AtATime
<1>2. SerialInv => CleanWhenIdle
  <2> SUFFICES ASSUME SerialInv, AllIdle PROVE CleanWhenIdle
    BY DEF CleanWhenIdle
  <2>1. /\ \A labels, x : ~ForNetwork(Idle, x, labels) /\ ~ForContainer(Idle, x, labels)
        /\ State(Idle) /\ NetInv /\ Accounted
        /\ \A p \in Proc : held[p] = NoLease
    BY DEF SerialInv, ForNetwork, ForContainer, Doing, AllIdle, NetInv, Commands
  <2>2. \A n \in Name : bridge[n] # NoBridge <=> netFile[n] \in Lease
    BY <2>1 DEF State, Bridges, Saved
  <2>3. \A n \in Name, s \in Subnet : nat[Masquerade(n, s)] =
          IF netFile[n] \in Lease /\ netFile[n].subnet = s THEN 1 ELSE 0
    BY <2>1 DEF State, Masqueraded, HasRule, Saved
  <2>4. ASSUME NEW r \in {r \in Rule : "port" \in DOMAIN r}
        PROVE  nat[r] = Cardinality({c \in Container : /\ meta[c] # NoEndpoint
                                                       /\ r.port \in PortMappings[c]
                                                       /\ r.to = meta[c].lease.ip})
    <3>1. r \in PortRule
      <4>1. r \in [port : Port, to : {l.ip : l \in Leases}]
        BY <2>4 DEF Rule
      <4>2. PICK port \in Port, l \in Leases : r = [port |-> port, to |-> l.ip]
        BY <4>1
      <4> QED BY <4>2 DEF PortRule, DNAT
    <3>2. Having(Idle, r) = {c \in Container : /\ meta[c] # NoEndpoint
                                               /\ r.port \in PortMappings[c]
                                               /\ r.to = meta[c].lease.ip}
      BY <2>1 DEF Having, Has, Joined
    <3> QED BY <2>1, <3>1, <3>2 DEF State, Mapped
  <2>5. ASSUME NEW s \in Subnet
        PROVE  Bitmap(table, s) =
                 {i \in Indices(s) : \/ \E n \in Name : netFile[n] = LeaseOf(s, i)
                                     \/ \E c \in Container : /\ meta[c] # NoEndpoint
                                                            /\ meta[c].lease = LeaseOf(s, i)}
    <3>1. \A i \in Indices(s) : LeaseOf(s, i) \in Lease /\ LeaseOf(s, i) # NoLease
      BY AddressIsIP, MarkAssumption
    <3>2. /\ lost = {}
          /\ \A n \in Name : held[n] = IF netFile[n] \in Lease THEN netFile[n] ELSE NoLease
          /\ \A c \in Container : held[c] = IF meta[c] # NoEndpoint THEN meta[c].lease ELSE NoLease
      BY <2>1 DEF State, Holds, Saved, Joined
    <3>3. \A i \in Indices(s) : LeaseOf(s, i) \in lost \cup {held[o] : o \in Owner} <=>
            \/ \E n \in Name : netFile[n] = LeaseOf(s, i)
            \/ \E c \in Container : meta[c] # NoEndpoint /\ meta[c].lease = LeaseOf(s, i)
      BY <2>1, <3>1, <3>2 DEF Owner
    <3> QED BY <2>1, <3>3 DEF Accounted
  <2> QED BY <2>2, <2>3, <2>4, <2>5 DEF CleanWhenIdle
<1> QED BY <1>1, <1>2, NextSerial, PTL DEF SerialSpec
=============================================================================

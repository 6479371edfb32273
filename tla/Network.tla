------------------------------ MODULE Network ------------------------------
(***************************************************************************)
(* The network commands of pkg/network/network.go with the bridge driver   *)
(* of driver.go and the interface helpers of pkg/util/network.go: create   *)
(* and delete a network, connect and disconnect a container.  A command is *)
(* a process; one step of it is one thing it does to the world: a file of  *)
(* DefaultNetworkDir, the address table, a bridge, the nat table of        *)
(* iptables, the metadata of a container.  Commands interleave between     *)
(* their steps.  The inside of one call of the address manager is Ipam's.  *)
(***************************************************************************)
EXTENDS SubnetTable, FiniteSets

CONSTANTS
  Name,         \* names of networks, and of their bridges
  Container,
  Proc,         \* commands that run at the same time
  Port,         \* host ports
  PortMappings, \* the host ports of each container
  MaxRules,     \* bound: copies of one iptables rule
  MaxFaults,    \* bound: failed external calls and killed commands
  Absent, Empty, Torn,   \* a network file that is not there, truncated, or not JSON
  NoLease, NoBridge, NoEndpoint, Nobody, Idle

VARIABLES
  netFile,  \* the files of DefaultNetworkDir
  table,    \* the bitmaps of the address manager
  bridge,   \* the bridges of the host, with their addresses
  nat,      \* how often a rule is in the nat table
  veth,     \* the bridge the interface of a container is plugged into
  meta,     \* the endpoint in the saved metadata of a container
  call,     \* what each command is doing
  held,     \* whose every address is: history
  lost,     \* addresses nobody can give back any more: history
  mishap,   \* an address in use was released, or an endpoint twice: history
  doomed,   \* networks and containers somebody began to delete: history
  refused,  \* port rules iptables refused for a container that was connected all the same: history
  faults    \* how many calls failed and commands were killed

hostVars  == <<netFile, table, bridge, nat, veth, meta>>
vars == <<netFile, table, bridge, nat, veth, meta,
          call, held, lost, mishap, doomed, refused, faults>>

-----------------------------------------------------------------------------
Leases == UNION {{LeaseOf(s, i) : i \in Indices(s)} : s \in Subnet}

\* The rules my-runc adds: MASQUERADE for a bridge, DNAT for a host port.
Masquerade(n, s) == [name |-> n, subnet |-> s]
DNAT(port, lease) == [port |-> port, to |-> lease.ip]
Rule == [name : Name, subnet : Subnet] \cup [port : Port, to : {l.ip : l \in Leases}]

Endpoint == [network : Name, lease : Lease]
Bridge   == [addrs : SUBSET Leases, up : BOOLEAN]
Owner    == Proc \cup Name \cup Container

CreateLabel  == {"bridge", "address", "up", "rule", "create", "write", "unlinked"}
DeleteLabel  == {"unrule", "unlink", "release", "forget", "remove"}
ConnectLabel == {"veth", "rollback", "ports", "join", "save"}
LeaveLabel   == {"giveback", "unmap", "drop"}

Call == [at : {"allocate"} \cup CreateLabel \cup DeleteLabel \cup ConnectLabel \cup LeaveLabel,
         name : Name, subnet : Subnet, lease : Lease \cup {NoLease},
         ctn : Container \cup {Nobody}, err : BOOLEAN]

ASSUME PortAssumption == PortMappings \in [Container -> SUBSET Port]
ASSUME MarkAssumption ==
  /\ {Absent, Empty, Torn, NoLease} \cap Lease = {}
  /\ NoBridge \notin Bridge \cup Name /\ NoEndpoint \notin Endpoint
  /\ Idle \notin Call /\ Nobody \notin Name \cup Container
ASSUME OwnerAssumption ==
  Proc \cap Name = {} /\ Proc \cap Container = {} /\ Name \cap Container = {}
ASSUME BoundAssumption == MaxRules \in Nat /\ MaxFaults \in Nat

TypeOK ==
  /\ netFile \in [Name -> Lease \cup {Absent, Empty, Torn}]
  /\ table \in Table
  /\ bridge \in [Name -> Bridge \cup {NoBridge}]
  /\ nat \in [Rule -> 0..MaxRules]
  /\ veth \in [Container -> Name \cup {NoBridge}]
  /\ meta \in [Container -> Endpoint \cup {NoEndpoint}]
  /\ call \in [Proc -> Call \cup {Idle}]
  /\ held \in [Owner -> Lease \cup {NoLease}]
  /\ lost \subseteq Lease
  /\ mishap \in BOOLEAN
  /\ doomed \subseteq Name \cup Container
  /\ refused \subseteq Rule
  /\ faults \in 0..MaxFaults

Init ==
  /\ netFile = [n \in Name |-> Absent]
  /\ table = NoSubnets
  /\ bridge = [n \in Name |-> NoBridge]
  /\ nat = [r \in Rule |-> 0]
  /\ veth = [c \in Container |-> NoBridge]
  /\ meta = [c \in Container |-> NoEndpoint]
  /\ call = [p \in Proc |-> Idle]
  /\ held = [o \in Owner |-> NoLease]
  /\ lost = {}
  /\ mishap = FALSE
  /\ doomed = {}
  /\ refused = {}
  /\ faults = 0

-----------------------------------------------------------------------------
At(p, label) == call[p] # Idle /\ call[p].at = label
Goto(p, label) == call' = [call EXCEPT ![p].at = label]

\* Owner o has an address no longer, and nobody releases it.
Leaves(o) == lost \cup ({held[o]} \ {NoLease})

(***************************************************************************)
(* The command returns, with an error or without; an address it allocated  *)
(* and did not store or release stays marked for good.                     *)
(***************************************************************************)
Return(p) ==
  /\ call' = [call EXCEPT ![p] = Idle]
  /\ held' = [held EXCEPT ![p] = NoLease]
  /\ lost' = Leaves(p)
  /\ UNCHANGED <<mishap, refused, doomed>>

Fault == faults < MaxFaults /\ faults' = faults + 1

(***************************************************************************)
(* The command is killed, or an external call of its next step fails and   *)
(* the error is returned: either way nothing else happens.  The steps that *)
(* do more about an error say so themselves.                               *)
(***************************************************************************)
Quit(p) ==
  /\ call[p] # Idle
  /\ Fault /\ Return(p)
  /\ UNCHANGED hostVars

\* The step meets something that is not there: the command returns the error.
Error(p) == Return(p) /\ UNCHANGED <<hostVars, faults>>

\* The step is done and the command goes on.
Continue(p, label) == Goto(p, label) /\ UNCHANGED <<held, lost, mishap, refused, doomed, faults>>

-----------------------------------------------------------------------------
\* driver.CreateNetwork and Connect: ipam.Allocate.
AllocateIP(p) ==
  /\ At(p, "allocate")
  /\ LET s == call[p].subnet
         free == FreeIn(table, s)
     IN  \/ free = {} /\ Error(p)
         \/ \E idx \in free :
              /\ \A j \in free : idx <= j
              /\ table' = Set(table, s, Mark(Bitmap(table, s), idx))
              /\ held' = [held EXCEPT ![p] = LeaseOf(s, idx)]
              /\ call' = [call EXCEPT ![p].lease = LeaseOf(s, idx),
                            ![p].at = IF call[p].ctn = Nobody THEN "bridge" ELSE "veth"]
              /\ UNCHANGED <<netFile, bridge, nat, veth, meta, lost, mishap, refused, doomed, faults>>

(***************************************************************************)
(* ipam.Release of the lease the command is busy with, for owner o.  It is *)
(* a mishap when the address is somebody else's by now.                    *)
(***************************************************************************)
Known(p) == call[p].subnet \in DOMAIN table
Panics(p) == Known(p) /\ Index(call[p].subnet, call[p].lease.ip) \notin Indices(call[p].subnet)

ReleaseIP(p, o) ==
  LET s == call[p].subnet IN
  /\ Known(p) /\ ~Panics(p)
  /\ table' = Set(table, s, Clear(table[s], Index(s, call[p].lease.ip)))
  /\ mishap' = (mishap \/ \E q \in Owner \ {o} : held[q] = call[p].lease)
  /\ held' = [held EXCEPT ![o] = IF @ = call[p].lease THEN NoLease ELSE @]
  /\ lost' = lost \ {call[p].lease}
  /\ UNCHANGED refused

-----------------------------------------------------------------------------
(***************************************************************************)
(* CreateNetwork.  An error of readNetwork counts as "no such network".    *)
(***************************************************************************)
CreateNetwork(p, n, s) ==
  /\ call[p] = Idle
  /\ netFile[n] \notin Lease
  /\ call' = [call EXCEPT ![p] = [at |-> "allocate", name |-> n, subnet |-> s,
                                  lease |-> NoLease, ctn |-> Nobody, err |-> FALSE]]
  /\ UNCHANGED <<hostVars, held, lost, mishap, refused, doomed, faults>>

EnsureBridgeInterface(p) ==
  /\ At(p, "bridge")
  /\ bridge' = [bridge EXCEPT ![call[p].name] =
                  IF @ = NoBridge THEN [addrs |-> {}, up |-> FALSE] ELSE @]
  /\ Continue(p, "address")
  /\ UNCHANGED <<netFile, table, nat, veth, meta>>

\* Mutant: an interface that has an address is taken to have this one.
SetInterfaceIPOnce(p) ==
  /\ At(p, "address")
  /\ LET n == call[p].name IN
     /\ bridge[n] # NoBridge
     /\ bridge' = [bridge EXCEPT ![n].addrs = IF @ = {} THEN {call[p].lease} ELSE @]
  /\ Continue(p, "up")
  /\ UNCHANGED <<netFile, table, nat, veth, meta>>

SetInterfaceIP(p) ==
  /\ At(p, "address")
  /\ LET n == call[p].name IN
     \/ bridge[n] = NoBridge /\ Error(p)
     \/ /\ bridge[n] # NoBridge
        /\ bridge' = [bridge EXCEPT ![n].addrs = @ \cup {call[p].lease}]
        /\ Continue(p, "up")
        /\ UNCHANGED <<netFile, table, nat, veth, meta>>

SetInterfaceUp(p) ==
  /\ At(p, "up")
  /\ LET n == call[p].name IN
     \/ bridge[n] = NoBridge /\ Error(p)
     \/ /\ bridge[n] # NoBridge
        /\ bridge' = [bridge EXCEPT ![n].up = TRUE]
        /\ Continue(p, "rule")
        /\ UNCHANGED <<netFile, table, nat, veth, meta>>

\* iptables -A appends a rule whether it is there or not.
setInterfaceIPTables(p) ==
  /\ At(p, "rule")
  /\ LET r == Masquerade(call[p].name, call[p].subnet) IN
     /\ nat[r] < MaxRules
     /\ nat' = [nat EXCEPT ![r] = @ + 1]
  /\ Continue(p, "create")
  /\ UNCHANGED <<netFile, table, bridge, veth, meta>>

\* saveNetwork: os.Create truncates; what another command had saved is gone.
CreateFile(p) ==
  /\ At(p, "create")
  /\ LET n == call[p].name IN
     /\ netFile' = [netFile EXCEPT ![n] = Empty]
     /\ held' = [held EXCEPT ![n] = NoLease]
     /\ lost' = Leaves(n)
  /\ Goto(p, "write")
  /\ UNCHANGED <<table, bridge, nat, veth, meta, mishap, refused, doomed, faults>>

(***************************************************************************)
(* saveNetwork: file.Write over what another command wrote meanwhile may   *)
(* leave the tail of it; into a file removed meanwhile it leaves nothing.  *)
(***************************************************************************)
WriteFile(p) ==
  LET n == call[p].name IN
  /\ At(p, "write")
  /\ call' = [call EXCEPT ![p] = Idle]
  /\ \/ /\ netFile' = [netFile EXCEPT ![n] = call[p].lease]
        /\ held' = [held EXCEPT ![n] = held[p], ![p] = NoLease]
        /\ lost' = Leaves(n)
     \/ /\ netFile[n] # Empty
        /\ netFile' = [netFile EXCEPT ![n] = Torn]
        /\ held' = [held EXCEPT ![n] = NoLease, ![p] = NoLease]
        /\ lost' = Leaves(n) \cup Leaves(p)
  /\ UNCHANGED <<table, bridge, nat, veth, meta, mishap, refused, doomed, faults>>

WriteUnlinked(p) == At(p, "unlinked") /\ Error(p)

-----------------------------------------------------------------------------
DeleteNetwork(p, n) ==
  /\ call[p] = Idle
  /\ netFile[n] \in Lease
  /\ call' = [call EXCEPT ![p] = [at |-> "unrule", name |-> n, subnet |-> netFile[n].subnet,
                                  lease |-> netFile[n], ctn |-> Nobody, err |-> FALSE]]
  /\ doomed' = doomed \cup {n}
  /\ UNCHANGED <<hostVars, held, lost, mishap, refused, faults>>

\* Mutant: a rule that is not there is no error.
clearInterfaceIPTablesIfThere(p) ==
  /\ At(p, "unrule")
  /\ LET r == Masquerade(call[p].name, call[p].subnet) IN
     nat' = [nat EXCEPT ![r] = IF @ > 0 THEN @ - 1 ELSE 0]
  /\ Continue(p, "unlink")
  /\ UNCHANGED <<netFile, table, bridge, veth, meta>>

\* iptables -D takes away one copy of the rule, and fails if there is none.
clearInterfaceIPTables(p) ==
  /\ At(p, "unrule")
  /\ LET r == Masquerade(call[p].name, call[p].subnet) IN
     \/ nat[r] = 0 /\ Error(p)
     \/ /\ nat[r] > 0
        /\ nat' = [nat EXCEPT ![r] = @ - 1]
        /\ Continue(p, "unlink")
        /\ UNCHANGED <<netFile, table, bridge, veth, meta>>

DeleteInterface(p) ==
  /\ At(p, "unlink")
  /\ LET n == call[p].name IN
     \/ bridge[n] = NoBridge /\ Error(p)
     \/ /\ bridge[n] # NoBridge
        /\ bridge' = [bridge EXCEPT ![n] = NoBridge]
        /\ veth' = [c \in Container |-> IF veth[c] = n THEN NoBridge ELSE veth[c]]
        /\ Continue(p, "release")
        /\ UNCHANGED <<netFile, table, nat, meta>>

ReleaseGateway(p) ==
  /\ At(p, "release")
  /\ \/ (~Known(p) \/ Panics(p)) /\ Error(p)
     \/ /\ ReleaseIP(p, call[p].name)
        /\ Goto(p, "forget")
        /\ UNCHANGED <<netFile, bridge, nat, veth, meta, doomed, faults>>

\* ipam.Remove: the bitmap goes, whoever has addresses in it.
RemoveSubnet(p) ==
  LET s == call[p].subnet IN
  /\ At(p, "forget")
  /\ table' = Delete(table, s)
  /\ mishap' = (mishap \/ \E o \in Owner : held[o] # NoLease /\ held[o].subnet = s)
  /\ lost' = {l \in lost : l.subnet # s}
  /\ Goto(p, "remove")
  /\ UNCHANGED <<netFile, bridge, nat, veth, meta, held, doomed, refused, faults>>

Busy(q, o) == call[q] # Idle /\ o \in {call[q].name, call[q].ctn}

\* Somebody else works with network n, or has an endpoint in it.
InUse(p, n) ==
  \/ \E q \in Proc \ {p} : Busy(q, n)
  \/ \E c \in Container : meta[c] # NoEndpoint /\ meta[c].network = n

removeNetwork(p) ==
  LET n == call[p].name IN
  /\ At(p, "remove")
  /\ netFile' = [netFile EXCEPT ![n] = Absent]
  /\ call' = [q \in Proc |->
                IF q = p THEN Idle
                ELSE IF Busy(q, n) /\ At(q, "write") THEN [call[q] EXCEPT !.at = "unlinked"]
                ELSE call[q]]
  /\ held' = [held EXCEPT ![n] = NoLease]
  /\ lost' = Leaves(n)
  /\ doomed' = IF InUse(p, n) THEN doomed ELSE doomed \ {n}
  /\ UNCHANGED <<table, bridge, nat, veth, meta, mishap, refused, faults>>

-----------------------------------------------------------------------------
PortRules(p) == {DNAT(port, call[p].lease) : port \in PortMappings[call[p].ctn]}

Add(rules)  == [r \in Rule |-> IF r \in rules THEN nat[r] + 1 ELSE nat[r]]
\* Mutant: the rules are deleted by their port alone.
DropByPort(rules) ==
  [r \in Rule |-> IF nat[r] > 0 /\ "port" \in DOMAIN r /\ \E x \in rules : x.port = r.port
                  THEN nat[r] - 1 ELSE nat[r]]
Drop(rules) == [r \in Rule |-> IF r \in rules /\ nat[r] > 0 THEN nat[r] - 1 ELSE nat[r]]

(***************************************************************************)
(* Connect, called once by the run command of a container, before anybody  *)
(* else can know of an endpoint of it.                                     *)
(***************************************************************************)
Connect(p, c, n) ==
  /\ call[p] = Idle
  /\ meta[c] = NoEndpoint
  /\ \A q \in Proc : call[q] # Idle /\ call[q].ctn = c => call[q].at \in LeaveLabel
  /\ netFile[n] \in Lease
  /\ call' = [call EXCEPT ![p] = [at |-> "allocate", name |-> n, subnet |-> netFile[n].subnet,
                                  lease |-> NoLease, ctn |-> c, err |-> FALSE]]
  /\ UNCHANGED <<hostVars, held, lost, mishap, refused, doomed, faults>>

\* driver.Connect: any failure of it makes Connect release the address.
PlugVeth(p) ==
  LET n == call[p].name
      c == call[p].ctn
  IN
  /\ At(p, "veth")
  /\ UNCHANGED <<netFile, table, bridge, nat, meta>>
  /\ \/ bridge[n] = NoBridge /\ Continue(p, "rollback") /\ UNCHANGED veth
     \/ bridge[n] # NoBridge /\ Continue(p, "ports") /\ veth' = [veth EXCEPT ![c] = n]
     \/ /\ Fault /\ Goto(p, "rollback")
        /\ veth' \in {veth, [veth EXCEPT ![c] = n]}
        /\ UNCHANGED <<held, lost, mishap, refused, doomed>>

RollbackIP(p) ==
  /\ At(p, "rollback")
  /\ \/ (~Known(p) \/ Panics(p)) /\ Error(p)
     \/ /\ ReleaseIP(p, p)
        /\ call' = [call EXCEPT ![p] = Idle]
        /\ UNCHANGED <<netFile, bridge, nat, veth, meta, doomed, faults>>

(***************************************************************************)
(* setPortMappingIPTables: if a rule is refused, those added before it are *)
(* deleted again, but for some whose deletion fails too; a kill leaves     *)
(* some as well.  The error returned is that of the last deletion, so that *)
(* there is none if that one succeeds: Connect goes on without the rules   *)
(* that are not left.                                                      *)
(***************************************************************************)
LastDeleted(p, left) == \E bad, last \in PortRules(p) \ left : bad # last

setPortMappingIPTables(p) ==
  /\ At(p, "ports")
  /\ \A r \in PortRules(p) : nat[r] < MaxRules
  /\ UNCHANGED <<netFile, table, bridge, veth, meta>>
  /\ \/ nat' = Add(PortRules(p)) /\ Continue(p, "join")
     \/ /\ Fault
        /\ \E left \in SUBSET PortRules(p) :
             /\ left # PortRules(p) /\ nat' = Add(left)
             /\ \/ Return(p)
                \/ /\ LastDeleted(p, left) /\ Goto(p, "join")
                   /\ refused' = refused \cup (PortRules(p) \ left)
                   /\ UNCHANGED <<held, lost, mishap, doomed>>

\* setContainerNetwork: if it fails the rules are cleared, the address is not.
setContainerNetwork(p) ==
  /\ At(p, "join")
  /\ UNCHANGED <<netFile, table, bridge, veth, meta>>
  /\ \/ Continue(p, "save") /\ UNCHANGED nat
     \/ /\ Fault /\ Return(p)
        /\ \E left \in SUBSET PortRules(p) : nat' = Drop(PortRules(p) \ left)

\* container.SaveMetadata with the endpoint.
SaveEndpoint(p) ==
  LET c == call[p].ctn IN
  /\ At(p, "save")
  /\ meta' = [meta EXCEPT ![c] = [network |-> call[p].name, lease |-> call[p].lease]]
  /\ held' = [held EXCEPT ![c] = held[p], ![p] = NoLease]
  /\ lost' = Leaves(c)
  /\ call' = [call EXCEPT ![p] = Idle]
  /\ UNCHANGED <<netFile, table, bridge, nat, veth, mishap, refused, doomed, faults>>

-----------------------------------------------------------------------------
(***************************************************************************)
(* Disconnect, with the metadata as rm has read it.  What rm and the end   *)
(* of run do next is its last step: a container loses its metadata.        *)
(* It is a mishap to begin when somebody began before and did not finish:  *)
(* the address is released, and rules are cleared, a second time.          *)
(***************************************************************************)
Disconnect(p, c) ==
  /\ call[p] = Idle
  /\ meta[c] # NoEndpoint
  /\ LET ep == meta[c] IN
     call' = [call EXCEPT ![p] = [at |-> "giveback", name |-> ep.network,
                                  subnet |-> ep.lease.subnet, lease |-> ep.lease,
                                  ctn |-> c, err |-> FALSE]]
  /\ mishap' = (mishap \/ c \in doomed)
  /\ doomed' = doomed \cup {c}
  /\ UNCHANGED <<hostVars, held, lost, refused, faults>>

\* The error is kept while the rules are cleared.
KeepError(p) == call' = [call EXCEPT ![p].at = "unmap", ![p].err = TRUE]

disconnectEndpoint(p) ==
  /\ At(p, "giveback")
  /\ UNCHANGED <<netFile, bridge, nat, veth, meta, doomed>>
  /\ \/ /\ netFile[call[p].name] \notin Lease \/ ~Known(p)
        /\ KeepError(p) /\ UNCHANGED <<table, held, lost, mishap, refused, faults>>
     \/ /\ netFile[call[p].name] \in Lease /\ Panics(p)
        /\ call' = [call EXCEPT ![p] = Idle] /\ UNCHANGED <<table, held, lost, mishap, refused, faults>>
     \/ /\ netFile[call[p].name] \in Lease /\ ReleaseIP(p, call[p].ctn)
        /\ Goto(p, "unmap") /\ UNCHANGED faults
     \/ Fault /\ KeepError(p) /\ UNCHANGED <<table, held, lost, mishap, refused>>

\* clearPortMappingIPTables: a rule that cannot be deleted is a warning.
clearPortMappingIPTables(p) ==
  /\ At(p, "unmap")
  /\ \/ nat' = Drop(PortRules(p)) /\ UNCHANGED faults
     \/ Fault /\ \E left \in SUBSET PortRules(p) : nat' = Drop(PortRules(p) \ left)
  /\ call' = [call EXCEPT ![p] = IF call[p].err THEN Idle ELSE [@ EXCEPT !.at = "drop"]]
  /\ UNCHANGED <<netFile, table, bridge, veth, meta, held, lost, mishap, refused, doomed>>

\* Only now does rm see that the container has not been stopped, and refuses.
PleaseStopFirst(p) ==
  /\ At(p, "drop")
  /\ call' = [call EXCEPT ![p] = Idle]
  /\ UNCHANGED <<hostVars, held, lost, mishap, refused, doomed, faults>>

RemoveMetadata(p) ==
  LET c == call[p].ctn IN
  /\ At(p, "drop")
  /\ meta' = [meta EXCEPT ![c] = NoEndpoint]
  /\ veth' = [veth EXCEPT ![c] = NoBridge]
  /\ held' = [held EXCEPT ![c] = NoLease]
  /\ lost' = Leaves(c)
  /\ doomed' = IF \E q \in Proc \ {p} : Busy(q, c) THEN doomed ELSE doomed \ {c}
  /\ call' = [call EXCEPT ![p] = Idle]
  /\ UNCHANGED <<netFile, table, bridge, nat, mishap, refused, faults>>

-----------------------------------------------------------------------------
CreateStep(p) ==
  \/ EnsureBridgeInterface(p) \/ SetInterfaceIP(p) \/ SetInterfaceUp(p)
  \/ setInterfaceIPTables(p) \/ CreateFile(p) \/ WriteFile(p) \/ WriteUnlinked(p)
DeleteStep(p) ==
  \/ clearInterfaceIPTables(p) \/ DeleteInterface(p) \/ ReleaseGateway(p)
  \/ RemoveSubnet(p) \/ removeNetwork(p)
ConnectStep(p) ==
  \/ PlugVeth(p) \/ RollbackIP(p) \/ setPortMappingIPTables(p)
  \/ setContainerNetwork(p) \/ SaveEndpoint(p)
DisconnectStep(p) ==
  disconnectEndpoint(p) \/ clearPortMappingIPTables(p) \/ RemoveMetadata(p)

Step(p) ==
  AllocateIP(p) \/ CreateStep(p) \/ DeleteStep(p) \/ ConnectStep(p) \/ DisconnectStep(p)

Begin(p) ==
  \/ \E n \in Name : DeleteNetwork(p, n) \/ \E s \in Subnet : CreateNetwork(p, n, s)
  \/ \E c \in Container : Disconnect(p, c) \/ \E n \in Name : Connect(p, c, n)

Next == \E p \in Proc : Begin(p) \/ Step(p) \/ PleaseStopFirst(p) \/ Quit(p)
Spec == Init /\ [][Next]_vars

(***************************************************************************)
(* One command at a time, none of them failing or killed, a subnet for one *)
(* network only, no network deleted that has endpoints, and no container   *)
(* removed that has not been stopped.                                      *)
(***************************************************************************)
AllIdle == \A p \in Proc : call[p] = Idle
CarefulBegin(p) ==
  \/ \E n \in Name, s \in Subnet :
       /\ \A m \in Name : netFile[m] \in Lease => netFile[m].subnet # s
       /\ CreateNetwork(p, n, s)
  \/ \E n \in Name :
       /\ \A c \in Container : meta[c] # NoEndpoint => meta[c].network # n
       /\ DeleteNetwork(p, n)
  \/ \E c \in Container : Disconnect(p, c) \/ \E n \in Name : Connect(p, c, n)

Careful == \E p \in Proc : (AllIdle /\ CarefulBegin(p)) \/ Step(p)
SerialNext == Careful /\ faults' = faults
SerialSpec == Init /\ [][SerialNext]_vars

-----------------------------------------------------------------------------
(***************************************************************************)
(* A network that is saved and that nobody began to delete works: its      *)
(* bridge is up and has the gateway's address, its rule is in the nat      *)
(* table, and the gateway's address is its own.                            *)
(***************************************************************************)
SavedNetworkIsUp ==
  \A n \in Name : netFile[n] \in Lease /\ n \notin doomed =>
    /\ bridge[n] # NoBridge /\ bridge[n].up /\ netFile[n] \in bridge[n].addrs
    /\ nat[Masquerade(n, netFile[n].subnet)] > 0
    /\ held[n] = netFile[n]

(***************************************************************************)
(* A container whose saved endpoint nobody began to disconnect has its     *)
(* address; it is reached through its interface while its network is left  *)
(* alone, and, short of a mishap, through each of its ports but those it   *)
(* was connected without, although network.go:180 says that setting them   *)
(* succeeded.  (Such a rule is out for good: a disconnect deletes it all   *)
(* the same, and takes that of a container which has the address by then.) *)
(***************************************************************************)
ConnectedIsReachable ==
  \A c \in Container : meta[c] # NoEndpoint /\ c \notin doomed =>
    /\ held[c] = meta[c].lease
    /\ meta[c].network \notin doomed => veth[c] = meta[c].network
    /\ ~mishap => \A port \in PortMappings[c] :
                    LET r == DNAT(port, meta[c].lease) IN r \notin refused => nat[r] > 0

(***************************************************************************)
(* Short of a mishap the bits set are exactly the addresses of networks,   *)
(* endpoints and commands, and those that were lost; no address has two    *)
(* owners.  Which steps lose one is written in them: Return and Quit after *)
(* an allocation, a file overwritten, metadata removed.                    *)
(***************************************************************************)
AddressesAccounted ==
  ~mishap =>
    /\ \A s \in Subnet : Bitmap(table, s) =
         {i \in Indices(s) : LeaseOf(s, i) \in lost \cup {held[o] : o \in Owner}}
    /\ \A o, q \in Owner : o # q /\ held[o] # NoLease => held[o] # held[q]
    /\ \A o \in Owner : held[o] \notin lost

(***************************************************************************)
(* A delete that failed after it took the rule away is final: no command,  *)
(* delete or create, gets any further with the network (driver.go:79), but *)
(* a delete that read of an earlier one of the name, in another subnet.    *)
(***************************************************************************)
HalfDeleted(n) ==
  /\ netFile[n] \in Lease
  /\ nat[Masquerade(n, netFile[n].subnet)] = 0
  /\ \A p \in Proc : Busy(p, n) =>
       \/ call[p].at = "unrule" /\ call[p].subnet = netFile[n].subnet
       \/ call[p].ctn # Nobody

HalfDeletedIsFinal ==
  [][\A n \in Name : HalfDeleted(n) => HalfDeleted(n)' /\ netFile'[n] = netFile[n]]_vars

(***************************************************************************)
(* One command at a time and without failures nothing is left behind: the  *)
(* bridges, rules and addresses are those of the networks and endpoints    *)
(* that are saved.                                                         *)
(***************************************************************************)
CleanWhenIdle ==
  AllIdle =>
    /\ \A n \in Name : bridge[n] # NoBridge <=> netFile[n] \in Lease
    /\ \A n \in Name, s \in Subnet : nat[Masquerade(n, s)] =
         IF netFile[n] \in Lease /\ netFile[n].subnet = s THEN 1 ELSE 0
    /\ \A r \in {r \in Rule : "port" \in DOMAIN r} : nat[r] =
         Cardinality({c \in Container : /\ meta[c] # NoEndpoint
                                        /\ r.port \in PortMappings[c]
                                        /\ r.to = meta[c].lease.ip})
    /\ \A s \in Subnet : Bitmap(table, s) =
         {i \in Indices(s) : \/ \E n \in Name : netFile[n] = LeaseOf(s, i)
                             \/ \E c \in Container : /\ meta[c] # NoEndpoint
                                                    /\ meta[c].lease = LeaseOf(s, i)}
=============================================================================

--------------------------- MODULE RuntimeProofs ---------------------------
(***************************************************************************)
(* Proofs about containers with a network, for any names, commands,        *)
(* identifiers and addresses and any number of failures and deletions.     *)
(***************************************************************************)
EXTENDS Runtime, ContainerProofs, WellFoundedInduction

USE DEF layerVars

\* A step of a command with its network is one of the command, or one of the network alone.
LEMMA CommandRefines ==
  ASSUME NEW p \in Proc, Command(p)
  PROVE  Step(p) \/ UNCHANGED vars
<1>1. CASE NetworkedStep(p)
  BY <1>1 DEF NetworkedStep, RecordRun, Allocate, AllocateFails, DriverFails, PlugFails, Connect,
     DeferredDisconnect, LeaveConnected, Unrecord, EndStop, Disconnect, RemovalFails,
     RemoveDisconnected, Step, RunStep
<1>2. CASE LocalStep(p)
  BY <1>2 DEF LocalStep, Step, RunStep
<1> QED BY <1>1, <1>2 DEF Command

\* So is the beginning of one.
LEMMA BeginRefines ==
  ASSUME NEW p \in Proc, BeginCommand(p)
  PROVE  Begin(p)
<1>1. ASSUME NEW n \in Name, NEW detach \in BOOLEAN, NetworkedRun(p, n, detach)
      PROVE  Begin(p)
  BY <1>1 DEF NetworkedRun, Begin
<1> QED BY <1>1 DEF BeginCommand, BeginStop, BeginRemoval, Begin

\* Every step of the containers with their network is one of the containers, or none of theirs.
LEMMA NextRefines == RNext => [Next]_vars
<1> SUFFICES ASSUME RNext
             PROVE  [Next]_vars
  OBVIOUS
<1>1. ASSUME NEW p \in Proc, BeginCommand(p) \/ Command(p) \/ (Quit(p) /\ Local(p))
      PROVE  [Next]_vars
  BY <1>1, CommandRefines, BeginRefines DEF Next
<1>2. ASSUME NEW i \in Pid, Exit(i) \/ Host(i)
      PROVE  Next
  BY <1>2 DEF Next
<1>3. CASE DeleteNetwork \/ CreateNetwork
  BY <1>3 DEF DeleteNetwork, CreateNetwork
<1> QED BY <1>1, <1>2, <1>3 DEF RNext

(***************************************************************************)
(* The containers with their network are containers: what is proved of     *)
(* those holds of these.                                                   *)
(***************************************************************************)
THEOREM Refines == RSpec => Spec
<1>1. RInit => Init
  BY DEF RInit
<1>2. [RNext]_rvars => [Next]_vars
  BY NextRefines DEF rvars
<1> QED BY <1>1, <1>2, PTL DEF RSpec, Spec

(***************************************************************************)
(* So a container that runs and that nobody began to stop keeps all it     *)
(* has, whatever its network does.                                         *)
(***************************************************************************)
THEOREM NetworkedStaysWhole == RSpec => []RunningIsWhole
BY Refines, RunningStaysWhole, PTL

-----------------------------------------------------------------------------
\* The types of what the network adds.
NetTypeOK ==
  /\ there \in BOOLEAN /\ deletes \in 0..MaxDeletes
  /\ bits \subseteq Addr
  /\ endpoint \in [Name -> Addr \cup {None}]
  /\ memory \in [Proc -> Addr \cup {None}]
  /\ address \in [Name -> Addr \cup {None}]
  /\ given \subseteq Name /\ early \subseteq Name
  /\ lost \subseteq Addr
  /\ mishap \in BOOLEAN

\* A step that has nothing to do with the network keeps them.
LEMMA LocalTypeOK ==
  ASSUME NetTypeOK, NEW p \in Proc, Local(p)
  PROVE  NetTypeOK'
BY DEF NetTypeOK, Local, Forget

\* The lowest free address is one.
LEMMA LowestFree ==
  ASSUME bits \subseteq Addr, bits # Addr
  PROVE  \E a \in Addr \ bits : \A c \in Addr \ bits : a <= c
<1>1. IsWellFoundedOn(OpToRel(<, Nat), Nat)
  BY NatLessThanWellFounded
<1>2. Addr \ bits \subseteq Nat /\ Addr \ bits # {}
  BY AddrAssumption
<1>3. PICK a \in Addr \ bits : \A c \in Addr \ bits : <<c, a>> \notin OpToRel(<, Nat)
  BY <1>1, <1>2, WFMin
<1>4. ASSUME NEW c \in Addr \ bits
      PROVE  a <= c
  <2>1. a \in Nat /\ c \in Nat
    BY <1>2
  <2>2. ~(c < a)
    BY <1>3, <2>1 DEF OpToRel
  <2> QED BY <2>1, <2>2
<1> QED BY <1>4

\* Giving an address back keeps the types.
LEMMA ReleaseTypeOK ==
  ASSUME NetTypeOK, NEW p \in Proc, call[p].name \in Name, ReleaseEndpoint(p)
  PROVE  NetTypeOK'
BY DEF NetTypeOK, ReleaseEndpoint

\* Every step of a command keeps them.
LEMMA CommandNetTypeOK ==
  ASSUME TypeOK, NetTypeOK, NEW p \in Proc, Command(p)
  PROVE  NetTypeOK'
<1> USE DEF NetTypeOK, Forget, Saved
<1>1. CASE LocalStep(p)
  BY <1>1, LocalTypeOK DEF LocalStep
<1>2. CASE RecordRun(p)
  BY <1>2 DEF RecordRun
<1>3. CASE Allocate(p)
  <2>1. call[p].name \in Name
    BY <1>3, CallOf DEF Allocate, At
  <2>2. PICK a \in Addr \ bits : /\ bits' = bits \cup {a}
                                 /\ memory' = [memory EXCEPT ![p] = a]
                                 /\ address' = [address EXCEPT ![call[p].name] = a]
    BY <1>3, LowestFree DEF Allocate
  <2> QED BY <1>3, <2>1, <2>2 DEF Allocate
<1>4. CASE AllocateFails(p) \/ PlugFails(p) \/ LeaveConnected(p) \/ RemovalFails(p) \/ RemoveDisconnected(p)
  BY <1>4, LocalTypeOK DEF AllocateFails, PlugFails, LeaveConnected, RemovalFails, RemoveDisconnected
<1>5. CASE DriverFails(p)
  <2>1. call[p].name \in Name
    BY <1>5, CallOf DEF DriverFails, ConnectFails, At
  <2> QED BY <1>5, <2>1 DEF DriverFails
<1>6. CASE Connect(p)
  BY <1>6 DEF Connect
<1>7. CASE DeferredDisconnect(p)
  <2>1. call[p].name \in Name
    BY <1>7, CallOf DEF DeferredDisconnect, Undo, Waited, At
  <2> QED BY <1>7, <2>1, ReleaseTypeOK, LocalTypeOK DEF DeferredDisconnect
<1>8. CASE Unrecord(p)
  BY <1>8 DEF Unrecord
<1>9. CASE EndStop(p)
  BY <1>9 DEF EndStop
<1>10. CASE Disconnect(p)
  <2>1. call[p].name \in Name
    BY <1>10, CallOf DEF Disconnect, At
  <2> QED BY <1>10, <2>1, ReleaseTypeOK DEF Disconnect
<1> QED BY <1>1, <1>2, <1>3, <1>4, <1>5, <1>6, <1>7, <1>8, <1>9, <1>10 DEF Command, NetworkedStep

\* So does every other step.
LEMMA NetTypeOKStep ==
  ASSUME TypeOK, NetTypeOK, [RNext]_rvars
  PROVE  NetTypeOK'
<1>1. ASSUME NEW p \in Proc, BeginCommand(p)
      PROVE  NetTypeOK'
  <2>1. ASSUME NEW n \in Name, Reads(p, n)
        PROVE  NetTypeOK'
    BY <2>1 DEF Reads, NetTypeOK
  <2>2. ASSUME NEW n \in Name, NEW detach \in BOOLEAN, NetworkedRun(p, n, detach)
        PROVE  NetTypeOK'
    BY <2>2 DEF NetworkedRun, NetTypeOK
  <2> QED BY <1>1, <2>1, <2>2 DEF BeginCommand, BeginStop, BeginRemoval
<1>2. ASSUME NEW p \in Proc, Quit(p) /\ Local(p)
      PROVE  NetTypeOK'
  BY <1>2, LocalTypeOK
<1>3. CASE UNCHANGED netVars
  BY <1>3 DEF netVars, NetTypeOK
<1>4. CASE DeleteNetwork
  <2>1. deletes' \in 0..MaxDeletes
    BY <1>4, DeleteAssumption DEF DeleteNetwork, NetTypeOK
  <2>2. given' \subseteq Name
    BY <1>4 DEF DeleteNetwork, NetTypeOK
  <2> QED BY <1>4, <2>1, <2>2 DEF DeleteNetwork, NetTypeOK
<1>5. CASE CreateNetwork
  BY <1>5 DEF CreateNetwork, NetTypeOK
<1> QED BY <1>1, <1>2, <1>3, <1>4, <1>5, CommandNetTypeOK DEF RNext, rvars

(***************************************************************************)
(* The types hold in every behaviour.                                      *)
(***************************************************************************)
THEOREM NetworkedTypeCorrect == RSpec => []RTypeOK
<1>1. RInit => NetTypeOK
  <2>1. 0 \in 0..MaxDeletes
    BY DeleteAssumption
  <2> QED BY <2>1 DEF RInit, NetTypeOK
<1>2. TypeOK /\ NetTypeOK /\ [RNext]_rvars => NetTypeOK'
  BY NetTypeOKStep
<1>3. TypeOK /\ NetTypeOK => RTypeOK
  BY DEF RTypeOK, NetTypeOK
<1> QED BY <1>1, <1>2, <1>3, Refines, TypeCorrect, PTL DEF RSpec

-----------------------------------------------------------------------------
\* Every run command here is of a container with a network.
Networked == \A p \in Proc : In(p, RunLabel) => call[p].network

\* It stays one.
LEMMA NetworkedStays ==
  ASSUME TypeOK, Networked, [RNext]_rvars
  PROVE  Networked'
<1>1. ASSUME NEW p \in Proc, Follows(p)
      PROVE  Networked'
  BY <1>1 DEF Networked, Follows, In
<1>2. CASE UNCHANGED call
  BY <1>2 DEF Networked, In
<1>3. ASSUME NEW p \in Proc, BeginCommand(p)
      PROVE  Networked'
  <2>1. /\ \A q \in Proc \ {p} : call'[q] = call[q]
        /\ call'[p].at \notin RunLabel \/ call'[p].network
    <3>1. ASSUME NEW n \in Name, NEW detach \in BOOLEAN, NetworkedRun(p, n, detach)
          PROVE  call'[p].network /\ \A q \in Proc \ {p} : call'[q] = call[q]
      BY <3>1 DEF NetworkedRun, Run, TypeOK
    <3>2. ASSUME NEW n \in Name, BeginStop(p, n) \/ BeginRemoval(p, n)
          PROVE  call'[p].at \notin RunLabel /\ \A q \in Proc \ {p} : call'[q] = call[q]
      BY <3>2 DEF BeginStop, BeginRemoval, StopContainer, ReadForRemoval, Begun, RunLabel, TypeOK
    <3> QED BY <1>3, <3>1, <3>2 DEF BeginCommand
  <2> QED BY <2>1 DEF Networked, In
<1>4. ASSUME NEW p \in Proc, Command(p) \/ (Quit(p) /\ Local(p))
      PROVE  Networked'
  BY <1>1, <1>2, <1>4, CommandRefines, StepFollows DEF vars
<1>5. ASSUME NEW i \in Pid, Exit(i) \/ Host(i)
      PROVE  UNCHANGED call
  BY <1>5 DEF Exit, Host
<1>6. CASE DeleteNetwork \/ CreateNetwork
  BY <1>2, <1>6 DEF DeleteNetwork, CreateNetwork, vars
<1> QED BY <1>2, <1>3, <1>4, <1>5, <1>6 DEF RNext, rvars, vars

\* What a step of a command does not do to the network and to the other containers.
NetFrame(p) ==
  /\ Follows(p) /\ there' = there /\ early' = early /\ given \subseteq given'
  /\ \A q \in Proc \ {p} : memory'[q] = memory[q]
  /\ \A n \in Name \ {call[p].name} : config'[n] = config[n] /\ endpoint'[n] = endpoint[n]

\* It is so for every step.
LEMMA CommandFrame ==
  ASSUME TypeOK, NetTypeOK, NEW p \in Proc, Command(p) \/ (Quit(p) /\ Local(p))
  PROVE  NetFrame(p)
<1>1. Follows(p) /\ \A n \in Name \ {call[p].name} : config'[n] = config[n]
  <2>1. CASE Step(p) \/ Quit(p)
    BY <2>1, StepFollows, OwnRecord
  <2>2. CASE UNCHANGED vars /\ Command(p)
    <3>1. call[p] # Idle
      <4>1. CASE Step(p)
        BY <4>1, StepFollows DEF Follows
      <4>2. CASE Allocate(p) \/ Disconnect(p)
        BY <4>2 DEF Allocate, Disconnect, At
      <4>3. CASE ~Step(p) /\ ~Allocate(p) /\ ~Disconnect(p)
        BY <2>2, <4>3
           DEF Command, NetworkedStep, LocalStep, RecordRun, AllocateFails, DriverFails, PlugFails, Connect,
               DeferredDisconnect, LeaveConnected, Unrecord, EndStop, RemovalFails, RemoveDisconnected,
               Step, RunStep
      <4> QED BY <4>1, <4>2, <4>3
    <3> QED BY <2>2, <3>1 DEF vars, hostVars, Follows
  <2> QED BY <2>1, <2>2, CommandRefines
<1>2. \A q \in Proc \ {p} : memory'[q] = memory[q]
  BY DEF NetTypeOK, Command, NetworkedStep, LocalStep, RecordRun, Allocate, AllocateFails, DriverFails,
     PlugFails, Connect, DeferredDisconnect, LeaveConnected, Unrecord, EndStop, Disconnect, RemovalFails,
     RemoveDisconnected, Local, Forget, ReleaseEndpoint
<1>3. \A n \in Name \ {call[p].name} : endpoint'[n] = endpoint[n]
  BY DEF NetTypeOK, Command, NetworkedStep, LocalStep, RecordRun, Allocate, AllocateFails, DriverFails,
     PlugFails, Connect, DeferredDisconnect, LeaveConnected, Unrecord, EndStop, Disconnect, RemovalFails,
     RemoveDisconnected, Local, Saved, ReleaseEndpoint
<1>4. there' = there /\ early' = early /\ given \subseteq given'
  BY DEF Command, NetworkedStep, LocalStep, RecordRun, Allocate, AllocateFails, DriverFails,
     PlugFails, Connect, DeferredDisconnect, LeaveConnected, Unrecord, EndStop, Disconnect, RemovalFails,
     RemoveDisconnected, Local, ReleaseEndpoint
<1> QED BY <1>1, <1>2, <1>3, <1>4 DEF NetFrame

\* A command of a stuck container ends, or goes on with the endpoint in memory.
LEMMA StuckCommand ==
  ASSUME TypeOK, NetTypeOK, Networked, NEW p \in Proc, Command(p) \/ (Quit(p) /\ Local(p)),
         call[p].name \in Name, Stuck(call[p].name)
  PROVE  \A n \in Name : n = call[p].name =>
           \/ config'[n] = Torn
           \/ /\ config'[n] \in Metadata /\ endpoint'[n] # None
              /\ call'[p] # Idle =>
                   memory'[p] # None /\ call'[p].at \in {"send", "wait", "kill", "stopped", "rm"}
<1> DEFINE n == call[p].name
           Ats == {"send", "wait", "kill", "stopped", "rm"}
<1>0. /\ Follows(p) /\ call[p] # Idle /\ ~there /\ config[n] \in Metadata /\ endpoint[n] # None
      /\ memory[p] # None /\ call[p].at \in Ats
  BY CommandFrame DEF NetFrame, Follows, Stuck, Busy
<1>1. ASSUME Local(p), UNCHANGED config, call'[p] # Idle => call'[p].at \in Ats
      PROVE  /\ config'[n] \in Metadata /\ endpoint'[n] # None
             /\ call'[p] # Idle => memory'[p] # None /\ call'[p].at \in Ats
  BY <1>0, <1>1 DEF Local, Forget, NetTypeOK
<1>2. CASE LocalStep(p)
  <2>1. SendInitArgs(p) \/ Kill(p)
    BY <1>0, <1>2 DEF LocalStep, CreateWorkspace, SetLimit, Start, Apply, ReadMetadata, DestroyCgroup,
       DeferredDeleteWorkspace, RemoveLayers, At
  <2>2. call'[p] # Idle => call'[p].at \in Ats
    <3>1. CASE Done(p)
      BY <3>1 DEF Done, TypeOK
    <3>2. ASSUME NEW label \in {"wait", "stopped"}, Continue(p, label)
          PROVE  call'[p].at = label
      BY <1>0, <3>2, Went DEF Continue, Label, RunLabel
    <3> QED BY <2>1, <3>1, <3>2 DEF SendInitArgs, Kill
  <2> QED BY <1>1, <1>2, <2>1, <2>2 DEF LocalStep, SendInitArgs, Kill
<1>3. CASE Quit(p) /\ Local(p)
  BY <1>1, <1>3 DEF Quit, Abandon, TypeOK
<1>4. CASE NetworkedStep(p)
  <2>1. LeaveConnected(p) \/ EndStop(p) \/ RemovalFails(p)
    <3>1. ~DeferredDisconnect(p)
      BY <1>0 DEF DeferredDisconnect, Undo, Waited, At, Networked, In, RunLabel, ReleaseEndpoint
    <3>2. ~Disconnect(p) /\ ~Allocate(p) /\ ~AllocateFails(p) /\ ~RemoveDisconnected(p)
      BY <1>0 DEF Disconnect, ReleaseEndpoint, Allocate, AllocateFails, RemoveDisconnected
    <3>3. ~RecordRun(p) /\ ~DriverFails(p) /\ ~PlugFails(p) /\ ~Connect(p) /\ ~Unrecord(p)
      BY <1>0 DEF RecordRun, CreateMetadata, DriverFails, ConnectFails, PlugFails, Connect, Unrecord,
                  RemoveMetadata, RemoveRecord, At
    <3> QED BY <1>4, <3>1, <3>2, <3>3 DEF NetworkedStep
  <2>2. CASE LeaveConnected(p) \/ RemovalFails(p)
    <3>1. call'[p] = Idle /\ Local(p) /\ UNCHANGED config
      BY <2>2 DEF LeaveConnected, Leave, RemovalFails, DisconnectFails, Abandon, Done, hostVars, TypeOK
    <3> QED BY <1>1, <3>1
  <2>3. CASE EndStop(p)
    <3>1. call'[p] = Idle
      BY <2>3 DEF EndStop, SaveStopped, Save, Done, Abandon, TypeOK
    <3>2. CASE config' = [config EXCEPT ![n] = Torn]
      BY <3>2 DEF TypeOK
    <3>3. CASE config' = [config EXCEPT ![n] = [pid |-> 0, status |-> "stopped"]]
      <4>1. config'[n] \in Metadata
        BY <3>3 DEF TypeOK, Metadata
      <4>2. endpoint'[n] = memory[p]
        BY <2>3, <4>1, MarkAssumption DEF EndStop, Saved, NetTypeOK
      <4> QED BY <1>0, <3>1, <4>1, <4>2
    <3> QED BY <2>3, <3>2, <3>3 DEF EndStop, SaveStopped, Save
  <2> QED BY <2>1, <2>2, <2>3
<1> QED BY <1>2, <1>3, <1>4 DEF Command

\* A stuck container stays so in every step.
LEMMA StuckStays ==
  ASSUME TypeOK, NetTypeOK, Networked, RNext, NEW n \in Name, Stuck(n)
  PROVE  Stuck(n)' \/ there' \/ config'[n] = Torn
<1> SUFFICES ASSUME ~there', config'[n] # Torn
             PROVE  Stuck(n)'
  OBVIOUS
<1> DEFINE Ats == {"send", "wait", "kill", "stopped", "rm"}
<1>0. /\ config[n] \in Metadata /\ endpoint[n] # None /\ ~there
      /\ \A q \in Proc : Busy(q, n) => memory[q] # None /\ call[q].at \in Ats
  BY DEF Stuck
<1>1. ASSUME NEW p \in Proc, Command(p) \/ (Quit(p) /\ Local(p))
      PROVE  Stuck(n)'
  <2>1. NetFrame(p) /\ Follows(p) /\ call[p] # Idle /\ call[p].name \in Name
    BY <1>1, CommandFrame, CallOf DEF NetFrame, Follows
  <2>2. CASE call[p].name = n
    <3>1. /\ config'[n] \in Metadata /\ endpoint'[n] # None
          /\ call'[p] # Idle => memory'[p] # None /\ call'[p].at \in Ats
      BY <1>1, <2>1, <2>2, StuckCommand
    <3> QED BY <1>0, <2>1, <3>1 DEF Stuck, Busy, NetFrame, Follows
  <2>3. CASE call[p].name # n
    BY <1>0, <2>1, <2>3 DEF Stuck, Busy, NetFrame, Follows
  <2> QED BY <2>2, <2>3
<1>2. ASSUME NEW p \in Proc, BeginCommand(p)
      PROVE  Stuck(n)'
  <2>1. ASSUME NEW m \in Name, NEW detach \in BOOLEAN, NetworkedRun(p, m, detach)
        PROVE  Stuck(n)'
    <3>1. /\ m # n /\ UNCHANGED <<config, endpoint, memory>> /\ call'[p].name = m
          /\ \A q \in Proc \ {p} : call'[q] = call[q]
      BY <1>0, <2>1, MarkAssumption DEF NetworkedRun, Run, Unused, TypeOK
    <3> QED BY <1>0, <3>1 DEF Stuck, Busy
  <2>2. ASSUME NEW m \in Name, BeginStop(p, m) \/ BeginRemoval(p, m)
        PROVE  Stuck(n)'
    <3>1. /\ UNCHANGED <<config, endpoint>> /\ memory' = [memory EXCEPT ![p] = endpoint[m]]
          /\ call'[p].name = m /\ call'[p].at \in {"kill", "rm"}
          /\ \A q \in Proc \ {p} : call'[q] = call[q]
      BY <2>2 DEF BeginStop, BeginRemoval, StopContainer, ReadForRemoval, Begun, Reads, hostVars, TypeOK
    <3>2. memory'[p] = endpoint[m] /\ \A q \in Proc \ {p} : memory'[q] = memory[q]
      BY <3>1 DEF NetTypeOK
    <3> QED BY <1>0, <3>1, <3>2 DEF Stuck, Busy
  <2> QED BY <1>2, <2>1, <2>2 DEF BeginCommand
<1>3. ASSUME NEW i \in Pid, Exit(i) \/ Host(i), UNCHANGED netVars
      PROVE  Stuck(n)'
  BY <1>0, <1>3 DEF Exit, Host, netVars, Stuck, Busy
<1>4. ~DeleteNetwork /\ ~CreateNetwork
  BY <1>0 DEF DeleteNetwork, CreateNetwork
<1> QED BY <1>1, <1>2, <1>3, <1>4 DEF RNext

(***************************************************************************)
(* A container whose network is deleted is stuck: no stop, no rm, failure  *)
(* or exit makes it removable before there is a network again.             *)
(***************************************************************************)
THEOREM StuckUntilNetwork == RSpec => StuckWithoutNetwork
<1>1. RInit => Networked
  BY DEF RInit, Init, Networked, In
<1>2. TypeOK /\ Networked /\ [RNext]_rvars => Networked'
  BY NetworkedStays
<1>3. TypeOK /\ NetTypeOK /\ Networked /\ [RNext]_rvars =>
        [\A n \in Name : Stuck(n) => Stuck(n)' \/ there' \/ config'[n] = Torn]_rvars
  BY StuckStays
<1>4. RTypeOK => TypeOK /\ NetTypeOK
  BY DEF RTypeOK, NetTypeOK
<1> QED BY <1>1, <1>2, <1>3, <1>4, NetworkedTypeCorrect, PTL DEF RSpec, StuckWithoutNetwork

-----------------------------------------------------------------------------
\* The steps of a run command that connects, and of stop and rm.
Plugging == {"apply", "connect", "endpoint"}
Late     == {"kill", "stopped", "rm", "rmlayers", "rmrecord"}

\* Nobody has an endpoint of the name, or is about to get one.
Bare(n) ==
  endpoint[n] = None /\ \A q \in Proc : Busy(q, n) => memory[q] = None /\ call[q].at \notin Plugging

\* Who connects is alone with the name.
AlonePlugging(n) == \A p, q \in Proc : Busy(p, n) /\ call[p].at \in Plugging /\ Busy(q, n) => q = p

\* A stop or an rm that has no endpoint in memory, or a record without one, says there is none.
NoneRead(n)     == \A p \in Proc : Busy(p, n) /\ call[p].at \in Late /\ memory[p] = None => Bare(n)
NoneRecorded(n) == config[n] \in Metadata /\ endpoint[n] = None /\ ~Connecting(n) => Bare(n)

\* A run that undoes what it made has given the address back.
NotUndoing(n) == \A p \in Proc : Busy(p, n) => call[p].at # "unrecord"

\* So it is as long as nobody gave it back, or began to stop or to remove too early.
Sound(n) ==
  n \in given \cup early \/ (AlonePlugging(n) /\ NoneRead(n) /\ NoneRecorded(n) /\ NotUndoing(n))

\* rm comes to the workspace and the record only without an endpoint.
Disconnected == \A p \in Proc : In(p, {"rmlayers", "rmrecord"}) => memory[p] = None

\* A command with a step leaves what is sound of the names of others.
LEMMA SoundElsewhere ==
  ASSUME NEW p \in Proc, NetFrame(p), NEW n \in Name, n # call[p].name, Sound(n)
  PROVE  Sound(n)'
<1>1. /\ config'[n] = config[n] /\ endpoint'[n] = endpoint[n]
      /\ n \in given \cup early => n \in given' \cup early'
      /\ \A q \in Proc : Busy(q, n)' => Busy(q, n) /\ call'[q] = call[q] /\ memory'[q] = memory[q]
      /\ \A q \in Proc : Busy(q, n) => Busy(q, n)' /\ call'[q] = call[q] /\ memory'[q] = memory[q]
  BY DEF NetFrame, Follows, Busy
<1>2. AlonePlugging(n) => AlonePlugging(n)'
  BY <1>1 DEF AlonePlugging
<1>3. NotUndoing(n) => NotUndoing(n)'
  BY <1>1 DEF NotUndoing
<1>4. Bare(n) => Bare(n)'
  BY <1>1 DEF Bare
<1>5. NoneRead(n) => NoneRead(n)'
  BY <1>1, <1>4 DEF NoneRead
<1>6. Connecting(n) => Connecting(n)'
  BY <1>1 DEF Connecting
<1>7. NoneRecorded(n) => NoneRecorded(n)'
  BY <1>1, <1>4, <1>6 DEF NoneRecorded
<1> QED BY <1>1, <1>2, <1>3, <1>5, <1>7 DEF Sound

\* A name that one command at most is at work on, and not to stop or remove it, is sound.
LEMMA SoundAlone ==
  ASSUME NEW p \in Proc, NEW n \in Name,
         \A q \in Proc : Busy(q, n)' => q = p /\ call'[q].at \notin Late \cup {"unrecord"},
         Busy(p, n)' => config'[n] \notin Metadata \/ endpoint'[n] # None \/ call'[p].at \in Plugging
  PROVE  Sound(n)'
<1>1. AlonePlugging(n)' /\ NoneRead(n)' /\ NotUndoing(n)'
  BY DEF AlonePlugging, NoneRead, NotUndoing
<1>2. NoneRecorded(n)'
  BY DEF NoneRecorded, Bare, Connecting, Plugging
<1> QED BY <1>1, <1>2 DEF Sound

\* What touches neither the record nor the endpoint, and connects nothing, leaves it so.
Quiet(p, n) ==
  /\ Follows(p) /\ call[p].name = n /\ call[p].at \notin Plugging
  /\ config'[n] = config[n] /\ endpoint'[n] = endpoint[n]
  /\ given \subseteq given' /\ early' = early
  /\ \A q \in Proc \ {p} : memory'[q] = memory[q]
  /\ call'[p] # Idle => /\ memory'[p] = memory[p]
                        /\ call'[p].at \notin Plugging \cup {"unrecord"}

LEMMA SoundQuiet ==
  ASSUME NEW p \in Proc, NEW n \in Name, Quiet(p, n), call[p].at \in Label, Sound(n)
  PROVE  Sound(n)'
<1>1. /\ \A q \in Proc : Busy(q, n)' =>
           /\ Busy(q, n) /\ memory'[q] = memory[q]
           /\ call'[q].at \in Late => call[q].at \in Late
           /\ call'[q].at \in Plugging => q # p /\ call[q].at \in Plugging
           /\ call'[q].at = "unrecord" => call[q].at = "unrecord"
      /\ \A q \in Proc : Busy(q, n) /\ call[q].at \in Plugging =>
           Busy(q, n)' /\ call'[q].at \in Plugging
  BY DEF Quiet, Follows, Busy, Late, Plugging, RunLabel, Label
<1>2. n \in given \cup early => n \in given' \cup early'
  BY DEF Quiet
<1>3. AlonePlugging(n) => AlonePlugging(n)'
  BY <1>1 DEF AlonePlugging
<1>4. NotUndoing(n) => NotUndoing(n)'
  BY <1>1 DEF NotUndoing
<1>5. Bare(n) => Bare(n)'
  BY <1>1 DEF Bare, Quiet
<1>6. NoneRead(n) => NoneRead(n)'
  BY <1>1, <1>5 DEF NoneRead
<1>7. Connecting(n) => Connecting(n)'
  BY <1>1 DEF Connecting, Plugging
<1>8. NoneRecorded(n) => NoneRecorded(n)'
  BY <1>5, <1>7 DEF NoneRecorded, Quiet
<1> QED BY <1>2, <1>3, <1>4, <1>6, <1>8 DEF Sound

\* The order of the steps of a command that goes on.
Order ==
  {<<"layers", "limit">>, <<"limit", "start">>, <<"start", "record">>, <<"record", "apply">>,
   <<"apply", "connect">>, <<"apply", "send">>, <<"connect", "endpoint">>, <<"endpoint", "send">>,
   <<"send", "wait">>, <<"wait", "unrecord">>, <<"unrecord", "uncgroup">>, <<"uncgroup", "unlayer">>,
   <<"kill", "stopped">>, <<"rm", "rmlayers">>, <<"rmlayers", "rmrecord">>}

\* Every step keeps to it, and a container with a network is connected.
LEMMA StepsInOrder ==
  ASSUME TypeOK, NEW p \in Proc, Step(p) \/ Quit(p), call'[p] # Idle
  PROVE  /\ <<call[p].at, call'[p].at>> \in Order
         /\ call[p].at = "apply" /\ call[p].network => call'[p].at = "connect"
<1> USE DEF At
<1>0. call[p] # Idle /\ call[p] \in Call /\ ~Abandon(p) /\ ~Done(p)
  BY StepFollows, CallOf DEF Follows, Abandon, Done, TypeOK
<1>1. ASSUME NEW label \in Label, Continue(p, label)
      PROVE  call'[p].at = label
  BY <1>0, <1>1, Went DEF Continue
<1>2. CASE CreateWorkspace(p) \/ SetLimit(p) \/ RemoveMetadata(p) \/ DestroyCgroup(p)
  BY <1>0, <1>1, <1>2 DEF CreateWorkspace, SetLimit, RemoveMetadata, DestroyCgroup, Label, RunLabel, Order
<1>3. CASE CreateMetadata(p) \/ SaveEndpoint(p)
  BY <1>0, <1>1, <1>3 DEF CreateMetadata, SaveEndpoint, Save, Label, RunLabel, Order
<1>4. CASE Apply(p)
  BY <1>0, <1>1, <1>4 DEF Apply, Label, RunLabel, Order
<1>5. CASE SendInitArgs(p) \/ Kill(p)
  BY <1>0, <1>1, <1>5 DEF SendInitArgs, Kill, Label, RunLabel, Order
<1>6. CASE RemoveContainer(p)
  BY <1>0, <1>1, <1>6 DEF RemoveContainer, Label, Order
<1>7. CASE RemoveLayers(p)
  <2>1. Goto(p, "rmrecord")
    BY <1>7 DEF RemoveLayers, Continue
  <2> QED BY <1>0, <1>7, <2>1, Went DEF RemoveLayers, Label, Order
<1>8. CASE ConnectFails(p) \/ Leave(p) \/ Quit(p) \/ DisconnectFails(p) \/ RemoveRecord(p) \/ SaveStopped(p)
  BY <1>0, <1>8 DEF ConnectFails, Leave, Quit, DisconnectFails, RemoveRecord, SaveStopped, Save
<1>9. CASE DeferredDeleteWorkspace(p)
  BY <1>0, <1>9 DEF DeferredDeleteWorkspace, TypeOK
<1>10. CASE Start(p) \/ ReadMetadata(p) \/ Undo(p)
  <2>1. ASSUME NEW label \in Label, NEW i, NEW seen,
               \/ call' = [call EXCEPT ![p].at = label, ![p].pid = i]
               \/ call' = [call EXCEPT ![p].at = label, ![p].seen = seen]
        PROVE  call'[p].at = label
    BY <1>0, <2>1 DEF TypeOK, Call
  <2> QED BY <1>0, <1>10, <2>1 DEF Start, ReadMetadata, Undo, Waited, Label, RunLabel, Order
<1> QED BY <1>2, <1>3, <1>4, <1>5, <1>6, <1>7, <1>8, <1>9, <1>10 DEF Step, RunStep

\* The steps of a run command before and at Connect leave its name sound.
LEMMA SoundConnecting ==
  ASSUME Inv, NetTypeOK, Networked, NEW p \in Proc, NEW n \in Name, Sound(n),
         Command(p) \/ (Quit(p) /\ Local(p)),
         call[p].name = n, call[p].at \in Starting \cup {"record"} \cup Plugging
  PROVE  Sound(n)'
<1>0. TypeOK /\ NetFrame(p) /\ Follows(p) /\ call[p] # Idle
  BY CommandFrame DEF Inv, NetFrame, Follows
<1>1. CASE n \in given \cup early
  BY <1>0, <1>1 DEF Sound, NetFrame
<1>2. ASSUME n \notin given \cup early
      PROVE  Sound(n)'
  <2>1. \A q \in Proc : Busy(q, n) => q = p
    BY <1>0, <1>2 DEF Sound, AlonePlugging, Inv, Alone, In, Busy
  <2>2. \A q \in Proc : Busy(q, n)' => q = p
    BY <1>0, <2>1 DEF Follows, Busy
  <2>3. ASSUME UNCHANGED vars
        PROVE  Allocate(p)
    <3>1. ~Step(p) \/ Allocate(p)
      <4>1. CASE Step(p) /\ call'[p] = call[p]
        BY <1>0, <4>1, StepsInOrder DEF Order
      <4> QED BY <2>3, <4>1 DEF vars
    <3>2. ~Disconnect(p)
      BY DEF Disconnect, At, Starting, Plugging
    <3>3. ~Quit(p)
      BY <1>0, <2>3 DEF Quit, Abandon, vars, TypeOK
    <3> QED BY <3>1, <3>2, <3>3
            DEF Command, NetworkedStep, LocalStep, RecordRun, AllocateFails, DriverFails, PlugFails, Connect,
                DeferredDisconnect, LeaveConnected, Unrecord, EndStop, RemovalFails, RemoveDisconnected,
                Step, RunStep
  <2>4. CASE Allocate(p)
    <3>1. call' = call /\ call[p].at \in Plugging
      BY <2>4 DEF Allocate, vars, At, Plugging
    <3> QED BY <2>2, <3>1, SoundAlone DEF Plugging, Late
  <2>5. CASE call'[p] = Idle
    BY <2>2, <2>5, SoundAlone DEF Busy
  <2>6. ASSUME ~Allocate(p), call'[p] # Idle
        PROVE  Sound(n)'
    <3>1. Step(p) \/ Quit(p)
      BY <2>3, <2>6, CommandRefines
    <3>2. /\ <<call[p].at, call'[p].at>> \in Order
          /\ call[p].at = "apply" => call'[p].at = "connect"
      BY <1>0, <2>6, <3>1, StepsInOrder DEF Networked, In, RunLabel
    <3>3. call'[p].at \notin Late \cup {"unrecord"}
      BY <3>2 DEF Order, Starting, Plugging, Late
    <3>4. CASE call'[p].at \in Plugging
      BY <2>2, <3>3, <3>4, SoundAlone
    <3>5. CASE call[p].at \in Starting
      <4>1. UNCHANGED config /\ config[n] = Absent
        <5>1. config[n] = Absent
          BY <1>0, <3>5 DEF Inv, Alone, In
        <5>2. UNCHANGED config
          BY <3>1, <3>5 DEF Step, RunStep, CreateWorkspace, SetLimit, Start, CreateMetadata, Apply, ReadMetadata,
             SaveEndpoint, ConnectFails, SendInitArgs, Undo, Leave, RemoveMetadata, DestroyCgroup,
             DeferredDeleteWorkspace, Kill, SaveStopped, DisconnectFails, RemoveContainer, RemoveLayers,
             RemoveRecord, Quit, Waited, At, Starting, hostVars
        <5> QED BY <5>1, <5>2
      <4> QED BY <2>2, <3>3, <4>1, SoundAlone, MarkAssumption
    <3>6. CASE call[p].at = "endpoint"
      <4>1. Connect(p)
        <5>1. call'[p].at = "send"
          BY <3>2, <3>6 DEF Order
        <5>2. ~ConnectFails(p) /\ ~Quit(p)
          BY <1>0, <2>6 DEF ConnectFails, Quit, Abandon, TypeOK
        <5>3. ~LocalStep(p)
          BY <3>6 DEF LocalStep, CreateWorkspace, SetLimit, Start, Apply, ReadMetadata, SendInitArgs,
             DestroyCgroup, DeferredDeleteWorkspace, Kill, RemoveLayers, At
        <5>4. NetworkedStep(p) => Connect(p)
          BY <2>6, <3>6, <5>2 DEF NetworkedStep, RecordRun, CreateMetadata, AllocateFails, DriverFails, PlugFails,
             DeferredDisconnect, Undo, LeaveConnected, Leave, Waited, Unrecord, RemoveMetadata, RemoveRecord,
             EndStop, SaveStopped, Disconnect, RemovalFails, DisconnectFails, RemoveDisconnected,
             RemoveContainer, At
        <5> QED BY <5>2, <5>3, <5>4 DEF Command
      <4>2. config'[n] \notin Metadata \/ endpoint'[n] # None
        <5>1. endpoint'[n] = IF config'[n] = Torn THEN None ELSE memory[p]
          BY <4>1, <2>1 DEF Connect, Saved, NetTypeOK
        <5>2. memory[p] # None
          BY <4>1 DEF Connect
        <5> QED BY <5>1, <5>2, MarkAssumption
      <4> QED BY <2>2, <3>3, <4>2, SoundAlone
    <3>7. call[p].at \in {"record", "apply", "connect"} => call'[p].at \in Plugging
      BY <3>2 DEF Order, Plugging
    <3> QED BY <3>4, <3>5, <3>6, <3>7 DEF Starting, Plugging
  <2> QED BY <2>4, <2>5, <2>6
<1> QED BY <1>1, <1>2

\* So do the later steps, and those of stop and rm.
LEMMA SoundLater ==
  ASSUME Inv, NetTypeOK, Networked, Disconnected, NEW p \in Proc, NEW n \in Name, Sound(n),
         Command(p) \/ (Quit(p) /\ Local(p)),
         call[p].name = n, call[p].at \notin Starting \cup {"record"} \cup Plugging
  PROVE  Sound(n)'
<1>0. TypeOK /\ NetFrame(p) /\ Follows(p) /\ call[p] # Idle /\ call[p].at \in Label
  BY CommandFrame, CallOf DEF Inv, NetFrame, Follows
<1>1. CASE n \in given \cup early
  BY <1>0, <1>1 DEF Sound, NetFrame
<1>2. CASE ReleaseEndpoint(p)
  BY <1>2 DEF ReleaseEndpoint, Sound
<1>3. ASSUME n \notin given \cup early, EndStop(p)
      PROVE  Sound(n)'
  <2>0. call'[p] = Idle /\ call[p].at = "stopped" /\ Busy(p, n)
    BY <1>0, <1>3 DEF EndStop, SaveStopped, Save, Done, Abandon, At, TypeOK, Busy
  <2>1. AlonePlugging(n) /\ NoneRead(n) /\ NotUndoing(n)
    BY <1>3 DEF Sound
  <2>2. /\ \A q \in Proc : Busy(q, n)' => q # p /\ Busy(q, n) /\ call'[q] = call[q] /\ memory'[q] = memory[q]
        /\ \A q \in Proc : Busy(q, n)' => call[q].at \notin Plugging
    BY <1>0, <2>0, <2>1 DEF NetFrame, Follows, Busy, AlonePlugging, Plugging
  <2>3. endpoint'[n] = IF config'[n] = Torn THEN None ELSE memory[p]
    BY <1>0, <1>3 DEF EndStop, Saved, NetTypeOK
  <2>4. Bare(n) => Bare(n)'
    <3>1. Bare(n) => memory[p] = None
      BY <2>0 DEF Bare
    <3> QED BY <2>2, <2>3, <3>1 DEF Bare
  <2>5. NoneRead(n)'
    BY <2>1, <2>2, <2>4 DEF NoneRead
  <2>6. NoneRecorded(n)'
    <3>1. config'[n] \in Metadata /\ endpoint'[n] = None => memory[p] = None
      BY <2>3, MarkAssumption
    <3>2. memory[p] = None => Bare(n)
      BY <2>0, <2>1 DEF NoneRead, Late
    <3> QED BY <2>4, <3>1, <3>2 DEF NoneRecorded
  <2>7. AlonePlugging(n)' /\ NotUndoing(n)'
    BY <2>1, <2>2 DEF AlonePlugging, NotUndoing
  <2> QED BY <2>5, <2>6, <2>7 DEF Sound
<1>4. ASSUME n \notin given \cup early, Unrecord(p)
      PROVE  Sound(n)'
  <2>1. AlonePlugging(n) /\ NoneRead(n) /\ NotUndoing(n)
    BY <1>4 DEF Sound
  <2>2. RemoveRecord(p)
    BY <1>0, <1>4, <2>1 DEF Unrecord, RemoveMetadata, At, NotUndoing, Busy
  <2>3. call'[p] = Idle /\ Busy(p, n) /\ call[p].at = "rmrecord" /\ config'[n] = Absent
    BY <1>0, <2>2 DEF RemoveRecord, Done, At, TypeOK, Busy
  <2>4. memory[p] = None
    BY <2>3 DEF Disconnected, In, Busy
  <2>5. Bare(n)
    BY <2>1, <2>3, <2>4 DEF NoneRead, Late
  <2>6. /\ \A q \in Proc : Busy(q, n)' => Busy(q, n) /\ call'[q] = call[q] /\ memory'[q] = memory[q]
        /\ endpoint'[n] = None
    BY <1>0, <1>4, <2>3 DEF NetFrame, Follows, Busy, Unrecord, NetTypeOK
  <2>7. Bare(n)'
    BY <2>5, <2>6 DEF Bare
  <2> QED BY <2>1, <2>6, <2>7 DEF Sound, AlonePlugging, NoneRead, NoneRecorded, NotUndoing
<1>5. ASSUME ~ReleaseEndpoint(p), ~EndStop(p), ~Unrecord(p)
      PROVE  Quiet(p, n)
  <2>1. /\ ~RecordRun(p) /\ ~Allocate(p) /\ ~AllocateFails(p) /\ ~DriverFails(p) /\ ~PlugFails(p)
        /\ ~Connect(p)
    BY <1>0 DEF RecordRun, CreateMetadata, Allocate, AllocateFails, DriverFails, PlugFails, ConnectFails,
       Connect, SaveEndpoint, At, Starting, Plugging
  <2>2. ~DeferredDisconnect(p)
    BY <1>0, <1>5 DEF DeferredDisconnect, Undo, Waited, At, Networked, In, RunLabel
  <2>3. ~Disconnect(p)
    BY <1>5 DEF Disconnect
  <2>4. /\ Local(p) /\ UNCHANGED config
        /\ Step(p) \/ Quit(p)
        /\ ~Undo(p)
    <3>1. CASE LocalStep(p)
      <4>1. ~CreateWorkspace(p) /\ ~SetLimit(p) /\ ~Start(p) /\ ~Apply(p) /\ ~ReadMetadata(p)
        BY DEF CreateWorkspace, SetLimit, Start, Apply, ReadMetadata, At, Starting, Plugging
      <4>2. UNCHANGED config /\ Local(p) /\ Step(p)
        BY <3>1, <4>1 DEF LocalStep, SendInitArgs, DestroyCgroup, DeferredDeleteWorkspace, Kill, RemoveLayers,
           Step, RunStep
      <4>3. ~Undo(p)
        BY <3>1, <4>1 DEF LocalStep, SendInitArgs, DestroyCgroup, DeferredDeleteWorkspace, Kill, RemoveLayers,
           Undo, Waited, At
      <4> QED BY <4>2, <4>3
    <3>2. CASE LeaveConnected(p) \/ RemovalFails(p) \/ (Quit(p) /\ Local(p))
      <4>1. Local(p) /\ UNCHANGED config /\ (Step(p) \/ Quit(p)) /\ call'[p] = Idle
        BY <1>0, <3>2 DEF LeaveConnected, RemovalFails, Leave, DisconnectFails, Quit, Abandon, Done, hostVars,
           Step, RunStep, TypeOK
      <4>2. ~Undo(p)
        <5>1. ASSUME Undo(p)
              PROVE  call'[p] # Idle
          <6>1. [call[p] EXCEPT !.at = "unrecord", !.pid = 0] \in Call
            BY <1>0, CallOf DEF Call, RunLabel
          <6>2. call'[p] = [call[p] EXCEPT !.at = "unrecord", !.pid = 0]
            BY <1>0, <5>1 DEF Undo, TypeOK
          <6> QED BY <6>1, <6>2, MarkAssumption
        <5> QED BY <4>1, <5>1
      <4> QED BY <4>1, <4>2
    <3>3. CASE RemoveDisconnected(p)
      BY <3>3 DEF RemoveDisconnected, RemoveContainer, hostVars, Step, Undo, Waited, At
    <3> QED BY <1>5, <2>1, <2>2, <2>3, <3>1, <3>2, <3>3 DEF Command, NetworkedStep
  <2>5. ASSUME call'[p] # Idle
        PROVE  memory'[p] = memory[p] /\ call'[p].at \notin Plugging \cup {"unrecord"}
    <3>1. <<call[p].at, call'[p].at>> \in Order
      BY <1>0, <2>4, <2>5, StepsInOrder
    <3>2. call[p].at # "wait"
      <4>1. ~Quit(p)
        BY <1>0, <2>5 DEF Quit, Abandon, TypeOK
      <4>2. ~Leave(p)
        BY <1>0, <2>5 DEF Leave, Abandon, TypeOK
      <4> QED BY <2>4, <4>1, <4>2 DEF Step, RunStep, CreateWorkspace, SetLimit, Start, CreateMetadata, Apply,
             ReadMetadata, SaveEndpoint, ConnectFails, SendInitArgs, RemoveMetadata, DestroyCgroup,
             DeferredDeleteWorkspace, Kill, SaveStopped, DisconnectFails, RemoveContainer, RemoveLayers,
             RemoveRecord, At
    <3>3. memory'[p] = memory[p]
      BY <2>4, <2>5 DEF Local, Forget, NetTypeOK
    <3> QED BY <3>1, <3>2, <3>3 DEF Order, Plugging, Starting
  <2> QED BY <1>0, <2>4, <2>5 DEF Quiet, NetFrame, Local, Follows
<1> QED BY <1>0, <1>1, <1>2, <1>3, <1>4, <1>5, SoundQuiet

\* A command that begins does too: it reads what is sound, or has the name for itself.
LEMMA SoundBegins ==
  ASSUME TypeOK, NetTypeOK, NEW p \in Proc, BeginCommand(p), NEW n \in Name, Sound(n)
  PROVE  Sound(n)'
<1>1. ASSUME NEW m \in Name, NEW detach \in BOOLEAN, NetworkedRun(p, m, detach)
      PROVE  Sound(n)'
  <2>1. /\ \A q \in Proc \ {p} : call'[q] = call[q]
        /\ call'[p].name = m /\ call'[p].at = "layers" /\ call[p] = Idle
        /\ UNCHANGED <<config, endpoint, memory>>
        /\ given' = given \ {m} /\ early' = early \ {m}
        /\ config[m] = Absent /\ \A q \in Proc : ~Busy(q, m)
    BY <1>1 DEF NetworkedRun, Run, Unused, TypeOK
  <2>2. CASE n = m
    <3>1. \A q \in Proc : Busy(q, n)' => q = p /\ call'[q].at \notin Late \cup {"unrecord"}
      BY <2>1, <2>2 DEF Busy, Late
    <3> QED BY <2>1, <2>2, <3>1, MarkAssumption, SoundAlone
  <2>3. CASE n # m
    <3>1. \A q \in Proc : /\ Busy(q, n)' <=> Busy(q, n)
                          /\ Busy(q, n) => call'[q] = call[q] /\ memory'[q] = memory[q]
      BY <2>1, <2>3 DEF Busy
    <3>2. Bare(n) => Bare(n)'
      BY <2>1, <3>1 DEF Bare
    <3>3. AlonePlugging(n) /\ NoneRead(n) /\ NoneRecorded(n) /\ NotUndoing(n) =>
            AlonePlugging(n)' /\ NoneRead(n)' /\ NotUndoing(n)'
      BY <3>1, <3>2 DEF AlonePlugging, NoneRead, NotUndoing
    <3>4. NoneRecorded(n) => NoneRecorded(n)'
      BY <2>1, <3>1, <3>2 DEF NoneRecorded, Connecting
    <3> QED BY <2>1, <2>3, <3>3, <3>4 DEF Sound
  <2> QED BY <2>2, <2>3
<1>2. ASSUME NEW m \in Name, BeginStop(p, m) \/ BeginRemoval(p, m)
      PROVE  Sound(n)'
  <2>1. /\ \A q \in Proc \ {p} : call'[q] = call[q]
        /\ call'[p].name = m /\ call'[p].at \in {"kill", "rm"} /\ call[p] = Idle
        /\ UNCHANGED <<config, endpoint, given>> /\ config[m] \in Metadata
        /\ early \subseteq early' /\ (Connecting(m) => m \in early')
    BY <1>2 DEF BeginStop, BeginRemoval, StopContainer, ReadForRemoval, Begun, Reads, hostVars, TypeOK
  <2>2. memory'[p] = endpoint[m] /\ \A q \in Proc \ {p} : memory'[q] = memory[q]
    BY <1>2 DEF BeginStop, BeginRemoval, Reads, NetTypeOK
  <2>3. CASE n \in given' \cup early'
    BY <2>3 DEF Sound
  <2>4. ASSUME n \notin given' \cup early'
        PROVE  Sound(n)'
    <3>1. AlonePlugging(n) /\ NoneRead(n) /\ NoneRecorded(n) /\ NotUndoing(n)
      BY <2>1, <2>4 DEF Sound
    <3>2. \A q \in Proc : Busy(q, n)' =>
            \/ q = p /\ m = n /\ call'[q].at \in {"kill", "rm"} /\ memory'[q] = endpoint[n]
            \/ Busy(q, n) /\ call'[q] = call[q] /\ memory'[q] = memory[q]
      BY <2>1, <2>2 DEF Busy
    <3>3. Bare(n) => Bare(n)'
      BY <2>1, <3>2 DEF Bare, Plugging
    <3>4. NotUndoing(n)'
      BY <3>1, <3>2 DEF NotUndoing
    <3>5. AlonePlugging(n)'
      <4>1. m = n => \A q \in Proc : Busy(q, n) => call[q].at \notin Plugging
        BY <2>1, <2>4 DEF Connecting, Plugging
      <4> QED BY <3>1, <3>2, <4>1 DEF AlonePlugging, Plugging
    <3>6. m = n /\ endpoint[n] = None => Bare(n)
      BY <2>1, <2>4, <3>1 DEF NoneRecorded
    <3>7. NoneRead(n)'
      BY <3>1, <3>2, <3>3, <3>6 DEF NoneRead
    <3>8. Connecting(n) => Connecting(n)'
      BY <2>1 DEF Connecting, Busy
    <3>9. NoneRecorded(n)'
      BY <2>1, <3>1, <3>3, <3>8 DEF NoneRecorded
    <3> QED BY <3>4, <3>5, <3>7, <3>9 DEF Sound
  <2> QED BY <2>3, <2>4
<1> QED BY <1>1, <1>2 DEF BeginCommand

\* Every step leaves every name sound.
LEMMA SoundStays ==
  ASSUME Inv, NetTypeOK, Networked, Disconnected, [RNext]_rvars, \A n \in Name : Sound(n)
  PROVE  \A n \in Name : Sound(n)'
<1> SUFFICES ASSUME NEW n \in Name
             PROVE  Sound(n)'
  OBVIOUS
<1>0. TypeOK /\ Sound(n)
  BY DEF Inv
<1>1. ASSUME UNCHANGED <<config, call, endpoint, memory, early>>, given \subseteq given'
      PROVE  Sound(n)'
  BY <1>0, <1>1 DEF Sound, AlonePlugging, NoneRead, NoneRecorded, NotUndoing, Bare, Connecting, Busy
<1>2. ASSUME NEW p \in Proc, Command(p) \/ (Quit(p) /\ Local(p))
      PROVE  Sound(n)'
  BY <1>0, <1>2, CommandFrame, SoundElsewhere, SoundConnecting, SoundLater
<1>3. ASSUME NEW i \in Pid, Exit(i) \/ Host(i), UNCHANGED netVars
      PROVE  Sound(n)'
  BY <1>1, <1>3 DEF Exit, Host, netVars
<1>4. CASE DeleteNetwork \/ CreateNetwork
  BY <1>1, <1>4 DEF DeleteNetwork, CreateNetwork, vars, hostVars
<1>5. CASE UNCHANGED rvars
  BY <1>1, <1>5 DEF rvars, vars, hostVars, netVars
<1> QED BY <1>0, <1>2, <1>3, <1>4, <1>5, SoundBegins DEF RNext

\* And rm without an endpoint where it removes.
LEMMA DisconnectedStays ==
  ASSUME TypeOK, NetTypeOK, Disconnected, [RNext]_rvars
  PROVE  Disconnected'
<1>1. ASSUME NEW p \in Proc, Command(p) \/ (Quit(p) /\ Local(p))
      PROVE  Disconnected'
  <2>1. NetFrame(p) /\ Follows(p)
    BY <1>1, CommandFrame DEF NetFrame
  <2>2. ASSUME In(p, {"rmlayers", "rmrecord"})'
        PROVE  memory'[p] = None
    <3>1. CASE call[p].at \in {"rmlayers", "rmrecord"}
      <4>1. memory[p] = None
        BY <2>1, <3>1 DEF Disconnected, In, Follows
      <4>2. RemoveLayers(p) /\ Local(p)
        <5>1. ~Unrecord(p)
          BY <2>2, <3>1 DEF Unrecord, RemoveMetadata, RemoveRecord, Done, At, In, TypeOK
        <5>2. ~Quit(p)
          BY <2>2 DEF Quit, Abandon, In, TypeOK
        <5> QED BY <1>1, <3>1, <5>1, <5>2
                DEF Command, NetworkedStep, LocalStep, RecordRun, CreateMetadata, Allocate, AllocateFails,
                    DriverFails, PlugFails, Connect, SaveEndpoint, ConnectFails, DeferredDisconnect, Undo, Waited,
                    LeaveConnected, Leave, EndStop, SaveStopped, Disconnect, RemovalFails, DisconnectFails,
                    RemoveDisconnected, RemoveContainer, CreateWorkspace, SetLimit, Start, Apply, ReadMetadata,
                    SendInitArgs, DestroyCgroup, DeferredDeleteWorkspace, Kill, At
      <4> QED BY <4>1, <4>2 DEF Local, Forget, NetTypeOK
    <3>2. CASE call[p].at \notin {"rmlayers", "rmrecord"}
      <4>1. Step(p) \/ Quit(p)
        BY <1>1, <2>2, <3>2, CommandRefines DEF In, vars
      <4>2. call[p].at = "rm"
        BY <2>2, <3>2, <4>1, StepsInOrder DEF In, Order
      <4>3. RemoveDisconnected(p)
        <5>1. ~Quit(p) /\ ~RemovalFails(p)
          BY <2>2 DEF Quit, Abandon, RemovalFails, DisconnectFails, Done, In, TypeOK
        <5>2. ~Disconnect(p)
          BY <2>2, <4>2 DEF Disconnect, vars, In
        <5> QED BY <1>1, <4>2, <5>1, <5>2
                DEF Command, NetworkedStep, LocalStep, RecordRun, CreateMetadata, Allocate, AllocateFails,
                    DriverFails, PlugFails, Connect, SaveEndpoint, ConnectFails, DeferredDisconnect, Undo, Waited,
                    LeaveConnected, Leave, EndStop, SaveStopped, Unrecord, RemoveMetadata, RemoveRecord,
                    CreateWorkspace, SetLimit, Start, Apply, ReadMetadata, SendInitArgs, DestroyCgroup,
                    DeferredDeleteWorkspace, Kill, RemoveLayers, At
      <4> QED BY <4>3 DEF RemoveDisconnected, Local, Forget, NetTypeOK
    <3> QED BY <3>1, <3>2
  <2>3. ASSUME NEW q \in Proc \ {p}, In(q, {"rmlayers", "rmrecord"})'
        PROVE  memory'[q] = None
    BY <2>1, <2>3 DEF NetFrame, Follows, Disconnected, In
  <2> QED BY <2>2, <2>3 DEF Disconnected
<1>2. ASSUME NEW p \in Proc, BeginCommand(p)
      PROVE  Disconnected'
  <2>1. /\ \A q \in Proc \ {p} : call'[q] = call[q] /\ memory'[q] = memory[q]
        /\ call'[p].at \in {"layers", "kill", "rm"}
    BY <1>2 DEF BeginCommand, BeginStop, BeginRemoval, NetworkedRun, Run, StopContainer, ReadForRemoval, Begun,
       Reads, TypeOK, NetTypeOK
  <2> QED BY <2>1 DEF Disconnected, In
<1>3. CASE UNCHANGED <<call, memory>>
  BY <1>3 DEF Disconnected, In
<1>4. ASSUME NEW i \in Pid, Exit(i) \/ Host(i), UNCHANGED netVars
      PROVE  UNCHANGED <<call, memory>>
  BY <1>4 DEF Exit, Host, netVars
<1>5. CASE DeleteNetwork \/ CreateNetwork
  BY <1>3, <1>5 DEF DeleteNetwork, CreateNetwork, vars
<1> QED BY <1>1, <1>2, <1>3, <1>4, <1>5 DEF RNext, rvars, vars, netVars

\* Only two steps remove a record.
LEMMA WhoRemoves ==
  ASSUME Inv, NEW p \in Proc, Step(p) \/ Quit(p), NEW n \in Name, config[n] # Absent, config'[n] = Absent
  PROVE  call[p].name = n /\ (RemoveMetadata(p) \/ RemoveRecord(p))
<1>0. TypeOK /\ call[p] # Idle /\ call[p].pid \in Pid \cup {0}
  BY StepFollows, CallOf DEF Inv, Follows
<1>1. call[p].name = n
  BY <1>0, OwnRecord
<1>2. ~CreateMetadata(p) /\ ~SaveStopped(p)
  <2>1. /\ [pid |-> call[p].pid, status |-> "running"] \in Metadata
        /\ [pid |-> 0, status |-> "stopped"] \in Metadata
    BY <1>0 DEF Metadata
  <2> QED BY <1>0, <1>1, <2>1, MarkAssumption DEF CreateMetadata, SaveStopped, Save, TypeOK
<1>3. ~SaveEndpoint(p)
  <2>1. SaveEndpoint(p) => call[p].seen \in Metadata
    BY DEF SaveEndpoint, At, Inv, Stops, StopsAt, In
  <2> QED BY <1>0, <1>1, <2>1, MarkAssumption DEF SaveEndpoint, Save, TypeOK
<1> QED BY <1>1, <1>2, <1>3
        DEF Step, RunStep, CreateWorkspace, SetLimit, Start, Apply, ReadMetadata, ConnectFails, SendInitArgs, Undo,
            Leave, DestroyCgroup, DeferredDeleteWorkspace, Kill, DisconnectFails, RemoveContainer, RemoveLayers,
            Quit, hostVars

\* So no step removes a record with an endpoint that nobody gave back.
LEMMA RecordKept ==
  ASSUME Inv, Disconnected, RNext, NEW n \in Name, Sound(n), n \notin given \cup early,
         config[n] \in Metadata, endpoint[n] # None
  PROVE  config'[n] # Absent
<1>0. TypeOK /\ config[n] # Absent
  BY MarkAssumption DEF Inv
<1>1. ASSUME NEW p \in Proc, Command(p) \/ Quit(p), config'[n] = Absent
      PROVE  FALSE
  <2>1. Step(p) \/ Quit(p)
    BY <1>0, <1>1, CommandRefines DEF vars, hostVars
  <2>2. call[p].name = n /\ (RemoveMetadata(p) \/ RemoveRecord(p))
    BY <1>0, <1>1, <2>1, WhoRemoves
  <2>3. Busy(p, n) /\ call[p].at \in {"unrecord", "rmrecord"}
    BY <2>2 DEF Busy, RemoveMetadata, RemoveRecord, At
  <2>4. call[p].at = "rmrecord" => memory[p] = None
    BY <2>3 DEF Disconnected, In, Busy
  <2> QED BY <2>3, <2>4 DEF Sound, NotUndoing, NoneRead, Bare, Late
<1>2. ASSUME NEW p \in Proc, BeginCommand(p)
      PROVE  UNCHANGED config
  BY <1>2 DEF BeginCommand, BeginStop, BeginRemoval, NetworkedRun, Run, StopContainer, ReadForRemoval, hostVars
<1>3. ASSUME NEW i \in Pid, Exit(i) \/ Host(i)
      PROVE  UNCHANGED config
  BY <1>3 DEF Exit, Host
<1>4. DeleteNetwork \/ CreateNetwork => UNCHANGED config
  BY DEF DeleteNetwork, CreateNetwork, vars, hostVars
<1> QED BY <1>0, <1>1, <1>2, <1>3, <1>4 DEF RNext

(***************************************************************************)
(* A record is never removed before the address in it was given back.      *)
(***************************************************************************)
THEOREM RecordsOutliveAddresses == RSpec => RecordOutlivesAddress
<1> DEFINE Sane == Networked /\ Disconnected /\ \A n \in Name : Sound(n)
<1>1. RInit => Sane
  BY DEF RInit, Init, Networked, Disconnected, Sound, AlonePlugging, NoneRead, NoneRecorded, NotUndoing, Bare,
         Busy, In
<1>2. Inv /\ NetTypeOK /\ Sane /\ [RNext]_rvars => Sane'
  BY NetworkedStays, DisconnectedStays, SoundStays DEF Inv
<1>3. Inv /\ Sane /\ [RNext]_rvars =>
        [\A n \in Name \ (given \cup early) :
           config[n] \in Metadata /\ endpoint[n] # None => config'[n] # Absent]_rvars
  BY RecordKept
<1>4. RTypeOK => NetTypeOK
  BY DEF RTypeOK, NetTypeOK
<1>5. RSpec => []Inv
  BY Refines, Invariant, PTL
<1> HIDE DEF Sane
<1> QED BY <1>1, <1>2, <1>3, <1>4, <1>5, NetworkedTypeCorrect, PTL DEF RSpec, RecordOutlivesAddress

-----------------------------------------------------------------------------
\* The steps of a run command up to Connect.
Before == Starting \cup {"record"} \cup Plugging

\* A command that has ended has no endpoint in memory, and a name without metadata none on disk.
IdleEmpty  == \A p \in Proc : call[p] = Idle => memory[p] = None
Unrecorded == \A n \in Name : config[n] \notin Metadata => endpoint[n] = None

\* Whatever endpoint of a name there is, it is of the address its last run got.
Copies ==
  \A n \in Name : /\ endpoint[n] \in {None, address[n]}
                  /\ \A p \in Proc : Busy(p, n) => memory[p] \in {None, address[n]}

\* A run without an endpoint in memory has not got one yet.
Fresh == \A p \in Proc : In(p, Before) /\ memory[p] = None => address[call[p].name] = None

\* A run that is connected has its endpoint in memory.
Held == \A p \in Proc : In(p, {"send", "wait"}) => memory[p] # None

\* The addresses nobody gave back are all different, set, and not among the lost ones.
Own ==
  ~mishap =>
    /\ lost \subseteq bits
    /\ \A n \in Name \ given : address[n] # None =>
         /\ address[n] \in bits \ lost
         /\ \A m \in Name \ given : address[m] = address[n] => m = n

\* The part of it that is about single names.
Traced == IdleEmpty /\ Unrecorded /\ Copies /\ Fresh /\ Held

\* An address goes back.
GivesBack(p) ==
  /\ memory[p] # None /\ memory'[p] = None
  /\ bits' = bits \ {memory[p]} /\ lost' \in {lost, lost \ {memory[p]}}
  /\ given' = given \cup {call[p].name}
  /\ mishap' <=> mishap \/ call[p].name \in given

\* What a step of a command other than Allocate does to the addresses.
AddressFrame(p) ==
  /\ address' = address
  /\ memory'[p] \in {None, memory[p]} /\ (call'[p] = Idle => memory'[p] = None)
  /\ endpoint'[call[p].name] \in {endpoint[call[p].name], None, memory[p]}
  /\ UNCHANGED <<bits, given, lost, mishap>> \/ GivesBack(p)

\* A release is one, and so is what the driver's failure leaves.
LEMMA ReleaseGivesBack ==
  ASSUME NetTypeOK, NEW p \in Proc, memory[p] # None, ReleaseEndpoint(p)
  PROVE  GivesBack(p)
BY DEF NetTypeOK, ReleaseEndpoint, GivesBack

LEMMA CommandKeeps ==
  ASSUME TypeOK, NetTypeOK, Networked, Held, NEW p \in Proc,
         Command(p) \/ (Quit(p) /\ Local(p)), ~Allocate(p)
  PROVE  AddressFrame(p)
<1> USE DEF AddressFrame
<1>0. /\ call[p] # Idle /\ call[p].name \in Name
      /\ p \in DOMAIN memory /\ call[p].name \in DOMAIN endpoint
  BY CommandFrame, CallOf DEF NetFrame, Follows, NetTypeOK
<1>1. CASE Local(p)
  BY <1>0, <1>1 DEF Local, Forget
<1>2. CASE ReleaseEndpoint(p) /\ memory[p] # None
  BY <1>0, <1>2, ReleaseGivesBack DEF ReleaseEndpoint
<1>3. CASE RecordRun(p) \/ Connect(p) \/ Unrecord(p) \/ EndStop(p)
  BY <1>0, <1>3 DEF RecordRun, Connect, Unrecord, EndStop, Forget, Saved
<1>4. CASE DriverFails(p)
  <2>1. call'[p] = Idle
    BY <1>0, <1>4 DEF DriverFails, ConnectFails, Abandon, TypeOK
  <2> QED BY <1>0, <1>4, <2>1 DEF DriverFails, Forget, GivesBack
<1>5. CASE DeferredDisconnect(p)
  <2>1. memory[p] # None
    BY <1>5 DEF DeferredDisconnect, Undo, Waited, At, Held, In
  <2> QED BY <1>1, <1>2, <1>5, <2>1 DEF DeferredDisconnect
<1>6. CASE Disconnect(p)
  BY <1>2, <1>6 DEF Disconnect
<1> QED BY <1>1, <1>3, <1>4, <1>5, <1>6
        DEF Command, NetworkedStep, LocalStep, AllocateFails, PlugFails, LeaveConnected, RemovalFails,
            RemoveDisconnected

\* A run that goes on towards Connect keeps what it has in memory, and so does one that is connected.
LEMMA MemoryKept ==
  ASSUME TypeOK, NetTypeOK, Networked, NEW p \in Proc, Command(p) \/ (Quit(p) /\ Local(p)),
         ~Allocate(p), call'[p] # Idle, call'[p].at \in Before \cup {"send", "wait"}
  PROVE  /\ memory'[p] = memory[p]
         /\ call'[p].at \in Before => call[p].at \in Before
         /\ call'[p].at \in {"send", "wait"} =>
              call[p].at \in {"send", "wait"} \/ (call[p].at = "endpoint" /\ memory[p] # None)
<1>0. NetFrame(p) /\ Follows(p) /\ call[p] # Idle
  BY CommandFrame DEF NetFrame, Follows
<1>1. ~Disconnect(p)
  BY DEF Disconnect, At, vars, Before, Starting, Plugging
<1>2. Step(p) \/ Quit(p)
  BY <1>1 DEF Command, NetworkedStep, LocalStep, RecordRun, AllocateFails, DriverFails, PlugFails, Connect,
     DeferredDisconnect, LeaveConnected, Unrecord, EndStop, RemovalFails, RemoveDisconnected, Step, RunStep
<1>3. /\ <<call[p].at, call'[p].at>> \in Order
      /\ call[p].at = "apply" /\ call[p].network => call'[p].at = "connect"
  BY <1>0, <1>2, StepsInOrder
<1>4. ~Undo(p)
  <2>1. ~(call[p].at = "wait")
    BY <1>3 DEF Order, Before, Starting, Plugging
  <2> QED BY <2>1 DEF Undo, Waited, At
<1>5. memory'[p] = memory[p]
  <2>1. Forget(p)
    BY <1>1, <1>4 DEF Command, NetworkedStep, LocalStep, RecordRun, AllocateFails, DriverFails, PlugFails, Connect,
       DeferredDisconnect, LeaveConnected, Unrecord, EndStop, RemovalFails, RemoveDisconnected, Local
  <2> QED BY <2>1 DEF Forget, NetTypeOK
<1>6. call'[p].at \in Before => call[p].at \in Before
  BY <1>3 DEF Order, Before, Starting, Plugging
<1>7. ASSUME call[p].at = "endpoint"
      PROVE  memory[p] # None
  <2>1. ~ConnectFails(p) /\ ~Quit(p)
    BY <1>0 DEF ConnectFails, Quit, Abandon, TypeOK
  <2>2. ~LocalStep(p)
    BY <1>7 DEF LocalStep, CreateWorkspace, SetLimit, Start, Apply, ReadMetadata, SendInitArgs,
       DestroyCgroup, DeferredDeleteWorkspace, Kill, RemoveLayers, At
  <2>3. NetworkedStep(p) => Connect(p)
    BY <1>7, <2>1 DEF NetworkedStep, RecordRun, CreateMetadata, AllocateFails, DriverFails, PlugFails,
       DeferredDisconnect, Undo, LeaveConnected, Leave, Waited, Unrecord, RemoveMetadata, RemoveRecord,
       EndStop, SaveStopped, Disconnect, RemovalFails, DisconnectFails, RemoveDisconnected,
       RemoveContainer, At
  <2> QED BY <2>1, <2>2, <2>3 DEF Command, Connect
<1>8. call'[p].at \in {"send", "wait"} => call[p].at \in {"send", "wait", "endpoint"}
  <2>1. call'[p].at \in {"send", "wait"} => call[p].at \in {"send", "wait", "endpoint", "apply"}
    BY <1>3 DEF Order
  <2>2. call[p].at = "apply" => call[p].network
    BY <1>0 DEF Networked, In, RunLabel
  <2> QED BY <1>3, <2>1, <2>2
<1> QED BY <1>5, <1>6, <1>7, <1>8

\* A step of a command leaves a name without metadata without an endpoint.
LEMMA CommandUnrecorded ==
  ASSUME Inv, NetTypeOK, Unrecorded, NEW p \in Proc, Command(p) \/ (Quit(p) /\ Local(p))
  PROVE  Unrecorded'
<1>0. TypeOK /\ NetFrame(p) /\ call[p].name \in Name /\ call[p].pid \in Pid \cup {0}
  BY CommandFrame, CallOf DEF Inv, NetFrame, Follows
<1> DEFINE n == call[p].name
<1>1. ASSUME config'[n] \notin Metadata
      PROVE  endpoint'[n] = None
  <2>1. CASE Unrecord(p) \/ RecordRun(p)
    BY <1>0, <2>1 DEF Unrecord, RecordRun, Saved, NetTypeOK
  <2>2. CASE Connect(p) \/ EndStop(p)
    <3>1. config'[n] = Torn
      <4>1. [pid |-> 0, status |-> "stopped"] \in Metadata
        BY DEF Metadata
      <4>2. SaveEndpoint(p) => call[p].seen \in Metadata
        BY DEF SaveEndpoint, At, Inv, Stops, StopsAt, In
      <4> QED BY <1>0, <1>1, <2>2, <4>1, <4>2 DEF Connect, EndStop, SaveEndpoint, SaveStopped, Save, TypeOK
    <3> QED BY <1>0, <2>2, <3>1 DEF Connect, EndStop, Saved, NetTypeOK
  <2>3. CASE ~Unrecord(p) /\ ~RecordRun(p) /\ ~Connect(p) /\ ~EndStop(p)
    <3>1. UNCHANGED endpoint
      BY <2>3 DEF Command, NetworkedStep, LocalStep, Allocate, AllocateFails, DriverFails, PlugFails,
         DeferredDisconnect, LeaveConnected, Disconnect, RemovalFails, RemoveDisconnected, Local, ReleaseEndpoint
    <3>2. UNCHANGED config
      BY <2>3 DEF Command, NetworkedStep, LocalStep, Allocate, AllocateFails, DriverFails, PlugFails, ConnectFails,
         DeferredDisconnect, Undo, LeaveConnected, Leave, Disconnect, RemovalFails, DisconnectFails,
         RemoveDisconnected, RemoveContainer, CreateWorkspace, SetLimit, Start, Apply, ReadMetadata, SendInitArgs,
         DestroyCgroup, DeferredDeleteWorkspace, Kill, RemoveLayers, Quit, vars, hostVars
    <3> QED BY <1>0, <1>1, <3>1, <3>2 DEF Unrecorded
  <2> QED BY <2>1, <2>2, <2>3
<1>2. ASSUME NEW m \in Name \ {n}, config'[m] \notin Metadata
      PROVE  endpoint'[m] = None
  BY <1>0, <1>2 DEF NetFrame, Unrecorded
<1> QED BY <1>1, <1>2 DEF Unrecorded

\* The address Allocate takes.
LEMMA AllocateTakes ==
  ASSUME TypeOK, NetTypeOK, NEW p \in Proc, Allocate(p)
  PROVE  /\ call[p].name \in Name /\ In(p, Before) /\ memory[p] = None /\ call[p].at = "endpoint"
         /\ UNCHANGED <<vars, endpoint, given, early, lost, mishap>>
         /\ \E a \in Addr \ bits :
              /\ bits' = bits \cup {a} /\ memory'[p] = a /\ address'[call[p].name] = a
              /\ \A q \in Proc \ {p} : memory'[q] = memory[q]
              /\ \A n \in Name \ {call[p].name} : address'[n] = address[n]
<1>1. /\ call[p].name \in Name /\ In(p, Before) /\ call[p].at = "endpoint"
      /\ p \in DOMAIN memory /\ call[p].name \in DOMAIN address
  BY CallOf DEF Allocate, At, In, Before, Plugging, NetTypeOK
<1>2. PICK a \in Addr \ bits : /\ bits' = bits \cup {a}
                               /\ memory' = [memory EXCEPT ![p] = a]
                               /\ address' = [address EXCEPT ![call[p].name] = a]
  BY LowestFree DEF Allocate, NetTypeOK
<1>3. /\ memory'[p] = a /\ address'[call[p].name] = a
      /\ \A q \in Proc \ {p} : memory'[q] = memory[q]
      /\ \A n \in Name \ {call[p].name} : address'[n] = address[n]
  BY <1>1, <1>2 DEF NetTypeOK
<1> QED BY <1>1, <1>2, <1>3 DEF Allocate

\* A command that gets an address is the only one that has one of the name.
LEMMA AllocateTraced ==
  ASSUME Inv, NetTypeOK, Traced, NEW p \in Proc, Allocate(p)
  PROVE  Traced'
<1> DEFINE n == call[p].name
<1>0. TypeOK /\ n \in Name /\ In(p, Before) /\ Busy(p, n)
  BY AllocateTakes DEF Inv, In, Busy
<1>1. PICK a \in Addr \ bits :
        /\ memory'[p] = a /\ address'[n] = a
        /\ \A q \in Proc \ {p} : memory'[q] = memory[q]
        /\ \A m \in Name \ {n} : address'[m] = address[m]
  BY <1>0, AllocateTakes
<1>2. memory[p] = None /\ call[p].at = "endpoint" /\ UNCHANGED <<config, call, endpoint>> /\ a # None
  BY <1>0, AllocateTakes, AddrAssumption DEF vars, hostVars
<1>3. address[n] = None
  BY <1>0, <1>2 DEF Traced, Fresh
<1>4. IdleEmpty'
  BY <1>0, <1>1, <1>2 DEF Traced, IdleEmpty, In
<1>5. Unrecorded'
  BY <1>2 DEF Traced, Unrecorded
<1>6. Copies'
  <2>1. ASSUME NEW m \in Name \ {n}
        PROVE  /\ endpoint'[m] \in {None, address'[m]}
               /\ \A q \in Proc : Busy(q, m)' => memory'[q] \in {None, address'[m]}
    <3>1. \A q \in Proc : Busy(q, m)' => Busy(q, m) /\ q # p
      BY <1>0, <1>2, <2>1 DEF Busy
    <3> QED BY <1>1, <1>2, <3>1 DEF Traced, Copies
  <2>2. endpoint'[n] = None
    BY <1>0, <1>2, <1>3 DEF Traced, Copies
  <2>3. \A q \in Proc : Busy(q, n)' => memory'[q] \in {None, address'[n]}
    BY <1>0, <1>1, <1>2, <1>3 DEF Traced, Copies, Busy
  <2> QED BY <1>2, <2>1, <2>2, <2>3 DEF Copies
<1>7. Fresh'
  <2>1. ASSUME NEW q \in Proc \ {p}, In(q, Before)', memory'[q] = None
        PROVE  address'[call[q].name] = None
    <3>1. In(q, Before) /\ memory[q] = None /\ call[q].name \in Name
      BY <1>0, <1>1, <1>2, <2>1, CallOf DEF In
    <3>2. call[q].name # n
      BY <1>0, <3>1 DEF Inv, OneRun, In, Before, Starting, Plugging, RunLabel
    <3> QED BY <1>1, <3>1, <3>2 DEF Traced, Fresh
  <2> QED BY <1>1, <1>2, <2>1 DEF Fresh
<1>8. Held'
  BY <1>1, <1>2 DEF Traced, Held, In
<1> QED BY <1>4, <1>5, <1>6, <1>7, <1>8 DEF Traced

\* The other steps of a command copy what is there.
LEMMA CommandTraced ==
  ASSUME Inv, NetTypeOK, Networked, Traced, NEW p \in Proc, Command(p) \/ (Quit(p) /\ Local(p)), ~Allocate(p)
  PROVE  Traced'
<1> DEFINE n == call[p].name
<1>0. /\ TypeOK /\ NetFrame(p) /\ Follows(p) /\ AddressFrame(p)
      /\ n \in Name /\ Busy(p, n) /\ call[p] # Idle
  BY CommandFrame, CommandKeeps, CallOf DEF Inv, NetFrame, Follows, Traced, Busy
<1>1. IdleEmpty'
  BY <1>0 DEF Traced, IdleEmpty, NetFrame, Follows, AddressFrame
<1>2. Unrecorded'
  BY CommandUnrecorded DEF Traced
<1>3. Copies'
  <2>1. memory[p] \in {None, address[n]}
    BY <1>0 DEF Traced, Copies
  <2>2. ASSUME NEW m \in Name
        PROVE  endpoint'[m] \in {None, address'[m]}
    BY <1>0, <2>1 DEF Traced, Copies, NetFrame, AddressFrame
  <2>3. ASSUME NEW m \in Name, NEW q \in Proc, Busy(q, m)'
        PROVE  memory'[q] \in {None, address'[m]}
    <3>1. Busy(q, m)
      BY <1>0, <2>3 DEF Follows, Busy
    <3> QED BY <1>0, <3>1 DEF Traced, Copies, NetFrame, AddressFrame
  <2> QED BY <2>2, <2>3 DEF Copies
<1>4. Fresh'
  <2>1. ASSUME NEW q \in Proc, In(q, Before)', memory'[q] = None
        PROVE  In(q, Before) /\ memory[q] = None /\ call'[q].name = call[q].name
    <3>1. CASE q = p
      BY <1>0, <2>1, <3>1, MemoryKept DEF In, Follows
    <3>2. CASE q # p
      BY <1>0, <2>1, <3>2 DEF In, Follows, NetFrame
    <3> QED BY <3>1, <3>2
  <2> QED BY <1>0, <2>1 DEF Traced, Fresh, AddressFrame
<1>5. Held'
  <2>1. ASSUME NEW q \in Proc, In(q, {"send", "wait"})'
        PROVE  memory'[q] # None
    <3>1. CASE q = p
      BY <1>0, <2>1, <3>1, MemoryKept DEF In, Traced, Held
    <3>2. CASE q # p
      BY <1>0, <2>1, <3>2 DEF In, Follows, NetFrame, Traced, Held
    <3> QED BY <3>1, <3>2
  <2> QED BY <2>1 DEF Held
<1> QED BY <1>1, <1>2, <1>3, <1>4, <1>5 DEF Traced

\* A command that begins reads what is there, or has no address yet.
LEMMA BeginTraced ==
  ASSUME TypeOK, NetTypeOK, Traced, NEW p \in Proc, BeginCommand(p)
  PROVE  Traced'
<1>1. ASSUME NEW n \in Name, NEW detach \in BOOLEAN, NetworkedRun(p, n, detach)
      PROVE  Traced'
  <2>1. /\ \A q \in Proc \ {p} : call'[q] = call[q]
        /\ call'[p].name = n /\ call'[p].at = "layers" /\ call[p] = Idle
        /\ UNCHANGED <<config, endpoint, memory>>
        /\ config[n] = Absent /\ \A q \in Proc : ~Busy(q, n)
    BY <1>1 DEF NetworkedRun, Run, Unused, TypeOK
  <2>2. address'[n] = None /\ \A m \in Name \ {n} : address'[m] = address[m]
    BY <1>1 DEF NetworkedRun, NetTypeOK
  <2>3. memory[p] = None /\ endpoint[n] = None
    BY <2>1, MarkAssumption DEF Traced, IdleEmpty, Unrecorded
  <2>4. IdleEmpty' /\ Unrecorded'
    BY <2>1, <2>3 DEF Traced, IdleEmpty, Unrecorded
  <2>5. \A q \in Proc : \A m \in Name : Busy(q, m)' => (q = p /\ m = n) \/ (q # p /\ m # n /\ Busy(q, m))
    BY <2>1 DEF Busy
  <2>6. Copies'
    BY <2>1, <2>2, <2>3, <2>5 DEF Traced, Copies
  <2>7. Fresh'
    <3>1. ASSUME NEW q \in Proc \ {p}, In(q, Before)', memory'[q] = None
          PROVE  address'[call'[q].name] = None
      <4>1. In(q, Before) /\ memory[q] = None /\ call[q].name \in Name \ {n} /\ call'[q] = call[q]
        BY <2>1, <3>1, CallOf DEF In, Busy
      <4> QED BY <2>2, <4>1 DEF Traced, Fresh
    <3> QED BY <2>1, <2>2, <3>1 DEF Fresh
  <2>8. Held'
    BY <2>1 DEF Traced, Held, In
  <2> QED BY <2>4, <2>6, <2>7, <2>8 DEF Traced
<1>2. ASSUME NEW n \in Name, BeginStop(p, n) \/ BeginRemoval(p, n)
      PROVE  Traced'
  <2>1. /\ \A q \in Proc \ {p} : call'[q] = call[q]
        /\ call'[p].name = n /\ call'[p].at \in {"kill", "rm"} /\ call'[p] # Idle /\ call[p] = Idle
        /\ UNCHANGED <<config, endpoint, address>>
    <3>1. config[n] \in Metadata
      BY <1>2 DEF BeginStop, BeginRemoval, StopContainer, ReadForRemoval
    <3>2. /\ config[n].pid \in Pid \cup {0}
          /\ [at |-> "kill", name |-> n, pid |-> config[n].pid, detach |-> FALSE,
              network |-> FALSE, seen |-> Absent] \in Call
          /\ [at |-> "rm", name |-> n, pid |-> 0, detach |-> FALSE,
              network |-> FALSE, seen |-> config[n]] \in Call
      BY <3>1 DEF Metadata, Call
    <3>3. CASE BeginStop(p, n)
      <4>1. call'[p] = [at |-> "kill", name |-> n, pid |-> config[n].pid, detach |-> FALSE,
                        network |-> FALSE, seen |-> Absent]
        BY <3>3 DEF BeginStop, StopContainer, Begun, TypeOK
      <4>2. call'[p].name = n /\ call'[p].at = "kill"
        BY <4>1
      <4>3. call'[p] \in Call
        BY <3>2, <4>1, Zenon
      <4> QED BY MarkAssumption, <3>3, <4>2, <4>3 DEF BeginStop, StopContainer, Begun, Reads, hostVars, TypeOK
    <3>4. CASE BeginRemoval(p, n)
      <4>1. call'[p] = [at |-> "rm", name |-> n, pid |-> 0, detach |-> FALSE,
                        network |-> FALSE, seen |-> config[n]]
        BY <3>4 DEF BeginRemoval, ReadForRemoval, TypeOK
      <4>2. call'[p].name = n /\ call'[p].at = "rm"
        BY <4>1
      <4>3. call'[p] \in Call
        BY <3>2, <4>1, Zenon
      <4> QED BY MarkAssumption, <3>4, <4>2, <4>3 DEF BeginRemoval, ReadForRemoval, Reads, hostVars, TypeOK
    <3> QED BY <1>2, <3>3, <3>4
  <2>2. memory'[p] = endpoint[n] /\ \A q \in Proc \ {p} : memory'[q] = memory[q]
    BY <1>2 DEF BeginStop, BeginRemoval, Reads, NetTypeOK
  <2>3. IdleEmpty' /\ Unrecorded'
    BY <2>1, <2>2 DEF Traced, IdleEmpty, Unrecorded
  <2>4. Copies'
    <3>1. \A q \in Proc : \A m \in Name : Busy(q, m)' => (q = p /\ m = n) \/ (q # p /\ Busy(q, m))
      BY <2>1 DEF Busy
    <3> QED BY <2>1, <2>2, <3>1 DEF Traced, Copies
  <2>5. Fresh'
    <3>1. \A q \in Proc : In(q, Before)' => q # p /\ In(q, Before) /\ call'[q] = call[q]
      BY <2>1 DEF In, Before, Starting, Plugging
    <3> QED BY <2>1, <2>2, <3>1 DEF Traced, Fresh
  <2>6. Held'
    BY <2>1, <2>2 DEF Traced, Held, In
  <2> QED BY <2>3, <2>4, <2>5, <2>6 DEF Traced
<1> QED BY <1>1, <1>2 DEF BeginCommand

\* Every step keeps it.
LEMMA TracedStays ==
  ASSUME Inv, NetTypeOK, Networked, Traced, [RNext]_rvars
  PROVE  Traced'
<1>1. ASSUME UNCHANGED <<config, call, endpoint, memory, address>>
      PROVE  Traced'
  BY <1>1 DEF Traced, IdleEmpty, Unrecorded, Copies, Fresh, Held, Busy, In
<1>2. ASSUME NEW p \in Proc, BeginCommand(p) \/ Command(p) \/ (Quit(p) /\ Local(p))
      PROVE  Traced'
  BY <1>2, BeginTraced, AllocateTraced, CommandTraced DEF Inv
<1>3. ASSUME NEW i \in Pid, Exit(i) \/ Host(i), UNCHANGED netVars
      PROVE  Traced'
  BY <1>1, <1>3 DEF Exit, Host, netVars
<1>4. CASE DeleteNetwork \/ CreateNetwork
  BY <1>1, <1>4 DEF DeleteNetwork, CreateNetwork, vars, hostVars
<1>5. CASE UNCHANGED rvars
  BY <1>1, <1>5 DEF rvars, vars, hostVars, netVars
<1> QED BY <1>2, <1>3, <1>4, <1>5 DEF RNext

-----------------------------------------------------------------------------
\* A command that gets an address gets one that nobody has.
LEMMA AllocateOwn ==
  ASSUME TypeOK, NetTypeOK, Fresh, Own, NEW p \in Proc, Allocate(p)
  PROVE  Own'
<1> DEFINE n == call[p].name
<1>1. PICK a \in Addr \ bits :
        /\ bits' = bits \cup {a} /\ address'[n] = a
        /\ \A m \in Name \ {n} : address'[m] = address[m]
  BY AllocateTakes
<1>2. UNCHANGED <<given, lost, mishap>> /\ address[n] = None /\ n \in Name
  BY AllocateTakes DEF Fresh
<1> SUFFICES ASSUME ~mishap
             PROVE  /\ lost' \subseteq bits'
                    /\ \A m \in Name \ given : address'[m] # None =>
                         /\ address'[m] \in bits' \ lost'
                         /\ \A k \in Name \ given : address'[k] = address'[m] => k = m
  BY <1>2 DEF Own
<1>3. /\ lost \subseteq bits
      /\ \A m \in Name \ given : address[m] # None =>
           /\ address[m] \in bits \ lost
           /\ \A k \in Name \ given : address[k] = address[m] => k = m
  BY DEF Own
<1>4. lost' \subseteq bits'
  BY <1>1, <1>2, <1>3
<1>5. ASSUME NEW m \in Name \ given, address'[m] # None
      PROVE  address'[m] \in bits' \ lost'
  BY <1>1, <1>2, <1>3, <1>5
<1>6. ASSUME NEW m \in Name \ given, address'[m] # None, NEW k \in Name \ given, address'[k] = address'[m]
      PROVE  k = m
  BY <1>1, <1>3, <1>6
<1> QED BY <1>4, <1>5, <1>6

\* An address goes back once, and to the set of those that are free.
LEMMA GivesBackOwn ==
  ASSUME NetTypeOK, Copies, Own, NEW p \in Proc, Busy(p, call[p].name), call[p].name \in Name,
         UNCHANGED address, GivesBack(p)
  PROVE  Own'
<1> DEFINE n == call[p].name
<1>1. memory[p] = address[n] /\ address[n] # None
  BY DEF Copies, GivesBack
<1>2. /\ bits' = bits \ {address[n]} /\ lost' \in {lost, lost \ {address[n]}}
      /\ given' = given \cup {n}
      /\ mishap' <=> mishap \/ n \in given
  BY <1>1 DEF GivesBack
<1> SUFFICES ASSUME ~mishap'
             PROVE  /\ lost' \subseteq bits'
                    /\ \A m \in Name \ given' : address[m] # None =>
                         /\ address[m] \in bits' \ lost'
                         /\ \A k \in Name \ given' : address[k] = address[m] => k = m
  BY DEF Own
<1>3. ~mishap /\ n \notin given
  BY <1>2
<1>4. /\ lost \subseteq bits
      /\ \A m \in Name \ given : address[m] # None =>
           /\ address[m] \in bits \ lost
           /\ \A k \in Name \ given : address[k] = address[m] => k = m
  BY <1>3 DEF Own
<1>5. lost' \subseteq bits'
  BY <1>1, <1>2, <1>3, <1>4
<1>6. ASSUME NEW m \in Name \ given', address[m] # None
      PROVE  address[m] \in bits' \ lost'
  BY <1>1, <1>2, <1>3, <1>4, <1>6
<1> QED BY <1>2, <1>4, <1>5, <1>6

\* A run that begins leaves to the lost what nobody gave back of the one before.
LEMMA RunOwn ==
  ASSUME NetTypeOK, Own, NEW p \in Proc, NEW n \in Name, NEW detach \in BOOLEAN, NetworkedRun(p, n, detach)
  PROVE  Own'
<1>1. /\ address'[n] = None /\ \A m \in Name \ {n} : address'[m] = address[m]
      /\ UNCHANGED bits /\ given' = given \ {n} /\ (mishap' <=> mishap)
      /\ lost' = lost \/ (n \notin given /\ address[n] # None /\ lost' = lost \cup {address[n]})
  BY DEF NetworkedRun, NetTypeOK
<1> SUFFICES ASSUME ~mishap'
             PROVE  /\ lost' \subseteq bits'
                    /\ \A m \in Name \ given' : address'[m] # None =>
                         /\ address'[m] \in bits' \ lost'
                         /\ \A k \in Name \ given' : address'[k] = address'[m] => k = m
  BY DEF Own
<1>2. /\ lost \subseteq bits
      /\ \A m \in Name \ given : address[m] # None =>
           /\ address[m] \in bits \ lost
           /\ \A k \in Name \ given : address[k] = address[m] => k = m
  BY <1>1 DEF Own
<1>3. lost' \subseteq bits'
  BY <1>1, <1>2
<1>4. ASSUME NEW m \in Name \ given', address'[m] # None
      PROVE  m # n /\ m \in Name \ given /\ address'[m] = address[m]
  BY <1>1, <1>4
<1>5. ASSUME NEW m \in Name \ given', address'[m] # None
      PROVE  address'[m] \in bits' \ lost'
  <2>1. address[m] \in bits \ lost
    BY <1>2, <1>4, <1>5
  <2>2. n \notin given /\ address[n] # None => address[n] # address[m]
    BY <1>2, <1>4, <1>5
  <2> QED BY <1>1, <1>4, <1>5, <2>1, <2>2
<1>6. ASSUME NEW m \in Name \ given', address'[m] # None, NEW k \in Name \ given', address'[k] = address'[m]
      PROVE  k = m
  BY <1>2, <1>4, <1>6
<1> QED BY <1>3, <1>5, <1>6

\* Every step keeps the addresses apart.
LEMMA OwnStays ==
  ASSUME TypeOK, NetTypeOK, Networked, Traced, Own, [RNext]_rvars
  PROVE  Own'
<1>1. ASSUME UNCHANGED <<bits, address, given, lost, mishap>>
      PROVE  Own'
  BY <1>1 DEF Own
<1>2. ASSUME NEW p \in Proc, Command(p) \/ (Quit(p) /\ Local(p))
      PROVE  Own'
  <2>1. CASE Allocate(p)
    BY <2>1, AllocateOwn DEF Traced
  <2>2. CASE ~Allocate(p)
    <3>1. AddressFrame(p) /\ Busy(p, call[p].name) /\ call[p].name \in Name
      BY <1>2, <2>2, CommandKeeps, CommandFrame, CallOf DEF Traced, NetFrame, Follows, Busy
    <3> QED BY <1>1, <3>1, GivesBackOwn DEF AddressFrame, Traced
  <2> QED BY <2>1, <2>2
<1>3. ASSUME NEW p \in Proc, BeginCommand(p)
      PROVE  Own'
  BY <1>1, <1>3, RunOwn DEF BeginCommand, BeginStop, BeginRemoval, Reads
<1>4. ASSUME NEW i \in Pid, Exit(i) \/ Host(i), UNCHANGED netVars
      PROVE  Own'
  BY <1>1, <1>4 DEF netVars
<1>5. CASE DeleteNetwork
  <2>1. \A m \in Name \ given' : address'[m] = None
    BY <1>5 DEF DeleteNetwork
  <2> QED BY <1>5, <2>1 DEF DeleteNetwork, Own
<1>6. CASE CreateNetwork
  BY <1>1, <1>6 DEF CreateNetwork
<1>7. CASE UNCHANGED rvars
  BY <1>1, <1>7 DEF rvars, netVars
<1> QED BY <1>2, <1>3, <1>4, <1>5, <1>6, <1>7 DEF RNext

\* At the start there is no address.
LEMMA AddressesInit == RInit => Networked /\ Traced /\ Own
<1>1. RInit => Networked /\ IdleEmpty /\ Unrecorded /\ Fresh /\ Held
  BY DEF RInit, Init, Networked, IdleEmpty, Unrecorded, Fresh, Held, In
<1>2. RInit => Copies
  BY DEF RInit, Init, Copies, Busy
<1>3. RInit => Own
  BY DEF RInit, Own
<1> QED BY <1>1, <1>2, <1>3 DEF Traced

(***************************************************************************)
(* What the last run of a name got is its own until somebody gives it      *)
(* back, for any number of containers, commands and addresses: the bit is  *)
(* set, and no record and no other run has the address.                    *)
(***************************************************************************)
THEOREM AddressesAreOwn == RSpec => []AddressIsOwn
<1>1. Inv /\ NetTypeOK /\ Networked /\ Traced /\ Own /\ [RNext]_rvars => (Networked /\ Traced /\ Own)'
  BY NetworkedStays, TracedStays, OwnStays DEF Inv
<1>2. Traced /\ Own => AddressIsOwn
  <2> SUFFICES ASSUME Copies, Own, ~mishap, NEW n \in Name \ given, address[n] # None,
                      NEW m \in Name \ (given \cup {n})
               PROVE  address[n] \in bits \ lost /\ address[n] \notin {address[m], endpoint[m]}
    BY DEF Traced, AddressIsOwn, Own
  <2> QED BY DEF Copies, Own
<1>3. RTypeOK => NetTypeOK
  BY DEF RTypeOK, NetTypeOK
<1>4. RSpec => []Inv
  BY Refines, Invariant, PTL
<1> QED BY <1>1, <1>2, <1>3, <1>4, AddressesInit, NetworkedTypeCorrect, PTL DEF RSpec

-----------------------------------------------------------------------------
\* Who has an address: its record, the run that connects, or nobody any more, because something was cut short.
Holds(n, a) ==
  /\ address[n] = a
  /\ \/ endpoint[n] = a
     \/ \E p \in Proc : Busy(p, n) /\ call[p].at = "endpoint" /\ memory[p] = a
     \/ n \in abandoned \cup early

\* Of every bit that is set and not lost somebody has the address who did not give it back.
Account == /\ \A n \in given : address[n] # None
           /\ \A a \in bits \ lost : \E n \in Name \ given : Holds(n, a)

\* What was cut short stays so until the next run.
LEMMA CommandAbandons ==
  ASSUME NEW p \in Proc, Command(p) \/ (Quit(p) /\ Local(p))
  PROVE  abandoned \subseteq abandoned'
<1> USE DEF Abandon, Continue, Done, Save, vars
<1>1. CASE LocalStep(p)
  BY <1>1 DEF LocalStep, CreateWorkspace, SetLimit, Start, Apply, ReadMetadata, SendInitArgs, DestroyCgroup,
     DeferredDeleteWorkspace, UmountFails, Kill, RemoveLayers
<1>2. CASE NetworkedStep(p)
  BY <1>2 DEF NetworkedStep, RecordRun, CreateMetadata, Allocate, AllocateFails, DriverFails, PlugFails,
     ConnectFails, Connect, SaveEndpoint, DeferredDisconnect, Undo, LeaveConnected, Leave, Unrecord,
     RemoveMetadata, RemoveRecord, EndStop, SaveStopped, Disconnect, RemovalFails, DisconnectFails,
     RemoveDisconnected, RemoveContainer
<1> QED BY <1>1, <1>2 DEF Command, Quit

\* Connect saves the endpoint it has in memory, or is cut short.
LEMMA EndpointSaved ==
  ASSUME Inv, NetTypeOK, NEW p \in Proc, Connect(p) \/ EndStop(p)
  PROVE  endpoint'[call[p].name] = memory[p] \/ call[p].name \in abandoned'
<1> DEFINE n == call[p].name
<1>0. TypeOK /\ n \in Name
  BY CallOf DEF Inv, Connect, EndStop, SaveStopped, At
<1>1. ASSUME NEW metadata \in Metadata, NEW label, Save(p, metadata, label)
      PROVE  config'[n] # Torn \/ n \in abandoned'
  BY <1>0, <1>1, MarkAssumption DEF Save, Abandon, TypeOK
<1>2. SaveEndpoint(p) => call[p].seen \in Metadata
  BY DEF SaveEndpoint, At, Inv, Stops, StopsAt, In
<1>3. [pid |-> 0, status |-> "stopped"] \in Metadata
  BY DEF Metadata
<1>4. config'[n] # Torn \/ n \in abandoned'
  BY <1>1, <1>2, <1>3 DEF Connect, EndStop, SaveEndpoint, SaveStopped
<1>5. endpoint'[n] = IF config'[n] = Torn THEN None ELSE memory[p]
  BY <1>0 DEF Connect, EndStop, Saved, NetTypeOK
<1> QED BY <1>4, <1>5

\* A run command at Connect with an endpoint saves it, gives it back, or is cut short.
LEMMA ConnectingHolds ==
  ASSUME Inv, NetTypeOK, NEW p \in Proc, Command(p) \/ (Quit(p) /\ Local(p)),
         call[p].at = "endpoint", memory[p] # None
  PROVE  Connect(p) \/ call[p].name \in abandoned'
<1>1. ~LocalStep(p)
  BY DEF LocalStep, CreateWorkspace, SetLimit, Start, Apply, ReadMetadata, SendInitArgs,
     DestroyCgroup, DeferredDeleteWorkspace, Kill, RemoveLayers, At
<1>2. NetworkedStep(p) => Connect(p) \/ ConnectFails(p)
  BY DEF NetworkedStep, RecordRun, CreateMetadata, Allocate, AllocateFails, DriverFails, PlugFails,
     DeferredDisconnect, Undo, LeaveConnected, Leave, Waited, Unrecord, RemoveMetadata, RemoveRecord,
     EndStop, SaveStopped, Disconnect, RemovalFails, DisconnectFails, RemoveDisconnected, RemoveContainer, At
<1> QED BY <1>1, <1>2 DEF Command, ConnectFails, Quit, Abandon

\* A step of a command of a name leaves it what it has, unless it gives it back.
LEMMA HoldsOwn ==
  ASSUME Inv, NetTypeOK, Networked, Disconnected, Traced, NEW p \in Proc, NEW n \in Name, Sound(n),
         Command(p) \/ (Quit(p) /\ Local(p)), ~Allocate(p), call[p].name = n,
         n \notin given', NEW a \in Addr, Holds(n, a)
  PROVE  Holds(n, a)'
<1>0. /\ TypeOK /\ NetFrame(p) /\ Follows(p) /\ AddressFrame(p) /\ call[p] # Idle /\ Busy(p, n)
      /\ abandoned \subseteq abandoned' /\ early' = early /\ address' = address /\ n \notin given
      /\ a # None /\ address[n] = a /\ memory[p] \in {None, a}
  BY CommandFrame, CommandKeeps, CommandAbandons, AddrAssumption
     DEF Inv, NetFrame, Follows, AddressFrame, Busy, Holds, Traced, Copies
<1> SUFFICES ASSUME n \notin abandoned' \cup early
             PROVE  endpoint'[n] = a
  BY <1>0 DEF Holds
<1>1. AlonePlugging(n) /\ NoneRead(n) /\ NotUndoing(n)
  BY <1>0 DEF Sound
<1>2. CASE endpoint[n] # a
  <2>1. PICK q \in Proc : Busy(q, n) /\ call[q].at = "endpoint" /\ memory[q] = a
    BY <1>0, <1>2 DEF Holds
  <2>2. q = p
    BY <1>0, <1>1, <2>1 DEF AlonePlugging, Plugging
  <2> QED BY <1>0, <2>1, <2>2, ConnectingHolds, EndpointSaved
<1>3. CASE endpoint[n] = a
  <2>1. ~RecordRun(p)
    <3>1. ASSUME RecordRun(p)
          PROVE  config[n] = Absent
      BY <3>1 DEF RecordRun, CreateMetadata, At, Inv, Alone, In
    <3> QED BY <1>0, <1>3, <3>1, MarkAssumption DEF Traced, Unrecorded
  <2>2. ~Bare(n)
    BY <1>0, <1>3 DEF Bare
  <2>3. ~Unrecord(p)
    <3>1. ~RemoveMetadata(p)
      BY <1>0, <1>1 DEF RemoveMetadata, At, NotUndoing
    <3>2. ~RemoveRecord(p)
      BY <1>0, <1>1, <2>2 DEF RemoveRecord, At, NoneRead, Late, Disconnected, In
    <3> QED BY <3>1, <3>2 DEF Unrecord
  <2>4. CASE EndStop(p)
    <3>1. memory[p] = a
      BY <1>0, <1>1, <2>2, <2>4 DEF EndStop, SaveStopped, At, NoneRead, Late
    <3> QED BY <2>4, <3>1, EndpointSaved
  <2>5. CASE Connect(p)
    BY <1>0, <2>5, EndpointSaved DEF Connect
  <2>6. CASE ~EndStop(p) /\ ~Connect(p)
    BY <1>3, <2>1, <2>3, <2>6 DEF Command, NetworkedStep, LocalStep, AllocateFails, DriverFails, PlugFails,
       DeferredDisconnect, LeaveConnected, Disconnect, RemovalFails, RemoveDisconnected, Local, ReleaseEndpoint
  <2> QED BY <2>4, <2>5, <2>6
<1> QED BY <1>2, <1>3

\* Of the names of others it changes nothing.
LEMMA HoldsElsewhere ==
  ASSUME NEW p \in Proc, NEW n \in Name, NetFrame(p), abandoned \subseteq abandoned',
         call[p].name # n, address'[n] = address[n], NEW a, Holds(n, a)
  PROVE  Holds(n, a)'
<1>1. endpoint'[n] = endpoint[n] /\ early' = early
  BY DEF NetFrame
<1>2. \A q \in Proc : Busy(q, n) => Busy(q, n)' /\ call'[q] = call[q] /\ memory'[q] = memory[q]
  BY DEF NetFrame, Follows, Busy
<1> QED BY <1>1, <1>2 DEF Holds

\* So every step of a command keeps the account.
LEMMA CommandAccount ==
  ASSUME Inv, NetTypeOK, Networked, Disconnected, Traced, \A n \in Name : Sound(n), Account,
         NEW p \in Proc, Command(p) \/ (Quit(p) /\ Local(p))
  PROVE  Account'
<1> DEFINE n == call[p].name
<1>0. TypeOK /\ NetFrame(p) /\ Busy(p, n) /\ n \in Name /\ abandoned \subseteq abandoned'
  BY CommandFrame, CommandAbandons, CallOf DEF Inv, NetFrame, Follows, Busy
<1>1. CASE Allocate(p)
  <2>1. PICK a \in Addr \ bits :
          /\ bits' = bits \cup {a} /\ memory'[p] = a /\ address'[n] = a
          /\ \A m \in Name \ {n} : address'[m] = address[m]
    BY <1>0, <1>1, AllocateTakes
  <2>2. /\ UNCHANGED <<call, given, lost>> /\ address[n] = None /\ call[p].at = "endpoint" /\ a # None
    BY <1>0, <1>1, AllocateTakes, AddrAssumption DEF Traced, Fresh, vars
  <2>3. n \notin given
    BY <2>2 DEF Account
  <2>4. Holds(n, a)'
    BY <1>0, <2>1, <2>2 DEF Holds, Busy
  <2>5. ASSUME NEW b \in bits \ lost
        PROVE  \E m \in Name \ given : Holds(m, b)'
    <3>1. PICK m \in Name \ given : Holds(m, b)
      BY DEF Account
    <3>2. b \in Addr /\ b # None
      BY AddrAssumption DEF NetTypeOK
    <3>3. m # n
      BY <2>2, <3>1, <3>2 DEF Holds
    <3> QED BY <1>0, <2>1, <3>1, <3>3, HoldsElsewhere
  <2>6. \A m \in given' : address'[m] # None
    BY <2>1, <2>2, <2>3 DEF Account, NetTypeOK
  <2>7. ASSUME NEW b \in bits' \ lost'
        PROVE  \E m \in Name \ given' : Holds(m, b)'
    BY <1>0, <2>1, <2>2, <2>3, <2>4, <2>5
  <2> QED BY <2>6, <2>7 DEF Account
<1>2. CASE ~Allocate(p)
  <2>0. AddressFrame(p) /\ address' = address
    BY <1>0, <1>2, CommandKeeps DEF Traced, AddressFrame
  <2>1. GivesBack(p) => address[n] = memory[p] /\ memory[p] # None
    BY <1>0 DEF GivesBack, Traced, Copies
  <2>2. \A m \in given' : address'[m] # None
    BY <2>0, <2>1 DEF AddressFrame, GivesBack, Account
  <2>3. ASSUME NEW b \in bits' \ lost'
        PROVE  \E m \in Name \ given' : Holds(m, b)'
    <3>1. b \in bits \ lost /\ (GivesBack(p) => b # memory[p])
      BY <2>0, <2>3 DEF AddressFrame, GivesBack
    <3>2. PICK m \in Name \ given : Holds(m, b)
      BY <3>1 DEF Account
    <3>3. m \notin given'
      BY <2>0, <2>1, <3>1, <3>2 DEF AddressFrame, GivesBack, Holds
    <3>4. b \in Addr
      BY <3>1 DEF NetTypeOK
    <3>5. Holds(m, b)'
      <4>1. CASE m = n
        BY <1>2, <3>2, <3>3, <3>4, <4>1, HoldsOwn
      <4>2. CASE m # n
        BY <1>0, <2>0, <3>2, <4>2, HoldsElsewhere
      <4> QED BY <4>1, <4>2
    <3> QED BY <3>3, <3>5
  <2> QED BY <2>2, <2>3 DEF Account
<1> QED BY <1>1, <1>2

\* A run that begins counts among the lost what only something cut short had.
LEMMA BeginAccount ==
  ASSUME TypeOK, NetTypeOK, Traced, Account, NEW p \in Proc, BeginCommand(p)
  PROVE  Account'
<1>1. ASSUME NEW n \in Name, NEW detach \in BOOLEAN, NetworkedRun(p, n, detach)
      PROVE  Account'
  <2>1. /\ \A q \in Proc \ {p} : call'[q] = call[q]
        /\ call[p] = Idle /\ config[n] = Absent /\ \A q \in Proc : ~Busy(q, n)
        /\ UNCHANGED <<bits, endpoint, memory>>
        /\ given' = given \ {n} /\ early' = early \ {n} /\ abandoned' = abandoned \ {n}
    BY <1>1 DEF NetworkedRun, Run, Unused, TypeOK
  <2>2. address'[n] = None /\ \A m \in Name \ {n} : address'[m] = address[m]
    BY <1>1 DEF NetworkedRun, NetTypeOK
  <2>3. /\ lost \subseteq lost'
        /\ n \in (abandoned \cup early) \ given /\ address[n] # None => address[n] \in lost'
    BY <1>1 DEF NetworkedRun
  <2>4. endpoint[n] = None
    BY <2>1, MarkAssumption DEF Traced, Unrecorded
  <2>5. \A m \in given' : address'[m] # None
    BY <2>1, <2>2 DEF Account, NetTypeOK
  <2>6. ASSUME NEW b \in bits' \ lost'
        PROVE  \E m \in Name \ given' : Holds(m, b)'
    <3>1. PICK m \in Name \ given : Holds(m, b)
      BY <2>1, <2>3, <2>6 DEF Account
    <3>2. b # None
      BY <2>1, <2>6, AddrAssumption DEF NetTypeOK
    <3>3. m # n
      BY <2>1, <2>3, <2>4, <2>6, <3>1, <3>2 DEF Holds
    <3>4. Holds(m, b)'
      <4>1. \A q \in Proc : Busy(q, m) => Busy(q, m)' /\ call'[q] = call[q] /\ memory'[q] = memory[q]
        BY <2>1 DEF Busy
      <4> QED BY <2>1, <2>2, <3>1, <3>3, <4>1 DEF Holds
    <3> QED BY <2>1, <3>1, <3>4
  <2> QED BY <2>5, <2>6 DEF Account
<1>2. ASSUME NEW n \in Name, BeginStop(p, n) \/ BeginRemoval(p, n)
      PROVE  Account'
  <2>1. /\ \A q \in Proc \ {p} : call'[q] = call[q] /\ memory'[q] = memory[q]
        /\ call[p] = Idle /\ early \subseteq early'
        /\ UNCHANGED <<bits, endpoint, address, given, lost, abandoned>>
    BY <1>2 DEF BeginStop, BeginRemoval, StopContainer, ReadForRemoval, Begun, Reads, hostVars, TypeOK, NetTypeOK
  <2>2. ASSUME NEW m \in Name, NEW b, Holds(m, b)
        PROVE  Holds(m, b)'
    <3>1. \A q \in Proc : Busy(q, m) => Busy(q, m)' /\ call'[q] = call[q] /\ memory'[q] = memory[q]
      BY <2>1 DEF Busy
    <3> QED BY <2>1, <2>2, <3>1 DEF Holds
  <2> QED BY <2>1, <2>2 DEF Account
<1> QED BY <1>1, <1>2 DEF BeginCommand

\* And so does every other.
LEMMA AccountStays ==
  ASSUME Inv, NetTypeOK, Networked, Disconnected, Traced, \A n \in Name : Sound(n), Account, [RNext]_rvars
  PROVE  Account'
<1>1. ASSUME UNCHANGED <<call, bits, endpoint, memory, address, given, early, lost, abandoned>>
      PROVE  Account'
  BY <1>1 DEF Account, Holds, Busy
<1>2. ASSUME NEW i \in Pid, Exit(i) \/ Host(i), UNCHANGED netVars
      PROVE  Account'
  BY <1>1, <1>2 DEF Exit, Host, netVars
<1>3. CASE DeleteNetwork
  <2>1. bits' = {} /\ UNCHANGED address /\ \A n \in given' : n \in given \/ address[n] # None
    BY <1>3 DEF DeleteNetwork
  <2> QED BY <2>1 DEF Account
<1>4. CASE CreateNetwork
  BY <1>1, <1>4 DEF CreateNetwork, vars
<1>5. CASE UNCHANGED rvars
  BY <1>1, <1>5 DEF rvars, vars, netVars
<1> QED BY <1>2, <1>3, <1>4, <1>5, CommandAccount, BeginAccount DEF RNext, Inv

(***************************************************************************)
(* No address is forgotten: a bit that is set is in a record or with a run *)
(* that will give it back, unless something was cut short or a stop or rm  *)
(* came before Connect was through.                                        *)
(***************************************************************************)
THEOREM NoAddressForgotten == RSpec => []AddressesAccounted
<1> DEFINE Sane == Networked /\ Disconnected /\ (\A n \in Name : Sound(n)) /\ Traced /\ Account
<1>1. RInit => Sane
  <2>1. RInit => Networked /\ Disconnected /\ \A n \in Name : Sound(n)
    BY DEF RInit, Init, Networked, Disconnected, Sound, AlonePlugging, NoneRead, NoneRecorded, NotUndoing, Bare,
           Busy, In
  <2>2. RInit => Account
    BY DEF RInit, Account
  <2> QED BY <2>1, <2>2, AddressesInit
<1>2. Inv /\ NetTypeOK /\ Sane /\ [RNext]_rvars => Sane'
  BY NetworkedStays, DisconnectedStays, SoundStays, TracedStays, AccountStays DEF Inv
<1>3. Sane => AddressesAccounted
  BY DEF Account, Holds, AddressesAccounted, RunLabel
<1>4. RTypeOK => NetTypeOK
  BY DEF RTypeOK, NetTypeOK
<1>5. RSpec => []Inv
  BY Refines, Invariant, PTL
<1> HIDE DEF Sane
<1> QED BY <1>1, <1>2, <1>3, <1>4, <1>5, NetworkedTypeCorrect, PTL DEF RSpec
=============================================================================

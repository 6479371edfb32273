------------------------------ MODULE Runtime ------------------------------
(***************************************************************************)
(* Container with the network of the containers: what run, stop and rm do  *)
(* to the one endpoint of a container, which is in the saved metadata, in  *)
(* the memory of the commands that read it, and in the bitmap of its       *)
(* subnet.  There is one network; its inside, bridges, rules and the file  *)
(* of bitmaps, is Network's and Ipam's, and here it is the set of          *)
(* positions whose bit is set.                                             *)
(***************************************************************************)
EXTENDS Container

CONSTANTS
  Addr,        \* the positions of the subnet behind its gateway, numbers
  MaxDeletes,  \* bound: how often the network is deleted
  None         \* no endpoint

VARIABLES
  there,    \* whether the network is there
  deletes,  \* how often it was deleted
  bits,     \* the bits that are set
  endpoint, \* the endpoint in the metadata file of a name
  memory,   \* the endpoint in the metadata a command has in memory
  address,  \* the address the last run of a name got: history
  given,    \* names whose address somebody gave back since: history
  early,    \* names somebody began to stop or remove before Connect was through: history
  lost,     \* addresses of earlier runs that were cut short: history
  mishap    \* whether an address was given back twice: history

netVars == <<there, deletes, bits, endpoint, memory, address, given, early, lost, mishap>>
rvars == <<vars, netVars>>

ASSUME AddrAssumption == Addr \subseteq Nat /\ None \notin Addr
ASSUME DeleteAssumption == MaxDeletes \in Nat

RTypeOK ==
  /\ TypeOK
  /\ there \in BOOLEAN /\ deletes \in 0..MaxDeletes
  /\ bits \subseteq Addr
  /\ endpoint \in [Name -> Addr \cup {None}]
  /\ memory \in [Proc -> Addr \cup {None}]
  /\ address \in [Name -> Addr \cup {None}]
  /\ given \subseteq Name /\ early \subseteq Name
  /\ lost \subseteq Addr
  /\ mishap \in BOOLEAN

RInit ==
  /\ Init
  /\ there = TRUE /\ deletes = 0
  /\ bits = {}
  /\ endpoint = [n \in Name |-> None]
  /\ memory = [p \in Proc |-> None]
  /\ address = [n \in Name |-> None]
  /\ given = {} /\ early = {} /\ lost = {}
  /\ mishap = FALSE

-----------------------------------------------------------------------------
\* A command that has ended has nothing in memory.
Forget(p) == memory' = [memory EXCEPT ![p] = IF call'[p] = Idle THEN None ELSE @]

\* A step that has nothing to do with the network.
Local(p) == Forget(p) /\ UNCHANGED <<there, deletes, bits, endpoint, address, given, early, lost, mishap>>

\* The run of name n before Connect has saved its endpoint.
Connecting(n) ==
  \E q \in Proc : Busy(q, n) /\ call[q].at \in {"apply", "connect", "endpoint"}

\* The endpoint in the metadata file of name n, unless the write failed.
Saved(n, e) == endpoint' = [endpoint EXCEPT ![n] = IF config'[n] = Torn THEN None ELSE e]

\* A stop or an rm reads the metadata.
Reads(p, n) ==
  /\ memory' = [memory EXCEPT ![p] = endpoint[n]]
  /\ early' = IF Connecting(n) THEN early \cup {n} ELSE early
  /\ UNCHANGED <<there, deletes, bits, endpoint, address, given, lost, mishap>>

\* Mutant: the index of the address one too high.
ReleaseNext(p) ==
  LET n == call[p].name IN
  /\ there
  /\ bits' = bits \ {memory[p] + 1}
  /\ lost' = lost \ {memory[p]}
  /\ memory' = [memory EXCEPT ![p] = None]
  /\ given' = given \cup {n}
  /\ mishap' = (mishap \/ n \in given)
  /\ UNCHANGED <<there, deletes, endpoint, address, early>>

\* ipam.Release of the endpoint in memory, by a command that finds the network.
ReleaseEndpoint(p) ==
  LET n == call[p].name IN
  /\ there
  /\ bits' = bits \ {memory[p]}
  /\ lost' = lost \ {memory[p]}
  /\ memory' = [memory EXCEPT ![p] = None]
  /\ given' = given \cup {n}
  /\ mishap' = (mishap \/ n \in given)
  /\ UNCHANGED <<there, deletes, endpoint, address, early>>

-----------------------------------------------------------------------------
NetworkedRun(p, n, detach) ==
  /\ Run(p, n, detach, TRUE)
  /\ lost' = IF n \in (abandoned \cup early) \ given /\ address[n] # None
             THEN lost \cup {address[n]} ELSE lost
  /\ address' = [address EXCEPT ![n] = None]
  /\ given' = given \ {n} /\ early' = early \ {n}
  /\ UNCHANGED <<there, deletes, bits, endpoint, memory, mishap>>

RecordRun(p) ==
  /\ CreateMetadata(p)
  /\ Forget(p) /\ Saved(call[p].name, None)
  /\ UNCHANGED <<there, deletes, bits, address, given, early, lost, mishap>>

\* Mutant: the position of the address instead of the address.
AllocateBehind(p) ==
  LET a == CHOOSE b \in Addr \ bits : \A c \in Addr \ bits : b <= c IN
  /\ At(p, "endpoint") /\ memory[p] = None
  /\ there /\ bits # Addr
  /\ bits' = bits \cup {a}
  /\ memory' = [memory EXCEPT ![p] = a + 1]
  /\ address' = [address EXCEPT ![call[p].name] = a + 1]
  /\ UNCHANGED <<vars, there, deletes, endpoint, given, early, lost, mishap>>

\* network.Connect: the lowest free address.
Allocate(p) ==
  LET a == CHOOSE b \in Addr \ bits : \A c \in Addr \ bits : b <= c IN
  /\ At(p, "endpoint") /\ memory[p] = None
  /\ there /\ bits # Addr
  /\ bits' = bits \cup {a}
  /\ memory' = [memory EXCEPT ![p] = a]
  /\ address' = [address EXCEPT ![call[p].name] = a]
  /\ UNCHANGED <<vars, there, deletes, endpoint, given, early, lost, mishap>>

\* There is no network any more, or no address.
AllocateFails(p) ==
  /\ memory[p] = None
  /\ ~there \/ bits = Addr
  /\ ConnectFails(p) /\ Local(p)

\* If the driver fails the address goes back, short of a removed bitmap.
DriverFails(p) ==
  /\ memory[p] # None
  /\ ConnectFails(p) /\ Forget(p)
  /\ bits' = bits \ {memory[p]}
  /\ given' = given \cup {call[p].name}
  /\ mishap' = (mishap \/ call[p].name \in given)
  /\ UNCHANGED <<there, deletes, endpoint, address, early, lost>>

\* The namespace of a child that has ended, or of one stop has made 0 of in the
\* record, cannot be entered: the address stays allocated.
PlugFails(p) ==
  /\ At(p, "endpoint") /\ memory[p] # None
  /\ call[p].seen.pid = 0 \/ ~Alive(call[p].pid)
  /\ ConnectFails(p) /\ Local(p)

Connect(p) ==
  /\ At(p, "endpoint") /\ memory[p] # None /\ Alive(call[p].pid)
  /\ SaveEndpoint(p)
  /\ Forget(p) /\ Saved(call[p].name, memory[p])
  /\ UNCHANGED <<there, deletes, bits, address, given, early, lost, mishap>>

\* Mutant: no deferred Disconnect.
StayConnected(p) == Undo(p) /\ Local(p)

\* The deferred Disconnect, of the endpoint Connect left in memory, whatever rm did since.
DeferredDisconnect(p) ==
  /\ Undo(p)
  /\ IF call[p].network THEN ReleaseEndpoint(p) ELSE Local(p)

\* disconnectEndpoint reads the network first.
LeaveConnected(p) ==
  /\ Leave(p) /\ Local(p)
  /\ call[p].network => ~there

Unrecord(p) ==
  /\ RemoveMetadata(p) \/ RemoveRecord(p)
  /\ Forget(p)
  /\ endpoint' = [endpoint EXCEPT ![call[p].name] = None]
  /\ UNCHANGED <<there, deletes, bits, address, given, early, lost, mishap>>

-----------------------------------------------------------------------------
BeginStop(p, n) == StopContainer(p, n) /\ Reads(p, n)

\* Mutant: stop saves a new record, without an endpoint.
StopForgets(p) ==
  /\ SaveStopped(p)
  /\ Forget(p) /\ Saved(call[p].name, None)
  /\ UNCHANGED <<there, deletes, bits, address, given, early, lost, mishap>>

\* stop saves all of the metadata it read, the endpoint with it.
EndStop(p) ==
  /\ SaveStopped(p)
  /\ Forget(p) /\ Saved(call[p].name, memory[p])
  /\ UNCHANGED <<there, deletes, bits, address, given, early, lost, mishap>>

BeginRemoval(p, n) == ReadForRemoval(p, n) /\ Reads(p, n)

\* Mutant: rm goes on when the container could not be disconnected.
DisconnectOrNot(p) ==
  /\ At(p, "rm") /\ memory[p] # None
  /\ IF there THEN ReleaseEndpoint(p)
     ELSE /\ memory' = [memory EXCEPT ![p] = None]
          /\ UNCHANGED <<there, deletes, bits, endpoint, address, given, early, lost, mishap>>
  /\ UNCHANGED vars

Disconnect(p) ==
  /\ At(p, "rm") /\ memory[p] # None
  /\ ReleaseEndpoint(p)
  /\ UNCHANGED vars

\* Mutant: rm tries again until the network is there.
RemovalRetries(p) ==
  /\ At(p, "rm") /\ memory[p] # None /\ ~there
  /\ UNCHANGED rvars

RemovalFails(p) ==
  /\ memory[p] # None /\ ~there
  /\ DisconnectFails(p) /\ Local(p)

RemoveDisconnected(p) ==
  /\ memory[p] = None
  /\ RemoveContainer(p) /\ Local(p)

-----------------------------------------------------------------------------
\* network delete, whatever is connected to it, and network create.
DeleteNetwork ==
  /\ there /\ deletes < MaxDeletes
  /\ there' = FALSE /\ deletes' = deletes + 1
  /\ bits' = {} /\ lost' = {}
  /\ given' = given \cup {n \in Name : address[n] # None}
  /\ UNCHANGED <<vars, endpoint, memory, address, early, mishap>>

CreateNetwork ==
  /\ ~there /\ there' = TRUE
  /\ UNCHANGED <<vars, deletes, bits, endpoint, memory, address, given, early, lost, mishap>>

NetworkedStep(p) ==
  \/ RecordRun(p) \/ Allocate(p) \/ AllocateFails(p) \/ DriverFails(p) \/ PlugFails(p) \/ Connect(p)
  \/ DeferredDisconnect(p) \/ LeaveConnected(p) \/ Unrecord(p) \/ EndStop(p)
  \/ Disconnect(p) \/ RemovalFails(p) \/ RemoveDisconnected(p)
LocalStep(p) ==
  /\ \/ CreateWorkspace(p) \/ SetLimit(p) \/ Start(p) \/ Apply(p) \/ ReadMetadata(p) \/ SendInitArgs(p)
     \/ DestroyCgroup(p) \/ DeferredDeleteWorkspace(p) \/ Kill(p) \/ RemoveLayers(p)
  /\ Local(p)
Command(p) == NetworkedStep(p) \/ LocalStep(p)

BeginCommand(p) ==
  \E n \in Name : \/ BeginStop(p, n) \/ BeginRemoval(p, n)
                  \/ \E detach \in BOOLEAN : NetworkedRun(p, n, detach)

\* Mutant: the child keeps the end of the pipe that is written to.
ReadOwnPipe(i) ==
  /\ Exit(i) /\ process[i].phase = "init"
  /\ ~Alive(i) /\ ~\E p \in Proc : Runs(p, i)

\* The child of a run command that is gone reads the end of its pipe and fails.
ReadNoArgs(i) == Exit(i) /\ process[i].phase = "init" /\ ~\E p \in Proc : Runs(p, i)

RNext ==
  \/ \E p \in Proc : BeginCommand(p) \/ Command(p) \/ (Quit(p) /\ Local(p))
  \/ \E i \in Pid : (Exit(i) \/ Host(i)) /\ UNCHANGED netVars
  \/ DeleteNetwork \/ CreateNetwork

RSpec == RInit /\ [][RNext]_rvars

(***************************************************************************)
(* A command that has begun is scheduled, and the calls it makes return;   *)
(* so does the read of a child whose pipe was closed.  When a container    *)
(* ends, what users and the host do, and failures, are not fair.           *)
(***************************************************************************)
Fairness ==
  /\ \A p \in Proc : WF_rvars(Command(p))
  /\ \A i \in Pid : WF_rvars(ReadNoArgs(i) /\ UNCHANGED netVars)
FairSpec == RSpec /\ Fairness

-----------------------------------------------------------------------------
(***************************************************************************)
(* A container whose address nobody gave back has it for itself, stopped   *)
(* or not, and its bit is set: no run, stop or rm of another container     *)
(* makes network.Connect hand it out again, nor counts it among the lost.  *)
(* What breaks it is an address that is given back twice, which is why     *)
(* mishap is excluded: by rm after a refused or interrupted rm, by rm and  *)
(* the run command that waits, or after the network was made anew.         *)
(***************************************************************************)
AddressIsOwn ==
  ~mishap =>
    \A n \in Name \ given : address[n] # None =>
      /\ address[n] \in bits \ lost
      /\ \A m \in Name \ (given \cup {n}) : address[n] \notin {address[m], endpoint[m]}

(***************************************************************************)
(* A bit that is set is in a record, or in the memory of the run command   *)
(* that will give it back, or is lost, and addresses are lost only by      *)
(* commands that were cut short and by a stop or rm that came before       *)
(* Connect was through.                                                    *)
(***************************************************************************)
AddressesAccounted ==
  \A a \in bits \ lost : \E n \in Name :
    /\ address[n] = a
    /\ \/ endpoint[n] = a
       \/ \E p \in Proc : Busy(p, n) /\ call[p].at \in RunLabel /\ memory[p] = a
       \/ n \in abandoned \cup early

(***************************************************************************)
(* A record is never removed before the address in it was given back,      *)
(* neither by rm nor by the deferred calls of run, unless it was stopped   *)
(* or removed before Connect was through.                                  *)
(***************************************************************************)
RecordOutlivesAddress ==
  [][\A n \in Name \ (given \cup early) :
       config[n] \in Metadata /\ endpoint[n] # None => config'[n] # Absent]_rvars

(***************************************************************************)
(* A container whose network was deleted cannot be removed until there is  *)
(* a network of that name again: disconnectEndpoint reads the network.     *)
(***************************************************************************)
Stuck(n) ==
  /\ ~there
  /\ config[n] \in Metadata /\ endpoint[n] # None
  /\ \A p \in Proc : Busy(p, n) =>
       memory[p] # None /\ call[p].at \in {"send", "wait", "kill", "stopped", "rm"}

StuckWithoutNetwork ==
  [][\A n \in Name : Stuck(n) => Stuck(n)' \/ there' \/ config'[n] = Torn]_rvars

(***************************************************************************)
(* A container that runs and that nobody stopped stays connected: rm asks  *)
(* to stop it first (container.go:191).                                    *)
(***************************************************************************)
ConnectedUntilStopped ==
  \A n \in given \ (stopping \cup abandoned) : ~\E i \in Pid : Of(i, n)

(***************************************************************************)
(* Every command comes to its end, unless it waits for its container.      *)
(***************************************************************************)
CommandsEnd ==
  \A p \in Proc :
    call[p] # Idle /\ call[p].at # "wait" ~> call[p] = Idle \/ call[p].at = "wait"

(***************************************************************************)
(* Once the container of a run command that waits has ended, and Wait has  *)
(* no error or Disconnect overwrites it, its workspace, its record and its *)
(* address go, unless something cuts the deferred calls short or somebody  *)
(* began to stop it: then stop may write the record again.                 *)
(***************************************************************************)
LeavesNothing ==
  \A n \in Name :
    (\E p \in Proc : Busy(p, n) /\ Waited(p) /\ (process[call[p].pid].ok \/ call[p].network))
      ~> \/ n \in abandoned \cup stopping
         \/ /\ config[n] = Absent /\ n \notin layers /\ n \notin mounted
            /\ address[n] = None \/ n \in given

(***************************************************************************)
(* No child waits for its arguments for ever, whatever becomes of the run  *)
(* command that started it.                                                *)
(***************************************************************************)
NoChildWaits ==
  \A i \in Pid :
    Container(i) /\ process[i].phase = "init" ~> ~(Container(i) /\ process[i].phase = "init")
=============================================================================

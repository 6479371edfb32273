----------------------------- MODULE Container -----------------------------
(***************************************************************************)
(* The life of containers: the commands run (pkg/command/run.go), stop     *)
(* (container.StopContainer) and rm (container.RemoveContainer) with what  *)
(* they leave on the host: the metadata file, the overlay workspace of     *)
(* pkg/layer, the one cgroup all containers share, and the process of the  *)
(* container.  A command is a process and a step of it is one call into    *)
(* those packages; the container and the rest of the host go on meanwhile. *)
(* The network of a container is Network's.                                *)
(***************************************************************************)
EXTENDS Naturals, FiniteSets

CONSTANTS
  Name,       \* names of containers
  Unnamed,    \* the empty name, of a container run without --name
  Pid,        \* process identifiers, 0 not among them
  Proc,       \* commands that run at the same time
  MaxFaults,  \* bound: failed external calls and killed commands
  Absent, Torn,   \* a metadata file that is not there, or not JSON
  Free, Foreign,  \* an identifier of no process, or of one of the host's
  Idle

VARIABLES
  config,    \* the metadata files
  process,   \* the processes
  layers,    \* names whose write, work and mount point directories exist
  mounted,   \* names with an overlay on their mount point
  covered,   \* those that are hidden below the overlay of the empty name
  nested,    \* those that were mounted below or above that one: history
  strayed,   \* names whose workspace rm left, in another directory: history
  cgroup,    \* the directory my-runc-cgroup, and whether a limit was written to it
  call,      \* what each command is doing
  stopping,  \* names somebody began to stop since their run: history
  swept,     \* names whose directories went with those of the unnamed: history
  abandoned, \* names whose run or removal was cut short: history
  faults     \* how many calls failed and commands were killed

layerVars == <<layers, swept, mounted, covered, nested, strayed>>
hostVars == <<config, process, layerVars, cgroup>>
vars == <<hostVars, call, stopping, abandoned, faults>>

-----------------------------------------------------------------------------
Metadata == [pid : Pid \cup {0}, status : {"running", "stopped"}]
Process  == [name : Name, phase : {"init", "main", "exited"}, ok : BOOLEAN, grouped : BOOLEAN]

RunLabel  == {"layers", "limit", "start", "record", "apply", "send", "wait",
              "connect", "endpoint", "unrecord", "uncgroup", "unlayer"}
Call == [at : RunLabel \cup {"kill", "stopped", "rm", "rmlayers", "rmrecord"},
         name : Name, pid : Pid \cup {0}, detach : BOOLEAN, network : BOOLEAN,
         seen : Metadata \cup {Absent}]

ASSUME MarkAssumption ==
  /\ Absent \notin Metadata /\ Torn \notin Metadata /\ Absent # Torn
  /\ Free \notin Process /\ Foreign \notin Process /\ Free # Foreign
  /\ Idle \notin Call
ASSUME PidAssumption == 0 \notin Pid
ASSUME BoundAssumption == MaxFaults \in Nat

TypeOK ==
  /\ config \in [Name -> Metadata \cup {Absent, Torn}]
  /\ process \in [Pid -> Process \cup {Free, Foreign}]
  /\ layers \subseteq Name /\ mounted \subseteq Name /\ covered \subseteq Name
  /\ nested \subseteq Name /\ strayed \subseteq Name
  /\ cgroup \in {"absent", "unlimited", "limited"}
  /\ call \in [Proc -> Call \cup {Idle}]
  /\ stopping \subseteq Name /\ abandoned \subseteq Name /\ swept \subseteq Name
  /\ faults \in 0..MaxFaults

Init ==
  /\ config = [n \in Name |-> Absent]
  /\ process = [i \in Pid |-> Free]
  /\ layers = {} /\ mounted = {} /\ covered = {}
  /\ nested = {} /\ strayed = {}
  /\ cgroup = "absent"
  /\ call = [p \in Proc |-> Idle]
  /\ stopping = {} /\ abandoned = {} /\ swept = {}
  /\ faults = 0

-----------------------------------------------------------------------------
At(p, label) == call[p] # Idle /\ call[p].at = label
Busy(p, n)   == call[p] # Idle /\ call[p].name = n
Runs(p, i)   == call[p] # Idle /\ call[p].at \in RunLabel /\ call[p].pid = i

Container(i) == process[i] \notin {Free, Foreign}
Alive(i)     == Container(i) /\ process[i].phase # "exited"
Of(i, n)     == Alive(i) /\ process[i].name = n

Goto(p, label) == call' = [call EXCEPT ![p].at = label]
Fault == faults < MaxFaults /\ faults' = faults + 1

\* The step is done and the command goes on.
Continue(p, label) == Goto(p, label) /\ UNCHANGED <<stopping, abandoned, faults>>
Done(p) == call' = [call EXCEPT ![p] = Idle] /\ UNCHANGED <<stopping, abandoned, faults>>

\* Who waits for its child no longer leaves it to the host to reap it.
Reaped(p) ==
  [i \in Pid |-> IF Runs(p, i) /\ Container(i) /\ ~Alive(i) THEN Free ELSE process[i]]

\* The command ends before it is through; logrus.Fatalf skips the deferred calls.
Abandon(p) ==
  /\ call' = [call EXCEPT ![p] = Idle]
  /\ process' = Reaped(p)
  /\ abandoned' = abandoned \cup {call[p].name}
  /\ UNCHANGED stopping

\* A command begins at a label; seen is the metadata it has in memory.
Begun(p, n, label, pid) ==
  call' = [call EXCEPT ![p] = [at |-> label, name |-> n, pid |-> pid, detach |-> FALSE,
                               network |-> FALSE, seen |-> Absent]]

(***************************************************************************)
(* The command is killed, or the next external call fails and nothing else *)
(* happens.                                                                *)
(***************************************************************************)
Quit(p) ==
  /\ call[p] # Idle
  /\ Fault /\ Abandon(p)
  /\ UNCHANGED <<config, layerVars, cgroup>>

-----------------------------------------------------------------------------
(***************************************************************************)
(* Run.  The code does not look whether a name is taken, so this is where  *)
(* its user comes in, who gives every container a name of its own.         *)
(***************************************************************************)
Unused(n) ==
  /\ config[n] = Absent /\ n \notin layers /\ n \notin mounted
  /\ \A i \in Pid : ~Of(i, n)
  /\ \A p \in Proc : ~Busy(p, n)

Run(p, n, detach, network) ==
  /\ call[p] = Idle /\ Unused(n)
  /\ call' = [call EXCEPT ![p] = [at |-> "layers", name |-> n, pid |-> 0, detach |-> detach,
                                  network |-> network, seen |-> Absent]]
  /\ stopping' = stopping \ {n} /\ abandoned' = abandoned \ {n}
  /\ swept' = swept \ {n} /\ strayed' = strayed \ {n}
  /\ UNCHANGED <<config, process, layers, mounted, covered, nested, cgroup, faults>>

\* The overlay of the empty name lies on the directory of all other mount points.
Companions(n) == IF n = Unnamed THEN mounted ELSE mounted \cap {Unnamed}

Mount(n) ==
  /\ mounted' = mounted \cup {n}
  /\ covered' = IF n = Unnamed THEN mounted ELSE covered
  /\ nested' = IF Companions(n) = {} THEN nested ELSE nested \cup Companions(n) \cup {n}

\* An overlay that lost its directories takes no new mount point.
Dead == Unnamed \in mounted /\ Unnamed \notin layers

\* layer.CreateWorkspace; the directories stay if a mount fails, the overlay if a volume's does.
CreateWorkspace(p) ==
  LET n == call[p].name IN
  /\ At(p, "layers")
  /\ layers' = layers \cup {n}
  /\ UNCHANGED <<config, swept, strayed, cgroup>>
  /\ \/ ~Dead /\ Mount(n) /\ Continue(p, "limit") /\ UNCHANGED process
     \/ ~Dead /\ Mount(n) /\ Fault /\ Abandon(p)
     \/ Fault /\ Abandon(p) /\ UNCHANGED <<mounted, covered, nested>>
     \/ Dead /\ Abandon(p) /\ UNCHANGED <<mounted, covered, nested, faults>>

\* util.GetCgroupPath makes the directory, without a limit, if it is not there.
GetCgroupPath == IF cgroup = "absent" THEN "unlimited" ELSE cgroup

\* cgroupManager.Set
SetLimit(p) ==
  /\ At(p, "limit")
  /\ UNCHANGED <<config, layerVars>>
  /\ \/ cgroup' = "limited" /\ Continue(p, "start") /\ UNCHANGED process
     \/ Fault /\ cgroup' = GetCgroupPath /\ Abandon(p)

(***************************************************************************)
(* parent.Start in the workspace, with an identifier that is free; the     *)
(* child waits for its arguments.  A mount point cannot be removed; of one *)
(* that is hidden, the path leads to the write layer, while that is there. *)
(***************************************************************************)
HasDirectory(n) == n \in layers \/ n \in mounted \ covered

Start(p) ==
  LET n == call[p].name IN
  /\ At(p, "start")
  /\ UNCHANGED <<config, layerVars, cgroup>>
  /\ \/ /\ HasDirectory(n)
        /\ \E i \in Pid :
             /\ process[i] = Free
             /\ process' = [process EXCEPT ![i] =
                  [name |-> n, phase |-> "init", ok |-> FALSE, grouped |-> FALSE]]
             /\ call' = [call EXCEPT ![p].at = "record", ![p].pid = i]
        /\ UNCHANGED <<stopping, abandoned, faults>>
     \/ (~HasDirectory(n) \/ \A i \in Pid : process[i] # Free) /\ Abandon(p) /\ UNCHANGED faults

\* container.SaveMetadata: os.Create truncates, and the write may fail.
Save(p, metadata, label) ==
  LET n == call[p].name IN
  \/ /\ config' = [config EXCEPT ![n] = metadata]
     /\ IF label = "done" THEN Done(p) ELSE Continue(p, label)
     /\ UNCHANGED process
  \/ Fault /\ config' = [config EXCEPT ![n] = Torn] /\ Abandon(p)

CreateMetadata(p) ==
  /\ At(p, "record")
  /\ Save(p, [pid |-> call[p].pid, status |-> "running"], "apply")
  /\ UNCHANGED <<layerVars, cgroup>>

(***************************************************************************)
(* cgroupManager.Apply.  Whether the kernel takes the identifier of a      *)
(* child that has ended already is left open.                              *)
(***************************************************************************)
Apply(p) ==
  LET i    == call[p].pid
      next == IF call[p].network THEN "connect" ELSE "send"
  IN
  /\ At(p, "apply")
  /\ cgroup' = GetCgroupPath
  /\ UNCHANGED <<config, layerVars>>
  /\ \/ /\ Alive(i)
        /\ process' = [process EXCEPT ![i].grouped = TRUE]
        /\ Continue(p, next)
     \/ ~Alive(i) /\ Continue(p, next) /\ UNCHANGED process
     \/ ~Alive(i) /\ Abandon(p) /\ UNCHANGED faults

\* Run reads back the metadata it gives to network.Connect.
ReadMetadata(p) ==
  LET n == call[p].name IN
  /\ At(p, "connect")
  /\ UNCHANGED <<config, layerVars, cgroup>>
  /\ \/ /\ config[n] \in Metadata
        /\ call' = [call EXCEPT ![p].at = "endpoint", ![p].seen = config[n]]
        /\ UNCHANGED <<process, stopping, abandoned, faults>>
     \/ config[n] \notin Metadata /\ Abandon(p) /\ UNCHANGED faults

\* network.Connect saves it with the endpoint; 0 has no namespace to plug it into.
SaveEndpoint(p) ==
  /\ At(p, "endpoint") /\ call[p].seen.pid # 0
  /\ UNCHANGED <<layerVars, cgroup>>
  /\ Save(p, call[p].seen, "send")

\* Or it returns an error: why it does is Network's and Runtime's.
ConnectFails(p) ==
  /\ At(p, "endpoint") /\ Abandon(p)
  /\ UNCHANGED <<config, layerVars, cgroup, faults>>

\* sendInitArgs; a detached run ends here.
SendInitArgs(p) ==
  LET i == call[p].pid IN
  /\ At(p, "send")
  /\ UNCHANGED <<config, layerVars, cgroup>>
  /\ process' = [process EXCEPT ![i] =
       IF Alive(i) THEN [@ EXCEPT !.phase = "main"]
       ELSE IF call[p].detach THEN Free ELSE @]
  /\ IF call[p].detach THEN Done(p) ELSE Continue(p, "wait")

(***************************************************************************)
(* parent.Wait and the deferred calls.  A status other than 0 is an error  *)
(* and skips them all; but Disconnect, which comes first for a container   *)
(* with a network, overwrites the error with its own, which is Runtime's.  *)
(***************************************************************************)
Waited(p) == At(p, "wait") /\ ~Alive(call[p].pid)

\* Mutant: the record is left out of the deferred calls.
UndoKeepsRecord(p) ==
  /\ Waited(p)
  /\ process[call[p].pid].ok \/ call[p].network
  /\ process' = Reaped(p)
  /\ call' = [call EXCEPT ![p].at = "uncgroup", ![p].pid = 0]
  /\ UNCHANGED <<config, layerVars, cgroup, stopping, abandoned, faults>>

Undo(p) ==
  /\ Waited(p)
  /\ process[call[p].pid].ok \/ call[p].network
  /\ process' = Reaped(p)
  /\ call' = [call EXCEPT ![p].at = "unrecord", ![p].pid = 0]
  /\ UNCHANGED <<config, layerVars, cgroup, stopping, abandoned, faults>>

Leave(p) ==
  /\ Waited(p)
  /\ ~process[call[p].pid].ok \/ call[p].network
  /\ Abandon(p)
  /\ UNCHANGED <<config, layerVars, cgroup, faults>>

RemoveMetadata(p) ==
  /\ At(p, "unrecord")
  /\ config' = [config EXCEPT ![call[p].name] = Absent]
  /\ Continue(p, "uncgroup")
  /\ UNCHANGED <<process, layerVars, cgroup>>

\* The directory of a cgroup that has tasks cannot be removed.
Tasks == {i \in Pid : Alive(i) /\ process[i].grouped}

DestroyCgroup(p) ==
  /\ At(p, "uncgroup")
  /\ UNCHANGED <<config, layerVars>>
  /\ \/ Tasks = {} /\ cgroup' = "absent" /\ Continue(p, "unlayer") /\ UNCHANGED process
     \/ Tasks # {} /\ cgroup' = GetCgroupPath /\ Abandon(p) /\ UNCHANGED faults

(***************************************************************************)
(* layer.DeleteWorkspace.  The directories of a name are one below those   *)
(* of all names, and of the empty name they are those of all names.  The   *)
(* overlay of the empty name is busy while another one is mounted inside   *)
(* it, and one that it hides is not found.  A failed umount is only        *)
(* logged: the files go, the mount stays.                                  *)
(***************************************************************************)
Below(n) == IF n = Unnamed THEN Name ELSE {n}

RemoveDirectories(n) ==
  /\ layers' = layers \ Below(n)
  /\ swept' = swept \cup (Below(n) \ {n})

Unmountable(n) == IF n = Unnamed THEN mounted \subseteq covered \cup {n} ELSE n \notin covered

\* Mutant: the overlay is not unmounted.
DeleteDirectories(n) == RemoveDirectories(n) /\ UNCHANGED <<mounted, covered, nested, strayed>>

DeleteWorkspace(n) ==
  /\ RemoveDirectories(n)
  /\ mounted' = IF Unmountable(n) THEN mounted \ {n} ELSE mounted
  /\ covered' = IF Unnamed \in mounted' THEN covered ELSE {}
  /\ nested' = nested \cap mounted'
  /\ UNCHANGED strayed

\* The umount fails for another reason.
UmountFails(p) ==
  LET n == call[p].name IN
  /\ Fault
  /\ RemoveDirectories(n)
  /\ abandoned' = abandoned \cup {n}
  /\ UNCHANGED <<mounted, covered, nested, strayed, stopping>>

DeferredDeleteWorkspace(p) ==
  /\ At(p, "unlayer")
  /\ \/ DeleteWorkspace(call[p].name) /\ Done(p)
     \/ UmountFails(p) /\ call' = [call EXCEPT ![p] = Idle]
  /\ UNCHANGED <<config, process, cgroup>>

-----------------------------------------------------------------------------
\* Mutant: the error of ReadMetadata is not looked at.
StopAnyContainer(p, n) ==
  /\ call[p] = Idle
  /\ config[n] # Absent
  /\ Begun(p, n, "kill", IF config[n] = Torn THEN 0 ELSE config[n].pid)
  /\ stopping' = stopping \cup {n}
  /\ UNCHANGED <<hostVars, abandoned, faults>>

(***************************************************************************)
(* StopContainer: SIGTERM to whatever has the recorded identifier now; 0   *)
(* is the group of the stop command itself.  The first process of a pid    *)
(* namespace ignores the signal unless it handles it.                      *)
(***************************************************************************)
StopContainer(p, n) ==
  /\ call[p] = Idle
  /\ config[n] \in Metadata
  /\ Begun(p, n, "kill", config[n].pid)
  /\ stopping' = stopping \cup {n}
  /\ UNCHANGED <<hostVars, abandoned, faults>>

\* What is left of process i once it has ended.
Ended(i, ok) ==
  [process EXCEPT ![i] =
     IF \E q \in Proc : Runs(q, i) THEN [@ EXCEPT !.phase = "exited", !.ok = ok] ELSE Free]

Kill(p) ==
  LET i == call[p].pid IN
  /\ At(p, "kill")
  /\ UNCHANGED <<config, layerVars, cgroup>>
  /\ \/ i = 0 /\ Done(p) /\ UNCHANGED process
     \/ i # 0 /\ Continue(p, "stopped") /\ UNCHANGED process
     \/ i # 0 /\ Alive(i) /\ Continue(p, "stopped") /\ \E ok \in BOOLEAN : process' = Ended(i, ok)
     \/ i # 0 /\ process[i] = Foreign /\ Continue(p, "stopped")
        /\ process' = [process EXCEPT ![i] = Free]

\* Mutant: the status constant next to the one meant.
SaveExited(p) ==
  /\ At(p, "stopped")
  /\ Save(p, [pid |-> 0, status |-> "exited"], "done")
  /\ UNCHANGED <<layerVars, cgroup>>

SaveStopped(p) ==
  /\ At(p, "stopped")
  /\ Save(p, [pid |-> 0, status |-> "stopped"], "done")
  /\ UNCHANGED <<layerVars, cgroup>>

(***************************************************************************)
(* rm reads the metadata, disconnects the container, which may fail, and   *)
(* only then looks at the status it read.                                  *)
(***************************************************************************)
ReadForRemoval(p, n) ==
  /\ call[p] = Idle
  /\ config[n] \in Metadata
  /\ call' = [call EXCEPT ![p] = [at |-> "rm", name |-> n, pid |-> 0, detach |-> FALSE,
                                  network |-> FALSE, seen |-> config[n]]]
  /\ UNCHANGED <<hostVars, stopping, abandoned, faults>>

DisconnectFails(p) ==
  /\ At(p, "rm") /\ Done(p)
  /\ UNCHANGED hostVars

\* Mutant: the status is not looked at.
RemoveAnyContainer(p) ==
  /\ At(p, "rm") /\ Continue(p, "rmlayers")
  /\ UNCHANGED hostVars

RemoveContainer(p) ==
  /\ At(p, "rm")
  /\ \/ call[p].seen.status = "stopped" /\ Continue(p, "rmlayers")
     \/ call[p].seen.status # "stopped" /\ Done(p)
  /\ UNCHANGED hostVars

\* rm derives the paths from its own working directory, where there may be nothing to delete.
DeleteElsewhere(n) ==
  /\ strayed' = strayed \cup ({n} \cap (layers \cup mounted))
  /\ UNCHANGED <<layers, swept, mounted, covered, nested>>

RemoveLayers(p) ==
  LET n == call[p].name IN
  /\ At(p, "rmlayers")
  /\ \/ (DeleteWorkspace(n) \/ DeleteElsewhere(n)) /\ Continue(p, "rmrecord")
     \/ UmountFails(p) /\ Goto(p, "rmrecord")
  /\ UNCHANGED <<config, process, cgroup>>

RemoveRecord(p) ==
  /\ At(p, "rmrecord")
  /\ config' = [config EXCEPT ![call[p].name] = Absent]
  /\ Done(p)
  /\ UNCHANGED <<process, layerVars, cgroup>>

-----------------------------------------------------------------------------
(***************************************************************************)
(* The container: its first process ends; before it has its arguments only *)
(* with an error, which is also what it meets when the run command is gone.*)
(***************************************************************************)
Exit(i) ==
  /\ Alive(i)
  /\ \E ok \in BOOLEAN :
       /\ process[i].phase = "init" => ~ok
       /\ process' = Ended(i, ok)
  /\ UNCHANGED <<config, layerVars, cgroup, call, stopping, abandoned, faults>>

\* The host starts and ends processes of its own.
Host(i) ==
  /\ ~Container(i)
  /\ process' = [process EXCEPT ![i] = IF @ = Free THEN Foreign ELSE Free]
  /\ UNCHANGED <<config, layerVars, cgroup, call, stopping, abandoned, faults>>

RunStep(p) ==
  \/ CreateWorkspace(p) \/ SetLimit(p) \/ Start(p) \/ CreateMetadata(p) \/ Apply(p)
  \/ ReadMetadata(p) \/ SaveEndpoint(p) \/ ConnectFails(p) \/ SendInitArgs(p)
  \/ Undo(p) \/ Leave(p) \/ RemoveMetadata(p) \/ DestroyCgroup(p) \/ DeferredDeleteWorkspace(p)
Step(p) ==
  \/ RunStep(p) \/ Kill(p) \/ SaveStopped(p)
  \/ DisconnectFails(p) \/ RemoveContainer(p) \/ RemoveLayers(p) \/ RemoveRecord(p)
Begin(p) ==
  \E n \in Name : \/ StopContainer(p, n) \/ ReadForRemoval(p, n)
                  \/ \E detach, network \in BOOLEAN : Run(p, n, detach, network)

Next == \/ \E p \in Proc : Begin(p) \/ Step(p) \/ Quit(p)
        \/ \E i \in Pid : Exit(i) \/ Host(i)
Spec == Init /\ [][Next]_vars

-----------------------------------------------------------------------------
(***************************************************************************)
(* A container that runs and that nobody began to stop keeps all it has:   *)
(* its layers and mount, its record with its own identifier, and its place *)
(* in the shared group, whatever commands run for other containers; only   *)
(* the end of a container without a name takes the layers of another one.  *)
(***************************************************************************)
RunningIsWhole ==
  \A i \in Pid : \A n \in Name \ stopping :
    Of(i, n) /\ process[i].phase = "main" =>
      /\ n \in layers \cup swept /\ n \in mounted
      /\ config[n] = [pid |-> i, status |-> "running"]
      /\ cgroup # "absent" /\ process[i].grouped

(***************************************************************************)
(* A name without a record, a process or a command has no workspace left,  *)
(* unless a command was cut short, by a failure, an exit status other than *)
(* 0, an error of the network, or a cgroup that another container is in,   *)
(* or rm was run in another directory.  The overlay of the empty name and  *)
(* those mounted together with it keep each other from going: then the     *)
(* mount may be left, and never the directories.  Only a record lets rm    *)
(* remove a workspace.                                                     *)
(***************************************************************************)
Forgotten(n) ==
  /\ config[n] = Absent
  /\ \A i \in Pid : ~Of(i, n)
  /\ \A p \in Proc : ~Busy(p, n)

NoOrphanWorkspace ==
  \A n \in Name \ (abandoned \cup strayed) :
    Forgotten(n) => n \notin layers /\ (n \in mounted => n \in nested)
=============================================================================

-------------------------- MODULE ContainerProofs --------------------------
(***************************************************************************)
(* Proofs about the life of containers, for any names, commands and        *)
(* process identifiers and any number of failures.                         *)
(***************************************************************************)
EXTENDS Container, TLAPS

USE DEF layerVars

Label == RunLabel \cup {"kill", "stopped", "rm", "rmlayers", "rmrecord"}

-----------------------------------------------------------------------------
\* What a command is doing, and that it is one that has begun.
LEMMA CallOf ==
  ASSUME TypeOK, NEW p \in Proc, call[p] # Idle
  PROVE  /\ call[p] \in Call
         /\ call[p].name \in Name /\ call[p].pid \in Pid \cup {0}
         /\ call[p].at \in Label /\ call[p].seen \in Metadata \cup {Absent}
BY DEF TypeOK, Call, Label

\* A command that goes on keeps the types of its variables.
LEMMA GotoTypeOK ==
  ASSUME TypeOK, NEW p \in Proc, call[p] # Idle, NEW label \in Label, Goto(p, label)
  PROVE  call' \in [Proc -> Call \cup {Idle}]
<1>1. call[p] \in Call
  BY CallOf
<1>2. [call[p] EXCEPT !.at = label] \in Call
  BY <1>1 DEF Call, Label
<1> QED BY <1>2 DEF Goto, TypeOK

\* Abandoning a command keeps the types.
LEMMA AbandonTypeOK ==
  ASSUME TypeOK, NEW p \in Proc, call[p] # Idle, Abandon(p)
  PROVE  /\ call' \in [Proc -> Call \cup {Idle}]
         /\ process' \in [Pid -> Process \cup {Free, Foreign}]
         /\ stopping' \subseteq Name /\ abandoned' \subseteq Name
<1>1. call[p].name \in Name
  BY CallOf
<1>2. process' \in [Pid -> Process \cup {Free, Foreign}]
  BY DEF Abandon, Reaped, TypeOK
<1> QED BY <1>1, <1>2 DEF Abandon, TypeOK

\* A process that ends stays one.
LEMMA EndedTypeOK ==
  ASSUME TypeOK, NEW i \in Pid, Alive(i), NEW ok \in BOOLEAN
  PROVE  Ended(i, ok) \in [Pid -> Process \cup {Free, Foreign}]
<1>1. process[i] \in Process
  BY DEF TypeOK, Alive, Container
<1>2. [process[i] EXCEPT !.phase = "exited", !.ok = ok] \in Process
  BY <1>1 DEF Process
<1> QED BY <1>2 DEF Ended, TypeOK

\* One more failure is still within the bound.
LEMMA FaultTypeOK ==
  ASSUME TypeOK, Fault
  PROVE  faults' \in 0..MaxFaults
BY BoundAssumption DEF TypeOK, Fault

\* Saving a record keeps the types.
LEMMA SaveTypeOK ==
  ASSUME TypeOK, NEW p \in Proc, call[p] # Idle, NEW metadata \in Metadata \cup {Absent},
         NEW label \in Label \cup {"done"}, Save(p, metadata, label),
         UNCHANGED <<layerVars, cgroup>>
  PROVE  TypeOK'
<1>1. call[p].name \in Name
  BY CallOf
<1>2. CASE /\ config' = [config EXCEPT ![call[p].name] = metadata]
           /\ IF label = "done" THEN Done(p) ELSE Continue(p, label)
           /\ UNCHANGED process
  <2>1. call' \in [Proc -> Call \cup {Idle}]
    BY <1>2, GotoTypeOK DEF Done, Continue, TypeOK
  <2> QED BY <1>1, <1>2, <2>1 DEF TypeOK, Done, Continue
<1>3. CASE Fault /\ config' = [config EXCEPT ![call[p].name] = Torn] /\ Abandon(p)
  <2>1. config' \in [Name -> Metadata \cup {Absent, Torn}]
    BY <1>1, <1>3 DEF TypeOK
  <2> QED BY <1>3, <2>1, AbandonTypeOK, FaultTypeOK DEF TypeOK
<1> QED BY <1>2, <1>3 DEF Save

\* Deleting a workspace keeps the types, whether the umount fails or not.
LEMMA WorkspaceTypeOK ==
  ASSUME TypeOK, NEW n \in Name, RemoveDirectories(n)
  PROVE  /\ layers' \subseteq Name /\ swept' \subseteq Name
         /\ DeleteWorkspace(n) =>
              /\ mounted' \subseteq Name /\ covered' \subseteq Name
              /\ nested' \subseteq Name /\ strayed' \subseteq Name
BY DEF RemoveDirectories, DeleteWorkspace, Below, TypeOK

\* Every step of a run command keeps the types.
LEMMA RunStepTypeOK ==
  ASSUME TypeOK, NEW p \in Proc, RunStep(p)
  PROVE  TypeOK'
<1> USE DEF At
<1>0. call[p] # Idle
  BY DEF RunStep, CreateWorkspace, SetLimit, Start, CreateMetadata, Apply, ReadMetadata,
         SaveEndpoint, ConnectFails, SendInitArgs, Undo, Leave, Waited, RemoveMetadata,
         DestroyCgroup, DeferredDeleteWorkspace
<1>n. call[p].name \in Name /\ call[p] \in Call /\ call[p].pid \in Pid \cup {0}
  BY <1>0, CallOf
<1>1. CASE CreateWorkspace(p)
  <2>1. /\ layers' \subseteq Name /\ mounted' \subseteq Name /\ covered' \subseteq Name
        /\ nested' \subseteq Name
    BY <1>1, <1>n DEF CreateWorkspace, Mount, Companions, TypeOK
  <2>2. CASE Continue(p, "limit") /\ UNCHANGED process
    BY <1>0, <1>1, <2>1, <2>2, GotoTypeOK DEF CreateWorkspace, Continue, TypeOK, Label, RunLabel
  <2>3. CASE Abandon(p)
    <3>1. /\ call' \in [Proc -> Call \cup {Idle}] /\ process' \in [Pid -> Process \cup {Free, Foreign}]
          /\ stopping' \subseteq Name /\ abandoned' \subseteq Name
      BY <1>0, <2>3, AbandonTypeOK
    <3>2. Fault \/ UNCHANGED faults
      BY <1>1 DEF CreateWorkspace, Continue
    <3>3. faults' \in 0..MaxFaults
      BY <3>2, FaultTypeOK DEF TypeOK
    <3> QED BY <1>1, <2>1, <3>1, <3>3 DEF CreateWorkspace, TypeOK
  <2> QED BY <1>1, <2>2, <2>3 DEF CreateWorkspace
<1>2. CASE SetLimit(p)
  BY <1>0, <1>2, GotoTypeOK, AbandonTypeOK, FaultTypeOK
     DEF SetLimit, GetCgroupPath, Continue, TypeOK, Label, RunLabel
<1>3. CASE Start(p)
  <2>1. CASE Abandon(p) /\ UNCHANGED faults
    BY <1>0, <1>3, <2>1, AbandonTypeOK DEF Start, TypeOK
  <2>2. ASSUME NEW i \in Pid,
               process' = [process EXCEPT ![i] =
                 [name |-> call[p].name, phase |-> "init", ok |-> FALSE, grouped |-> FALSE]],
               call' = [call EXCEPT ![p].at = "record", ![p].pid = i],
               UNCHANGED <<stopping, abandoned, faults>>
        PROVE  TypeOK'
    <3>1. [call[p] EXCEPT !.at = "record", !.pid = i] \in Call
      BY <1>n DEF Call, RunLabel
    <3>2. call' \in [Proc -> Call \cup {Idle}]
      BY <2>2, <3>1 DEF TypeOK
    <3>3. process' \in [Pid -> Process \cup {Free, Foreign}]
      BY <2>2, <1>n DEF TypeOK, Process
    <3> QED BY <1>3, <2>2, <3>2, <3>3 DEF TypeOK, Start
  <2> QED BY <1>3, <2>1, <2>2 DEF Start
<1>4. CASE CreateMetadata(p)
  <2>1. [pid |-> call[p].pid, status |-> "running"] \in Metadata
    BY <1>n DEF Metadata
  <2> QED BY <1>0, <1>4, <2>1, SaveTypeOK DEF CreateMetadata, Label, RunLabel
<1>5. CASE Apply(p)
  <2>1. cgroup' \in {"absent", "unlimited", "limited"}
    BY <1>5 DEF Apply, GetCgroupPath, TypeOK
  <2>2. CASE Abandon(p) /\ UNCHANGED faults
    BY <1>0, <1>5, <2>1, <2>2, AbandonTypeOK DEF Apply, TypeOK
  <2>3. ASSUME Continue(p, IF call[p].network THEN "connect" ELSE "send")
        PROVE  call' \in [Proc -> Call \cup {Idle}]
    BY <1>0, <2>3, GotoTypeOK DEF Continue, Label, RunLabel
  <2>4. CASE Continue(p, IF call[p].network THEN "connect" ELSE "send") /\ UNCHANGED process
    BY <1>5, <2>1, <2>3, <2>4 DEF Apply, Continue, TypeOK
  <2>5. CASE /\ Continue(p, IF call[p].network THEN "connect" ELSE "send")
             /\ Alive(call[p].pid)
             /\ process' = [process EXCEPT ![call[p].pid].grouped = TRUE]
    <3>1. call[p].pid \in Pid => process[call[p].pid] \in Process
      BY <2>5 DEF Alive, Container, TypeOK
    <3>2. process' \in [Pid -> Process \cup {Free, Foreign}]
      BY <2>5, <3>1 DEF TypeOK, Process
    <3> QED BY <1>5, <2>1, <2>3, <2>5, <3>2 DEF Apply, Continue, TypeOK
  <2> QED BY <1>5, <2>2, <2>4, <2>5 DEF Apply
<1>6. CASE ReadMetadata(p)
  <2>1. CASE Abandon(p) /\ UNCHANGED faults
    BY <1>0, <1>6, <2>1, AbandonTypeOK DEF ReadMetadata, TypeOK
  <2>2. CASE /\ config[call[p].name] \in Metadata
             /\ call' = [call EXCEPT ![p].at = "endpoint", ![p].seen = config[call[p].name]]
             /\ UNCHANGED <<process, stopping, abandoned, faults>>
    <3>1. [call[p] EXCEPT !.at = "endpoint", !.seen = config[call[p].name]] \in Call
      BY <1>n, <2>2 DEF Call, RunLabel
    <3>2. call' \in [Proc -> Call \cup {Idle}]
      BY <2>2, <3>1 DEF TypeOK
    <3> QED BY <1>6, <2>2, <3>2 DEF ReadMetadata, TypeOK
  <2> QED BY <1>6, <2>1, <2>2 DEF ReadMetadata
<1>7. CASE ConnectFails(p)
  BY <1>0, <1>7, AbandonTypeOK DEF ConnectFails, TypeOK
<1>8. CASE Undo(p)
  <2>1. [call[p] EXCEPT !.at = "unrecord", !.pid = 0] \in Call
    BY <1>n DEF Call, RunLabel
  <2>2. call' \in [Proc -> Call \cup {Idle}]
    BY <1>8, <2>1 DEF Undo, TypeOK
  <2>3. process' \in [Pid -> Process \cup {Free, Foreign}]
    BY <1>8 DEF Undo, Reaped, TypeOK
  <2> QED BY <1>8, <2>2, <2>3 DEF Undo, TypeOK
<1>9. CASE Leave(p)
  BY <1>0, <1>9, AbandonTypeOK DEF Leave, TypeOK
<1>10. CASE RemoveMetadata(p)
  BY <1>0, <1>n, <1>10, GotoTypeOK DEF RemoveMetadata, Continue, TypeOK, Label, RunLabel
<1>11. CASE DestroyCgroup(p)
  BY <1>0, <1>11, GotoTypeOK, AbandonTypeOK
     DEF DestroyCgroup, GetCgroupPath, Continue, TypeOK, Label, RunLabel
<1>12. CASE DeferredDeleteWorkspace(p)
  BY <1>0, <1>n, <1>12, WorkspaceTypeOK, FaultTypeOK
     DEF DeferredDeleteWorkspace, DeleteWorkspace, UmountFails, Done, TypeOK
<1>13. CASE SaveEndpoint(p)
  BY <1>0, <1>13, CallOf, SaveTypeOK DEF SaveEndpoint, Label, RunLabel
<1>14. CASE SendInitArgs(p)
  <2>1. call' \in [Proc -> Call \cup {Idle}]
    BY <1>0, <1>14, GotoTypeOK DEF SendInitArgs, Done, Continue, TypeOK, Label, RunLabel
  <2>2. Alive(call[p].pid) /\ call[p].pid \in Pid =>
          [process[call[p].pid] EXCEPT !.phase = "main"] \in Process
    BY DEF Alive, Container, TypeOK, Process
  <2>3. process' \in [Pid -> Process \cup {Free, Foreign}]
    BY <1>14, <2>2 DEF SendInitArgs, TypeOK
  <2> QED BY <1>14, <2>1, <2>3 DEF SendInitArgs, Done, Continue, TypeOK
<1> QED
  BY <1>1, <1>2, <1>3, <1>4, <1>5, <1>6, <1>7, <1>8, <1>9, <1>10, <1>11, <1>12, <1>13, <1>14
     DEF RunStep

\* Every other step keeps the types.
LEMMA OtherTypeOK ==
  ASSUME TypeOK
  PROVE  /\ \A p \in Proc : Step(p) \/ Begin(p) \/ Quit(p) => TypeOK'
         /\ \A i \in Pid : Exit(i) \/ Host(i) => TypeOK'
<1> USE DEF At
<1>1. ASSUME NEW p \in Proc, Kill(p)
      PROVE  TypeOK'
  <2>0. call[p] # Idle /\ call[p] \in Call /\ call[p].pid \in Pid \cup {0}
    BY <1>1, CallOf DEF Kill
  <2>1. call' \in [Proc -> Call \cup {Idle}]
    BY <1>1, <2>0, GotoTypeOK DEF Kill, Done, Continue, TypeOK, Label
  <2>2. \A ok \in BOOLEAN : call[p].pid # 0 /\ Alive(call[p].pid) =>
          Ended(call[p].pid, ok) \in [Pid -> Process \cup {Free, Foreign}]
    BY <2>0, EndedTypeOK
  <2>3. process' \in [Pid -> Process \cup {Free, Foreign}]
    BY <1>1, <2>0, <2>2 DEF Kill, TypeOK
  <2> QED BY <1>1, <2>1, <2>3 DEF Kill, Done, Continue, TypeOK
<1>2. ASSUME NEW p \in Proc, SaveStopped(p)
      PROVE  TypeOK'
  <2>1. [pid |-> 0, status |-> "stopped"] \in Metadata
    BY DEF Metadata
  <2> QED BY <1>2, <2>1, SaveTypeOK DEF SaveStopped
<1>3. ASSUME NEW p \in Proc, DisconnectFails(p) \/ RemoveContainer(p)
      PROVE  TypeOK'
  <2>1. call' \in [Proc -> Call \cup {Idle}]
    BY <1>3, GotoTypeOK DEF DisconnectFails, RemoveContainer, Done, Continue, TypeOK, Label
  <2> QED BY <1>3, <2>1 DEF DisconnectFails, RemoveContainer, Done, Continue, hostVars, TypeOK
<1>4. ASSUME NEW p \in Proc, RemoveLayers(p)
      PROVE  TypeOK'
  <2>0. call[p] # Idle /\ call[p].name \in Name
    BY <1>4, CallOf DEF RemoveLayers
  <2>1. call' \in [Proc -> Call \cup {Idle}]
    BY <1>4, <2>0, GotoTypeOK DEF RemoveLayers, Continue, Label
  <2> QED BY <1>4, <2>0, <2>1, WorkspaceTypeOK, FaultTypeOK
          DEF RemoveLayers, DeleteElsewhere, DeleteWorkspace, UmountFails, Continue, TypeOK
<1>5. ASSUME NEW p \in Proc, RemoveRecord(p)
      PROVE  TypeOK'
  BY <1>5, CallOf DEF RemoveRecord, Done, TypeOK
<1>6. ASSUME NEW p \in Proc, Begin(p)
      PROVE  TypeOK'
  <2>1. ASSUME NEW n \in Name, NEW detach \in BOOLEAN, NEW network \in BOOLEAN,
               Run(p, n, detach, network)
        PROVE  TypeOK'
    <3>1. [at |-> "layers", name |-> n, pid |-> 0, detach |-> detach, network |-> network,
           seen |-> Absent] \in Call
      BY DEF Call, RunLabel
    <3> QED BY <2>1, <3>1 DEF Run, TypeOK
  <2>2. ASSUME NEW n \in Name, StopContainer(p, n)
        PROVE  TypeOK'
    <3>1. config[n].pid \in Pid \cup {0}
      BY <2>2 DEF StopContainer, Metadata
    <3>2. [at |-> "kill", name |-> n, pid |-> config[n].pid, detach |-> FALSE, network |-> FALSE,
           seen |-> Absent] \in Call
      BY <3>1 DEF Call
    <3> QED BY <2>2, <3>2 DEF StopContainer, Begun, hostVars, TypeOK
  <2>3. ASSUME NEW n \in Name, ReadForRemoval(p, n)
        PROVE  TypeOK'
    <3>1. [at |-> "rm", name |-> n, pid |-> 0, detach |-> FALSE, network |-> FALSE,
           seen |-> config[n]] \in Call
      BY <2>3 DEF ReadForRemoval, Call
    <3> QED BY <2>3, <3>1 DEF ReadForRemoval, hostVars, TypeOK
  <2> QED BY <1>6, <2>1, <2>2, <2>3 DEF Begin
<1>7. ASSUME NEW p \in Proc, Quit(p)
      PROVE  TypeOK'
  BY <1>7, AbandonTypeOK, FaultTypeOK DEF Quit, TypeOK
<1>8. ASSUME NEW i \in Pid, Exit(i)
      PROVE  TypeOK'
  BY <1>8, EndedTypeOK DEF Exit, TypeOK
<1>9. ASSUME NEW i \in Pid, Host(i)
      PROVE  TypeOK'
  BY <1>9 DEF Host, TypeOK
<1> QED
  BY <1>1, <1>2, <1>3, <1>4, <1>5, <1>6, <1>7, <1>8, <1>9, RunStepTypeOK DEF Step

(***************************************************************************)
(* The types hold in every behaviour, whatever fails or is killed.         *)
(***************************************************************************)
THEOREM TypeCorrect == Spec => []TypeOK
<1>1. Init => TypeOK
  BY BoundAssumption DEF Init, TypeOK
<1>2. TypeOK /\ [Next]_vars => TypeOK'
  <2>1. CASE UNCHANGED vars
    BY <2>1 DEF vars, hostVars, TypeOK
  <2> QED BY <2>1, OtherTypeOK DEF Next
<1> QED BY <1>1, <1>2, PTL DEF Spec

-----------------------------------------------------------------------------
\* The steps of a run command before, with and after its child.
Starting == {"layers", "limit", "start"}
Started  == {"record", "apply", "connect", "endpoint", "send", "wait"}
Undoing  == {"unrecord", "uncgroup", "unlayer"}
In(p, labels) == call[p] # Idle /\ call[p].at \in labels

\* A name has at most one run command.
OneRun ==
  \A p, q \in Proc : In(p, RunLabel) /\ In(q, RunLabel) /\ call[p].name = call[q].name => p = q

\* Until it has a record, no other command knows the name.
Alone ==
  \A p \in Proc : In(p, Starting \cup {"record"}) =>
    /\ config[call[p].name] = Absent
    /\ \A q \in Proc : Busy(q, call[p].name) => q = p

\* A run command that has not started its child, or waited for it, has none.
NoChild ==
  \A p \in Proc : In(p, Starting \cup Undoing) =>
    call[p].pid = 0 /\ \A i \in Pid : ~Of(i, call[p].name)

\* Otherwise the child is there, or what the command waits for, and is the only one of the name.
Child ==
  \A p \in Proc : In(p, Started) =>
    /\ call[p].pid \in Pid /\ Container(call[p].pid)
    /\ process[call[p].pid].name = call[p].name
    /\ call[p].at # "wait" => process[call[p].pid].phase # "main"
    /\ \A i \in Pid : Of(i, call[p].name) => i = call[p].pid

\* A name has at most one process.
OneProcess == \A i, j \in Pid : \A n \in Name : Of(i, n) /\ Of(j, n) => i = j

\* Nothing says that a container is stopped unless somebody began to stop it.
StopsAt(p) ==
  /\ In(p, {"kill", "stopped", "rmlayers", "rmrecord"}) => call[p].name \in stopping
  /\ In(p, {"rm", "endpoint"}) =>
       call[p].seen \in Metadata /\ (call[p].seen.status = "stopped" => call[p].name \in stopping)
StoppedAt(n) == config[n] \in Metadata /\ config[n].status = "stopped" => n \in stopping
Stops == (\A p \in Proc : StopsAt(p)) /\ (\A n \in Name : StoppedAt(n))

\* What a run command has made is there until it is through.
KeepsAt(p) ==
  call[p] # Idle /\ call[p].name \notin stopping =>
    /\ In(p, Started \cup {"limit", "start"}) =>
         call[p].name \in layers \cup swept /\ call[p].name \in mounted
    /\ In(p, Started \ {"record"}) =>
         config[call[p].name] = [pid |-> call[p].pid, status |-> "running"]
    /\ In(p, {"endpoint"}) => call[p].seen = [pid |-> call[p].pid, status |-> "running"]
Keeps == \A p \in Proc : KeepsAt(p)

\* Its child is in the group from Apply on.
GroupedAt(p) ==
  In(p, {"connect", "endpoint", "send"}) /\ Alive(call[p].pid) => process[call[p].pid].grouped
Grouped == \A p \in Proc : GroupedAt(p)

\* Who has tasks is there.
Group == Tasks # {} => cgroup # "absent"

\* The inductive invariant.
Inv ==
  /\ TypeOK /\ OneRun /\ Alone /\ NoChild /\ Child /\ OneProcess
  /\ Stops /\ Keeps /\ Grouped /\ Group /\ RunningIsWhole

\* What may become of a process, short of Start and SendInitArgs.
Ages(i) ==
  \/ process'[i] = process[i]
  \/ ~Container(i) /\ process'[i] \in {Free, Foreign}
  \/ process'[i] = Free /\ \A q \in Proc : In(q, Started)' => call'[q].pid # i
  \/ Container(i) /\ \E ok \in BOOLEAN : process'[i] = [process[i] EXCEPT !.phase = "exited", !.ok = ok]
  \/ Container(i) /\ process'[i] = [process[i] EXCEPT !.grouped = TRUE]

\* A process that is alive has been so, and a child that is waited for stays.
LEMMA AgesFacts ==
  ASSUME TypeOK, NEW i \in Pid, Ages(i)
  PROVE  /\ Alive(i)' => /\ Alive(i)
                         /\ process'[i].name = process[i].name
                         /\ process'[i].phase = process[i].phase
                         /\ process[i].grouped => process'[i].grouped
         /\ Container(i) /\ (\E q \in Proc : In(q, Started)' /\ call'[q].pid = i) =>
              /\ Container(i)'
              /\ process'[i].name = process[i].name
              /\ process'[i].phase \in {process[i].phase, "exited"}
<1>1. CASE process'[i] = process[i]
  BY <1>1 DEF Alive, Container
<1>2. CASE process'[i] \in {Free, Foreign} /\ ~Container(i)
  BY <1>2 DEF Alive, Container
<1>3. CASE process'[i] = Free /\ \A q \in Proc : In(q, Started)' => call'[q].pid # i
  BY <1>3 DEF Alive, Container
<1>4. ASSUME NEW ok \in BOOLEAN, Container(i),
             process'[i] = [process[i] EXCEPT !.phase = "exited", !.ok = ok]
      PROVE  /\ Container(i)' /\ ~Alive(i)'
             /\ process'[i].name = process[i].name
             /\ process'[i].phase \in {process[i].phase, "exited"}
  <2>1. process[i] \in Process
    BY <1>4 DEF Container, TypeOK
  <2>2. process'[i] \in Process /\ process'[i].phase = "exited" /\ process'[i].name = process[i].name
    BY <1>4, <2>1 DEF Process
  <2> QED BY <2>2, MarkAssumption DEF Container, Alive
<1>5. CASE Container(i) /\ process'[i] = [process[i] EXCEPT !.grouped = TRUE]
  <2>1. process[i] \in Process
    BY <1>5 DEF Container, TypeOK
  <2>2. /\ process'[i] \in Process /\ process'[i].phase = process[i].phase
        /\ process'[i].name = process[i].name /\ process'[i].grouped
    BY <1>5, <2>1 DEF Process
  <2> QED BY <1>5, <2>2, MarkAssumption DEF Container, Alive
<1> QED BY <1>1, <1>2, <1>3, <1>4, <1>5 DEF Ages

(***************************************************************************)
(* A step of a command that has begun, other than Start and SendInitArgs:  *)
(* it stays before, with or after its child or has waited for it, and      *)
(* changes nothing but what has its name.                                  *)
(***************************************************************************)
Proceeds(p) ==
  call'[p] # Idle =>
    /\ call'[p].name = call[p].name
    /\ \/ /\ call'[p].pid = call[p].pid
          /\ \A labels \in {Starting, {"record"}, Started, Undoing, RunLabel} :
               call'[p].at \in labels => call[p].at \in labels
          /\ call'[p].at \in Started => call[p].at # "wait"
       \/ /\ call'[p].at \in Undoing /\ call[p].at \in Started /\ call'[p].pid = 0
          /\ \A i \in Pid : ~Of(i, call[p].name)

Spares(p) ==
  /\ \A n \in Name \ {call[p].name} :
       /\ config'[n] = config[n]
       /\ n \in mounted => n \in mounted'
       /\ n \in layers \cup swept => n \in layers' \cup swept'
  /\ call[p].at \in {"wait", "rm"} => UNCHANGED <<config, layerVars>>

Changes(p) ==
  /\ call[p] # Idle /\ Proceeds(p)
  /\ \A q \in Proc \ {p} : call'[q] = call[q]
  /\ stopping' = stopping
  /\ \A i \in Pid : Ages(i)
  /\ Spares(p)
  /\ In(p, Starting \cup {"record"})' => UNCHANGED config

\* What such a step leaves alone.
LEMMA Frame ==
  ASSUME Inv, NEW p \in Proc, Changes(p)
  PROVE  /\ OneRun' /\ Alone' /\ NoChild' /\ Child' /\ OneProcess'
         /\ \A q \in Proc \ {p} : StopsAt(q)' /\ KeepsAt(q)' /\ GroupedAt(q)'
         /\ \A n \in Name \ {call[p].name} : StoppedAt(n)'
         /\ Group' => RunningIsWhole'
<1> DEFINE name == call[p].name
<1>0. TypeOK /\ call[p] # Idle /\ name \in Name /\ call[p].at \in Label
  BY CallOf DEF Inv, Changes
<1>1. \A i \in Pid :
        /\ Alive(i)' => /\ Alive(i)
                        /\ process'[i].name = process[i].name
                        /\ process'[i].phase = process[i].phase
                        /\ process[i].grouped => process'[i].grouped
        /\ Container(i) /\ (\E q \in Proc : In(q, Started)' /\ call'[q].pid = i) =>
             /\ Container(i)'
             /\ process'[i].name = process[i].name
             /\ process'[i].phase \in {process[i].phase, "exited"}
  BY <1>0, AgesFacts DEF Changes
<1>2. \A i \in Pid : \A n \in Name : Of(i, n)' => Of(i, n)
  BY <1>1 DEF Of
<1>3. \A q \in Proc : call'[q] # Idle => call[q] # Idle /\ call'[q].name = call[q].name
  BY DEF Changes, Proceeds
<1>4. OneRun'
  BY <1>3 DEF Inv, OneRun, Changes, Proceeds, In, Started, Undoing, RunLabel
<1>5. Alone'
  <2>1. ASSUME NEW q \in Proc, In(q, Starting \cup {"record"})'
        PROVE  In(q, Starting \cup {"record"}) /\ config'[call[q].name] = config[call[q].name]
    <3>1. In(q, Starting \cup {"record"})
      BY <2>1 DEF Changes, Proceeds, In, Starting, Started, Undoing
    <3>2. CASE q # p
      <4>1. call[q].name \in Name
        BY <1>0, <3>1, CallOf DEF In
      <4>2. call[q].name # name
        BY <1>0, <3>1, <3>2 DEF Inv, Alone, Busy
      <4> QED BY <3>1, <4>1, <4>2 DEF Changes, Spares
    <3>3. CASE q = p
      BY <2>1, <3>1, <3>3 DEF Changes, In
    <3> QED BY <3>2, <3>3
  <2> QED BY <1>3, <2>1 DEF Inv, Alone, Busy, In
<1>6. NoChild'
  <2>1. ASSUME NEW q \in Proc, In(q, Starting \cup Undoing)'
        PROVE  call'[q].pid = 0 /\ call'[q].name \in Name /\ \A i \in Pid : ~Of(i, call'[q].name)
    <3>1. call[q] # Idle /\ call'[q].name = call[q].name /\ call[q].name \in Name
      BY <1>0, <1>3, <2>1, CallOf DEF In
    <3> QED BY <2>1, <3>1 DEF Inv, NoChild, Changes, Proceeds, In, Starting, Undoing
  <2> QED BY <1>2, <2>1 DEF NoChild
<1>7. Child'
  <2>1. ASSUME NEW q \in Proc, In(q, Started)'
        PROVE  /\ In(q, Started) /\ call'[q].pid = call[q].pid /\ call'[q].name = call[q].name
               /\ call'[q].at # "wait" => call[q].at # "wait"
    <3>1. CASE q # p
      BY <2>1, <3>1 DEF Changes, In
    <3>2. CASE q = p
      <4>1. call'[p] # Idle /\ call'[p].at \in Started /\ call'[p].at \notin Undoing
        BY <2>1, <3>2 DEF In, Started, Undoing
      <4>2. /\ call'[p].pid = call[p].pid /\ call'[p].name = call[p].name
            /\ call[p].at \in Started /\ call[p].at # "wait"
        BY <4>1 DEF Changes, Proceeds
      <4> QED BY <1>0, <3>2, <4>2 DEF In
    <3> QED BY <3>1, <3>2
  <2> QED BY <1>0, <1>1, <1>2, <2>1, CallOf DEF Inv, Child, In
<1>8. OneProcess'
  BY <1>2 DEF Inv, OneProcess
<1>9. ASSUME NEW q \in Proc \ {p}
      PROVE  StopsAt(q)' /\ KeepsAt(q)' /\ GroupedAt(q)'
  <2>0. call'[q] = call[q] /\ stopping' = stopping
    BY DEF Changes
  <2>1. StopsAt(q)'
    BY <2>0 DEF Inv, Stops, StopsAt, In
  <2>2. KeepsAt(q)'
    <3> SUFFICES ASSUME call[q] # Idle, call[q].name \notin stopping,
                        In(q, Started \cup {"limit", "start"})
                 PROVE  KeepsAt(q)'
      BY <2>0 DEF KeepsAt, In, Started
    <3>1. KeepsAt(q) /\ call[q].name \in Name
      BY <1>0, CallOf DEF Inv, Keeps
    <3>2. CASE call[q].name # name
      BY <2>0, <3>1, <3>2 DEF KeepsAt, In, Changes, Spares
    <3>3. CASE call[q].name = name
      <4>1. call[p].at \notin RunLabel
        BY <1>0, <3>3 DEF Inv, OneRun, In, Started, RunLabel
      <4>2. call[p].at = "rm"
        BY <1>0, <3>3, <4>1 DEF Inv, Stops, StopsAt, In, Label
      <4> QED BY <2>0, <3>1, <4>2 DEF KeepsAt, In, Changes, Spares
    <3> QED BY <3>2, <3>3
  <2>3. GroupedAt(q)'
    <3> SUFFICES ASSUME In(q, {"connect", "endpoint", "send"}), Alive(call[q].pid)'
                 PROVE  process'[call[q].pid].grouped
      BY <2>0 DEF GroupedAt, In
    <3>1. call[q].pid \in Pid
      BY DEF Inv, Child, In, Started
    <3>2. Alive(call[q].pid) /\ (process[call[q].pid].grouped => process'[call[q].pid].grouped)
      BY <1>1, <3>1, <2>0
    <3>3. GroupedAt(q)
      BY DEF Inv, Grouped
    <3> QED BY <3>2, <3>3 DEF GroupedAt
  <2> QED BY <2>1, <2>2, <2>3
<1>10. ASSUME NEW n \in Name \ {name}
       PROVE  StoppedAt(n)'
  BY DEF Inv, Stops, StoppedAt, Changes, Spares
<1>11. ASSUME Group'
       PROVE  RunningIsWhole'
  <2> SUFFICES ASSUME NEW i \in Pid, NEW n \in Name \ stopping, Of(i, n)', process'[i].phase = "main"
               PROVE  /\ n \in layers' \cup swept' /\ n \in mounted'
                      /\ config'[n] = [pid |-> i, status |-> "running"]
                      /\ cgroup' # "absent" /\ process'[i].grouped
    BY DEF RunningIsWhole, Changes
  <2>1. Of(i, n) /\ process[i].phase = "main"
    BY <1>1, <1>2 DEF Of
  <2>2. process'[i].grouped
    BY <1>1, <2>1 DEF Inv, RunningIsWhole, Of
  <2>3. cgroup' # "absent"
    BY <1>11, <2>2 DEF Group, Tasks, Of
  <2>4. CASE n # name
    BY <2>1, <2>2, <2>3, <2>4 DEF Inv, RunningIsWhole, Changes, Spares
  <2>5. CASE n = name
    <3>1. call[p].at \notin Starting \cup Undoing
      BY <1>0, <2>1, <2>5 DEF Inv, NoChild, In
    <3>2. call[p].at \notin Started \ {"wait"}
      BY <1>0, <2>1, <2>5 DEF Inv, Child, In
    <3>3. call[p].at \in {"wait", "rm"}
      BY <1>0, <2>5, <3>1, <3>2 DEF Inv, Stops, StopsAt, In, Label, RunLabel, Starting, Started, Undoing
    <3> QED BY <2>1, <2>2, <2>3, <3>3 DEF Inv, RunningIsWhole, Changes, Spares
  <2> QED BY <2>4, <2>5
<1> QED BY <1>4, <1>5, <1>6, <1>7, <1>8, <1>9, <1>10, <1>11

\* What is then left to show of the command itself and of its name.
Settles(p) ==
  /\ StopsAt(p)' /\ KeepsAt(p)' /\ GroupedAt(p)' /\ Group'
  /\ \A n \in Name : n = call[p].name => StoppedAt(n)'

\* With both the invariant holds after the step.
LEMMA Settled ==
  ASSUME Inv, TypeOK', NEW p \in Proc, Changes(p), Settles(p)
  PROVE  Inv'
<1>1. call[p].name \in Name
  BY CallOf DEF Inv, Changes
<1>2. /\ OneRun' /\ Alone' /\ NoChild' /\ Child' /\ OneProcess'
      /\ \A q \in Proc \ {p} : StopsAt(q)' /\ KeepsAt(q)' /\ GroupedAt(q)'
      /\ \A n \in Name \ {call[p].name} : StoppedAt(n)'
      /\ Group' => RunningIsWhole'
  BY Frame
<1>3. Stops' /\ Keeps' /\ Grouped'
  <2>1. \A q \in Proc : StopsAt(q)' /\ KeepsAt(q)' /\ GroupedAt(q)'
    BY <1>2 DEF Settles
  <2>2. \A n \in Name : StoppedAt(n)'
    BY <1>2 DEF Settles
  <2> QED BY <2>1, <2>2 DEF Stops, Keeps, Grouped
<1> QED BY <1>2, <1>3 DEF Inv, Settles

\* The call of a command that goes on, and those of the others.
LEMMA Went ==
  ASSUME TypeOK, NEW p \in Proc, call[p] # Idle, NEW label \in Label, Goto(p, label)
  PROVE  /\ call'[p] # Idle /\ call'[p].at = label /\ call'[p].name = call[p].name
         /\ call'[p].pid = call[p].pid /\ call'[p].seen = call[p].seen
         /\ \A q \in Proc \ {p} : call'[q] = call[q]
<1>1. call[p] \in Call
  BY CallOf
<1>2. [call[p] EXCEPT !.at = label] \in Call
  BY <1>1 DEF Call, Label
<1>3. call'[p] = [call[p] EXCEPT !.at = label] /\ \A q \in Proc \ {p} : call'[q] = call[q]
  BY DEF Goto, TypeOK
<1>4. /\ call'[p].at = label /\ call'[p].name = call[p].name
      /\ call'[p].pid = call[p].pid /\ call'[p].seen = call[p].seen
  BY <1>1, <1>3 DEF Call
<1> QED BY <1>2, <1>3, <1>4, MarkAssumption

\* What reaping its child makes of the processes: no other command waits for that child.
LEMMA ReapedAges ==
  ASSUME Inv, NEW p \in Proc, process' = Reaped(p), \A q \in Proc \ {p} : call'[q] = call[q],
         ~In(p, Started)', NEW i \in Pid
  PROVE  /\ Ages(i)
         /\ Alive(i)' => process'[i] = process[i]
<1>1. CASE Runs(p, i) /\ Container(i) /\ ~Alive(i)
  <2>1. process'[i] = Free
    BY <1>1 DEF Reaped
  <2>2. In(p, Started) /\ process[i].name = call[p].name
    BY <1>1, PidAssumption DEF Runs, Inv, NoChild, Child, In, Started, Starting, Undoing, RunLabel
  <2>3. ASSUME NEW q \in Proc, In(q, Started)', call'[q].pid = i
        PROVE  FALSE
    <3>1. q # p
      BY <2>3
    <3>2. In(q, Started) /\ call[q].pid = i
      BY <2>3, <3>1 DEF In
    <3>3. call[q].name = call[p].name
      BY <2>2, <3>2 DEF Inv, Child
    <3> QED BY <2>2, <3>1, <3>2, <3>3 DEF Inv, OneRun, In, Started, RunLabel
  <2> QED BY <2>1, <2>3 DEF Ages, Alive, Container
<1>2. CASE ~(Runs(p, i) /\ Container(i) /\ ~Alive(i))
  BY <1>2 DEF Reaped, Ages
<1> QED BY <1>1, <1>2

(***************************************************************************)
(* A command that ends here, through or not, keeps the invariant.          *)
(***************************************************************************)
Ends(p) ==
  /\ call[p] # Idle /\ call' = [call EXCEPT ![p] = Idle] /\ stopping' = stopping
  /\ process' = process \/ process' = Reaped(p)
  /\ cgroup' = cgroup \/ cgroup' # "absent"
  /\ Spares(p)
  /\ \A n \in Name : n = call[p].name => StoppedAt(n)'

LEMMA EndsInv ==
  ASSUME Inv, TypeOK', NEW p \in Proc, Ends(p)
  PROVE  Inv'
<1>1. call'[p] = Idle /\ \A q \in Proc \ {p} : call'[q] = call[q]
  BY DEF Ends, Inv, TypeOK
<1>2. \A i \in Pid : Ages(i) /\ (Alive(i)' => process'[i] = process[i])
  <2>1. CASE process' = process
    BY <2>1 DEF Ages
  <2>2. CASE process' = Reaped(p)
    BY <1>1, <2>2, ReapedAges DEF In
  <2> QED BY <2>1, <2>2 DEF Ends
<1>3. Changes(p)
  BY <1>1, <1>2 DEF Changes, Spares, Proceeds, Ends, In
<1>4. Group'
  <2>1. Tasks' \subseteq Tasks
    BY <1>2 DEF Tasks, Alive, Container
  <2> QED BY <2>1 DEF Inv, Group, Ends
<1>5. Settles(p)
  BY <1>1, <1>4 DEF Settles, StopsAt, KeepsAt, GroupedAt, In, Ends
<1> QED BY <1>3, <1>5, Settled

\* Abandoning the command does, with the record as it was or torn.
LEMMA AbandonInv ==
  ASSUME Inv, TypeOK', NEW p \in Proc, call[p] # Idle, Abandon(p), Spares(p),
         cgroup' = cgroup \/ cgroup' # "absent",
         \A n \in Name : config'[n] \in {config[n], Torn}
  PROVE  Inv'
<1>1. \A n \in Name : StoppedAt(n)'
  BY MarkAssumption DEF Inv, Stops, StoppedAt, Abandon
<1>2. Ends(p)
  BY <1>1 DEF Ends, Abandon
<1> QED BY <1>2, EndsInv

\* Going on does, once what is particular to the step is shown.
LEMMA ContinueInv ==
  ASSUME Inv, TypeOK', NEW p \in Proc, call[p] # Idle, NEW label \in Label,
         Goto(p, label), UNCHANGED stopping, Spares(p),
         \A labels \in {Starting, {"record"}, Started, Undoing, RunLabel} :
           label \in labels => call[p].at \in labels,
         label \in Started => call[p].at # "wait",
         label \in Starting \cup {"record"} => UNCHANGED config,
         \A i \in Pid : Ages(i),
         Settles(p)
  PROVE  Inv'
<1>1. /\ call'[p] # Idle /\ call'[p].at = label /\ call'[p].name = call[p].name
      /\ call'[p].pid = call[p].pid
      /\ \A q \in Proc \ {p} : call'[q] = call[q]
  BY Went DEF Inv
<1>2. Proceeds(p)
  BY <1>1 DEF Proceeds
<1>3. Changes(p)
  BY <1>1, <1>2 DEF Changes, In
<1> QED BY <1>3, Settled

\* Nothing that has ended counts in the group.
LEMMA GroupStays ==
  ASSUME Group, process' = process, cgroup' = cgroup \/ cgroup' # "absent"
  PROVE  Group'
BY DEF Group, Tasks, Alive, Container

\* The steps of a run command before its child.
LEMMA CreateWorkspaceInv ==
  ASSUME Inv, TypeOK', NEW p \in Proc, CreateWorkspace(p)
  PROVE  Inv'
<1>0. call[p] # Idle /\ call[p].at = "layers" /\ call[p].name \in Name
  BY CallOf DEF CreateWorkspace, At, Inv
<1>1. Spares(p)
  BY <1>0 DEF CreateWorkspace, Mount, Spares
<1>2. CASE Abandon(p)
  BY <1>0, <1>1, <1>2, AbandonInv DEF CreateWorkspace
<1>3. CASE Mount(call[p].name) /\ Continue(p, "limit") /\ UNCHANGED process
  <2>1. /\ call'[p] # Idle /\ call'[p].at = "limit" /\ call'[p].name = call[p].name
    BY <1>0, <1>3, Went DEF Continue, Inv, Label, RunLabel
  <2>2. call[p].name \in layers' /\ call[p].name \in mounted' /\ UNCHANGED <<config, swept, cgroup>>
    BY <1>0, <1>3 DEF CreateWorkspace, Mount
  <2>3. Group'
    BY <1>3, <2>2, GroupStays DEF Inv
  <2>4. Settles(p)
    BY <1>3, <2>1, <2>2, <2>3
       DEF Settles, StopsAt, KeepsAt, GroupedAt, StoppedAt, In, Started, Inv, Stops, Continue
  <2> QED BY <1>0, <1>1, <1>3, <2>2, <2>4, ContinueInv
          DEF Continue, Ages, Starting, Started, Undoing, RunLabel, Label
<1> QED BY <1>2, <1>3 DEF CreateWorkspace

\* SetLimit keeps the invariant.
LEMMA SetLimitInv ==
  ASSUME Inv, TypeOK', NEW p \in Proc, SetLimit(p)
  PROVE  Inv'
<1>0. call[p] # Idle /\ call[p].at = "limit" /\ call[p].name \in Name
  BY CallOf DEF SetLimit, At, Inv
<1>1. Spares(p) /\ (cgroup' = cgroup \/ cgroup' # "absent")
  BY <1>0 DEF SetLimit, Spares, GetCgroupPath
<1>2. CASE Abandon(p)
  BY <1>0, <1>1, <1>2, AbandonInv DEF SetLimit
<1>3. CASE Continue(p, "start") /\ UNCHANGED process
  <2>1. /\ call'[p] # Idle /\ call'[p].at = "start" /\ call'[p].name = call[p].name
    BY <1>0, <1>3, Went DEF Continue, Inv, Label, RunLabel
  <2>2. KeepsAt(p) /\ UNCHANGED <<config, layerVars>>
    BY DEF Inv, Keeps, SetLimit
  <2>3. Group'
    BY <1>1, <1>3, GroupStays DEF Inv
  <2>4. Settles(p)
    BY <1>0, <1>3, <2>1, <2>2, <2>3
       DEF Settles, StopsAt, KeepsAt, GroupedAt, StoppedAt, In, Started, Inv, Stops, Continue
  <2> QED BY <1>0, <1>1, <1>3, <2>2, <2>4, ContinueInv
          DEF Continue, Ages, Starting, Started, Undoing, RunLabel, Label
<1> QED BY <1>2, <1>3 DEF SetLimit

\* A record that is saved after the child has started keeps it.
LEMMA SaveInv ==
  ASSUME Inv, TypeOK', NEW p \in Proc, In(p, {"record", "endpoint"}),
         NEW label \in {"apply", "send"}, NEW metadata \in Metadata,
         Save(p, metadata, label), UNCHANGED <<layerVars, cgroup>>,
         metadata.status = "stopped" => call[p].name \in stopping,
         call[p].name \notin stopping => metadata = [pid |-> call[p].pid, status |-> "running"],
         label = "send" => call[p].at = "endpoint"
  PROVE  Inv'
<1>0. call[p] # Idle /\ call[p].name \in Name
  BY CallOf DEF Inv, In
<1>1. config' \in [Name -> Metadata \cup {Absent, Torn}]
  BY DEF TypeOK
<1>2. Spares(p)
  BY <1>0 DEF Save, Spares, In, Inv, TypeOK
<1>3. CASE Abandon(p) /\ config' = [config EXCEPT ![call[p].name] = Torn]
  BY <1>0, <1>2, <1>3, AbandonInv DEF Inv, TypeOK
<1>4. CASE /\ Continue(p, label) /\ UNCHANGED process
           /\ config' = [config EXCEPT ![call[p].name] = metadata]
  <2>1. /\ call'[p] # Idle /\ call'[p].at = label
        /\ call'[p].name = call[p].name /\ call'[p].pid = call[p].pid
    BY <1>0, <1>4, Went DEF Continue, Inv, Label, RunLabel
  <2>2. KeepsAt(p) /\ GroupedAt(p) /\ config'[call[p].name] = metadata
    BY <1>0, <1>4 DEF Inv, Keeps, Grouped, TypeOK
  <2>3. Group'
    BY <1>4, GroupStays DEF Inv
  <2>4. KeepsAt(p)'
    BY <1>0, <1>4, <2>1, <2>2 DEF KeepsAt, In, Started, Continue
  <2>5. GroupedAt(p)'
    BY <1>4, <2>1, <2>2 DEF GroupedAt, In, Alive, Container
  <2>6. StopsAt(p)' /\ \A n \in Name : n = call[p].name => StoppedAt(n)'
    BY <1>4, <2>1, <2>2 DEF StopsAt, StoppedAt, In, Continue
  <2> QED BY <1>0, <1>2, <1>4, <2>3, <2>4, <2>5, <2>6, ContinueInv
          DEF Continue, Ages, Settles, Starting, Started, Undoing, RunLabel, Label, In
<1> QED BY <1>3, <1>4 DEF Save

\* The two steps of a run command that save it.
LEMMA RecordInv ==
  ASSUME Inv, TypeOK', NEW p \in Proc, CreateMetadata(p) \/ SaveEndpoint(p)
  PROVE  Inv'
<1>1. CASE CreateMetadata(p)
  <2>1. In(p, {"record"}) /\ [pid |-> call[p].pid, status |-> "running"] \in Metadata
    BY <1>1, CallOf DEF CreateMetadata, At, In, Inv, Metadata
  <2> QED BY <1>1, <2>1, SaveInv DEF CreateMetadata, In
<1>2. CASE SaveEndpoint(p)
  <2>1. In(p, {"endpoint"}) /\ StopsAt(p) /\ KeepsAt(p)
    BY <1>2 DEF SaveEndpoint, At, In, Inv, Stops, Keeps
  <2> QED BY <1>2, <2>1, SaveInv DEF SaveEndpoint, In, StopsAt, KeepsAt
<1> QED BY <1>1, <1>2

\* Apply keeps the invariant: it is where the child comes into the group.
LEMMA ApplyInv ==
  ASSUME Inv, TypeOK', NEW p \in Proc, Apply(p)
  PROVE  Inv'
<1>0. /\ call[p] # Idle /\ call[p].at = "apply" /\ call[p].name \in Name
      /\ call[p].pid \in Pid /\ KeepsAt(p) /\ TypeOK
  BY CallOf DEF Apply, At, Inv, Keeps, Child, In, Started
<1>1. Spares(p) /\ cgroup' # "absent" /\ UNCHANGED <<config, layerVars>>
  BY <1>0 DEF Apply, Spares, GetCgroupPath
<1>2. CASE Abandon(p)
  BY <1>0, <1>1, <1>2, AbandonInv DEF Apply
<1>3. ASSUME NEW label \in {"connect", "send"}, Continue(p, label),
             \/ /\ Alive(call[p].pid)
                /\ process' = [process EXCEPT ![call[p].pid].grouped = TRUE]
             \/ ~Alive(call[p].pid) /\ UNCHANGED process
      PROVE  Inv'
  <2>1. /\ call'[p] # Idle /\ call'[p].at = label
        /\ call'[p].name = call[p].name /\ call'[p].pid = call[p].pid
    BY <1>0, <1>3, Went DEF Continue, Label, RunLabel
  <2>2. KeepsAt(p)'
    BY <1>0, <1>1, <1>3, <2>1 DEF KeepsAt, In, Started, Continue
  <2>3. GroupedAt(p)'
    <3>1. CASE ~Alive(call[p].pid) /\ UNCHANGED process
      BY <2>1, <3>1 DEF GroupedAt, In, Alive, Container
    <3>2. CASE /\ Alive(call[p].pid)
               /\ process' = [process EXCEPT ![call[p].pid].grouped = TRUE]
      <4>1. process[call[p].pid] \in Process
        BY <1>0, <3>2 DEF Alive, Container, TypeOK
      <4>2. process'[call[p].pid].grouped
        BY <1>0, <3>2, <4>1 DEF TypeOK, Process
      <4> QED BY <2>1, <4>2 DEF GroupedAt, In
    <3> QED BY <1>3, <3>1, <3>2
  <2>4. StopsAt(p)' /\ \A n \in Name : n = call[p].name => StoppedAt(n)'
    BY <1>1, <1>3, <2>1 DEF StopsAt, StoppedAt, In, Continue, Inv, Stops
  <2>5. \A i \in Pid : Ages(i)
    BY <1>0, <1>3 DEF Ages, Alive, TypeOK
  <2>6. Group'
    BY <1>1 DEF Group
  <2> QED BY <1>0, <1>1, <1>3, <2>2, <2>3, <2>4, <2>5, <2>6, ContinueInv
          DEF Continue, Settles, Starting, Started, Undoing, RunLabel, Label
<1> QED BY <1>2, <1>3 DEF Apply

\* ReadMetadata keeps it; it is the one step that changes what the command has seen.
LEMMA ReadMetadataInv ==
  ASSUME Inv, TypeOK', NEW p \in Proc, ReadMetadata(p)
  PROVE  Inv'
<1>0. /\ call[p] # Idle /\ call[p].at = "connect" /\ call[p].name \in Name /\ call[p] \in Call
      /\ KeepsAt(p) /\ GroupedAt(p) /\ TypeOK
  BY CallOf DEF ReadMetadata, At, Inv, Keeps, Grouped
<1>1. Spares(p) /\ UNCHANGED <<config, layerVars, cgroup>>
  BY <1>0 DEF ReadMetadata, Spares
<1>2. CASE Abandon(p)
  BY <1>0, <1>1, <1>2, AbandonInv
<1>3. CASE /\ config[call[p].name] \in Metadata
           /\ call' = [call EXCEPT ![p].at = "endpoint", ![p].seen = config[call[p].name]]
           /\ UNCHANGED <<process, stopping, abandoned, faults>>
  <2>0. [call[p] EXCEPT !.at = "endpoint", !.seen = config[call[p].name]] \in Call
    BY <1>0, <1>3 DEF Call, RunLabel
  <2>1. /\ call'[p] # Idle /\ call'[p].at = "endpoint" /\ call'[p].seen = config[call[p].name]
        /\ call'[p].name = call[p].name /\ call'[p].pid = call[p].pid
        /\ \A q \in Proc \ {p} : call'[q] = call[q]
    BY <1>0, <1>3, <2>0, MarkAssumption DEF TypeOK, Call
  <2>2. StopsAt(p)' /\ \A n \in Name : StoppedAt(n)'
    <3>1. StoppedAt(call[p].name)
      BY <1>0 DEF Inv, Stops
    <3>2. stopping' = stopping /\ config' = config
      BY <1>1, <1>3
    <3>3. StopsAt(p)'
      BY <1>3, <2>1, <3>1, <3>2 DEF StopsAt, StoppedAt, In
    <3>4. \A n \in Name : StoppedAt(n)'
      BY <3>2 DEF StoppedAt, Inv, Stops
    <3> QED BY <3>3, <3>4
  <2>5. KeepsAt(p)'
    <3>1. call[p].name \notin stopping =>
            /\ call[p].name \in layers \cup swept /\ call[p].name \in mounted
            /\ config[call[p].name] = [pid |-> call[p].pid, status |-> "running"]
      BY <1>0 DEF KeepsAt, In, Started
    <3>2. call[p].name \notin stopping =>
            /\ call[p].name \in layers' \cup swept' /\ call[p].name \in mounted'
            /\ config'[call[p].name] = [pid |-> call[p].pid, status |-> "running"]
      BY <1>1, <3>1
    <3>3. call'[p].name = call[p].name /\ stopping' = stopping
      BY <1>3, <2>1
    <3>4. ASSUME call[p].name \notin stopping
          PROVE  /\ call'[p].name \in layers' \cup swept' /\ call'[p].name \in mounted'
                 /\ config'[call'[p].name] = [pid |-> call'[p].pid, status |-> "running"]
                 /\ call'[p].seen = [pid |-> call'[p].pid, status |-> "running"]
      <4>1. call'[p].pid = call[p].pid /\ call'[p].seen = config[call[p].name]
        BY <2>1
      <4> QED BY <3>1, <3>2, <3>3, <3>4, <4>1
    <3> QED BY <3>3, <3>4 DEF KeepsAt
  <2>6. GroupedAt(p)'
    BY <1>0, <1>3, <2>1 DEF GroupedAt, In, Alive, Container
  <2>3. Group'
    BY <1>1, <1>3, GroupStays DEF Inv
  <2>4. Changes(p)
    BY <1>0, <1>1, <1>3, <2>1
       DEF Changes, Proceeds, Ages, In, Starting, Started, Undoing, RunLabel
  <2> QED BY <2>2, <2>3, <2>4, <2>5, <2>6, Settled DEF Settles
<1> QED BY <1>2, <1>3 DEF ReadMetadata

\* The connection that fails, and the child that ends with an error, end the command.
LEMMA LeaveInv ==
  ASSUME Inv, TypeOK', NEW p \in Proc, ConnectFails(p) \/ Leave(p)
  PROVE  Inv'
<1>1. call[p] # Idle /\ Abandon(p) /\ UNCHANGED <<config, layerVars, cgroup>>
  BY DEF ConnectFails, Leave, Waited, At
<1>2. Spares(p)
  BY <1>1 DEF Spares
<1> QED BY <1>1, <1>2, AbandonInv

\* A command that is killed, or whose next external call fails, does too.
LEMMA QuitInv ==
  ASSUME Inv, TypeOK', NEW p \in Proc, Quit(p)
  PROVE  Inv'
<1>1. Spares(p)
  BY DEF Quit, Spares
<1> QED BY <1>1, AbandonInv DEF Quit

\* Once its child has ended, nothing of the name runs, and the command may undo what it made.
LEMMA UndoInv ==
  ASSUME Inv, TypeOK', NEW p \in Proc, Undo(p)
  PROVE  Inv'
<1>0. /\ call[p] # Idle /\ call[p].at = "wait" /\ call[p] \in Call /\ call[p].name \in Name
      /\ UNCHANGED <<config, layerVars, cgroup, stopping>> /\ process' = Reaped(p) /\ TypeOK
  BY CallOf DEF Undo, Waited, At, Inv
<1>1. [call[p] EXCEPT !.at = "unrecord", !.pid = 0] \in Call
  BY <1>0 DEF Call, RunLabel
<1>2. /\ call'[p] # Idle /\ call'[p].at = "unrecord" /\ call'[p].pid = 0
      /\ call'[p].name = call[p].name /\ \A q \in Proc \ {p} : call'[q] = call[q]
  BY <1>0, <1>1, MarkAssumption DEF Undo, TypeOK, Call
<1>3. \A i \in Pid : ~Of(i, call[p].name)
  BY <1>0 DEF Inv, Child, In, Started, Undo, Waited, Of
<1>4. \A i \in Pid : Ages(i) /\ (Alive(i)' => process'[i] = process[i])
  BY <1>0, <1>2, ReapedAges DEF In, Started
<1>5. Changes(p)
  BY <1>0, <1>2, <1>3, <1>4
     DEF Changes, Spares, Proceeds, In, Starting, Started, Undoing
<1>6. Group'
  BY <1>0, <1>4 DEF Group, Tasks, Alive, Container, Inv
<1>7. StopsAt(p)' /\ KeepsAt(p)' /\ GroupedAt(p)'
  BY <1>2 DEF StopsAt, KeepsAt, GroupedAt, In, Started
<1>8. \A n \in Name : StoppedAt(n)'
  BY <1>0 DEF StoppedAt, Inv, Stops
<1> QED BY <1>5, <1>6, <1>7, <1>8, Settled DEF Settles

\* And it undoes it: the record first, then the group if nobody is in it.
LEMMA UndoingInv ==
  ASSUME Inv, TypeOK', NEW p \in Proc, RemoveMetadata(p) \/ DestroyCgroup(p)
  PROVE  Inv'
<1>0. call[p] # Idle /\ call[p].at \in {"unrecord", "uncgroup"} /\ call[p].name \in Name /\ TypeOK
  BY CallOf DEF RemoveMetadata, DestroyCgroup, At, Inv
<1>1. Spares(p) /\ UNCHANGED <<layerVars>>
  BY <1>0 DEF RemoveMetadata, DestroyCgroup, Spares, TypeOK
<1>2. CASE /\ Abandon(p) /\ cgroup' = GetCgroupPath /\ UNCHANGED config
  <2>1. cgroup' = cgroup \/ cgroup' # "absent"
    BY <1>2 DEF GetCgroupPath
  <2> QED BY <1>0, <1>1, <1>2, <2>1, AbandonInv
<1>3. ASSUME NEW label \in {"uncgroup", "unlayer"}, Continue(p, label), UNCHANGED process,
             Tasks = {} \/ cgroup' = cgroup,
             \A n \in Name : config'[n] \in {config[n], Absent}
      PROVE  Inv'
  <2>1. call'[p] # Idle /\ call'[p].at = label
    BY <1>0, <1>3, Went DEF Continue, Label, RunLabel
  <2>2. StopsAt(p)' /\ KeepsAt(p)' /\ GroupedAt(p)'
    BY <2>1 DEF StopsAt, KeepsAt, GroupedAt, In, Started
  <2>3. \A n \in Name : StoppedAt(n)'
    BY <1>3, MarkAssumption DEF StoppedAt, Inv, Stops, Continue
  <2>4. Group'
    BY <1>3 DEF Group, Tasks, Alive, Container, Inv
  <2> QED BY <1>0, <1>1, <1>3, <2>2, <2>3, <2>4, ContinueInv
          DEF Continue, Ages, Settles, Starting, Started, Undoing, RunLabel, Label
<1>4. CASE RemoveMetadata(p)
  BY <1>0, <1>3, <1>4 DEF RemoveMetadata, TypeOK
<1>5. CASE DestroyCgroup(p)
  BY <1>0, <1>2, <1>3, <1>5 DEF DestroyCgroup, TypeOK
<1> QED BY <1>4, <1>5

\* Deleting the workspace of a name does not take that of another, but as swept.
LEMMA WorkspaceSpares ==
  ASSUME TypeOK, NEW p \in Proc, call[p].at \notin {"wait", "rm"}, RemoveDirectories(call[p].name),
         mounted' \in {mounted, mounted \ {call[p].name}}, UNCHANGED config
  PROVE  Spares(p)
<1>1. call[p].at \in {"wait", "rm"} => UNCHANGED <<config, layerVars>>
  OBVIOUS
<1> QED BY <1>1 DEF Spares, RemoveDirectories, Below

\* The last deferred call of a run keeps the invariant.
LEMMA DeferredDeleteWorkspaceInv ==
  ASSUME Inv, TypeOK', NEW p \in Proc, DeferredDeleteWorkspace(p)
  PROVE  Inv'
<1>1. Spares(p)
  BY WorkspaceSpares DEF DeferredDeleteWorkspace, At, Inv, DeleteWorkspace, UmountFails
<1>2. Ends(p)
  BY <1>1 DEF Ends, DeferredDeleteWorkspace, At, UmountFails, Done, Inv, Stops, StoppedAt
<1> QED BY <1>2, EndsInv

\* Starting the child, under an identifier that is free, keeps the invariant.
LEMMA StartInv ==
  ASSUME Inv, TypeOK', NEW p \in Proc, Start(p)
  PROVE  Inv'
<1> DEFINE n == call[p].name
<1>0. /\ call[p] # Idle /\ call[p].at = "start" /\ n \in Name /\ call[p] \in Call
      /\ UNCHANGED <<config, layerVars, cgroup>> /\ TypeOK
  BY CallOf DEF Start, At, Inv
<1>1. CASE Abandon(p)
  <2>1. Spares(p)
    BY <1>0 DEF Spares
  <2> QED BY <1>0, <1>1, <2>1, AbandonInv
<1>2. ASSUME NEW i \in Pid, process[i] = Free,
             process' = [process EXCEPT ![i] =
               [name |-> n, phase |-> "init", ok |-> FALSE, grouped |-> FALSE]],
             call' = [call EXCEPT ![p].at = "record", ![p].pid = i],
             UNCHANGED stopping
      PROVE  Inv'
  <2>1. [call[p] EXCEPT !.at = "record", !.pid = i] \in Call
    BY <1>0 DEF Call, RunLabel
  <2>2. /\ call'[p] # Idle /\ call'[p].at = "record" /\ call'[p].pid = i /\ call'[p].name = n
        /\ \A q \in Proc \ {p} : call'[q] = call[q]
    BY <1>0, <1>2, <2>1, MarkAssumption DEF TypeOK, Call
  <2>3. /\ [name |-> n, phase |-> "init", ok |-> FALSE, grouped |-> FALSE] \in Process
        /\ process'[i] = [name |-> n, phase |-> "init", ok |-> FALSE, grouped |-> FALSE]
        /\ \A j \in Pid \ {i} : process'[j] = process[j]
    BY <1>0, <1>2 DEF TypeOK, Process
  <2>4. /\ Container(i)' /\ ~Container(i) /\ ~Alive(i)
        /\ process'[i].name = n /\ process'[i].phase = "init" /\ ~process'[i].grouped
        /\ \A j \in Pid \ {i} : (Alive(j)' <=> Alive(j)) /\ (Container(j)' <=> Container(j))
    <3>1. process'[i] \notin {Free, Foreign} /\ process[i] \in {Free, Foreign}
      BY <1>2, <2>3, MarkAssumption
    <3>2. process'[i].name = n /\ process'[i].phase = "init" /\ ~process'[i].grouped
      BY <2>3
    <3>3. \A j \in Pid \ {i} : process'[j] = process[j]
      BY <2>3
    <3> QED BY <3>1, <3>2, <3>3 DEF Container, Alive
  <2>5. /\ \A j \in Pid : ~Of(j, n)
        /\ \A q \in Proc : Busy(q, n) => q = p
    BY <1>0 DEF Inv, NoChild, Alone, In, Starting
  <2>6. \A j \in Pid, m \in Name :
          /\ j # i /\ m # n => (Of(j, m)' <=> Of(j, m))
          /\ Of(j, m)' => (j = i <=> m = n)
    BY <1>0, <2>3, <2>4, <2>5 DEF Of
  <2>7. \A q \in Proc \ {p} : call[q] # Idle =>
          /\ call[q].name \in Name /\ call[q].name # n
          /\ In(q, Started) => call[q].pid \in Pid \ {i}
    <3>1. \A q \in Proc \ {p} : call[q] # Idle => call[q].name \in Name /\ call[q].name # n
      BY <1>0, <2>5, CallOf DEF Busy
    <3>2. \A q \in Proc \ {p} : In(q, Started) => call[q].pid \in Pid \ {i}
      BY <2>4 DEF Inv, Child
    <3> QED BY <3>1, <3>2
  <2>8. OneRun' /\ Alone'
    BY <1>0, <2>2, <2>7 DEF Inv, OneRun, Alone, In, Busy, Starting
  <2>9. NoChild'
    BY <2>2, <2>6, <2>7 DEF Inv, NoChild, In, Starting, Undoing, Of
  <2>10. Child'
    <3>1. ASSUME NEW q \in Proc, In(q, Started)', q # p
          PROVE  /\ call[q].pid \in Pid /\ Container(call[q].pid)'
                 /\ process'[call[q].pid].name = call[q].name
                 /\ call[q].at # "wait" => process'[call[q].pid].phase # "main"
                 /\ \A j \in Pid, m \in Name : m = call[q].name /\ Of(j, m)' => j = call[q].pid
      <4>1. In(q, Started) /\ call'[q] = call[q]
        BY <2>2, <3>1 DEF In
      <4>2. call[q].name \in Name /\ call[q].name # n /\ call[q].pid \in Pid \ {i}
        BY <2>7, <3>1, <4>1 DEF In
      <4>3. process'[call[q].pid] = process[call[q].pid]
        BY <2>3, <4>2
      <4>4. \A j \in Pid, m \in Name : m = call[q].name /\ Of(j, m)' => j = call[q].pid
        BY <2>6, <4>1, <4>2 DEF Inv, Child
      <4> QED BY <4>1, <4>2, <4>3, <4>4 DEF Inv, Child, Container
    <3>2. ASSUME NEW q \in Proc, In(q, Started)'
          PROVE  /\ call'[q].pid \in Pid /\ process'[call'[q].pid] \notin {Free, Foreign}
                 /\ process'[call'[q].pid].name = call'[q].name /\ call'[q].name \in Name
                 /\ call'[q].at # "wait" => process'[call'[q].pid].phase # "main"
                 /\ \A j \in Pid, m \in Name : m = call'[q].name /\ Of(j, m)' => j = call'[q].pid
      <4>1. CASE q = p
        BY <1>0, <2>2, <2>4, <2>6, <4>1 DEF Container
      <4>2. CASE q # p
        <5>1. call'[q] = call[q] /\ call[q].name \in Name
          BY <2>2, <2>7, <3>2, <4>2 DEF In
        <5> QED BY <3>1, <3>2, <4>2, <5>1 DEF Container
      <4> QED BY <4>1, <4>2
    <3> QED BY <3>2 DEF Child, Container
  <2>11. OneProcess'
    BY <1>0, <2>6 DEF Inv, OneProcess
  <2>12. Stops' /\ Keeps'
    <3>1. ASSUME NEW q \in Proc
          PROVE  StopsAt(q)'
      <4>1. CASE q = p
        BY <2>2, <4>1 DEF StopsAt, In
      <4>2. CASE q # p
        <5>1. call'[q] = call[q] /\ StopsAt(q)
          BY <2>2, <4>2 DEF Inv, Stops
        <5> QED BY <1>2, <5>1 DEF StopsAt, In
      <4> QED BY <4>1, <4>2
    <3>2. \A m \in Name : StoppedAt(m)'
      BY <1>0, <1>2 DEF Inv, Stops, StoppedAt
    <3>3. ASSUME NEW q \in Proc
          PROVE  KeepsAt(q)'
      <4>1. KeepsAt(q)
        BY DEF Inv, Keeps
      <4>2. CASE q = p
        BY <1>0, <1>2, <2>2, <4>1, <4>2 DEF KeepsAt, In, Started
      <4>3. CASE q # p
        <5>1. call'[q] = call[q]
          BY <2>2, <4>3
        <5> QED BY <1>0, <1>2, <4>1, <5>1 DEF KeepsAt, In
      <4> QED BY <4>2, <4>3
    <3> QED BY <3>1, <3>2, <3>3 DEF Stops, Keeps
  <2>13. Grouped'
    BY <2>2, <2>3, <2>4, <2>7 DEF Inv, Grouped, GroupedAt, In, Started
  <2>14. Group'
    BY <1>0, <2>3, <2>4 DEF Inv, Group, Tasks
  <2>15. RunningIsWhole'
    <3> SUFFICES ASSUME NEW j \in Pid, NEW m \in Name \ stopping, Of(j, m)', process'[j].phase = "main"
                 PROVE  /\ m \in layers \cup swept /\ m \in mounted
                        /\ config[m] = [pid |-> j, status |-> "running"]
                        /\ cgroup # "absent" /\ process'[j].grouped
      BY <1>0, <1>2 DEF RunningIsWhole
    <3>1. j # i /\ m # n
      BY <2>4, <2>6
    <3> QED BY <2>3, <2>6, <3>1 DEF Inv, RunningIsWhole
  <2> QED BY <2>8, <2>9, <2>10, <2>11, <2>12, <2>13, <2>14, <2>15 DEF Inv
<1> QED BY <1>1, <1>2 DEF Start

\* Giving the child its arguments keeps it: only now the container is there to be whole.
LEMMA SendInitArgsInv ==
  ASSUME Inv, TypeOK', NEW p \in Proc, SendInitArgs(p)
  PROVE  Inv'
<1> DEFINE n == call[p].name
           i == call[p].pid
<1>0. /\ call[p] # Idle /\ call[p].at = "send" /\ n \in Name /\ i \in Pid /\ Container(i)
      /\ process[i].name = n /\ \A j \in Pid : Of(j, n) => j = i
      /\ UNCHANGED <<config, layerVars, cgroup, stopping>> /\ TypeOK
      /\ KeepsAt(p) /\ GroupedAt(p)
  BY CallOf DEF SendInitArgs, Done, Continue, At, Inv, Child, In, Started, Keeps, Grouped
<1>1. Spares(p)
  BY <1>0 DEF Spares
<1>2. \/ call' = [call EXCEPT ![p] = Idle]
      \/ Goto(p, "wait")
  BY DEF SendInitArgs, Done, Continue
<1>3. /\ \A q \in Proc \ {p} : call'[q] = call[q]
      /\ call'[p] # Idle => /\ call'[p].at = "wait" /\ call'[p].name = n /\ call'[p].pid = i
  BY <1>0, <1>2, Went DEF TypeOK, Label, RunLabel
<1>4. CASE ~Alive(i) /\ call[p].detach
  <2>1. process' = [process EXCEPT ![i] = Free] /\ call' = [call EXCEPT ![p] = Idle]
    BY <1>4 DEF SendInitArgs, Done
  <2>2. process' = Reaped(p)
    BY <1>0, <1>4, <2>1 DEF Reaped, Runs, TypeOK, RunLabel
  <2>3. Ends(p)
    BY <1>0, <1>1, <2>1, <2>2 DEF Ends, StoppedAt, Inv, Stops
  <2> QED BY <2>3, EndsInv
<1>5. CASE ~Alive(i) /\ ~call[p].detach
  <2>1. process' = process /\ Goto(p, "wait")
    BY <1>0, <1>5 DEF SendInitArgs, Continue, TypeOK
  <2>2. call'[p] # Idle
    BY <1>0, <2>1, Went DEF Label, RunLabel
  <2>3. Group'
    BY <1>0, <2>1, GroupStays DEF Inv
  <2>4. KeepsAt(p)'
    BY <1>0, <1>3, <2>2 DEF KeepsAt, In, Started
  <2>5. StopsAt(p)' /\ GroupedAt(p)'
    BY <1>3, <2>2 DEF StopsAt, GroupedAt, In
  <2>6. \A m \in Name : StoppedAt(m)'
    BY <1>0 DEF Inv, Stops, StoppedAt
  <2> QED BY <1>0, <1>1, <2>1, <2>3, <2>4, <2>5, <2>6, ContinueInv
          DEF Ages, Settles, Starting, Started, Undoing, RunLabel, Label
<1>6. CASE Alive(i)
  <2>1. /\ process' = [process EXCEPT ![i] = [@ EXCEPT !.phase = "main"]]
        /\ process[i] \in Process
    BY <1>0, <1>6 DEF SendInitArgs, TypeOK, Container
  <2>2. /\ process'[i] \in Process /\ process'[i].name = n /\ process'[i].phase = "main"
        /\ process'[i].grouped = process[i].grouped
        /\ \A j \in Pid \ {i} : process'[j] = process[j]
    BY <1>0, <2>1 DEF TypeOK, Process
  <2>3. process'[i] \notin {Free, Foreign} /\ process'[i].phase # "exited"
    BY <2>2, MarkAssumption
  <2>4. \A j \in Pid : /\ Container(j)' <=> Container(j)
                       /\ Alive(j)' <=> Alive(j)
                       /\ Alive(j) => process'[j].name = process[j].name
                                      /\ process'[j].grouped = process[j].grouped
    BY <1>0, <1>6, <2>2, <2>3 DEF Container, Alive
  <2>5. \A j \in Pid, m \in Name : Of(j, m)' <=> Of(j, m)
    BY <2>4 DEF Of
  <2>6. OneRun' /\ Alone'
    BY <1>0, <1>3 DEF Inv, OneRun, Alone, In, Busy, Starting, RunLabel
  <2>7. NoChild'
    <3>1. ASSUME NEW q \in Proc, In(q, Starting \cup Undoing)'
          PROVE  /\ call'[q].pid = 0
                 /\ \A j \in Pid, m \in Name : m = call'[q].name => ~Of(j, m)'
      <4>1. q # p /\ call'[q] = call[q]
        BY <1>3, <3>1 DEF In, Starting, Undoing
      <4> QED BY <2>5, <3>1, <4>1 DEF Inv, NoChild, In
    <3>2. \A q \in Proc : In(q, Starting \cup Undoing)' => call'[q].name \in Name
      BY DEF In, TypeOK, Call
    <3> QED BY <3>1, <3>2 DEF NoChild
  <2>8. Child'
    <3>1. ASSUME NEW q \in Proc, In(q, Started)'
          PROVE  /\ call'[q].pid \in Pid /\ process'[call'[q].pid] \notin {Free, Foreign}
                 /\ process'[call'[q].pid].name = call'[q].name /\ call'[q].name \in Name
                 /\ call'[q].at # "wait" => process'[call'[q].pid].phase # "main"
                 /\ \A j \in Pid, m \in Name : m = call'[q].name /\ Of(j, m)' => j = call'[q].pid
      <4>1. CASE q = p
        BY <1>0, <1>3, <2>2, <2>3, <2>5, <3>1, <4>1 DEF In
      <4>2. CASE q # p
        <5>1. call'[q] = call[q] /\ In(q, Started) /\ call[q].name \in Name
          BY <1>0, <1>3, <3>1, <4>2, CallOf DEF In
        <5>2. call[q].pid \in Pid \ {i}
          BY <1>0, <4>2, <5>1 DEF Inv, Child, OneRun, In, Started, RunLabel
        <5> QED BY <2>2, <2>5, <5>1, <5>2 DEF Inv, Child, Container
      <4> QED BY <4>1, <4>2
    <3> QED BY <3>1 DEF Child, Container
  <2>9. OneProcess'
    BY <2>5 DEF Inv, OneProcess
  <2>10. Stops'
    <3>1. ASSUME NEW q \in Proc
          PROVE  StopsAt(q)'
      <4>1. CASE q = p
        BY <1>3, <4>1 DEF StopsAt, In
      <4>2. CASE q # p
        <5>1. call'[q] = call[q] /\ StopsAt(q)
          BY <1>3, <4>2 DEF Inv, Stops
        <5> QED BY <1>0, <5>1 DEF StopsAt, In
      <4> QED BY <4>1, <4>2
    <3>2. \A m \in Name : StoppedAt(m)'
      BY <1>0 DEF Inv, Stops, StoppedAt
    <3> QED BY <3>1, <3>2 DEF Stops
  <2>11. Keeps'
    <3>1. ASSUME NEW q \in Proc
          PROVE  KeepsAt(q)'
      <4>1. CASE q = p
        BY <1>0, <1>3, <4>1 DEF KeepsAt, In, Started
      <4>2. CASE q # p
        <5>1. call'[q] = call[q] /\ KeepsAt(q)
          BY <1>3, <4>2 DEF Inv, Keeps
        <5> QED BY <1>0, <5>1 DEF KeepsAt, In
      <4> QED BY <4>1, <4>2
    <3> QED BY <3>1 DEF Keeps
  <2>12. Grouped'
    <3>1. ASSUME NEW q \in Proc, In(q, {"connect", "endpoint", "send"})', Alive(call[q].pid)'
          PROVE  process'[call'[q].pid].grouped
      <4>1. q # p /\ call'[q] = call[q]
        BY <1>3, <3>1 DEF In
      <4>2. GroupedAt(q) /\ call[q].pid \in Pid /\ In(q, {"connect", "endpoint", "send"})
        BY <3>1, <4>1 DEF Inv, Grouped, Child, In, Started
      <4>3. Alive(call[q].pid)
        BY <2>4, <3>1, <4>1, <4>2
      <4> QED BY <2>4, <4>1, <4>2, <4>3 DEF GroupedAt
    <3> QED BY <3>1 DEF Grouped, GroupedAt
  <2>13. Group'
    BY <1>0, <2>4 DEF Inv, Group, Tasks
  <2>14. RunningIsWhole'
    <3> SUFFICES ASSUME NEW j \in Pid, NEW m \in Name \ stopping, Of(j, m), process'[j].phase = "main"
                 PROVE  /\ m \in layers \cup swept /\ m \in mounted
                        /\ config[m] = [pid |-> j, status |-> "running"]
                        /\ cgroup # "absent" /\ process'[j].grouped
      BY <1>0, <2>5 DEF RunningIsWhole
    <3>1. CASE j = i
      <4>1. m = n
        BY <1>0, <3>1 DEF Of
      <4>2. process[i].grouped
        BY <1>0, <1>6 DEF GroupedAt, In
      <4>3. cgroup # "absent"
        BY <1>0, <1>6, <4>2 DEF Inv, Group, Tasks
      <4> QED BY <1>0, <2>2, <3>1, <4>1, <4>2, <4>3 DEF KeepsAt, In, Started
    <3>2. CASE j # i
      BY <2>2, <3>2 DEF Inv, RunningIsWhole
    <3> QED BY <3>1, <3>2
  <2> QED BY <2>6, <2>7, <2>8, <2>9, <2>10, <2>11, <2>12, <2>13, <2>14 DEF Inv
<1> QED BY <1>4, <1>5, <1>6

\* What the end of a process makes of the processes.
LEMMA EndedAges ==
  ASSUME Inv, NEW i \in Pid, Alive(i), NEW ok \in BOOLEAN, process' = Ended(i, ok),
         \A q \in Proc : In(q, Started)' => call'[q] = call[q], NEW j \in Pid
  PROVE  /\ Ages(j)
         /\ Alive(j)' => process'[j] = process[j]
<1>0. process \in [Pid -> Process \cup {Free, Foreign}] /\ Container(i)
  BY DEF Inv, TypeOK, Alive
<1>1. CASE j # i
  BY <1>0, <1>1 DEF Ended, Ages
<1>2. CASE j = i /\ \E q \in Proc : Runs(q, i)
  <2>1. process'[i] = [process[i] EXCEPT !.phase = "exited", !.ok = ok]
    BY <1>0, <1>2 DEF Ended
  <2>2. process[i] \in Process
    BY <1>0 DEF Container
  <2>3. process'[i].phase = "exited"
    BY <2>1, <2>2 DEF Process
  <2> QED BY <1>0, <1>2, <2>1, <2>3 DEF Ages, Alive
<1>3. CASE j = i /\ ~\E q \in Proc : Runs(q, i)
  <2>1. process'[i] = Free
    BY <1>0, <1>3 DEF Ended
  <2>2. \A q \in Proc : In(q, Started)' => call'[q].pid # i
    BY <1>3 DEF In, Started, Runs, RunLabel
  <2> QED BY <1>3, <2>1, <2>2 DEF Ages, Alive, Container
<1> QED BY <1>1, <1>2, <1>3

\* The signal keeps the invariant, whatever process the recorded identifier is of by now.
LEMMA KillInv ==
  ASSUME Inv, TypeOK', NEW p \in Proc, Kill(p)
  PROVE  Inv'
<1>0. /\ call[p] # Idle /\ call[p].at = "kill" /\ call[p].name \in Name /\ call[p].name \in stopping
      /\ call[p].pid \in Pid \cup {0} /\ UNCHANGED <<config, layerVars, cgroup, stopping>>
      /\ TypeOK
  BY CallOf DEF Kill, Done, Continue, At, Inv, Stops, StopsAt, In
<1>1. Spares(p)
  BY <1>0 DEF Spares
<1>2. CASE Done(p) /\ UNCHANGED process
  <2>1. Ends(p)
    BY <1>0, <1>1, <1>2 DEF Ends, Done, StoppedAt, Inv, Stops
  <2> QED BY <2>1, EndsInv
<1>3. ASSUME Goto(p, "stopped"), \A i \in Pid : Ages(i) /\ (Alive(i)' => process'[i] = process[i])
      PROVE  Inv'
  <2>1. call'[p] # Idle /\ call'[p].at = "stopped" /\ call'[p].name = call[p].name
    BY <1>0, <1>3, Went DEF Label
  <2>2. StopsAt(p)' /\ KeepsAt(p)' /\ GroupedAt(p)'
    BY <1>0, <2>1 DEF StopsAt, KeepsAt, GroupedAt, In, Started
  <2>3. \A n \in Name : StoppedAt(n)'
    BY <1>0 DEF StoppedAt, Inv, Stops
  <2>4. Group'
    BY <1>0, <1>3 DEF Group, Tasks, Alive, Container, Inv
  <2> QED BY <1>0, <1>1, <1>3, <2>2, <2>3, <2>4, ContinueInv
          DEF Settles, Starting, Started, Undoing, RunLabel, Label
<1>4. ASSUME Goto(p, "stopped")
      PROVE  \A q \in Proc : In(q, Started)' => call'[q] = call[q]
  <2>1. call'[p] # Idle /\ call'[p].at = "stopped" /\ \A q \in Proc \ {p} : call'[q] = call[q]
    BY <1>0, <1>4, Went DEF Label
  <2> QED BY <2>1 DEF In, Started
<1>5. CASE Continue(p, "stopped") /\ UNCHANGED process
  BY <1>3, <1>5 DEF Continue, Ages
<1>6. ASSUME call[p].pid # 0, Alive(call[p].pid), Continue(p, "stopped"),
             NEW ok \in BOOLEAN, process' = Ended(call[p].pid, ok)
      PROVE  Inv'
  <2>1. call[p].pid \in Pid
    BY <1>0, <1>6
  <2> QED BY <1>3, <1>4, <1>6, <2>1, EndedAges DEF Continue
<1>7. CASE /\ call[p].pid # 0 /\ process[call[p].pid] = Foreign /\ Continue(p, "stopped")
           /\ process' = [process EXCEPT ![call[p].pid] = Free]
  BY <1>0, <1>3, <1>7 DEF Continue, Ages, Alive, Container, TypeOK
<1> QED BY <1>2, <1>5, <1>6, <1>7 DEF Kill

\* So do the other steps of stop and those of rm.
LEMMA StopAndRemoveInv ==
  ASSUME Inv, TypeOK', NEW p \in Proc,
         \/ SaveStopped(p) \/ DisconnectFails(p) \/ RemoveContainer(p)
         \/ RemoveLayers(p) \/ RemoveRecord(p)
  PROVE  Inv'
<1>0. /\ call[p] # Idle /\ call[p].name \in Name /\ TypeOK /\ StopsAt(p)
      /\ call[p].at \in {"stopped", "rm", "rmlayers", "rmrecord"}
      /\ \A n \in Name : StoppedAt(n)
  BY CallOf DEF SaveStopped, DisconnectFails, RemoveContainer, RemoveLayers, RemoveRecord, At,
                Inv, Stops
<1>1. CASE SaveStopped(p)
  <2>1. Spares(p)
    BY <1>0, <1>1 DEF SaveStopped, Save, Spares, At, TypeOK
  <2>2. CASE Abandon(p) /\ config' = [config EXCEPT ![call[p].name] = Torn]
    BY <1>0, <1>1, <2>1, <2>2, AbandonInv DEF TypeOK, SaveStopped
  <2>3. CASE Done(p) /\ UNCHANGED <<process, cgroup>>
    <3>1. Ends(p)
      BY <1>0, <1>1, <2>1, <2>3
         DEF Ends, Done, SaveStopped, Save, At, StopsAt, StoppedAt, In
    <3> QED BY <3>1, EndsInv
  <2> QED BY <1>1, <2>2, <2>3 DEF SaveStopped, Save
<1>2. CASE Done(p) /\ UNCHANGED hostVars
  <2>1. Ends(p)
    BY <1>0, <1>2 DEF Ends, Spares, Done, hostVars, StoppedAt
  <2> QED BY <2>1, EndsInv
<1>3. ASSUME NEW label \in {"rmlayers", "rmrecord"}, Goto(p, label), call[p].name \in stopping,
             Spares(p), UNCHANGED <<config, process, cgroup, stopping>>
      PROVE  Inv'
  <2>1. call'[p] # Idle /\ call'[p].at = label /\ call'[p].name = call[p].name
    BY <1>0, <1>3, Went DEF Label
  <2>2. StopsAt(p)' /\ KeepsAt(p)' /\ GroupedAt(p)'
    BY <1>3, <2>1 DEF StopsAt, KeepsAt, GroupedAt, In, Started
  <2>3. \A n \in Name : StoppedAt(n)'
    BY <1>0, <1>3 DEF StoppedAt
  <2>4. Group'
    BY <1>3, GroupStays DEF Inv
  <2> QED BY <1>0, <1>3, <2>2, <2>3, <2>4, ContinueInv
          DEF Ages, Settles, Starting, Started, Undoing, RunLabel, Label
<1>4. CASE RemoveContainer(p) /\ ~Done(p)
  <2>1. Goto(p, "rmlayers") /\ call[p].name \in stopping /\ UNCHANGED <<hostVars, stopping>>
    BY <1>0, <1>4 DEF RemoveContainer, Continue, At, StopsAt, In
  <2>2. Spares(p)
    BY <2>1 DEF Spares, hostVars
  <2> QED BY <1>3, <2>1, <2>2 DEF hostVars
<1>5. CASE RemoveLayers(p)
  <2>1. Spares(p)
    <3>1. CASE DeleteElsewhere(call[p].name)
      BY <1>0, <1>5, <3>1 DEF Spares, DeleteElsewhere, RemoveLayers, At
    <3> QED BY <1>0, <1>5, <3>1, WorkspaceSpares DEF RemoveLayers, At, DeleteWorkspace, UmountFails
  <2>2. Goto(p, "rmrecord") /\ call[p].name \in stopping /\ UNCHANGED <<config, process, cgroup, stopping>>
    BY <1>0, <1>5 DEF RemoveLayers, Continue, UmountFails, At, StopsAt, In
  <2> QED BY <1>3, <2>1, <2>2
<1>6. CASE RemoveRecord(p)
  <2>1. Spares(p)
    BY <1>0, <1>6 DEF RemoveRecord, Spares, At, TypeOK
  <2>2. Ends(p)
    BY <1>0, <1>6, <2>1, MarkAssumption DEF Ends, RemoveRecord, Done, StoppedAt, TypeOK
  <2> QED BY <2>2, EndsInv
<1> QED BY <1>1, <1>2, <1>4, <1>5, <1>6 DEF DisconnectFails, RemoveContainer

\* A container that ends by itself, or a process of the host that comes or goes, keeps it.
LEMMA OutsideInv ==
  ASSUME Inv, TypeOK', NEW i \in Pid, Exit(i) \/ Host(i)
  PROVE  Inv'
<1>0. TypeOK /\ UNCHANGED <<config, layerVars, cgroup, call, stopping>>
  BY DEF Exit, Host, Inv
<1>1. \A j \in Pid : Ages(j) /\ (Alive(j)' => process'[j] = process[j])
  <2>1. CASE Exit(i)
    <3>1. \A q \in Proc : In(q, Started)' => call'[q] = call[q]
      BY <1>0
    <3> QED BY <2>1, <3>1, EndedAges DEF Exit
  <2>2. CASE Host(i)
    BY <1>0, <2>2, MarkAssumption DEF Host, Ages, Alive, Container, TypeOK
  <2> QED BY <2>1, <2>2
<1>2. \A j \in Pid :
        /\ Alive(j)' => /\ Alive(j) /\ process'[j] = process[j]
        /\ Container(j) /\ (\E q \in Proc : In(q, Started) /\ call[q].pid = j) =>
             /\ Container(j)'
             /\ process'[j].name = process[j].name
             /\ process'[j].phase \in {process[j].phase, "exited"}
  BY <1>0, <1>1, AgesFacts DEF In
<1>3. \A j \in Pid, n \in Name : Of(j, n)' => Of(j, n) /\ process'[j] = process[j]
  BY <1>2 DEF Of
<1>4. OneRun' /\ Alone' /\ Stops' /\ Keeps'
  BY <1>0 DEF Inv, OneRun, Alone, Stops, StopsAt, StoppedAt, Keeps, KeepsAt, In, Busy
<1>5. NoChild' /\ OneProcess'
  BY <1>0, <1>3, CallOf DEF Inv, NoChild, OneProcess, In
<1>6. Child'
  BY <1>0, <1>2, <1>3, CallOf DEF Inv, Child, In
<1>7. Grouped'
  <2>1. ASSUME NEW q \in Proc, In(q, {"connect", "endpoint", "send"}), Alive(call[q].pid)'
        PROVE  process'[call[q].pid].grouped
    <3>1. call[q].pid \in Pid
      BY <2>1 DEF Inv, Child, In, Started
    <3> QED BY <1>0, <1>2, <2>1, <3>1 DEF Inv, Grouped, GroupedAt
  <2> QED BY <1>0, <2>1 DEF Grouped, GroupedAt, In
<1>8. Group'
  BY <1>0, <1>2 DEF Inv, Group, Tasks
<1>9. RunningIsWhole'
  BY <1>0, <1>3 DEF Inv, RunningIsWhole
<1> QED BY <1>4, <1>5, <1>6, <1>7, <1>8, <1>9 DEF Inv

\* A run that begins, under a name that is not in use, keeps it.
LEMMA RunInv ==
  ASSUME Inv, TypeOK', NEW p \in Proc, NEW n \in Name, NEW detach \in BOOLEAN,
         NEW network \in BOOLEAN, Run(p, n, detach, network)
  PROVE  Inv'
<1>0. /\ TypeOK /\ call[p] = Idle /\ config[n] = Absent /\ \A i \in Pid : ~Of(i, n)
      /\ \A q \in Proc : call[q] # Idle => call[q].name \in Name \ {n}
      /\ UNCHANGED <<config, process, layers, mounted, cgroup>>
      /\ stopping' = stopping \ {n} /\ swept' = swept \ {n}
  BY CallOf DEF Inv, Run, Unused, Busy
<1>1. /\ call'[p].at = "layers" /\ call'[p].name = n /\ call'[p].pid = 0
      /\ \A q \in Proc \ {p} : call'[q] = call[q]
  BY <1>0 DEF Run, TypeOK
<1>2. \A i \in Pid, m \in Name : Of(i, m)' <=> Of(i, m)
  BY <1>0 DEF Of, Alive, Container
<1>3. OneRun' /\ Alone'
  BY <1>0, <1>1 DEF Inv, OneRun, Alone, In, Busy
<1>4. NoChild'
  <2>1. ASSUME NEW q \in Proc, In(q, Starting \cup Undoing)'
        PROVE  call'[q].pid = 0 /\ \A i \in Pid, m \in Name : m = call'[q].name => ~Of(i, m)'
    BY <1>0, <1>1, <1>2, <2>1 DEF Inv, NoChild, In
  <2>2. \A q \in Proc : In(q, Starting \cup Undoing)' => call'[q].name \in Name
    BY <1>0, <1>1 DEF In
  <2> QED BY <2>1, <2>2 DEF NoChild
<1>5. Child'
  <2>1. ASSUME NEW q \in Proc, In(q, Started)'
        PROVE  call'[q] = call[q] /\ In(q, Started)
    BY <1>1, <2>1 DEF In, Started
  <2> QED BY <1>0, <2>1 DEF Inv, Child, Of, Alive, Container
<1>6. OneProcess' /\ Group'
  BY <1>0, <1>2 DEF Inv, OneProcess, Group, Tasks, Alive, Container
<1>7. ASSUME NEW q \in Proc
      PROVE  StopsAt(q)' /\ KeepsAt(q)' /\ GroupedAt(q)'
  <2>1. CASE q = p
    BY <1>1, <2>1 DEF StopsAt, KeepsAt, GroupedAt, In, Started
  <2>2. CASE q # p
    <3>1. call'[q] = call[q] /\ StopsAt(q) /\ KeepsAt(q) /\ GroupedAt(q)
      BY <1>1, <2>2 DEF Inv, Stops, Keeps, Grouped
    <3>2. StopsAt(q)' /\ GroupedAt(q)'
      BY <1>0, <3>1 DEF StopsAt, GroupedAt, In, Alive, Container
    <3>3. KeepsAt(q)'
      BY <1>0, <3>1 DEF KeepsAt, In
    <3> QED BY <3>2, <3>3
  <2> QED BY <2>1, <2>2
<1>8. \A m \in Name : StoppedAt(m)'
  BY <1>0, MarkAssumption DEF StoppedAt, Inv, Stops
<1>9. RunningIsWhole'
  BY <1>0, <1>2 DEF Inv, RunningIsWhole
<1> QED BY <1>3, <1>4, <1>5, <1>6, <1>7, <1>8, <1>9 DEF Inv, Stops, Keeps, Grouped

\* So do a stop and an rm that begin: they need a record, so nobody is alone with the name.
LEMMA StopOrRemovalInv ==
  ASSUME Inv, TypeOK', NEW p \in Proc, NEW n \in Name, StopContainer(p, n) \/ ReadForRemoval(p, n)
  PROVE  Inv'
<1>0. /\ TypeOK /\ call[p] = Idle /\ config[n] \in Metadata /\ config[n] # Absent /\ UNCHANGED hostVars
      /\ stopping \subseteq stopping'
  BY MarkAssumption DEF Inv, StopContainer, ReadForRemoval
<1>1. /\ call'[p].name = n /\ \A q \in Proc \ {p} : call'[q] = call[q]
      /\ \/ call'[p].at = "kill" /\ n \in stopping'
         \/ call'[p].at = "rm" /\ call'[p].seen = config[n] /\ stopping' = stopping
  BY <1>0 DEF StopContainer, ReadForRemoval, Begun, TypeOK
<1>2. \A i \in Pid, m \in Name : Of(i, m)' <=> Of(i, m)
  BY <1>0 DEF Of, Alive, Container, hostVars
<1>3. \A q \in Proc : In(q, RunLabel)' => call'[q] = call[q] /\ In(q, RunLabel)
  BY <1>1 DEF In, RunLabel
<1>4. OneRun'
  BY <1>3 DEF Inv, OneRun
<1>5. Alone'
  <2>1. ASSUME NEW q \in Proc, In(q, Starting \cup {"record"})'
        PROVE  /\ call'[q] = call[q] /\ In(q, Starting \cup {"record"}) /\ call[q].name # n
    BY <1>0, <1>1, <2>1 DEF Inv, Alone, In, Starting
  <2> QED BY <1>0, <1>1, <2>1 DEF Inv, Alone, Busy, In, hostVars
<1>6. NoChild'
  <2>1. \A q \in Proc : In(q, Starting \cup Undoing)' =>
          call'[q] = call[q] /\ In(q, Starting \cup Undoing) /\ call[q].name \in Name
    BY <1>0, <1>1, CallOf DEF In, Starting, Undoing
  <2> QED BY <1>2, <2>1 DEF Inv, NoChild
<1>7. Child'
  <2>1. ASSUME NEW q \in Proc, In(q, Started)'
        PROVE  call'[q] = call[q] /\ In(q, Started)
    BY <1>1, <2>1 DEF In, Started
  <2> QED BY <1>0, <2>1 DEF Inv, Child, Of, Alive, Container, hostVars
<1>8. OneProcess' /\ Group' /\ RunningIsWhole'
  BY <1>0, <1>2 DEF Inv, OneProcess, Group, RunningIsWhole, Tasks, Alive, Container, hostVars
<1>9. ASSUME NEW q \in Proc
      PROVE  StopsAt(q)' /\ KeepsAt(q)' /\ GroupedAt(q)'
  <2>0. StoppedAt(n)
    BY DEF Inv, Stops
  <2>1. CASE q = p
    BY <1>0, <1>1, <2>0, <2>1 DEF StopsAt, StoppedAt, KeepsAt, GroupedAt, In, Started
  <2>2. CASE q # p
    <3>1. call'[q] = call[q] /\ StopsAt(q) /\ KeepsAt(q) /\ GroupedAt(q)
      BY <1>1, <2>2 DEF Inv, Stops, Keeps, Grouped
    <3>2. StopsAt(q)' /\ GroupedAt(q)'
      BY <1>0, <3>1 DEF StopsAt, GroupedAt, In, Alive, Container, hostVars
    <3>3. KeepsAt(q)'
      BY <1>0, <3>1 DEF KeepsAt, In, hostVars
    <3> QED BY <3>2, <3>3
  <2> QED BY <2>1, <2>2
<1>10. \A m \in Name : StoppedAt(m)'
  BY <1>0 DEF StoppedAt, Inv, Stops, hostVars
<1> QED BY <1>4, <1>5, <1>6, <1>7, <1>8, <1>9, <1>10 DEF Inv, Stops, Keeps, Grouped

(***************************************************************************)
(* The invariant holds in every behaviour: one case for every action.      *)
(***************************************************************************)
THEOREM Invariant == Spec => []Inv
<1>1. Init => Inv
  <2> SUFFICES ASSUME Init
               PROVE  Inv
    OBVIOUS
  <2>1. TypeOK
    BY BoundAssumption DEF Init, TypeOK
  <2>2. \A p \in Proc : call[p] = Idle
    BY DEF Init
  <2>3. \A i \in Pid : ~Container(i) /\ ~Alive(i)
    BY DEF Init, Container, Alive
  <2>4. \A n \in Name : config[n] \notin Metadata
    BY MarkAssumption DEF Init
  <2> QED BY <2>1, <2>2, <2>3, <2>4
          DEF Inv, OneRun, Alone, NoChild, Child, OneProcess, Stops, StopsAt, StoppedAt, Keeps, KeepsAt,
              Grouped, GroupedAt, Group, Tasks, RunningIsWhole, In, Of
<1>2. Inv /\ TypeOK' /\ [Next]_vars => Inv'
  <2> SUFFICES ASSUME Inv, TypeOK', [Next]_vars
               PROVE  Inv'
    OBVIOUS
  <2>1. ASSUME NEW p \in Proc, RunStep(p)
        PROVE  Inv'
    BY <2>1, CreateWorkspaceInv, SetLimitInv, StartInv, RecordInv, ApplyInv, ReadMetadataInv,
       LeaveInv, SendInitArgsInv, UndoInv, UndoingInv, DeferredDeleteWorkspaceInv DEF RunStep
  <2>2. ASSUME NEW p \in Proc, Step(p)
        PROVE  Inv'
    BY <2>1, <2>2, KillInv, StopAndRemoveInv DEF Step
  <2>3. ASSUME NEW p \in Proc, Begin(p)
        PROVE  Inv'
    BY <2>3, RunInv, StopOrRemovalInv DEF Begin
  <2>4. CASE UNCHANGED vars
    BY <2>4 DEF vars, hostVars, Inv, TypeOK, OneRun, Alone, NoChild, Child, OneProcess, Stops, StopsAt,
                StoppedAt, Keeps, KeepsAt, Grouped, GroupedAt, Group, Tasks, RunningIsWhole, In, Busy,
                Of, Alive, Container
  <2> QED BY <2>2, <2>3, <2>4, QuitInv, OutsideInv DEF Next
<1> QED BY <1>1, <1>2, TypeCorrect, PTL DEF Spec

(***************************************************************************)
(* A container that runs, and that nobody began to stop, keeps all it has. *)
(***************************************************************************)
THEOREM RunningStaysWhole == Spec => []RunningIsWhole
<1>1. Inv => RunningIsWhole
  BY DEF Inv
<1> QED BY <1>1, Invariant, PTL

-----------------------------------------------------------------------------
\* Mounts that are nested, or below another, are said to be so.
Nesting ==
  /\ covered \subseteq mounted \cap nested
  /\ Unnamed \in mounted => mounted = {Unnamed} \/ mounted \subseteq nested

\* No step changes that.
LEMMA NestingStays ==
  ASSUME TypeOK, Nesting, [Next]_vars
  PROVE  Nesting'
<1>1. CASE UNCHANGED layerVars
  BY <1>1 DEF Nesting
<1>2. ASSUME NEW p \in Proc, NEW n \in Name, NEW detach \in BOOLEAN, NEW network \in BOOLEAN,
             Run(p, n, detach, network)
      PROVE  Nesting'
  BY <1>2 DEF Run, Nesting
<1>3. ASSUME NEW n \in Name, Mount(n)
      PROVE  Nesting'
  BY <1>3 DEF Mount, Companions, Nesting
<1>4. ASSUME NEW n \in Name, DeleteWorkspace(n)
      PROVE  Nesting'
  BY <1>4 DEF DeleteWorkspace, Unmountable, Nesting
<1>5. CASE UNCHANGED <<mounted, covered, nested>>
  BY <1>5 DEF Nesting
<1>6. ASSUME NEW p \in Proc, Step(p)
      PROVE  Nesting'
  <2>1. CASE CreateWorkspace(p)
    BY <1>3, <1>5, <2>1, CallOf DEF CreateWorkspace, At
  <2>2. CASE DeferredDeleteWorkspace(p)
    BY <1>4, <1>5, <2>2, CallOf DEF DeferredDeleteWorkspace, UmountFails, At
  <2>3. CASE RemoveLayers(p)
    BY <1>4, <1>5, <2>3, CallOf DEF RemoveLayers, DeleteElsewhere, UmountFails, At
  <2>4. CASE ~(CreateWorkspace(p) \/ DeferredDeleteWorkspace(p) \/ RemoveLayers(p))
    BY <1>1, <1>6, <2>4
       DEF Step, RunStep, SetLimit, Start, CreateMetadata, Apply, ReadMetadata, SaveEndpoint, ConnectFails,
           SendInitArgs, Undo, Leave, RemoveMetadata, DestroyCgroup, Kill, SaveStopped, DisconnectFails,
           RemoveContainer, RemoveRecord, hostVars
  <2> QED BY <2>1, <2>2, <2>3, <2>4
<1>7. ASSUME NEW p \in Proc, Begin(p) \/ Quit(p)
      PROVE  Nesting'
  BY <1>1, <1>2, <1>7 DEF Begin, StopContainer, ReadForRemoval, Quit, hostVars
<1>8. ASSUME NEW i \in Pid, Exit(i) \/ Host(i)
      PROVE  Nesting'
  BY <1>1, <1>8 DEF Exit, Host
<1>9. CASE UNCHANGED vars
  BY <1>1, <1>9 DEF vars, hostVars
<1> QED BY <1>6, <1>7, <1>8, <1>9 DEF Next

\* What must be somebody's, and whose need not be.
Remains   == layers \cup (mounted \ nested)
Accounted == abandoned \cup strayed

\* The steps of a run command that has a workspace and no record.
Claiming == Starting \cup {"record", "uncgroup", "unlayer"}

\* A workspace is somebody's: of a record, of such a run command, or of one that was cut short.
Claim(n) ==
  n \in Remains =>
    n \in Accounted \/ config[n] # Absent \/ \E p \in Proc : In(p, Claiming) /\ call[p].name = n
Claimed == \A n \in Name : Claim(n)

\* When rm comes to the record, the workspace is gone.
Cleared ==
  \A p \in Proc : In(p, {"rmrecord"}) =>
    call[p].name \in Accounted \/ call[p].name \notin Remains

\* What a step of a command that has begun does not do to other commands and names.
Minds(p) ==
  /\ call[p] # Idle /\ Accounted \subseteq Accounted'
  /\ \A q \in Proc \ {p} : call'[q] = call[q]
  /\ \A n \in Name \ {call[p].name} :
       config'[n] = config[n] /\ (n \in Remains' => n \in Remains)

\* Its own name is then all there is to show.
LEMMA MindsClaims ==
  ASSUME TypeOK, Claimed, NEW p \in Proc, Minds(p),
         \A n \in Name : n = call[p].name => Claim(n)'
  PROVE  Claimed'
<1> SUFFICES ASSUME NEW n \in Name, n # call[p].name, n \in Remains', n \notin Accounted',
                    config'[n] = Absent
             PROVE  \E q \in Proc : In(q, Claiming)' /\ call'[q].name = n
  BY DEF Claimed, Claim
<1>1. n \in Remains /\ n \notin Accounted /\ config[n] = Absent
  BY DEF Minds
<1>2. PICK q \in Proc : In(q, Claiming) /\ call[q].name = n
  BY <1>1 DEF Claimed, Claim
<1> QED BY <1>2 DEF Minds, In

\* And nothing at all, where the command has no claim and takes nobody's.
LEMMA NoClaim ==
  ASSUME TypeOK, Claimed, NEW p \in Proc, ~In(p, Claiming), Accounted \subseteq Accounted',
         \A q \in Proc \ {p} : call'[q] = call[q],
         \A n \in Name : /\ config'[n] = Absent => config[n] = Absent
                         /\ n \in Remains' => n \in Remains
  PROVE  Claimed'
<1> SUFFICES ASSUME NEW n \in Name, n \in Remains', n \notin Accounted', config'[n] = Absent
             PROVE  \E q \in Proc : In(q, Claiming)' /\ call'[q].name = n
  BY DEF Claimed, Claim
<1>1. n \in Remains /\ n \notin Accounted /\ config[n] = Absent
  OBVIOUS
<1>2. PICK q \in Proc : In(q, Claiming) /\ call[q].name = n
  BY <1>1 DEF Claimed, Claim
<1> QED BY <1>2 DEF In

\* A command that comes to the record, or that others have come to, finds or leaves no workspace.
LEMMA StaysCleared ==
  ASSUME Inv, Cleared, NEW p \in Proc, Minds(p), ~In(p, {"rmrecord"})',
         Remains' \subseteq Remains \/ In(p, Starting)
  PROVE  Cleared'
<1> SUFFICES ASSUME NEW q \in Proc, In(q, {"rmrecord"})', call'[q].name \notin Accounted'
             PROVE  call'[q].name \notin Remains'
  BY DEF Cleared
<1>1. q # p /\ call'[q] = call[q] /\ In(q, {"rmrecord"})
  BY DEF Minds, In
<1>2. call[q].name \in Name /\ call[q].name \notin Remains
  BY <1>1, CallOf DEF Cleared, Minds, Inv, In
<1>3. In(p, Starting) => call[q].name # call[p].name
  BY <1>1 DEF Inv, Alone, Busy, In
<1> QED BY <1>1, <1>2, <1>3 DEF Minds

\* Abandoning a command leaves what it has made, and says so.
LEMMA AbandonClaims ==
  ASSUME Inv, Claimed, Cleared, NEW p \in Proc, Minds(p), Abandon(p),
         Remains' \subseteq Remains \/ In(p, Starting)
  PROVE  Claimed' /\ Cleared'
<1>1. \A n \in Name : n = call[p].name => Claim(n)'
  BY DEF Abandon, Claim, Accounted
<1>2. ~In(p, {"rmrecord"})'
  BY DEF Abandon, Inv, TypeOK, In
<1> QED BY <1>1, <1>2, MindsClaims, StaysCleared DEF Inv

\* A run command claims its workspace until it has a record.
LEMMA StartingClaims ==
  ASSUME Inv, Claimed, Cleared, NEW p \in Proc,
         CreateWorkspace(p) \/ SetLimit(p) \/ Start(p) \/ CreateMetadata(p)
  PROVE  Claimed' /\ Cleared'
<1>0. /\ TypeOK /\ call[p] # Idle /\ call[p] \in Call /\ call[p].name \in Name
      /\ call[p].at \in Starting \cup {"record"} /\ strayed' = strayed
  BY CallOf DEF CreateWorkspace, SetLimit, Start, CreateMetadata, At, Starting, Inv
<1>1. \A n \in Name \ {call[p].name} :
        config'[n] = config[n] /\ (n \in Remains' => n \in Remains)
  BY <1>0 DEF CreateWorkspace, Mount, Companions, SetLimit, Start, CreateMetadata, Save, TypeOK, Remains
<1>2. Remains' \subseteq Remains \/ In(p, Starting)
  BY <1>0 DEF SetLimit, Start, CreateMetadata, CreateWorkspace, At, In, Starting, Remains
<1>3. CASE Abandon(p)
  <2>1. Minds(p)
    BY <1>0, <1>1, <1>3 DEF Minds, Abandon, TypeOK, Accounted
  <2> QED BY <1>2, <1>3, <2>1, AbandonClaims
<1>4. ASSUME NEW label \in {"limit", "start", "record", "apply"}, NEW i \in Pid \cup {0},
             call' = [call EXCEPT ![p].at = label, ![p].pid = i], UNCHANGED abandoned,
             label = "apply" => \A n \in Name : n = call[p].name => config'[n] # Absent
      PROVE  Claimed' /\ Cleared'
  <2>1. [call[p] EXCEPT !.at = label, !.pid = i] \in Call
    BY <1>0 DEF Call, RunLabel
  <2>2. /\ call'[p] # Idle /\ call'[p].at = label /\ call'[p].name = call[p].name
        /\ \A q \in Proc \ {p} : call'[q] = call[q]
    BY <1>0, <1>4, <2>1, MarkAssumption DEF TypeOK, Call
  <2>3. Minds(p)
    BY <1>0, <1>1, <1>4, <2>2 DEF Minds, Accounted
  <2>4. \A n \in Name : n = call[p].name => Claim(n)'
    BY <1>4, <2>2 DEF Claim, In, Claiming, Starting
  <2>5. ~In(p, {"rmrecord"})'
    BY <2>2 DEF In
  <2> QED BY <1>0, <1>2, <2>3, <2>4, <2>5, MindsClaims, StaysCleared
<1>5. ASSUME NEW label, Goto(p, label)
      PROVE  call' = [call EXCEPT ![p].at = label, ![p].pid = call[p].pid]
  <2>1. [call[p] EXCEPT !.at = label] = [call[p] EXCEPT !.at = label, !.pid = call[p].pid]
    BY <1>0 DEF Call
  <2> QED BY <1>0, <1>5, <2>1 DEF Goto, TypeOK
<1>6. call[p].pid \in Pid \cup {0}
  BY <1>0 DEF Call
<1>7. CASE Continue(p, "limit") \/ Continue(p, "start")
  BY <1>4, <1>5, <1>6, <1>7 DEF Continue
<1>8. CASE Start(p)
  BY <1>3, <1>4, <1>8 DEF Start
<1>9. CASE CreateMetadata(p)
  <2>1. CASE Continue(p, "apply") /\ config' = [config EXCEPT ![call[p].name] =
                                       [pid |-> call[p].pid, status |-> "running"]]
    <3>1. [pid |-> call[p].pid, status |-> "running"] # Absent
      BY <1>6, MarkAssumption DEF Metadata
    <3> QED BY <1>0, <1>4, <1>5, <1>6, <2>1, <3>1 DEF Continue, TypeOK
  <2> QED BY <1>3, <1>9, <2>1 DEF CreateMetadata, Save
<1> QED BY <1>3, <1>7, <1>8, <1>9 DEF CreateWorkspace, SetLimit

\* A step that leaves the workspaces and the records, or saves one, leaves the claims.
LEMMA PassiveClaims ==
  ASSUME Inv, Claimed, Cleared, NEW p \in Proc,
         \/ Apply(p) \/ ReadMetadata(p) \/ SaveEndpoint(p) \/ ConnectFails(p) \/ SendInitArgs(p)
         \/ Undo(p) \/ Leave(p) \/ Kill(p) \/ SaveStopped(p) \/ DisconnectFails(p)
         \/ RemoveContainer(p) \/ Quit(p)
  PROVE  Claimed' /\ Cleared'
<1> DEFINE Others == \A q \in Proc \ {p} : call'[q] = call[q]
           There  == call'[p] # Idle =>
                       call[p] # Idle /\ call'[p].at # "rmrecord" /\ call'[p].name = call[p].name
<1>0. /\ TypeOK /\ call[p] # Idle /\ call[p].name \in Name /\ call[p] \in Call
      /\ UNCHANGED <<Remains, strayed>>
  BY CallOf DEF Inv, At, Waited, Apply, ReadMetadata, SaveEndpoint, ConnectFails, SendInitArgs, Undo,
                Leave, Kill, SaveStopped, DisconnectFails, RemoveContainer, Quit, hostVars, Remains
<1>1. ASSUME \/ Abandon(p)
             \/ Done(p)
             \/ \E label \in Label \ {"rmrecord"} : Continue(p, label)
      PROVE  Others /\ There /\ abandoned \subseteq abandoned'
  <2>1. CASE call' = [call EXCEPT ![p] = Idle] /\ abandoned \subseteq abandoned'
    BY <1>0, <2>1 DEF TypeOK
  <2>2. ASSUME NEW label \in Label \ {"rmrecord"}, Continue(p, label)
        PROVE  Others /\ There /\ abandoned \subseteq abandoned'
    BY <1>0, <2>2, Went DEF Continue
  <2> QED BY <1>1, <2>1, <2>2 DEF Abandon, Done
<1>2. ASSUME NEW label \in {"endpoint", "unrecord"}, NEW i \in Pid \cup {0}, NEW seen \in Metadata \cup {Absent},
             call' = [call EXCEPT ![p].at = label, ![p].pid = i, ![p].seen = seen], UNCHANGED abandoned
      PROVE  Others /\ There /\ abandoned \subseteq abandoned'
  <2>1. [call[p] EXCEPT !.at = label, !.pid = i, !.seen = seen] \in Call
    BY <1>0 DEF Call, RunLabel
  <2> QED BY <1>0, <1>2, <2>1 DEF TypeOK, Call
<1>3. call[p].pid \in Pid \cup {0} /\ call[p].seen \in Metadata \cup {Absent}
  BY <1>0 DEF Call
<1>4. Others /\ There /\ abandoned \subseteq abandoned'
  <2>1. CASE ReadMetadata(p)
    <3>1. CASE /\ config[call[p].name] \in Metadata
               /\ call' = [call EXCEPT ![p].at = "endpoint", ![p].seen = config[call[p].name]]
               /\ UNCHANGED abandoned
      <4>1. call' = [call EXCEPT ![p].at = "endpoint", ![p].pid = call[p].pid, ![p].seen = config[call[p].name]]
        <5>1. [call[p] EXCEPT !.at = "endpoint", !.seen = config[call[p].name]]
                = [call[p] EXCEPT !.at = "endpoint", !.pid = call[p].pid, !.seen = config[call[p].name]]
          BY <1>0 DEF Call
        <5> QED BY <1>0, <3>1, <5>1 DEF TypeOK
      <4> QED BY <1>2, <1>3, <3>1, <4>1
    <3> QED BY <1>1, <2>1, <3>1 DEF ReadMetadata
  <2>2. CASE Undo(p)
    <3>1. call' = [call EXCEPT ![p].at = "unrecord", ![p].pid = 0, ![p].seen = call[p].seen]
      <4>1. [call[p] EXCEPT !.at = "unrecord", !.pid = 0]
              = [call[p] EXCEPT !.at = "unrecord", !.pid = 0, !.seen = call[p].seen]
        BY <1>0 DEF Call
      <4> QED BY <1>0, <2>2, <4>1 DEF Undo, TypeOK
    <3> QED BY <1>2, <1>3, <2>2, <3>1 DEF Undo
  <2>3. CASE Apply(p)
    BY <1>1, <2>3 DEF Apply, Label, RunLabel
  <2>4. CASE SaveEndpoint(p) \/ SaveStopped(p)
    BY <1>1, <2>4 DEF SaveEndpoint, SaveStopped, Save, Label, RunLabel
  <2>5. CASE SendInitArgs(p) \/ Kill(p)
    BY <1>1, <2>5 DEF SendInitArgs, Kill, Label, RunLabel
  <2>6. CASE ConnectFails(p) \/ Leave(p) \/ DisconnectFails(p) \/ RemoveContainer(p) \/ Quit(p)
    BY <1>1, <2>6 DEF ConnectFails, Leave, DisconnectFails, RemoveContainer, Quit, Label
  <2> QED BY <2>1, <2>2, <2>3, <2>4, <2>5, <2>6
<1>5. \A n \in Name : n # call[p].name => config'[n] = config[n]
  BY <1>0 DEF TypeOK, Apply, ReadMetadata, SaveEndpoint, ConnectFails, SendInitArgs, Undo, Leave, Kill,
              SaveStopped, Save, DisconnectFails, RemoveContainer, Quit, hostVars
<1>6. \A n \in Name : config'[n] = Absent => config[n] = Absent
  <2>1. CASE SaveEndpoint(p) \/ SaveStopped(p)
    <3>1. [pid |-> 0, status |-> "stopped"] \in Metadata
      BY DEF Metadata
    <3>2. SaveEndpoint(p) => call[p].seen \in Metadata
      BY DEF SaveEndpoint, At, Inv, Stops, StopsAt, In
    <3> QED BY <1>0, <2>1, <3>1, <3>2, MarkAssumption DEF SaveEndpoint, SaveStopped, Save, TypeOK
  <2>2. CASE ~(SaveEndpoint(p) \/ SaveStopped(p))
    BY <2>2 DEF Apply, ReadMetadata, ConnectFails, SendInitArgs, Undo, Leave, Kill,
                DisconnectFails, RemoveContainer, Quit, hostVars
  <2> QED BY <2>1, <2>2
<1>7. Minds(p)
  BY <1>0, <1>4, <1>5 DEF Minds, Accounted
<1>8. Cleared'
  BY <1>0, <1>4, <1>7, StaysCleared DEF In
<1>9. CASE ~Quit(p)
  <2>1. ~In(p, Claiming)
    BY <1>9 DEF In, Claiming, Starting, At, Waited, Apply, ReadMetadata, SaveEndpoint, ConnectFails,
                SendInitArgs, Undo, Leave, Kill, SaveStopped, DisconnectFails, RemoveContainer
  <2> QED BY <1>0, <1>4, <1>6, <1>8, <2>1, NoClaim DEF Accounted
<1>10. CASE Quit(p)
  BY <1>0, <1>7, <1>10, AbandonClaims DEF Quit
<1> QED BY <1>9, <1>10

\* Deleting a workspace adds none, and leaves the name none but a nested mount.
LEMMA DeletesWorkspace ==
  ASSUME TypeOK, Nesting, NEW n \in Name, RemoveDirectories(n)
  PROVE  /\ DeleteWorkspace(n) => n \notin Remains' /\ Remains' \subseteq Remains
         /\ UNCHANGED <<mounted, nested>> => Remains' \subseteq Remains
<1>1. ASSUME DeleteWorkspace(n)
      PROVE  n \notin Remains' /\ Remains' \subseteq Remains
  <2>1. n \in Below(n)
    BY DEF Below
  <2>2. ~Unmountable(n) /\ n \in mounted => n \in nested
    BY DEF Unmountable, Nesting
  <2> QED BY <1>1, <2>1, <2>2 DEF DeleteWorkspace, RemoveDirectories, Remains
<1>2. UNCHANGED <<mounted, nested>> => Remains' \subseteq Remains
  BY DEF Remains, RemoveDirectories
<1> QED BY <1>1, <1>2

\* Undoing a run claims the workspace from the record on, until it is deleted.
LEMMA UndoingClaims ==
  ASSUME Inv, Nesting, Claimed, Cleared, NEW p \in Proc,
         RemoveMetadata(p) \/ DestroyCgroup(p) \/ DeferredDeleteWorkspace(p)
  PROVE  Claimed' /\ Cleared'
<1>0. /\ TypeOK /\ call[p] # Idle /\ call[p].name \in Name
      /\ Remains' \subseteq Remains /\ strayed' = strayed
  <2>1. TypeOK /\ call[p] # Idle /\ call[p].name \in Name
    BY CallOf DEF RemoveMetadata, DestroyCgroup, DeferredDeleteWorkspace, At, Inv
  <2>2. CASE UNCHANGED layerVars
    BY <2>1, <2>2 DEF Remains
  <2>3. CASE DeferredDeleteWorkspace(p)
    BY <2>1, <2>3, DeletesWorkspace DEF DeferredDeleteWorkspace, DeleteWorkspace, UmountFails
  <2> QED BY <2>1, <2>2, <2>3 DEF RemoveMetadata, DestroyCgroup
<1>1. \A n \in Name \ {call[p].name} : config'[n] = config[n]
  BY <1>0 DEF RemoveMetadata, DestroyCgroup, DeferredDeleteWorkspace, TypeOK
<1>2. ASSUME NEW label \in {"uncgroup", "unlayer"}, Continue(p, label)
      PROVE  Claimed' /\ Cleared'
  <2>1. /\ call'[p] # Idle /\ call'[p].at = label /\ call'[p].name = call[p].name
        /\ \A q \in Proc \ {p} : call'[q] = call[q]
    BY <1>0, <1>2, Went DEF Continue, Label, RunLabel
  <2>2. Minds(p)
    BY <1>0, <1>1, <1>2, <2>1 DEF Minds, Continue, Accounted
  <2>3. \A n \in Name : n = call[p].name => Claim(n)'
    BY <2>1 DEF Claim, In, Claiming
  <2>4. ~In(p, {"rmrecord"})'
    BY <2>1 DEF In
  <2> QED BY <1>0, <2>2, <2>3, <2>4, MindsClaims, StaysCleared
<1>3. ASSUME call' = [call EXCEPT ![p] = Idle], Accounted \subseteq Accounted',
             \A n \in Name : n = call[p].name => n \in Accounted' \/ n \notin Remains'
      PROVE  Claimed' /\ Cleared'
  <2>1. call'[p] = Idle /\ \A q \in Proc \ {p} : call'[q] = call[q]
    BY <1>0, <1>3 DEF TypeOK
  <2>2. Minds(p)
    BY <1>0, <1>1, <1>3, <2>1 DEF Minds
  <2>3. \A n \in Name : n = call[p].name => Claim(n)'
    BY <1>3 DEF Claim
  <2> QED BY <1>0, <2>1, <2>2, <2>3, MindsClaims, StaysCleared DEF In
<1>4. CASE DestroyCgroup(p) /\ Abandon(p)
  BY <1>0, <1>3, <1>4 DEF Abandon, DestroyCgroup, Accounted
<1>5. CASE DeferredDeleteWorkspace(p)
  <2>1. strayed' = strayed
    BY <1>0
  <2>2. CASE DeleteWorkspace(call[p].name) /\ Done(p)
    <3>1. call[p].name \notin Remains'
      BY <1>0, <2>2, DeletesWorkspace DEF DeleteWorkspace
    <3> QED BY <1>3, <2>1, <2>2, <3>1 DEF Done, Accounted
  <2>3. CASE UmountFails(p) /\ call' = [call EXCEPT ![p] = Idle]
    BY <1>3, <2>1, <2>3 DEF UmountFails, Accounted
  <2> QED BY <1>5, <2>2, <2>3 DEF DeferredDeleteWorkspace
<1> QED BY <1>2, <1>4, <1>5 DEF RemoveMetadata, DestroyCgroup

\* rm deletes the workspace before the record.
LEMMA RemovalClaims ==
  ASSUME Inv, Nesting, Claimed, Cleared, NEW p \in Proc, RemoveLayers(p) \/ RemoveRecord(p)
  PROVE  Claimed' /\ Cleared'
<1>0. TypeOK /\ call[p] # Idle /\ call[p].name \in Name
  BY CallOf DEF RemoveLayers, RemoveRecord, At, Inv
<1>1. CASE RemoveLayers(p)
  <2>1. /\ Remains' \subseteq Remains /\ config' = config
        /\ Accounted \subseteq Accounted' /\ Goto(p, "rmrecord") /\ ~In(p, Claiming)
        /\ \A n \in Name : n = call[p].name => n \in Accounted' \/ n \notin Remains'
    <3>1. config' = config /\ Goto(p, "rmrecord") /\ ~In(p, Claiming)
      BY <1>1 DEF RemoveLayers, Continue, At, In, Claiming, Starting
    <3>2. CASE DeleteWorkspace(call[p].name) /\ Continue(p, "rmrecord")
      BY <1>0, <3>1, <3>2, DeletesWorkspace DEF DeleteWorkspace, Continue, Accounted
    <3>3. CASE DeleteElsewhere(call[p].name) /\ Continue(p, "rmrecord")
      BY <1>0, <3>1, <3>3 DEF DeleteElsewhere, Continue, Remains, Accounted
    <3>4. CASE UmountFails(p)
      BY <1>0, <3>1, <3>4, DeletesWorkspace DEF UmountFails, Accounted
    <3> QED BY <1>1, <3>2, <3>3, <3>4 DEF RemoveLayers
  <2>2. /\ call'[p] # Idle /\ call'[p].name = call[p].name
        /\ \A q \in Proc \ {p} : call'[q] = call[q]
    BY <1>0, <2>1, Went DEF Label
  <2>3. Claimed'
    BY <1>0, <2>1, <2>2, NoClaim
  <2>4. Cleared'
    BY <1>0, <2>1, <2>2 DEF Cleared, In
  <2> QED BY <2>3, <2>4
<1>2. CASE RemoveRecord(p)
  <2>1. /\ call'[p] = Idle /\ \A q \in Proc \ {p} : call'[q] = call[q]
        /\ UNCHANGED <<Remains, Accounted>>
        /\ \A n \in Name \ {call[p].name} : config'[n] = config[n]
    BY <1>0, <1>2 DEF RemoveRecord, Done, TypeOK, Remains, Accounted
  <2>2. Minds(p)
    BY <1>0, <2>1 DEF Minds
  <2>3. \A n \in Name : n = call[p].name => Claim(n)'
    BY <1>0, <1>2, <2>1 DEF Claim, Cleared, In, RemoveRecord, At
  <2> QED BY <1>0, <2>1, <2>2, <2>3, MindsClaims, StaysCleared DEF In
<1> QED BY <1>1, <1>2

\* A command that begins, and what is no command, leaves the claims as they are.
LEMMA OtherClaims ==
  ASSUME Inv, Claimed, Cleared,
         \/ \E p \in Proc : Begin(p)
         \/ \E i \in Pid : Exit(i) \/ Host(i)
         \/ UNCHANGED vars
  PROVE  Claimed' /\ Cleared'
<1>1. ASSUME UNCHANGED <<config, Remains, call, Accounted>>
      PROVE  Claimed' /\ Cleared'
  BY <1>1 DEF Claimed, Claim, Cleared, In
<1>2. ASSUME NEW p \in Proc, NEW m \in Name, call[p] = Idle, UNCHANGED <<config, Remains>>,
             call'[p].at # "rmrecord", \A q \in Proc \ {p} : call'[q] = call[q],
             \/ Accounted' = Accounted
             \/ (Accounted' = Accounted \ {m} /\ Unused(m))
      PROVE  Claimed' /\ Cleared'
  <2>1. ASSUME NEW n \in Name
        PROVE  Claim(n)'
    <3>1. Claim(n)
      BY DEF Claimed
    <3> QED BY <1>2, <3>1 DEF Claim, In, Unused, Remains
  <2>2. ASSUME NEW q \in Proc, In(q, {"rmrecord"})'
        PROVE  call'[q].name \in Accounted' \/ call'[q].name \notin Remains'
    <3>1. q # p /\ call'[q] = call[q] /\ In(q, {"rmrecord"})
      BY <1>2, <2>2 DEF In
    <3> QED BY <1>2, <3>1 DEF Cleared, Unused, Busy, In, Remains
  <2> QED BY <2>1, <2>2 DEF Claimed, Cleared
<1>3. ASSUME NEW p \in Proc, NEW m \in Name,
             \/ StopContainer(p, m) \/ ReadForRemoval(p, m)
             \/ \E detach, network \in BOOLEAN : Run(p, m, detach, network)
      PROVE  Claimed' /\ Cleared'
  <2>1. call[p] = Idle /\ UNCHANGED <<config, Remains>>
    BY <1>3 DEF StopContainer, ReadForRemoval, Run, hostVars, Remains
  <2>2. call'[p].at # "rmrecord" /\ \A q \in Proc \ {p} : call'[q] = call[q]
    BY <1>3 DEF StopContainer, ReadForRemoval, Run, Begun, Inv, TypeOK
  <2>3. Accounted' = Accounted \/ (Accounted' = Accounted \ {m} /\ Unused(m))
    <3>1. StopContainer(p, m) \/ ReadForRemoval(p, m) => Accounted' = Accounted
      BY DEF StopContainer, ReadForRemoval, hostVars, Accounted
    <3>2. ASSUME NEW detach \in BOOLEAN, NEW network \in BOOLEAN, Run(p, m, detach, network)
          PROVE  Accounted' = Accounted \ {m} /\ Unused(m)
      BY <3>2 DEF Run, Accounted
    <3> QED BY <1>3, <3>1, <3>2
  <2> QED BY <1>2, <2>1, <2>2, <2>3
<1> QED BY <1>1, <1>3 DEF Begin, Exit, Host, vars, hostVars, Remains, Accounted

(***************************************************************************)
(* A name that nothing knows of has no workspace left, unless a command of *)
(* it was cut short, or rm was run in another directory; the mount, only   *)
(* if it was mounted together with that of the empty name.                 *)
(***************************************************************************)
THEOREM NoWorkspaceIsOrphan == Spec => []NoOrphanWorkspace
<1>1. Init => Nesting /\ Claimed /\ Cleared
  BY DEF Init, Nesting, Claimed, Claim, Cleared, In, Remains
<1>2. Inv /\ Nesting /\ Claimed /\ Cleared /\ [Next]_vars => Nesting' /\ Claimed' /\ Cleared'
  <2> SUFFICES ASSUME Inv, Nesting, Claimed, Cleared, [Next]_vars
               PROVE  Nesting' /\ Claimed' /\ Cleared'
    OBVIOUS
  <2>1. ASSUME NEW p \in Proc, Step(p) \/ Quit(p)
        PROVE  Claimed' /\ Cleared'
    BY <2>1, StartingClaims, PassiveClaims, UndoingClaims, RemovalClaims DEF Step, RunStep
  <2>2. Nesting'
    BY NestingStays DEF Inv
  <2> QED BY <2>1, <2>2, OtherClaims DEF Next
<1>3. Inv /\ Claimed => NoOrphanWorkspace
  BY DEF Claimed, Claim, NoOrphanWorkspace, Forgotten, Busy, In, Remains, Accounted
<1> QED BY <1>1, <1>2, <1>3, Invariant, PTL DEF Spec

-----------------------------------------------------------------------------
\* What becomes of the call of a command that takes a step.
Follows(p) ==
  /\ call[p] # Idle /\ \A q \in Proc \ {p} : call'[q] = call[q]
  /\ call'[p] # Idle =>
       /\ call'[p].name = call[p].name /\ call'[p].network = call[p].network
       /\ call'[p].at \in RunLabel <=> call[p].at \in RunLabel

\* It is the same command of the same container.
LEMMA StepFollows ==
  ASSUME TypeOK, NEW p \in Proc, Step(p) \/ Quit(p)
  PROVE  Follows(p)
<1> USE DEF At
<1>0. call[p] # Idle
  BY DEF Step, RunStep, Waited, CreateWorkspace, SetLimit, Start, CreateMetadata, Apply, ReadMetadata,
     SaveEndpoint, ConnectFails, SendInitArgs, Undo, Leave, RemoveMetadata, DestroyCgroup,
     DeferredDeleteWorkspace, Kill, SaveStopped, DisconnectFails, RemoveContainer, RemoveLayers,
     RemoveRecord, Quit
<1>1. call[p] \in Call /\ call[p].name \in Name /\ call[p].pid \in Pid \cup {0} /\ call[p].at \in Label
      /\ call[p].seen \in Metadata \cup {Absent}
  BY <1>0, CallOf
<1>2. ASSUME call' = [call EXCEPT ![p] = Idle]
      PROVE  Follows(p)
  BY <1>0, <1>2 DEF Follows, TypeOK
<1>3. ASSUME NEW label \in Label, Goto(p, label), label \in RunLabel <=> call[p].at \in RunLabel
      PROVE  Follows(p)
  <2>1. call'[p] = [call[p] EXCEPT !.at = label] /\ \A q \in Proc \ {p} : call'[q] = call[q]
    BY <1>3 DEF Goto, TypeOK
  <2>2. call'[p].at = label /\ call'[p].name = call[p].name /\ call'[p].network = call[p].network
    BY <1>1, <2>1 DEF Call
  <2> QED BY <1>0, <1>3, <2>1, <2>2 DEF Follows
<1>4. ASSUME NEW c \in Call, call' = [call EXCEPT ![p] = c], c.name = call[p].name,
             c.network = call[p].network, c.at \in RunLabel <=> call[p].at \in RunLabel
      PROVE  Follows(p)
  BY <1>0, <1>4 DEF Follows, TypeOK
<1>5. CASE Abandon(p) \/ Done(p)
  BY <1>2, <1>5 DEF Abandon, Done
<1>6. CASE CreateWorkspace(p) \/ SetLimit(p) \/ RemoveMetadata(p) \/ DestroyCgroup(p)
  BY <1>3, <1>5, <1>6 DEF CreateWorkspace, SetLimit, RemoveMetadata, DestroyCgroup, Continue, Label, RunLabel
<1>7. CASE CreateMetadata(p) \/ SaveEndpoint(p) \/ SaveStopped(p)
  BY <1>3, <1>5, <1>7 DEF CreateMetadata, SaveEndpoint, SaveStopped, Save, Continue, Label, RunLabel
<1>8. CASE Apply(p) \/ SendInitArgs(p) \/ Kill(p)
  BY <1>3, <1>5, <1>8 DEF Apply, SendInitArgs, Kill, Continue, Label, RunLabel
<1>9. CASE DisconnectFails(p) \/ RemoveContainer(p) \/ RemoveLayers(p) \/ RemoveRecord(p)
  BY <1>3, <1>5, <1>9 DEF DisconnectFails, RemoveContainer, RemoveLayers, RemoveRecord, Continue, Label, RunLabel
<1>10. CASE ConnectFails(p) \/ Leave(p) \/ Quit(p) \/ DeferredDeleteWorkspace(p)
  BY <1>2, <1>5, <1>10 DEF ConnectFails, Leave, Quit, DeferredDeleteWorkspace
<1>11. CASE Start(p)
  <2>1. ASSUME NEW i \in Pid, call' = [call EXCEPT ![p].at = "record", ![p].pid = i]
        PROVE  Follows(p)
    <3> DEFINE c == [call[p] EXCEPT !.at = "record", !.pid = i]
    <3>1. c \in Call /\ c.name = call[p].name /\ c.network = call[p].network /\ c.at = "record"
      BY <1>1 DEF Call, RunLabel
    <3>2. call' = [call EXCEPT ![p] = c]
      BY <2>1 DEF TypeOK
    <3> HIDE DEF c
    <3> QED BY <1>4, <1>11, <3>1, <3>2 DEF Start, RunLabel
  <2> QED BY <1>5, <1>11, <2>1 DEF Start
<1>12. CASE ReadMetadata(p)
  <2>1. ASSUME config[call[p].name] \in Metadata,
               call' = [call EXCEPT ![p].at = "endpoint", ![p].seen = config[call[p].name]]
        PROVE  Follows(p)
    <3> DEFINE c == [call[p] EXCEPT !.at = "endpoint", !.seen = config[call[p].name]]
    <3>1. c \in Call /\ c.name = call[p].name /\ c.network = call[p].network /\ c.at = "endpoint"
      BY <1>1, <2>1 DEF Call, RunLabel
    <3>2. call' = [call EXCEPT ![p] = c]
      BY <2>1 DEF TypeOK
    <3> HIDE DEF c
    <3> QED BY <1>4, <1>12, <3>1, <3>2 DEF ReadMetadata, RunLabel
  <2> QED BY <1>5, <1>12, <2>1 DEF ReadMetadata
<1>13. CASE Undo(p)
  <2> DEFINE c == [call[p] EXCEPT !.at = "unrecord", !.pid = 0]
  <2>1. c \in Call /\ c.name = call[p].name /\ c.network = call[p].network /\ c.at = "unrecord"
    BY <1>1 DEF Call, RunLabel
  <2>2. call' = [call EXCEPT ![p] = c]
    BY <1>13 DEF Undo, TypeOK
  <2> HIDE DEF c
  <2> QED BY <1>4, <1>13, <2>1, <2>2 DEF Undo, Waited, RunLabel
<1> QED BY <1>6, <1>7, <1>8, <1>9, <1>10, <1>11, <1>12, <1>13 DEF Step, RunStep

\* A step of a command writes no record but that of its container.
LEMMA OwnRecord ==
  ASSUME TypeOK, NEW p \in Proc, Step(p) \/ Quit(p), NEW n \in Name, n # call[p].name
  PROVE  config'[n] = config[n]
BY DEF TypeOK, Step, RunStep, CreateWorkspace, SetLimit, Start, CreateMetadata, Apply, ReadMetadata,
   SaveEndpoint, ConnectFails, SendInitArgs, Undo, Leave, RemoveMetadata, DestroyCgroup,
   DeferredDeleteWorkspace, Kill, SaveStopped, Save, DisconnectFails, RemoveContainer, RemoveLayers,
   RemoveRecord, Quit, hostVars

\* The processes of a name that a step of a command leaves or makes.
LEMMA StepProcesses ==
  ASSUME Inv, NEW p \in Proc, Step(p) \/ Quit(p), NEW i \in Pid, Alive(i)'
  PROVE  \/ Alive(i) /\ process'[i].name = process[i].name
         \/ Start(p) /\ process[i] = Free /\ process'[i].name = call[p].name
<1>0. TypeOK /\ call[p] # Idle
  BY StepFollows DEF Inv, Follows
<1>1. CASE process'[i] = process[i]
  BY <1>1 DEF Alive, Container
<1>2. CASE process' = Reaped(p)
  BY <1>0, <1>2 DEF Reaped, Alive, Container, TypeOK
<1>3. ASSUME NEW j \in Pid, Alive(j), NEW ok \in BOOLEAN, process' = Ended(j, ok)
      PROVE  process'[i] = process[i]
  <2>1. CASE i = j
    <3>1. process[j] \in Process
      BY <1>0, <1>3 DEF TypeOK, Alive, Container
    <3>2. process'[j] = Free \/ process'[j] = [process[j] EXCEPT !.phase = "exited", !.ok = ok]
      BY <1>0, <1>3 DEF Ended, TypeOK
    <3>3. [process[j] EXCEPT !.phase = "exited", !.ok = ok].phase = "exited"
      BY <3>1 DEF Process
    <3> QED BY <2>1, <3>2, <3>3 DEF Alive, Container
  <2>2. CASE i # j
    BY <1>0, <1>3, <2>2 DEF Ended, TypeOK
  <2> QED BY <2>1, <2>2
<1>4. CASE Start(p)
  <2>1. CASE Abandon(p)
    BY <1>2, <2>1 DEF Abandon
  <2>2. ASSUME NEW j \in Pid,
               process' = [process EXCEPT ![j] =
                 [name |-> call[p].name, phase |-> "init", ok |-> FALSE, grouped |-> FALSE]]
        PROVE  process'[i] = process[i] \/ (i = j /\ process'[i].name = call[p].name)
    BY <1>0, <2>2 DEF TypeOK
  <2> QED BY <1>1, <1>4, <2>1, <2>2 DEF Start
<1>5. CASE Apply(p) \/ SendInitArgs(p)
  <2> DEFINE j == call[p].pid
  <2>1. j \in Pid
    BY <1>5 DEF Apply, SendInitArgs, At, Inv, Child, In, Started
  <2>2. CASE i # j
    BY <1>0, <1>1, <1>2, <1>5, <2>2 DEF Apply, SendInitArgs, Abandon, TypeOK
  <2>3. CASE i = j /\ ~Alive(j)
    BY <1>0, <1>1, <1>2, <1>5, <2>1, <2>3, MarkAssumption DEF Apply, SendInitArgs, Abandon, Alive, Container, TypeOK
  <2>4. CASE i = j /\ Alive(j)
    <3>1. process[j] \in Process
      BY <1>0, <2>1, <2>4 DEF TypeOK, Alive, Container
    <3>2. \/ process'[j] = [process[j] EXCEPT !.phase = "main"]
          \/ process'[j] = [process[j] EXCEPT !.grouped = TRUE]
      BY <1>0, <1>5, <2>1, <2>4 DEF Apply, SendInitArgs, TypeOK
    <3>3. process'[j].name = process[j].name
      BY <3>1, <3>2 DEF Process
    <3> QED BY <2>4, <3>3
  <2> QED BY <2>2, <2>3, <2>4
<1>6. CASE Kill(p)
  <2>1. call[p].pid \in Pid \cup {0}
    BY <1>0, CallOf
  <2>2. CASE /\ process[call[p].pid] = Foreign /\ call[p].pid # 0
             /\ process' = [process EXCEPT ![call[p].pid] = Free]
    BY <1>0, <1>1, <2>1, <2>2 DEF TypeOK, Alive, Container
  <2> QED BY <1>1, <1>3, <1>6, <2>1, <2>2 DEF Kill
<1>7. CASE ~Start(p) /\ ~Apply(p) /\ ~SendInitArgs(p) /\ ~Kill(p)
  BY <1>1, <1>2, <1>7
     DEF Step, RunStep, CreateWorkspace, SetLimit, CreateMetadata, ReadMetadata, SaveEndpoint, ConnectFails,
         Undo, Leave, RemoveMetadata, DestroyCgroup, DeferredDeleteWorkspace, SaveStopped, Save, DisconnectFails,
         RemoveContainer, RemoveLayers, RemoveRecord, Quit, Abandon, hostVars
<1> QED BY <1>4, <1>5, <1>6, <1>7
=============================================================================

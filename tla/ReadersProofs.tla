--------------------------- MODULE ReadersProofs ---------------------------
(***************************************************************************)
(* Proofs about exec and ps, for any names, commands, readers and process  *)
(* identifiers and any number of failures.                                 *)
(***************************************************************************)
EXTENDS Readers, ContainerProofs

USE DEF layerVars

\* A step of the host, of which the readers see only what passes.
Beside ==
  /\ Next /\ Watched
  /\ dirs' = Dirs \/ \E p \in Proc : Start(p) /\ dirs' = dirs \cup {call[p].name}

\* A step of a reader, which changes nothing of the host.
Reading(r) == ReaderStep(r) \/ ListContainers(r) \/ \E n \in Name : ExecContainer(r, n)

\* There are no other steps.
LEMMA Steps ==
  ASSUME [KNext]_kvars
  PROVE  \/ Beside
         \/ \E r \in Reader : Reading(r) /\ UNCHANGED <<vars, dirs>>
         \/ UNCHANGED kvars
<1>1. \A r \in Reader : Reading(r) => UNCHANGED <<vars, dirs>>
  BY DEF Reading, ReaderStep, GetEnvs, GetEnvsFails, Join, EndCommand, EndList, Finish,
         ListNext, ListFails, ListContainers, ExecContainer
<1>2. ASSUME NEW p \in Proc, StartLogging(p)
      PROVE  Beside
  BY <1>2 DEF Beside, StartLogging, Next, Step, RunStep
<1> QED BY <1>1, <1>2 DEF KNext, Beside, Reading

(***************************************************************************)
(* The host under exec and ps is that of the containers: the readers only  *)
(* read, so what is proved of Container's specification holds here.        *)
(***************************************************************************)
THEOREM ReadersOnlyRead == KSpec => Spec
<1>1. [KNext]_kvars => [Next]_vars
  BY Steps DEF Beside, kvars
<1> QED BY <1>1, PTL DEF KSpec, Spec, KInit

-----------------------------------------------------------------------------
\* What /proc shows is of a container or of the host.
LEMMA BehindWhose ==
  ASSUME TypeOK, NEW i \in Pid \cup {0}
  PROVE  Behind(i) \in Whose
BY DEF Behind, Whose, Alive, Container, TypeOK, Process

\* A reader that goes on keeps its type.
LEMMA ReadingTypeOK ==
  ASSUME KTypeOK, NEW r \in Reader, Reading(r)
  PROVE  reader' \in [Reader -> ExecState \cup ListState \cup {Idle}]
<1> USE DEF Reads
<1>0. TypeOK /\ reader[r] \in ExecState \cup ListState \cup {Idle}
  BY DEF KTypeOK
<1>1. ASSUME NEW s \in ExecState \cup ListState \cup {Idle}, reader' = [reader EXCEPT ![r] = s]
      PROVE  reader' \in [Reader -> ExecState \cup ListState \cup {Idle}]
  BY <1>1 DEF KTypeOK
<1>2. Reads(r, "envs") \/ Reads(r, "enter") => reader[r] \in ExecState
  BY <1>0 DEF ListState
<1>3. Reads(r, "list") \/ Reads(r, "failed") => reader[r] \in ListState
  BY <1>0 DEF ExecState
<1>4. ASSUME NEW n \in Name, ExecContainer(r, n)
      PROVE  reader' \in [Reader -> ExecState \cup ListState \cup {Idle}]
  <2>1. config[n].pid \in Pid \cup {0}
    BY <1>4 DEF ExecContainer, Metadata
  <2>2. [at |-> "envs", name |-> n, pid |-> config[n].pid, lived |-> Behind(config[n].pid) = n,
         env |-> Machine, joined |-> 0, inside |-> TRUE] \in ExecState
    BY <2>1 DEF ExecState, Whose, Namespaces
  <2> QED BY <1>1, <1>4, <2>2 DEF ExecContainer
<1>5. CASE GetEnvs(r)
  <2> DEFINE i == Recorded(reader[r].name)
             s == [reader[r] EXCEPT !.at = "enter", !.env = Behind(i)]
  <2>1. reader[r] \in ExecState
    BY <1>2, <1>5 DEF GetEnvs
  <2>2. i \in Pid \cup {0}
    BY <1>0, <2>1 DEF Recorded, Metadata, ExecState
  <2>3. Behind(i) \in Whose
    BY <1>0, <2>2, BehindWhose
  <2>4. s \in ExecState
    BY <2>1, <2>3 DEF ExecState
  <2>5. reader' = [reader EXCEPT ![r] = s]
    BY <1>5 DEF GetEnvs, KTypeOK
  <2> QED BY <1>1, <2>4, <2>5
<1>6. CASE Join(r)
  <2> DEFINE e == reader[r]
             s == [e EXCEPT !.joined = @ + 1, !.inside = @ /\ Behind(e.pid) = e.name /\ HostProc(e)]
  <2>1. e \in ExecState /\ e.joined < Len(Namespaces)
    BY <1>2, <1>6 DEF Join
  <2>2. e.joined + 1 \in 0..Len(Namespaces)
    BY <2>1 DEF ExecState, Namespaces
  <2>3. (e.inside /\ Behind(e.pid) = e.name /\ HostProc(e)) \in BOOLEAN
    BY <2>1 DEF ExecState
  <2>4. s \in ExecState
    BY <2>1, <2>2, <2>3 DEF ExecState
  <2>5. reader' = [reader EXCEPT ![r] = s]
    BY <1>6 DEF Join, KTypeOK
  <2> QED BY <1>1, <2>4, <2>5
<1>7. CASE ListContainers(r)
  <2>1. [at |-> "list", name |-> Machine, todo |-> dirs,
         calm |-> {n \in Name : ~\E p \in Proc : Busy(p, n)}] \in ListState
    BY DEF ListState, KTypeOK
  <2> QED BY <1>1, <1>7, <2>1 DEF ListContainers
<1>8. CASE Reads(r, "list") /\ ListNext(r)
  <2>1. reader[r] \in ListState
    BY <1>3, <1>8
  <2>2. PICK n \in reader[r].todo : reader' = [reader EXCEPT ![r].todo = @ \ {n}]
    BY <1>8 DEF ListNext
  <2>3. [reader[r] EXCEPT !.todo = @ \ {n}] \in ListState
    BY <2>1 DEF ListState
  <2> QED BY <1>1, <2>2, <2>3 DEF KTypeOK
<1>9. CASE Reads(r, "list") /\ ListFails(r)
  <2>1. reader[r] \in ListState
    BY <1>3, <1>9
  <2>2. PICK n \in reader[r].todo : reader' = [reader EXCEPT ![r].at = "failed", ![r].name = n]
    BY <1>9 DEF ListFails
  <2>3. n \in Name
    BY <2>1 DEF ListState
  <2>4. [reader[r] EXCEPT !.at = "failed", !.name = n] \in ListState
    BY <2>1, <2>3 DEF ListState
  <2>5. reader' = [reader EXCEPT ![r] = [reader[r] EXCEPT !.at = "failed", !.name = n]]
    BY <2>2 DEF KTypeOK
  <2> QED BY <1>1, <2>4, <2>5
<1>10. CASE GetEnvsFails(r) \/ EndCommand(r) \/ EndList(r)
  BY <1>1, <1>10 DEF GetEnvsFails, EndCommand, EndList, Finish
<1> QED BY <1>4, <1>5, <1>6, <1>7, <1>8, <1>9, <1>10 DEF Reading, ReaderStep

\* What passes by a reader leaves it its type.
LEMMA PassingTypeOK ==
  ASSUME KTypeOK, NEW r \in Reader
  PROVE  Passing(r) \in ExecState \cup ListState \cup {Idle}
<1>1. reader[r] \in ExecState \cup ListState \cup {Idle}
  BY DEF KTypeOK
<1>2. CASE reader[r] # Idle /\ reader[r].at \in {"envs", "enter"}
  <2> DEFINE l == /\ reader[r].lived /\ process'[reader[r].pid] \notin {Free, Foreign}
                  /\ process'[reader[r].pid].phase # "exited"
  <2>1. reader[r] \in ExecState
    BY <1>1, <1>2 DEF ListState
  <2>2. l \in BOOLEAN
    BY <2>1 DEF ExecState
  <2>3. [reader[r] EXCEPT !.lived = l] \in ExecState
    BY <2>1, <2>2 DEF ExecState
  <2> QED BY <1>2, <2>3 DEF Passing
<1>3. CASE reader[r] # Idle /\ reader[r].at \notin {"envs", "enter"}
  <2> DEFINE c == {n \in reader[r].calm : ~\E p \in Proc : call'[p] # Idle /\ call'[p].name = n}
  <2>1. reader[r] \in ListState
    BY <1>1, <1>3 DEF ExecState
  <2>2. c \subseteq Name
    BY <2>1 DEF ListState
  <2>3. [reader[r] EXCEPT !.calm = c] \in ListState
    BY <2>1, <2>2 DEF ListState
  <2>4. Passing(r) = [reader[r] EXCEPT !.calm = c]
    BY <1>3 DEF Passing
  <2> QED BY <2>3, <2>4
<1> QED BY <1>2, <1>3 DEF Passing

(***************************************************************************)
(* The types hold in every behaviour of the host and those who read of it. *)
(***************************************************************************)
THEOREM ReadersTypeCorrect == KSpec => []KTypeOK
<1>1. KInit => KTypeOK
  BY BoundAssumption DEF KInit, Init, KTypeOK, TypeOK
<1>2. TypeOK' /\ KTypeOK /\ [KNext]_kvars => KTypeOK'
  <2> SUFFICES ASSUME TypeOK', KTypeOK, [KNext]_kvars
               PROVE  KTypeOK'
    OBVIOUS
  <2>1. CASE Beside
    <3>1. dirs' \subseteq Name
      <4>1. \A p \in Proc : Start(p) => call[p].name \in Name
        BY CallOf DEF Start, At, KTypeOK
      <4> QED BY <2>1, <4>1 DEF Beside, Dirs, KTypeOK
    <3>2. reader' \in [Reader -> ExecState \cup ListState \cup {Idle}]
      BY <2>1, PassingTypeOK DEF Beside, Watched
    <3> QED BY <3>1, <3>2 DEF KTypeOK
  <2>2. ASSUME NEW r \in Reader, Reading(r), UNCHANGED <<vars, dirs>>
        PROVE  KTypeOK'
    BY <2>2, ReadingTypeOK DEF KTypeOK
  <2>3. CASE UNCHANGED kvars
    BY <2>3 DEF kvars, KTypeOK
  <2> QED BY <2>1, <2>2, <2>3, Steps
<1> QED BY <1>1, <1>2, ReadersOnlyRead, TypeCorrect, PTL DEF KSpec

-----------------------------------------------------------------------------
\* A directory stays while its record does, or was not there.
LEMMA DirStays ==
  ASSUME Beside, NEW n \in Name, n \in dirs, config'[n] = config[n]
  PROVE  n \in dirs'
BY DEF Beside, Dirs

\* Who works on a name that nobody worked on, and has no record, runs it.
LEMMA BrokenStaysStep ==
  ASSUME TypeOK, Beside, NEW n \in Name, Broken(n), Resting(n)
  PROVE  Broken(n)' /\ \A p \in Proc : Busy(p, n)' => call'[p].at \in RunLabel
<1> SUFFICES config'[n] = config[n] /\ \A p \in Proc : Busy(p, n)' => call'[p].at \in RunLabel
  BY DirStays DEF Broken
<1>1. ASSUME NEW p \in Proc, Step(p) \/ Quit(p)
      PROVE  config'[n] = config[n] /\ \A q \in Proc : ~Busy(q, n)'
  <2>1. Follows(p)
    BY <1>1, StepFollows
  <2>2. n # call[p].name
    BY <2>1 DEF Resting, Busy, Follows
  <2>3. config'[n] = config[n]
    BY <1>1, <2>2, OwnRecord
  <2> QED BY <2>1, <2>2, <2>3 DEF Follows, Resting, Busy
<1>2. ASSUME NEW p \in Proc, NEW m \in Name, StopContainer(p, m) \/ ReadForRemoval(p, m)
      PROVE  config' = config /\ \A q \in Proc : ~Busy(q, n)'
  <2>1. m # n
    BY <1>2 DEF Broken, StopContainer, ReadForRemoval
  <2>2. call'[p].name = m /\ \A q \in Proc \ {p} : call'[q] = call[q]
    BY <1>2 DEF StopContainer, ReadForRemoval, Begun, TypeOK
  <2> QED BY <1>2, <2>1, <2>2 DEF Resting, Busy, StopContainer, ReadForRemoval, hostVars
<1>3. ASSUME NEW p \in Proc, NEW m \in Name, NEW detach \in BOOLEAN, NEW network \in BOOLEAN,
             Run(p, m, detach, network)
      PROVE  config' = config /\ \A q \in Proc : Busy(q, n)' => call'[q].at \in RunLabel
  <2>1. call'[p].at = "layers" /\ \A q \in Proc \ {p} : call'[q] = call[q]
    BY <1>3 DEF Run, TypeOK
  <2> QED BY <1>3, <2>1 DEF Resting, Busy, Run, RunLabel
<1>4. ASSUME NEW i \in Pid, Exit(i) \/ Host(i)
      PROVE  config' = config /\ \A q \in Proc : ~Busy(q, n)'
  BY <1>4 DEF Exit, Host, Resting, Busy
<1> QED BY <1>1, <1>2, <1>3, <1>4 DEF Beside, Next, Begin

(***************************************************************************)
(* Only a new run of the name repairs a directory without a record: stop   *)
(* and rm cannot begin.                                                    *)
(***************************************************************************)
THEOREM OnlyRunRepairs == KSpec => BrokenStays
<1>1. KTypeOK /\ [KNext]_kvars =>
        [\A n \in Name : Broken(n) /\ Resting(n) =>
           Broken(n)' /\ \A p \in Proc : Busy(p, n)' => call'[p].at \in RunLabel]_kvars
  <2> SUFFICES ASSUME KTypeOK, [KNext]_kvars, NEW n \in Name, Broken(n), Resting(n)
               PROVE  Broken(n)' /\ \A p \in Proc : Busy(p, n)' => call'[p].at \in RunLabel
    OBVIOUS
  <2>1. CASE Beside
    BY <2>1, BrokenStaysStep DEF KTypeOK
  <2>2. CASE UNCHANGED <<vars, dirs>>
    BY <2>2 DEF Broken, Resting, Busy, vars, hostVars
  <2> QED BY <2>1, <2>2, Steps DEF kvars
<1> QED BY <1>1, ReadersTypeCorrect, PTL DEF KSpec, BrokenStays

-----------------------------------------------------------------------------
\* A record that names a process names the container's.
Named(n) ==
  \A i \in Pid : Of(i, n) /\ config[n] \in Metadata /\ config[n].pid # 0 => config[n].pid = i

\* So does what a run command has saved, or is about to save.
SavesAt(p) ==
  /\ In(p, {"apply", "connect", "endpoint"}) /\ config[call[p].name] \in Metadata =>
       config[call[p].name].pid \in {0, call[p].pid}
  /\ In(p, {"endpoint"}) => call[p].seen.pid \in {0, call[p].pid}

Names == (\A n \in Name : Named(n)) /\ (\A p \in Proc : SavesAt(p))

\* What a step of a command writes that can be read.
LEMMA Writes ==
  ASSUME TypeOK, NEW p \in Proc, Step(p) \/ Quit(p), NEW n \in Name, config'[n] \in Metadata,
         config'[n] # config[n]
  PROVE  /\ n = call[p].name
         /\ \/ CreateMetadata(p) /\ config'[n].pid = call[p].pid
            \/ SaveEndpoint(p) /\ config'[n] = call[p].seen
            \/ SaveStopped(p) /\ config'[n].pid = 0
<1>1. n = call[p].name
  BY OwnRecord
<1>2. CASE CreateMetadata(p) \/ SaveEndpoint(p) \/ SaveStopped(p)
  BY <1>1, <1>2, MarkAssumption DEF CreateMetadata, SaveEndpoint, SaveStopped, Save, TypeOK
<1>3. CASE RemoveMetadata(p) \/ RemoveRecord(p)
  BY <1>1, <1>3, MarkAssumption DEF RemoveMetadata, RemoveRecord, TypeOK
<1>4. CASE ~(CreateMetadata(p) \/ SaveEndpoint(p) \/ SaveStopped(p) \/ RemoveMetadata(p) \/ RemoveRecord(p))
  BY <1>4 DEF Step, RunStep, CreateWorkspace, SetLimit, Start, Apply, ReadMetadata, ConnectFails, SendInitArgs,
     Undo, Leave, DestroyCgroup, DeferredDeleteWorkspace, Kill, DisconnectFails, RemoveContainer, RemoveLayers,
     Quit, hostVars
<1> QED BY <1>1, <1>2, <1>3, <1>4

\* Who is at one of these labels next was there, or came from the one before.
LEMMA Saving ==
  ASSUME TypeOK, NEW p \in Proc, Step(p) \/ Quit(p), In(p, {"apply", "connect", "endpoint"})'
  PROVE  /\ call'[p].pid = call[p].pid /\ call'[p].name = call[p].name
         /\ \/ CreateMetadata(p) /\ call'[p].at = "apply"
            \/ In(p, {"apply", "connect"}) /\ config' = config
         /\ call'[p].at = "endpoint" => ReadMetadata(p) /\ call'[p].seen = config[call[p].name]
<1> USE DEF At
<1>0. Follows(p)
  BY StepFollows
<1>1. call[p] \in Call
  BY <1>0, CallOf DEF Follows
<1>2. call'[p] # Idle /\ call'[p].at \in {"apply", "connect", "endpoint"}
  BY DEF In
<1>3. ~(Abandon(p) \/ Done(p))
  BY <1>2 DEF Abandon, Done, TypeOK
<1>4. \A label \in Label : Goto(p, label) =>
        /\ call'[p].at = label /\ call'[p].name = call[p].name /\ call'[p].pid = call[p].pid
  BY <1>1 DEF Goto, TypeOK, Call
<1>5. CASE CreateMetadata(p)
  BY <1>3, <1>4, <1>5 DEF CreateMetadata, Save, Continue, Label, RunLabel
<1>6. CASE Apply(p)
  BY <1>3, <1>4, <1>6 DEF Apply, Continue, Label, RunLabel, In
<1>7. CASE ReadMetadata(p)
  <2>1. /\ config[call[p].name] \in Metadata /\ config' = config
        /\ call' = [call EXCEPT ![p].at = "endpoint", ![p].seen = config[call[p].name]]
    BY <1>3, <1>7 DEF ReadMetadata
  <2>2. call'[p] = [call[p] EXCEPT !.at = "endpoint", !.seen = config[call[p].name]]
    BY <2>1 DEF TypeOK
  <2>3. /\ call'[p].pid = call[p].pid /\ call'[p].name = call[p].name
        /\ call'[p].seen = config[call[p].name]
    BY <1>1, <2>2 DEF Call
  <2> QED BY <1>7, <2>1, <2>3 DEF ReadMetadata, In
<1>8. ~(CreateWorkspace(p) \/ SetLimit(p) \/ SaveEndpoint(p) \/ SendInitArgs(p) \/ RemoveMetadata(p)
        \/ DestroyCgroup(p) \/ Kill(p) \/ SaveStopped(p) \/ RemoveContainer(p) \/ RemoveLayers(p))
  BY <1>2, <1>3, <1>4 DEF CreateWorkspace, SetLimit, SaveEndpoint, SendInitArgs, RemoveMetadata,
     DestroyCgroup, Kill, SaveStopped, RemoveContainer, RemoveLayers, Save, Continue, UmountFails, Label, RunLabel
<1>9. ~(Start(p) \/ Undo(p))
  <2>1. [call[p] EXCEPT !.at = "unrecord", !.pid = 0].at = "unrecord"
    BY <1>1 DEF Call
  <2>3. ASSUME Start(p)
        PROVE  call'[p].at = "record"
    <3>1. PICK i \in Pid : call' = [call EXCEPT ![p].at = "record", ![p].pid = i]
      BY <1>3, <2>3 DEF Start
    <3>2. call'[p] = [call[p] EXCEPT !.at = "record", !.pid = i]
      BY <3>1 DEF TypeOK
    <3>3. [call[p] EXCEPT !.at = "record", !.pid = i].at = "record"
      BY <1>1 DEF Call
    <3> QED BY <3>2, <3>3
  <2>2. Undo(p) => call'[p].at = "unrecord"
    BY <2>1 DEF Undo, TypeOK
  <2> QED BY <1>2, <2>2, <2>3
<1>10. ~(ConnectFails(p) \/ Leave(p) \/ Quit(p) \/ DeferredDeleteWorkspace(p) \/ DisconnectFails(p)
         \/ RemoveRecord(p))
  BY <1>2, <1>3 DEF ConnectFails, Leave, Quit, DeferredDeleteWorkspace, DisconnectFails, RemoveRecord, TypeOK
<1> QED BY <1>5, <1>6, <1>7, <1>8, <1>9, <1>10 DEF Step, RunStep

\* Every step of a command keeps the identifiers right.
LEMMA NamesStep ==
  ASSUME Inv, Names, NEW p \in Proc, Step(p) \/ Quit(p)
  PROVE  Names'
<1>0. TypeOK /\ Follows(p)
  BY StepFollows DEF Inv
<1>n. call[p].name \in Name
  BY <1>0, CallOf DEF Follows
<1>1. ASSUME NEW n \in Name, NEW i \in Pid, Of(i, n)', config'[n] \in Metadata, config'[n].pid # 0
      PROVE  config'[n].pid = i
  <2>1. \/ Of(i, n)
        \/ Start(p) /\ n = call[p].name
    BY <1>1, StepProcesses DEF Of
  <2>2. CASE Start(p) /\ n = call[p].name
    <3>1. config[n] = Absent /\ config' = config
      BY <1>0, <2>2 DEF Inv, Alone, Start, At, In, Starting
    <3> QED BY <1>1, <3>1, MarkAssumption
  <2>3. CASE Of(i, n) /\ config'[n] = config[n]
    BY <1>1, <2>3 DEF Names, Named
  <2>4. CASE Of(i, n) /\ config'[n] # config[n]
    <3>1. n = call[p].name /\ ((CreateMetadata(p) /\ config'[n].pid = call[p].pid)
                               \/ (SaveEndpoint(p) /\ config'[n] = call[p].seen))
      BY <1>0, <1>1, <2>4, Writes
    <3>2. In(p, Started)
      BY <3>1 DEF CreateMetadata, SaveEndpoint, At, In, Started
    <3>3. i = call[p].pid
      BY <2>4, <3>1, <3>2 DEF Inv, Child
    <3>4. SaveEndpoint(p) => call[p].seen.pid \in {0, call[p].pid}
      BY DEF Names, SavesAt, SaveEndpoint, At, In
    <3> QED BY <1>1, <3>1, <3>3, <3>4
  <2> QED BY <2>1, <2>2, <2>3, <2>4
<1>2. SavesAt(p)'
  <2>1. ASSUME In(p, {"apply", "connect", "endpoint"})', NEW n \in Name, n = call'[p].name, config'[n] \in Metadata
        PROVE  config'[n].pid \in {0, call'[p].pid}
    <3>1. call'[p].pid = call[p].pid /\ n = call[p].name
      BY <1>0, <2>1, Saving
    <3>2. CASE CreateMetadata(p)
      <4>1. config'[n] = [pid |-> call[p].pid, status |-> "running"]
        BY <1>0, <2>1, <3>1, <3>2, MarkAssumption DEF CreateMetadata, Save, TypeOK
      <4> QED BY <3>1, <4>1
    <3>3. CASE In(p, {"apply", "connect"}) /\ config' = config
      BY <2>1, <3>1, <3>3 DEF Names, SavesAt, In
    <3> QED BY <1>0, <2>1, <3>2, <3>3, Saving
  <2>2. ASSUME In(p, {"endpoint"})'
        PROVE  call'[p].seen.pid \in {0, call'[p].pid}
    <3>1. /\ In(p, {"apply", "connect", "endpoint"})' /\ call'[p].at = "endpoint"
      BY <2>2 DEF In
    <3>2. /\ call'[p].pid = call[p].pid
          /\ ReadMetadata(p) /\ call'[p].seen = config[call[p].name] /\ call'[p].seen \in Metadata
      <4>1. /\ call'[p].pid = call[p].pid
            /\ ReadMetadata(p) /\ call'[p].seen = config[call[p].name]
        BY <1>0, <3>1, Saving
      <4> QED BY <1>0, <2>2, <4>1 DEF ReadMetadata, Abandon, In, TypeOK
    <3> QED BY <3>2 DEF Names, SavesAt, ReadMetadata, At, In
  <2>3. call'[p] # Idle => call'[p].name \in Name
    BY <1>0, <1>n DEF Follows
  <2> QED BY <2>1, <2>2, <2>3 DEF SavesAt, In
<1>3. ASSUME NEW q \in Proc \ {p}
      PROVE  SavesAt(q)'
  <2>1. call'[q] = call[q] /\ (In(q, {"endpoint"})' => In(q, {"endpoint"}))
    BY <1>0 DEF Follows, In
  <2>2. ASSUME In(q, {"apply", "connect", "endpoint"}), config'[call[q].name] \in Metadata
        PROVE  config'[call[q].name].pid \in {0, call[q].pid}
    <3>1. call[q].name \in Name
      BY <1>0, <2>2, CallOf DEF In
    <3>2. CASE config'[call[q].name] = config[call[q].name]
      BY <2>2, <3>2 DEF Names, SavesAt
    <3>3. CASE config'[call[q].name] # config[call[q].name]
      <4>1. call[q].name = call[p].name /\ (CreateMetadata(p) \/ SaveEndpoint(p) \/
                                            (SaveStopped(p) /\ config'[call[q].name].pid = 0))
        BY <1>0, <2>2, <3>1, <3>3, Writes
      <4>2. ~(CreateMetadata(p) \/ SaveEndpoint(p))
        <5>1. CreateMetadata(p) \/ SaveEndpoint(p) => In(p, RunLabel)
          BY DEF CreateMetadata, SaveEndpoint, At, In, RunLabel
        <5>2. In(q, RunLabel)
          BY <2>2 DEF In, RunLabel
        <5> QED BY <4>1, <5>1, <5>2 DEF Inv, OneRun
      <4> QED BY <4>1, <4>2
    <3> QED BY <3>2, <3>3
  <2> QED BY <2>1, <2>2 DEF SavesAt, In, Names
<1> QED BY <1>1, <1>2, <1>3 DEF Names, Named

\* Nobody else makes a container, a record or one who saves it.
LEMMA NamesOther ==
  ASSUME Inv, Names, \/ \E p \in Proc : Begin(p)
                     \/ \E i \in Pid : Exit(i) \/ Host(i)
                     \/ UNCHANGED vars
  PROVE  Names' /\ \A i \in Pid : Alive(i)' => Alive(i) /\ process'[i].name = process[i].name
<1>0. TypeOK
  BY DEF Inv
<1>1. config' = config
  BY DEF Begin, StopContainer, ReadForRemoval, Run, Exit, Host, vars, hostVars
<1>2. ASSUME NEW i \in Pid, Alive(i)'
      PROVE  Alive(i) /\ process'[i].name = process[i].name
  <2>1. CASE process' = process
    BY <1>2, <2>1 DEF Alive, Container
  <2>2. ASSUME NEW j \in Pid, Exit(j)
        PROVE  process'[i] = process[i]
    <3>1. PICK ok \in BOOLEAN : process' = Ended(j, ok)
      BY <2>2 DEF Exit
    <3>2. CASE i = j
      <4>1. process[j] \in Process
        BY <1>0, <2>2 DEF Exit, TypeOK, Alive, Container
      <4>2. process'[j] = Free \/ process'[j] = [process[j] EXCEPT !.phase = "exited", !.ok = ok]
        BY <1>0, <3>1 DEF Ended, TypeOK
      <4>3. [process[j] EXCEPT !.phase = "exited", !.ok = ok].phase = "exited"
        BY <4>1 DEF Process
      <4> QED BY <1>2, <3>2, <4>2, <4>3 DEF Alive, Container
    <3>3. CASE i # j
      BY <1>0, <3>1, <3>3 DEF Ended, TypeOK
    <3> QED BY <3>2, <3>3
  <2>3. ASSUME NEW j \in Pid, Host(j)
        PROVE  process'[i] = process[i]
    BY <1>0, <1>2, <2>3 DEF Host, TypeOK, Alive, Container
  <2> QED BY <1>2, <2>1, <2>2, <2>3 DEF Begin, StopContainer, ReadForRemoval, Run, vars, hostVars, Alive, Container
<1>3. \A n \in Name : Named(n)'
  BY <1>1, <1>2 DEF Names, Named, Of
<1>4. ASSUME NEW q \in Proc
      PROVE  SavesAt(q)'
  <2>1. CASE call'[q] = call[q]
    BY <1>1, <2>1 DEF Names, SavesAt, In
  <2>2. CASE call'[q].at \in {"layers", "kill", "rm"}
    BY <2>2 DEF SavesAt, In
  <2>3. ASSUME NEW p \in Proc, Begin(p)
        PROVE  call'[q] = call[q] \/ call'[q].at \in {"layers", "kill", "rm"}
    BY <1>0, <2>3 DEF Begin, StopContainer, ReadForRemoval, Run, Begun, TypeOK
  <2> QED BY <2>1, <2>2, <2>3 DEF Exit, Host, vars
<1> QED BY <1>2, <1>3, <1>4 DEF Names

\* A container keeps its name for as long as it is alive.
LEMMA LivesOn ==
  ASSUME Inv, Names, [Next]_vars, NEW i \in Pid, Alive(i), Alive(i)'
  PROVE  process'[i].name = process[i].name
<1>1. ASSUME NEW p \in Proc, Step(p) \/ Quit(p)
      PROVE  process'[i].name = process[i].name
  BY <1>1, StepProcesses DEF Alive, Container
<1> QED BY <1>1, NamesOther DEF Next

\* In every reachable state, the identifiers are right.
LEMMA NamesStay == Spec => []Names
<1>1. Init => Names
  BY MarkAssumption DEF Init, Names, Named, SavesAt, In
<1>2. Inv /\ Names /\ [Next]_vars => Names'
  BY NamesStep, NamesOther DEF Next
<1> QED BY <1>1, <1>2, Invariant, PTL DEF Spec

-----------------------------------------------------------------------------
\* The container of an exec whose process has lived since.
Lived(r) ==
  (Reads(r, "envs") \/ Reads(r, "enter")) /\ reader[r].lived =>
    /\ reader[r].pid # 0 /\ Of(reader[r].pid, reader[r].name) /\ reader[r].inside
    /\ Reads(r, "enter") => reader[r].env = reader[r].name

\* What passes by an exec is the death of its process.
LEMMA LivedPasses ==
  ASSUME KTypeOK, Inv, Names, Beside, NEW r \in Reader, Lived(r)
  PROVE  Lived(r)'
<1>1. reader'[r] = Passing(r)
  BY DEF Beside, Watched
<1>2. ASSUME (Reads(r, "envs") \/ Reads(r, "enter"))', reader'[r].lived
      PROVE  Lived(r)'
  <2> DEFINE e == reader[r]
             i == e.pid
             l == e.lived /\ process'[i] \notin {Free, Foreign} /\ process'[i].phase # "exited"
  <2>0. e \in ExecState \cup ListState \cup {Idle}
    BY DEF KTypeOK
  <2>1. e # Idle /\ e.at \in {"envs", "enter"}
    <3>1. e # Idle
      BY <1>1, <1>2 DEF Passing, Reads
    <3>2. CASE e.at \notin {"envs", "enter"}
      <4>1. e \in ListState
        BY <2>0, <3>1, <3>2 DEF ExecState
      <4>2. reader'[r].at = e.at
        BY <1>1, <3>1, <3>2, <4>1 DEF Passing, ListState
      <4> QED BY <1>2, <3>2, <4>2 DEF Reads
    <3> QED BY <3>1, <3>2
  <2>2. e \in ExecState
    BY <2>0, <2>1 DEF ListState
  <2>3. reader'[r] = [e EXCEPT !.lived = l]
    BY <1>1, <2>1 DEF Passing
  <2>4. /\ reader'[r].at = e.at /\ reader'[r].name = e.name /\ reader'[r].pid = i
        /\ reader'[r].inside = e.inside /\ reader'[r].env = e.env /\ l
    BY <1>2, <2>2, <2>3 DEF ExecState
  <2>5. i # 0 /\ Of(i, e.name) /\ e.inside /\ (e.at = "enter" => e.env = e.name)
    BY <2>1, <2>4 DEF Lived, Reads
  <2>6. i \in Pid
    BY <2>2, <2>5 DEF ExecState
  <2>7. process'[i] \notin {Free, Foreign} /\ process'[i].phase # "exited"
    BY <2>4
  <2>8. ASSUME NEW j \in Pid, j = i
        PROVE  process'[j].name = e.name /\ Alive(j)'
    <3>1. Alive(j)'
      BY <2>7, <2>8 DEF Alive, Container
    <3> QED BY <2>5, <2>8, <3>1, LivesOn DEF Of, Beside
  <2> HIDE DEF l
  <2>9. Of(reader[r].pid, reader[r].name)'
    BY <2>4, <2>6, <2>8 DEF Of
  <2> QED BY <2>4, <2>5, <2>9 DEF Lived, Reads
<1> QED BY <1>2 DEF Lived

\* Every step of an exec takes it into the container that has lived.
LEMMA LivedReads ==
  ASSUME KTypeOK, Inv, Names, NEW q \in Reader, Reading(q), UNCHANGED <<vars, dirs>>,
         NEW r \in Reader, Lived(r)
  PROVE  Lived(r)'
<1> USE DEF Reads
<1>0. /\ reader[q] \in ExecState \cup ListState \cup {Idle} /\ TypeOK
      /\ reader \in [Reader -> ExecState \cup ListState \cup {Idle}]
      /\ process' = process
  BY DEF KTypeOK, vars, hostVars
<1>1. CASE reader'[r] = reader[r]
  BY <1>0, <1>1 DEF Lived, Of, Alive, Container
<1>2. CASE reader'[r] = Idle
  BY <1>2 DEF Lived
<1>3. CASE reader'[r].at \notin {"envs", "enter"}
  BY <1>3 DEF Lived
<1>4. ASSUME NEW n \in Name, ExecContainer(r, n)
      PROVE  Lived(r)'
  <2>1. reader'[r] = [at |-> "envs", name |-> n, pid |-> config[n].pid, lived |-> Behind(config[n].pid) = n,
                      env |-> Machine, joined |-> 0, inside |-> TRUE]
    BY <1>0, <1>4 DEF ExecContainer
  <2>2. Behind(config[n].pid) = n => config[n].pid # 0 /\ Of(config[n].pid, n)
    BY MachineAssumption DEF Behind, Of
  <2>3. /\ reader'[r].at = "envs" /\ reader'[r].name = n /\ reader'[r].pid = config[n].pid
        /\ reader'[r].inside /\ reader'[r].lived = (Behind(config[n].pid) = n)
    BY <2>1
  <2> QED BY <1>0, <2>2, <2>3 DEF Lived, Of, Alive, Container
<1>5. CASE GetEnvs(r)
  <2> DEFINE e == reader[r]
             i == Recorded(e.name)
  <2>1. e \in ExecState
    BY <1>0, <1>5 DEF GetEnvs, KTypeOK, ListState
  <2>2. reader'[r] = [e EXCEPT !.at = "enter", !.env = Behind(i)]
    BY <1>0, <1>5 DEF GetEnvs
  <2>3. /\ reader'[r].at = "enter" /\ reader'[r].env = Behind(i) /\ reader'[r].name = e.name
        /\ reader'[r].pid = e.pid /\ reader'[r].inside = e.inside /\ reader'[r].lived = e.lived
    BY <2>1, <2>2 DEF ExecState
  <2>4. ASSUME e.lived
        PROVE  Behind(i) = e.name
    <3>1. /\ e.pid # 0 /\ Of(e.pid, e.name) /\ e.pid \in Pid /\ e.name \in Name
      BY <1>5, <2>1, <2>4 DEF Lived, GetEnvs, ExecState
    <3>2. i = e.pid
      BY <1>5, <3>1 DEF GetEnvs, HasProc, Recorded, Names, Named
    <3> QED BY <3>1, <3>2 DEF Behind, Of
  <2> QED BY <1>0, <1>5, <2>3, <2>4 DEF Lived, GetEnvs, Of, Alive, Container
<1>6. CASE Join(r)
  <2> DEFINE e == reader[r]
             b == e.inside /\ Behind(e.pid) = e.name /\ HostProc(e)
  <2>1. e \in ExecState
    BY <1>0, <1>6 DEF Join, KTypeOK, ListState
  <2>2. reader'[r] = [e EXCEPT !.joined = @ + 1, !.inside = b]
    BY <1>0, <1>6 DEF Join
  <2>3. /\ reader'[r].at = e.at /\ reader'[r].env = e.env /\ reader'[r].name = e.name
        /\ reader'[r].pid = e.pid /\ reader'[r].inside = b /\ reader'[r].lived = e.lived
    BY <2>1, <2>2 DEF ExecState
  <2>4. HostProc(e)
    BY <1>6, <2>1 DEF HostProc, Join, Namespaces, ExecState
  <2>5. e.lived => b
    BY <1>6, <2>4 DEF Lived, Join, Behind, Of
  <2> HIDE DEF b
  <2> QED BY <1>0, <1>6, <2>3, <2>5 DEF Lived, Join, Of, Alive, Container
<1>7. CASE q # r
  BY <1>0, <1>1, <1>7 DEF Reading, ReaderStep, GetEnvs, GetEnvsFails, Join, EndCommand, EndList, Finish,
     ListNext, ListFails, ListContainers, ExecContainer
<1>8. CASE GetEnvsFails(r) \/ EndCommand(r) \/ EndList(r)
  BY <1>0, <1>2, <1>8 DEF GetEnvsFails, EndCommand, EndList, Finish
<1>9. CASE ListContainers(r) \/ (Reads(r, "list") /\ (ListNext(r) \/ ListFails(r)))
  <2>1. ListContainers(r) => reader'[r].at = "list"
    BY <1>0 DEF ListContainers
  <2>2. ASSUME Reads(r, "list"), ListNext(r)
        PROVE  reader'[r].at = "list"
    <3>1. reader[r] \in ListState
      BY <1>0, <2>2 DEF KTypeOK, ExecState
    <3>2. PICK n \in reader[r].todo : reader' = [reader EXCEPT ![r].todo = @ \ {n}]
      BY <2>2 DEF ListNext
    <3>3. reader'[r] = [reader[r] EXCEPT !.todo = @ \ {n}]
      BY <1>0, <3>2
    <3> QED BY <2>2, <3>1, <3>3 DEF ListState
  <2>3. ASSUME Reads(r, "list"), ListFails(r)
        PROVE  reader'[r].at = "failed"
    <3>1. reader[r] \in ListState
      BY <1>0, <2>3 DEF KTypeOK, ExecState
    <3>2. PICK n \in reader[r].todo : reader' = [reader EXCEPT ![r].at = "failed", ![r].name = n]
      BY <2>3 DEF ListFails
    <3>3. reader'[r] = [reader[r] EXCEPT !.at = "failed", !.name = n]
      BY <1>0, <3>2
    <3> QED BY <3>1, <3>3 DEF ListState
  <2> QED BY <1>3, <1>9, <2>1, <2>2, <2>3
<1> QED BY <1>4, <1>5, <1>6, <1>7, <1>8, <1>9 DEF Reading, ReaderStep

(***************************************************************************)
(* exec enters the container it was asked for, all of it, if the process   *)
(* whose identifier it read lives for as long as it takes.                 *)
(***************************************************************************)
THEOREM ExecEnters == KSpec => []InsideIfLived
<1> DEFINE L == \A r \in Reader : Lived(r)
<1>1. KInit => L
  BY DEF KInit, Lived, Reads
<1>2. KTypeOK /\ Inv /\ Names /\ L /\ [KNext]_kvars => L'
  <2> SUFFICES ASSUME KTypeOK, Inv, Names, L, [KNext]_kvars, NEW r \in Reader
               PROVE  Lived(r)'
    OBVIOUS
  <2>1. CASE UNCHANGED kvars
    BY <2>1 DEF kvars, vars, hostVars, Lived, Reads, Of, Alive, Container
  <2> QED BY <2>1, LivedPasses, LivedReads, Steps
<1>3. L => InsideIfLived
  BY DEF InsideIfLived, RunsCommand, Lived
<1> QED BY <1>1, <1>2, <1>3, ReadersTypeCorrect, ReadersOnlyRead, Invariant, NamesStay, PTL DEF KSpec

-----------------------------------------------------------------------------
\* A name of which something is there, but no record that can be read.
Lost(n) == config[n] \notin Metadata /\ (n \in dirs \/ config[n] # Absent)

\* Either its run has not come that far, or something was cut short.
Excused(n) ==
  \/ n \in abandoned
  \/ \E p \in Proc : In(p, Starting \cup {"record"}) /\ call[p].name = n
Excuses == \A n \in Name : Lost(n) => Excused(n)

\* How a directory comes to be there without a record.
LEMMA LostBefore ==
  ASSUME TypeOK, Beside, NEW n \in Name, Lost(n)'
  PROVE  \/ Lost(n)
         \/ config'[n] = Torn /\ config'[n] # config[n]
         \/ \E p \in Proc : Start(p) /\ call[p].name = n
<1>1. CASE config'[n] = Absent /\ config[n] # Absent
  <2>1. n \in dirs'
    BY <1>1 DEF Lost
  <2>2. CASE dirs' = Dirs
    BY <1>1, <2>1, <2>2 DEF Dirs
  <2>3. ASSUME NEW p \in Proc, Start(p)
        PROVE  FALSE
    BY <1>1, <2>3 DEF Start
  <2> QED BY <2>2, <2>3 DEF Beside
<1>2. CASE config'[n] = config[n]
  BY <1>2 DEF Beside, Dirs, Lost
<1>3. CASE config'[n] # config[n] /\ config'[n] # Absent
  <2>1. config'[n] = Torn
    <3>1. TypeOK'
      BY OtherTypeOK DEF Beside, Next
    <3> QED BY <1>3, <3>1 DEF Lost, TypeOK
  <2> QED BY <1>3, <2>1
<1> QED BY <1>1, <1>2, <1>3

\* A command that is cut short says so; one that has not saved its record goes on to.
LEMMA ExcusedStep ==
  ASSUME TypeOK, NEW p \in Proc, Step(p) \/ Quit(p), NEW n \in Name
  PROVE  /\ config'[n] = Torn /\ config'[n] # config[n] => n \in abandoned'
         /\ In(p, Starting \cup {"record"}) /\ call[p].name = n =>
              Excused(n)' \/ config'[n] \in Metadata
         /\ abandoned \subseteq abandoned'
<1> USE DEF At
<1>0. Follows(p)
  BY StepFollows
<1>1. call[p] \in Call /\ call[p].name \in Name /\ call[p].at \in Label
  BY <1>0, CallOf DEF Follows
<1>2. Abandon(p) => call[p].name \in abandoned' /\ abandoned \subseteq abandoned'
  BY DEF Abandon
<1>3. abandoned \subseteq abandoned'
  BY <1>2 DEF Step, RunStep, CreateWorkspace, SetLimit, Start, CreateMetadata, Apply, ReadMetadata, SaveEndpoint,
     ConnectFails, SendInitArgs, Undo, Leave, RemoveMetadata, DestroyCgroup, DeferredDeleteWorkspace, Kill,
     SaveStopped, Save, DisconnectFails, RemoveContainer, RemoveLayers, RemoveRecord, Quit, Continue, Done,
     UmountFails, hostVars
<1>4. ASSUME config'[n] = Torn, config'[n] # config[n]
      PROVE  n \in abandoned'
  <2>1. n = call[p].name
    BY <1>4, OwnRecord
  <2>2. CASE CreateMetadata(p) \/ SaveEndpoint(p) \/ SaveStopped(p)
    <3>1. CASE Abandon(p)
      BY <1>2, <2>1, <3>1
    <3>2. CASE ~Abandon(p)
      <4>1. [pid |-> 0, status |-> "stopped"] \in Metadata
        BY DEF Metadata
      <4>2. CreateMetadata(p) => [pid |-> call[p].pid, status |-> "running"] \in Metadata
        BY <1>1 DEF Metadata, Call
      <4>3. SaveEndpoint(p) => call[p].seen \in Metadata \cup {Absent}
        BY <1>1 DEF Call
      <4> QED BY <1>1, <1>4, <2>1, <2>2, <3>2, <4>1, <4>2, <4>3, MarkAssumption
           DEF CreateMetadata, SaveEndpoint, SaveStopped, Save, TypeOK
    <3> QED BY <3>1, <3>2
  <2>3. CASE RemoveMetadata(p) \/ RemoveRecord(p)
    BY <1>4, <2>1, <2>3, MarkAssumption DEF RemoveMetadata, RemoveRecord, TypeOK
  <2>4. CASE ~(CreateMetadata(p) \/ SaveEndpoint(p) \/ SaveStopped(p) \/ RemoveMetadata(p) \/ RemoveRecord(p))
    BY <1>4, <2>4 DEF Step, RunStep, CreateWorkspace, SetLimit, Start, Apply, ReadMetadata, ConnectFails,
       SendInitArgs, Undo, Leave, DestroyCgroup, DeferredDeleteWorkspace, Kill, DisconnectFails, RemoveContainer,
       RemoveLayers, Quit, hostVars
  <2> QED BY <2>2, <2>3, <2>4
<1>5. ASSUME In(p, Starting \cup {"record"}), call[p].name = n
      PROVE  Excused(n)' \/ config'[n] \in Metadata
  <2>1. CASE Abandon(p)
    BY <1>2, <1>5, <2>1 DEF Excused
  <2>2. ASSUME In(p, Starting \cup {"record"})', call'[p].name = n
        PROVE  Excused(n)'
    BY <2>2 DEF Excused
  <2>3. ASSUME NEW label \in {"limit", "start"}, Goto(p, label)
        PROVE  Excused(n)'
    <3>1. call'[p] = [call[p] EXCEPT !.at = label]
      BY <2>3 DEF Goto, TypeOK
    <3>2. call'[p].at = label
      BY <1>1, <3>1 DEF Call
    <3>3. call'[p] # Idle
      <4>1. [call[p] EXCEPT !.at = label] \in Call
        BY <1>1, <2>3 DEF Call, RunLabel
      <4> QED BY <3>1, <4>1, MarkAssumption
    <3> QED BY <1>0, <1>5, <2>2, <3>2, <3>3 DEF Follows, In, Starting
  <2>4. CASE CreateWorkspace(p) \/ SetLimit(p)
    BY <2>1, <2>3, <2>4 DEF CreateWorkspace, SetLimit, Continue
  <2>5. CASE Start(p) /\ ~Abandon(p)
    <3>1. PICK i \in Pid : call' = [call EXCEPT ![p].at = "record", ![p].pid = i]
      BY <2>5 DEF Start
    <3>2. call'[p] = [call[p] EXCEPT !.at = "record", !.pid = i]
      BY <3>1 DEF TypeOK
    <3>3. [call[p] EXCEPT !.at = "record", !.pid = i] \in Call
      BY <1>1 DEF Call, RunLabel
    <3>4. call'[p].at = "record" /\ call'[p] # Idle
      BY <1>1, <3>2, <3>3, MarkAssumption DEF Call
    <3> QED BY <1>0, <1>5, <2>2, <3>4 DEF Follows, In
  <2>6. CASE CreateMetadata(p)
    <3>1. [pid |-> call[p].pid, status |-> "running"] \in Metadata
      BY <1>1 DEF Metadata, Call
    <3> QED BY <1>1, <1>5, <2>1, <2>6, <3>1 DEF CreateMetadata, Save, TypeOK
  <2>7. CASE Quit(p)
    BY <2>1, <2>7 DEF Quit
  <2>8. CreateWorkspace(p) \/ SetLimit(p) \/ Start(p) \/ CreateMetadata(p) \/ Quit(p)
    BY <1>5 DEF Step, RunStep, Apply, ReadMetadata, SaveEndpoint, ConnectFails, SendInitArgs, Undo, Leave, Waited,
       RemoveMetadata, DestroyCgroup, DeferredDeleteWorkspace, Kill, SaveStopped, DisconnectFails, RemoveContainer,
       RemoveLayers, RemoveRecord, In, Starting
  <2> QED BY <2>1, <2>4, <2>5, <2>6, <2>7, <2>8
<1> QED BY <1>3, <1>4, <1>5

\* What begins is excused by its run, and nothing else loses a record.
LEMMA ExcusedBegins ==
  ASSUME TypeOK, NEW n \in Name, Excused(n),
         \/ \E p \in Proc : Begin(p)
         \/ \E i \in Pid : Exit(i) \/ Host(i)
  PROVE  Excused(n)'
<1>1. ASSUME NEW p \in Proc, NEW m \in Name,
             \/ StopContainer(p, m) \/ ReadForRemoval(p, m)
             \/ \E detach, network \in BOOLEAN : Run(p, m, detach, network)
      PROVE  Excused(n)'
  <2>1. call[p] = Idle /\ \A q \in Proc \ {p} : call'[q] = call[q]
    BY <1>1 DEF StopContainer, ReadForRemoval, Run, Begun, TypeOK
  <2>2. abandoned' = abandoned \/ (In(p, Starting)' /\ call'[p].name = m /\ abandoned' = abandoned \ {m})
    <3>1. ASSUME NEW detach \in BOOLEAN, NEW network \in BOOLEAN, Run(p, m, detach, network)
          PROVE  In(p, Starting)' /\ call'[p].name = m /\ abandoned' = abandoned \ {m}
      <4> DEFINE c == [at |-> "layers", name |-> m, pid |-> 0, detach |-> detach,
                       network |-> network, seen |-> Absent]
      <4>1. c \in Call
        BY DEF Call, RunLabel
      <4>2. call'[p] = c /\ abandoned' = abandoned \ {m}
        BY <3>1 DEF Run, TypeOK
      <4> QED BY <4>1, <4>2, MarkAssumption DEF In, Starting
    <3> QED BY <1>1, <3>1 DEF StopContainer, ReadForRemoval
  <2> QED BY <2>1, <2>2 DEF Excused, In
<1>2. ASSUME NEW i \in Pid, Exit(i) \/ Host(i)
      PROVE  Excused(n)'
  BY <1>2 DEF Exit, Host, Excused, In
<1> QED BY <1>1, <1>2 DEF Begin

\* A directory without a record stays excused.
LEMMA ExcusesStay ==
  ASSUME TypeOK, Excuses, Beside
  PROVE  Excuses'
<1> SUFFICES ASSUME NEW n \in Name, Lost(n)'
             PROVE  Excused(n)'
  BY DEF Excuses
<1>0. config'[n] \notin Metadata
  BY DEF Lost
<1>1. ASSUME NEW p \in Proc, Step(p) \/ Quit(p)
      PROVE  Excused(n)'
  <2>1. CASE config'[n] = Torn /\ config'[n] # config[n]
    BY <1>1, <2>1, ExcusedStep DEF Excused
  <2>2. CASE Lost(n) /\ ~(In(p, Starting \cup {"record"}) /\ call[p].name = n)
    <3>1. Excused(n) /\ Follows(p) /\ abandoned \subseteq abandoned'
      BY <1>1, <2>2, ExcusedStep, StepFollows DEF Excuses
    <3> QED BY <2>2, <3>1 DEF Excused, Follows, In
  <2>3. CASE In(p, Starting \cup {"record"}) /\ call[p].name = n
    BY <1>0, <1>1, <2>3, ExcusedStep
  <2>4. ASSUME NEW q \in Proc, Start(q), call[q].name = n, q # p
        PROVE  Excused(n)'
    <3>1. In(q, Starting) /\ call'[q] = call[q]
      BY <1>1, <2>4, StepFollows DEF Start, At, In, Starting, Follows
    <3> QED BY <2>4, <3>1 DEF Excused, In
  <2>5. ASSUME Start(p), call[p].name = n
        PROVE  Excused(n)'
    BY <2>3, <2>5 DEF Start, At, In, Starting
  <2> QED BY <2>1, <2>2, <2>3, <2>4, <2>5, LostBefore
<1>2. CASE (\E p \in Proc : Begin(p)) \/ (\E i \in Pid : Exit(i) \/ Host(i))
  <2>1. CASE \E p \in Proc : Start(p)
    BY <1>1, <2>1 DEF Step, RunStep
  <2>2. CASE ~\E p \in Proc : Start(p)
    <3>1. config' = config
      BY <1>2 DEF Begin, StopContainer, ReadForRemoval, Run, Exit, Host, hostVars
    <3>2. Excused(n)
      BY <2>2, <3>1, LostBefore DEF Excuses
    <3> QED BY <1>2, <3>2, ExcusedBegins
  <2> QED BY <2>1, <2>2
<1> QED BY <1>1, <1>2 DEF Beside, Next

\* A ps has yet to read names that rest, and fails at one that was cut short.
Listed(r) ==
  /\ Reads(r, "list") => \A n \in reader[r].todo \cap reader[r].calm : n \in dirs /\ Resting(n)
  /\ Reads(r, "failed") /\ reader[r].name \in reader[r].calm => reader[r].name \in abandoned

\* What rests keeps its record, and what was cut short stays so until it is run again.
LEMMA RestingStays ==
  ASSUME TypeOK, Beside, NEW n \in Name
  PROVE  /\ Resting(n) => config'[n] = config[n]
         /\ n \in abandoned /\ n \notin abandoned' => \E p \in Proc : Busy(p, n)'
<1>1. ASSUME NEW p \in Proc, Step(p) \/ Quit(p)
      PROVE  (Resting(n) => config'[n] = config[n]) /\ abandoned \subseteq abandoned'
  <2>1. Resting(n) => n # call[p].name
    BY <1>1, StepFollows DEF Follows, Resting, Busy
  <2> QED BY <1>1, <2>1, OwnRecord, ExcusedStep
<1>2. ASSUME NEW p \in Proc, NEW m \in Name, NEW detach \in BOOLEAN, NEW network \in BOOLEAN,
             Run(p, m, detach, network)
      PROVE  abandoned' = abandoned \ {m} /\ Busy(p, m)'
  <2> DEFINE c == [at |-> "layers", name |-> m, pid |-> 0, detach |-> detach,
                   network |-> network, seen |-> Absent]
  <2>1. c \in Call
    BY DEF Call, RunLabel
  <2>2. call'[p] = c /\ abandoned' = abandoned \ {m}
    BY <1>2 DEF Run, TypeOK
  <2> QED BY <2>1, <2>2, MarkAssumption DEF Busy
<1>3. ASSUME NEW p \in Proc, Begin(p)
      PROVE  /\ config' = config
             /\ n \in abandoned /\ n \notin abandoned' => \E q \in Proc : Busy(q, n)'
  <2>1. config' = config
    BY <1>3 DEF Begin, StopContainer, ReadForRemoval, Run, hostVars
  <2>2. ASSUME n \in abandoned, n \notin abandoned'
        PROVE  \E q \in Proc : Busy(q, n)'
    BY <1>2, <1>3, <2>2 DEF Begin, StopContainer, ReadForRemoval
  <2> QED BY <2>1, <2>2
<1>4. ASSUME NEW i \in Pid, Exit(i) \/ Host(i)
      PROVE  config' = config /\ abandoned' = abandoned
  BY <1>4 DEF Exit, Host
<1> QED BY <1>1, <1>3, <1>4 DEF Beside, Next

\* What passes by a ps is who works on the names.
LEMMA ListedPasses ==
  ASSUME KTypeOK, Beside, NEW r \in Reader, Listed(r)
  PROVE  Listed(r)'
<1> DEFINE e == reader[r]
           c == {n \in e.calm : ~\E p \in Proc : call'[p] # Idle /\ call'[p].name = n}
<1>0. /\ TypeOK /\ e \in ExecState \cup ListState \cup {Idle} /\ reader'[r] = Passing(r)
  BY DEF KTypeOK, Beside, Watched
<1>1. CASE e = Idle
  BY <1>0, <1>1 DEF Passing, Listed, Reads
<1>2. CASE e # Idle /\ e.at \in {"envs", "enter"}
  <2>1. e \in ExecState
    BY <1>0, <1>2 DEF ListState
  <2>2. reader'[r].at = e.at
    BY <1>0, <1>2, <2>1 DEF Passing, ExecState
  <2> QED BY <1>2, <2>2 DEF Listed, Reads
<1>3. CASE e # Idle /\ e.at \notin {"envs", "enter"}
  <2>1. e \in ListState
    BY <1>0, <1>3 DEF ExecState
  <2>2. reader'[r] = [e EXCEPT !.calm = c]
    BY <1>0, <1>3 DEF Passing
  <2>3. /\ reader'[r].at = e.at /\ reader'[r].name = e.name /\ reader'[r].todo = e.todo
        /\ reader'[r].calm = c
    BY <2>1, <2>2 DEF ListState
  <2>4. ASSUME NEW n \in Name, n \in c
        PROVE  n \in e.calm /\ \A p \in Proc : ~Busy(p, n)'
    BY <2>4 DEF Busy
  <2>5. e.todo \subseteq Name /\ c \subseteq Name
    BY <2>1 DEF ListState
  <2> HIDE DEF c
  <2>6. ASSUME Reads(r, "list")', NEW n \in e.todo \cap c
        PROVE  n \in dirs' /\ \A p \in Proc : ~Busy(p, n)'
    <3>1. n \in Name /\ n \in e.calm /\ Reads(r, "list")
      BY <1>3, <2>3, <2>4, <2>5, <2>6 DEF Reads
    <3>2. n \in dirs /\ Resting(n)
      BY <2>6, <3>1 DEF Listed
    <3> QED BY <1>0, <2>4, <2>6, <3>1, <3>2, RestingStays, DirStays
  <2>7. ASSUME Reads(r, "failed")', e.name \in c
        PROVE  e.name \in abandoned'
    <3>1. Reads(r, "failed") /\ e.name \in e.calm /\ e.name \in Name
      BY <1>3, <2>3, <2>4, <2>5, <2>7 DEF Reads
    <3>2. e.name \in abandoned
      BY <3>1 DEF Listed
    <3>3. ASSUME NEW n \in Name, n = e.name
          PROVE  n \in abandoned'
      BY <1>0, <2>4, <2>7, <3>2, <3>3, RestingStays
    <3> QED BY <3>1, <3>3
  <2> QED BY <2>3, <2>6, <2>7 DEF Listed, Resting
<1> QED BY <1>1, <1>2, <1>3

\* A ps reads one name after the other.
LEMMA ListedReads ==
  ASSUME KTypeOK, Excuses, NEW q \in Reader, Reading(q), UNCHANGED <<vars, dirs>>,
         NEW r \in Reader, Listed(r)
  PROVE  Listed(r)'
<1> USE DEF Reads
<1>0. /\ reader[r] \in ExecState \cup ListState \cup {Idle}
      /\ reader \in [Reader -> ExecState \cup ListState \cup {Idle}]
      /\ call' = call /\ abandoned' = abandoned /\ dirs' = dirs
  BY DEF KTypeOK, vars, hostVars
<1>1. CASE reader'[r] = reader[r]
  BY <1>0, <1>1 DEF Listed, Resting, Busy
<1>2. CASE reader'[r] = Idle
  BY <1>2 DEF Listed
<1>3. CASE reader'[r].at \in {"envs", "enter"}
  BY <1>3 DEF Listed
<1>4. CASE q # r
  BY <1>0, <1>1, <1>4 DEF Reading, ReaderStep, GetEnvs, GetEnvsFails, Join, EndCommand, EndList, Finish,
     ListNext, ListFails, ListContainers, ExecContainer
<1>5. CASE GetEnvsFails(r) \/ EndCommand(r) \/ EndList(r)
  BY <1>0, <1>2, <1>5 DEF GetEnvsFails, EndCommand, EndList, Finish
<1>6. ASSUME NEW n \in Name, ExecContainer(r, n)
      PROVE  Listed(r)'
  BY <1>0, <1>3, <1>6 DEF ExecContainer
<1>7. CASE GetEnvs(r)
  <2>1. reader[r] \in ExecState
    BY <1>0, <1>7 DEF GetEnvs, ListState
  <2>2. reader'[r] = [reader[r] EXCEPT !.at = "enter", !.env = Behind(Recorded(reader[r].name))]
    BY <1>0, <1>7 DEF GetEnvs
  <2> QED BY <1>3, <2>1, <2>2 DEF ExecState
<1>8. CASE Join(r)
  <2> DEFINE b == reader[r].inside /\ Behind(reader[r].pid) = reader[r].name /\ HostProc(reader[r])
  <2>1. reader[r] \in ExecState
    BY <1>0, <1>8 DEF Join, ListState
  <2>2. reader'[r] = [reader[r] EXCEPT !.joined = @ + 1, !.inside = b]
    BY <1>0, <1>8 DEF Join
  <2>3. reader'[r].at = "enter"
    BY <1>8, <2>1, <2>2 DEF ExecState, Join
  <2> QED BY <1>3, <2>3
<1>9. CASE ListContainers(r)
  <2>1. reader'[r] = [at |-> "list", name |-> Machine, todo |-> dirs,
                      calm |-> {n \in Name : ~\E p \in Proc : Busy(p, n)}]
    BY <1>0, <1>9 DEF ListContainers
  <2>2. /\ reader'[r].at = "list" /\ reader'[r].todo = dirs
        /\ reader'[r].calm = {n \in Name : ~\E p \in Proc : Busy(p, n)}
    BY <2>1
  <2> QED BY <1>0, <2>2 DEF Listed, Resting, Busy
<1>10. CASE Reads(r, "list") /\ ListNext(r)
  <2>1. reader[r] \in ListState
    BY <1>0, <1>10 DEF ExecState
  <2>2. PICK n \in reader[r].todo : reader' = [reader EXCEPT ![r].todo = @ \ {n}]
    BY <1>10 DEF ListNext
  <2>3. reader'[r] = [reader[r] EXCEPT !.todo = @ \ {n}]
    BY <1>0, <2>2
  <2>4. /\ reader'[r].at = "list" /\ reader'[r].todo \subseteq reader[r].todo
        /\ reader'[r].calm = reader[r].calm
    BY <1>10, <2>1, <2>3 DEF ListState
  <2> QED BY <1>0, <1>10, <2>4 DEF Listed, Resting, Busy
<1>11. CASE Reads(r, "list") /\ ListFails(r)
  <2>1. reader[r] \in ListState
    BY <1>0, <1>11 DEF ExecState
  <2>2. PICK n \in reader[r].todo : /\ config[n] \notin Metadata
                                    /\ reader' = [reader EXCEPT ![r].at = "failed", ![r].name = n]
    BY <1>11 DEF ListFails
  <2>3. reader'[r] = [reader[r] EXCEPT !.at = "failed", !.name = n]
    BY <1>0, <2>2
  <2>4. reader'[r].at = "failed" /\ reader'[r].name = n /\ reader'[r].calm = reader[r].calm /\ n \in Name
    BY <2>1, <2>3 DEF ListState
  <2>5. n \in reader[r].calm => n \in abandoned
    <3>1. n \in reader[r].calm => n \in dirs /\ Resting(n)
      BY <1>11 DEF Listed
    <3> QED BY <2>2, <2>4, <3>1 DEF Excuses, Lost, Excused, Resting, Busy, In
  <2> QED BY <1>0, <2>4, <2>5 DEF Listed
<1> QED BY <1>4, <1>5, <1>6, <1>7, <1>8, <1>9, <1>10, <1>11 DEF Reading, ReaderStep

(***************************************************************************)
(* ps never fails without a reason: the name it fails at was cut short, or *)
(* some command was at work on it since ps began.                          *)
(***************************************************************************)
THEOREM PsFailsForAReason == KSpec => []ListFailsForAReason
<1> DEFINE L == \A r \in Reader : Listed(r)
<1>1. KInit => Excuses /\ L
  BY DEF KInit, Init, Excuses, Lost, Listed, Reads
<1>2. KTypeOK /\ Excuses /\ L /\ [KNext]_kvars => Excuses' /\ L'
  <2> SUFFICES ASSUME KTypeOK, Excuses, L, [KNext]_kvars
               PROVE  Excuses' /\ L'
    OBVIOUS
  <2>1. UNCHANGED <<vars, dirs>> => Excuses'
    BY DEF vars, hostVars, Excuses, Lost, Excused, In
  <2>2. UNCHANGED kvars => L'
    BY DEF kvars, vars, hostVars, Listed, Reads, Resting, Busy
  <2>3. CASE Beside
    BY <2>3, ExcusesStay, ListedPasses DEF KTypeOK
  <2>4. ASSUME NEW r \in Reader, Reading(r), UNCHANGED <<vars, dirs>>
        PROVE  L'
    BY <2>4, ListedReads
  <2> QED BY <2>1, <2>2, <2>3, <2>4, Steps DEF kvars
<1>3. L => ListFailsForAReason
  BY DEF ListFailsForAReason, Listed
<1> QED BY <1>1, <1>2, <1>3, ReadersTypeCorrect, PTL DEF KSpec
=============================================================================

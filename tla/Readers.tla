------------------------------ MODULE Readers ------------------------------
(***************************************************************************)
(* The commands that change nothing but take several steps to read what    *)
(* run, stop and rm change meanwhile: exec (container.ExecContainer and    *)
(* the constructor of pkg/nsenter) and ps (container.ListContainers).      *)
(***************************************************************************)
EXTENDS Container, Sequences

CONSTANTS
  Reader,  \* exec and ps commands that run at the same time
  Machine     \* the host's own namespaces and environment

VARIABLES
  dirs,    \* names with a directory of metadata, in which the record may be missing
  reader   \* what each exec and ps is doing

kvars == <<vars, dirs, reader>>

\* Mutant: the mount namespace comes first.
MountFirst == <<"mnt", "ipc", "uts", "net", "pid">>

\* What nsenter joins, in its order.
Namespaces == <<"ipc", "uts", "net", "pid", "mnt">>
Whose == Name \cup {Machine}

\* joined: how many setns are done; inside: they all joined a namespace of the container;
\* lived: the process of the record has been the container's, and alive, since exec read of it.
ExecState ==
  [at : {"envs", "enter"}, name : Name, pid : Pid \cup {0}, lived : BOOLEAN,
   env : Whose, joined : 0..Len(Namespaces), inside : BOOLEAN]
\* calm: names no command was at work on since ps began.
ListState == [at : {"list", "failed"}, name : Name \cup {Machine}, todo : SUBSET Name, calm : SUBSET Name]

ASSUME MachineAssumption == Machine \notin Name

KTypeOK ==
  /\ TypeOK
  /\ dirs \subseteq Name
  /\ reader \in [Reader -> ExecState \cup ListState \cup {Idle}]

KInit == Init /\ dirs = {} /\ reader = [r \in Reader |-> Idle]

-----------------------------------------------------------------------------
Reads(r, at) == reader[r] # Idle /\ reader[r].at = at
Finish(r)    == reader' = [reader EXCEPT ![r] = Idle] /\ UNCHANGED <<vars, dirs>>

\* Whose namespaces and environment /proc shows for an identifier: the host's
\* for its processes; without the process nothing is joined and nothing added.
Behind(i) == IF i # 0 /\ Alive(i) THEN process[i].name ELSE Machine

ExecContainer(r, n) ==
  LET i == config[n].pid IN
  /\ reader[r] = Idle
  /\ config[n] \in Metadata
  /\ reader' = [reader EXCEPT ![r] =
       [at |-> "envs", name |-> n, pid |-> i, lived |-> Behind(i) = n, env |-> Machine,
        joined |-> 0, inside |-> TRUE]]
  /\ UNCHANGED <<vars, dirs>>

\* GetEnvsOfContainer reads the metadata again; there is no /proc/0.
Recorded(n) == IF config[n] \in Metadata THEN config[n].pid ELSE 0
HasProc(i)  == i # 0 /\ process[i] # Free

GetEnvs(r) ==
  LET i == Recorded(reader[r].name) IN
  /\ Reads(r, "envs") /\ HasProc(i)
  /\ reader' = [reader EXCEPT ![r].at = "enter", ![r].env = Behind(i)]
  /\ UNCHANGED <<vars, dirs>>

GetEnvsFails(r) ==
  /\ Reads(r, "envs") /\ ~HasProc(Recorded(reader[r].name))
  /\ Finish(r)

\* The paths it opens go through /proc, which in the container's mount namespace is another.
HostProc(e) == \A k \in 1..e.joined : Namespaces[k] # "mnt"

\* Mutant: one namespace more than there are.
JoinPast(r) ==
  LET e == reader[r] IN
  /\ Reads(r, "enter") /\ e.joined <= Len(Namespaces)
  /\ reader' = [reader EXCEPT ![r].joined = @ + 1,
                             ![r].inside = @ /\ Behind(e.pid) = e.name /\ HostProc(e)]
  /\ UNCHANGED <<vars, dirs>>

\* open and setns of the next namespace; a failure is only printed.
Join(r) ==
  LET e == reader[r] IN
  /\ Reads(r, "enter") /\ e.joined < Len(Namespaces)
  /\ reader' = [reader EXCEPT ![r].joined = @ + 1,
                             ![r].inside = @ /\ Behind(e.pid) = e.name /\ HostProc(e)]
  /\ UNCHANGED <<vars, dirs>>

\* system(my_docker_cmd), in whatever was joined.
RunsCommand(r) == Reads(r, "enter") /\ reader[r].joined = Len(Namespaces)
EndCommand(r)  == RunsCommand(r) /\ Finish(r)

-----------------------------------------------------------------------------
ListContainers(r) ==
  /\ reader[r] = Idle
  /\ reader' = [reader EXCEPT ![r] =
       [at |-> "list", name |-> Machine, todo |-> dirs,
        calm |-> {n \in Name : ~\E p \in Proc : Busy(p, n)}]]
  /\ UNCHANGED <<vars, dirs>>

\* One directory after the other; the first that has no record in it ends the listing.
ListNext(r) ==
  \E n \in reader[r].todo :
    /\ config[n] \in Metadata
    /\ reader' = [reader EXCEPT ![r].todo = @ \ {n}]
    /\ UNCHANGED <<vars, dirs>>

ListFails(r) ==
  \E n \in reader[r].todo :
    /\ config[n] \notin Metadata
    /\ reader' = [reader EXCEPT ![r].at = "failed", ![r].name = n]
    /\ UNCHANGED <<vars, dirs>>

EndList(r) ==
  /\ Reads(r, "failed") \/ (Reads(r, "list") /\ reader[r].todo = {})
  /\ Finish(r)

-----------------------------------------------------------------------------
\* Mutant: only the record is removed, not the directory.
DirsKept == dirs \cup {n \in Name : config'[n] # Absent}

\* SaveMetadata makes the directory, and RemoveAll takes it away with all that is in it.
Dirs ==
  (dirs \cup {n \in Name : config'[n] # Absent})
    \ {n \in Name : config[n] # Absent /\ config'[n] = Absent}

\* What exec and ps do not see for themselves: history.
Passing(r) ==
  IF reader[r] = Idle THEN Idle
  ELSE IF reader[r].at \in {"envs", "enter"}
  THEN [reader[r] EXCEPT !.lived =
         @ /\ process'[reader[r].pid] \notin {Free, Foreign} /\ process'[reader[r].pid].phase # "exited"]
  ELSE [reader[r] EXCEPT !.calm = {n \in @ : ~\E p \in Proc : call'[p] # Idle /\ call'[p].name = n}]
Watched == reader' = [r \in Reader |-> Passing(r)]

\* NewParentProcess makes the directory for the log of a run without a terminal.
StartLogging(p) ==
  /\ Start(p)
  /\ dirs' = dirs \cup {call[p].name}
  /\ Watched

ReaderStep(r) ==
  \/ GetEnvs(r) \/ GetEnvsFails(r) \/ Join(r) \/ EndCommand(r)
  \/ Reads(r, "list") /\ (ListNext(r) \/ ListFails(r))
  \/ EndList(r)

KNext ==
  \/ Next /\ dirs' = Dirs /\ Watched
  \/ \E p \in Proc : StartLogging(p)
  \/ \E r \in Reader : ReaderStep(r) \/ ListContainers(r) \/ \E n \in Name : ExecContainer(r, n)

KSpec == KInit /\ [][KNext]_kvars

-----------------------------------------------------------------------------
(***************************************************************************)
(* If the process whose identifier exec read was the container's and lives *)
(* until the last namespace is joined, the command runs in all of its      *)
(* namespaces and with its environment, although exec reads the record     *)
(* twice and other containers come and go.                                 *)
(***************************************************************************)
InsideIfLived ==
  \A r \in Reader : LET e == reader[r] IN
    RunsCommand(r) /\ e.lived => e.inside /\ e.env = e.name

(***************************************************************************)
(* The command of exec runs inside of the container (exec.go:18).          *)
(***************************************************************************)
CommandRunsInside ==
  \A r \in Reader : RunsCommand(r) => reader[r].inside

(***************************************************************************)
(* ps fails only at a container whose run or removal was cut short, or at  *)
(* one that some command was at work on while ps ran.                      *)
(***************************************************************************)
ListFailsForAReason ==
  \A r \in Reader : Reads(r, "failed") =>
    reader[r].name \notin reader[r].calm \/ reader[r].name \in abandoned

(***************************************************************************)
(* A directory without a record that can be read, which no command is at   *)
(* work on, stays what it is, and ps fails at it, until a container of the *)
(* same name is run: neither stop nor rm can read it.                      *)
(***************************************************************************)
Broken(n) == n \in dirs /\ config[n] \notin Metadata
Resting(n) == \A p \in Proc : ~Busy(p, n)

BrokenStays ==
  [][\A n \in Name : Broken(n) /\ Resting(n) =>
       Broken(n)' /\ \A p \in Proc : Busy(p, n)' => call'[p].at \in RunLabel]_kvars
=============================================================================

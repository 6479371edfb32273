------------------------------- MODULE Mounts -------------------------------
(***************************************************************************)
(* The mounts of one container: its workspace and volumes in the mount     *)
(* table of the host, which pkg/layer makes and takes away, and the ones   *)
(* its init process finds and makes in its own mount namespace (setUpMount *)
(* and pivotRoot).  A path is the sequence of its elements below the       *)
(* workspace.                                                              *)
(***************************************************************************)
EXTENDS Naturals, Sequences, SequencesExt, FiniteSetsExt

CONSTANTS
  Dir,         \* directories of the host that volumes are made of
  Deep,        \* those among them with a mount below
  Target,      \* paths in the container
  MaxVolumes,  \* bound: volumes of the container
  MaxFaults,   \* bound: system calls that fail
  Invalid      \* a volume without a path in the container

VARIABLES
  volumes, \* the volumes given to run
  mounts,  \* the mounts of the host below the workspace, in the order they were made
  data,    \* directories of the host that have kept their contents
  step,    \* what the commands run and rm do next on the host
  next,    \* the volume they do it to
  failed,  \* whether a volume could not be mounted
  init,    \* what the init process does next
  inner,   \* the mounts of its namespace
  shared,  \* whether mounts propagate between the two namespaces
  faults   \* how many system calls failed

hostVars == <<mounts, data, step, next, failed>>
initVars == <<init, inner, shared>>
vars == <<volumes, hostVars, initVars, faults>>

Sub    == <<"sub">>
PutOld == <<"put_old">>
ProcFS == <<"proc">>
DevFS  == <<"dev">>

Volume == [dir : Dir, target : Target] \cup {Invalid}
Name   == {"sub", "put_old", "proc", "dev"} \cup UNION {Range(t) : t \in Target}
Source == {"overlay", "plain", "old", "proc", "tmpfs"}
Mount  == [at : Seq(Name), of : Dir \cup Source]

ASSUME DirAssumption == Deep \subseteq Dir /\ Dir \cap Source = {}
ASSUME TargetAssumption == \A t \in Target : t \in Seq(Range(t))
ASSUME BoundAssumption == MaxVolumes \in Nat /\ MaxFaults \in Nat

TypeOK ==
  /\ volumes \in Seq(Volume) /\ Len(volumes) <= MaxVolumes
  /\ mounts \in Seq(Mount) /\ inner \in Seq(Mount)
  /\ data \subseteq Dir
  /\ step \in {"overlay", "volumes", "start", "send", "up", "umount", "unmerge", "remove", "over", "cut"}
  /\ next \in 1..(MaxVolumes + 1)
  /\ failed \in BOOLEAN /\ shared \in BOOLEAN
  /\ init \in {"none", "private", "bind", "putold", "pivot", "detach", "proc", "dev", "args", "main", "ended"}
  /\ faults \in 0..MaxFaults

Init ==
  /\ volumes \in UNION {[1..k -> Volume] : k \in 0..MaxVolumes}
  /\ mounts = <<>> /\ data = Dir
  /\ step = "overlay" /\ next = 1 /\ failed = FALSE
  /\ init = "none" /\ inner = <<>> /\ shared = TRUE
  /\ faults = 0

-----------------------------------------------------------------------------
(***************************************************************************)
(* The kernel.  A path leads into the mount that was made last on it or    *)
(* above it; 0 is the file system of the host.                             *)
(***************************************************************************)
Over(table, path)  == {i \in DOMAIN table : IsPrefix(table[i].at, path)}
Top(table, path)   == Max(Over(table, path) \cup {0})
Parent(table, j)   == Max({i \in Over(table, table[j].at) : i < j} \cup {0})
Visible(table, i)  == Top(table, table[i].at) = i

\* umount takes away the mount a path leads to, if the path is its root and nothing is mounted on it.
CanUmount(table, path) ==
  LET i == Top(table, path) IN
  /\ i # 0 /\ table[i].at = path
  /\ \A j \in DOMAIN table : Parent(table, j) # i
Umounted(table, path) ==
  IF CanUmount(table, path) THEN RemoveAt(table, Top(table, path)) ELSE table

\* A bind mount with MS_REC brings the mounts below along.
Bind(dir, path) ==
  <<[at |-> path, of |-> dir]>> \o (IF dir \in Deep THEN <<[at |-> path \o Sub, of |-> dir]>> ELSE <<>>)

\* What os.RemoveAll of a path reaches, through every mount that can be seen below it.
Reached(table, path) ==
  {table[i].of : i \in {k \in DOMAIN table : IsPrefix(path, table[k].at) /\ Visible(table, k)}}

Fault == faults < MaxFaults /\ faults' = faults + 1

-----------------------------------------------------------------------------
\* createWorkspace
MountOverlay ==
  /\ step = "overlay"
  /\ UNCHANGED <<volumes, data, next, failed, initVars>>
  /\ \/ mounts' = <<[at |-> <<>>, of |-> "overlay"]>> /\ step' = "volumes" /\ UNCHANGED faults
     \/ Fault /\ step' = "cut" /\ UNCHANGED mounts

\* mountVolume; mountVolumes goes on after an error.
MountVolume ==
  /\ step = "volumes" /\ next <= Len(volumes)
  /\ next' = next + 1
  /\ UNCHANGED <<volumes, data, step, initVars>>
  /\ \/ volumes[next] = Invalid /\ UNCHANGED <<mounts, failed, faults>>
     \/ /\ volumes[next] # Invalid
        /\ mounts' = mounts \o Bind(volumes[next].dir, volumes[next].target)
        /\ UNCHANGED <<failed, faults>>
     \/ volumes[next] # Invalid /\ Fault /\ failed' = TRUE /\ UNCHANGED mounts

\* CreateWorkspace returns, and Run calls Fatalf if it has an error.
VolumesMounted ==
  /\ step = "volumes" /\ next > Len(volumes)
  /\ step' = (IF failed THEN "cut" ELSE "start")
  /\ UNCHANGED <<volumes, mounts, data, next, failed, initVars, faults>>

\* parent.Start: the new namespace is a copy that mounts propagate to and from.
Start ==
  /\ step = "start"
  /\ step' = "send" /\ init' = "private"
  /\ inner' = mounts
  /\ UNCHANGED <<volumes, mounts, data, next, failed, shared, faults>>

SendInitArgs ==
  /\ step = "send" /\ step' = "up"
  /\ UNCHANGED <<volumes, mounts, data, next, failed, initVars, faults>>

-----------------------------------------------------------------------------
(***************************************************************************)
(* DeleteWorkspace, of a run whose container has ended or of rm, whatever  *)
(* the container does.  An umount that fails is logged.                    *)
(***************************************************************************)
UmountPath(path) ==
  \/ /\ mounts' = Umounted(mounts, path)
     /\ inner' = IF shared /\ init # "none" THEN Umounted(inner, path) ELSE inner
     /\ UNCHANGED faults
  \/ Fault /\ UNCHANGED <<mounts, inner>>

\* Mutant: the first volume has the number 0.
BeginDeleteAtZero ==
  /\ step = "up"
  /\ step' = "umount" /\ next' = 0
  /\ UNCHANGED <<volumes, mounts, data, failed, initVars, faults>>

BeginDelete ==
  /\ step = "up"
  /\ step' = "umount" /\ next' = 1
  /\ UNCHANGED <<volumes, mounts, data, failed, initVars, faults>>

\* umountVolumes, in the order they were mounted.
UmountVolume ==
  /\ step = "umount" /\ next <= Len(volumes)
  /\ next' = next + 1
  /\ IF volumes[next] = Invalid THEN UNCHANGED <<mounts, inner, faults>>
     ELSE UmountPath(volumes[next].target)
  /\ UNCHANGED <<volumes, data, step, failed, init, shared>>

\* Mutant: the volumes are left to the umount of the workspace.
UmountWorkspaceFirst ==
  /\ step = "umount"
  /\ step' = "remove"
  /\ UmountPath(<<>>)
  /\ UNCHANGED <<volumes, data, next, failed, init, shared>>

UmountWorkspace ==
  /\ step = "umount" /\ next > Len(volumes)
  /\ step' = "remove"
  /\ UmountPath(<<>>)
  /\ UNCHANGED <<volumes, data, next, failed, init, shared>>

\* os.RemoveAll of the workspace, whether it is still mounted or not.
RemoveWorkspace ==
  /\ step = "remove"
  /\ step' = "over"
  /\ data' = data \ Reached(mounts, <<>>)
  /\ UNCHANGED <<volumes, mounts, next, failed, initVars, faults>>

-----------------------------------------------------------------------------
(***************************************************************************)
(* The init process.  Any call may fail, and then it returns the error and *)
(* ends, its namespace with it; it also ends when its program does.        *)
(***************************************************************************)
InitGoes(from, to) == init = from /\ init' = to /\ UNCHANGED <<volumes, step, next, failed, faults>>

\* Mutant: the mounts stay shared.
MakeNothingPrivate ==
  InitGoes("private", "bind") /\ UNCHANGED <<mounts, data, inner, shared>>

MakePrivate ==
  InitGoes("private", "bind") /\ shared' = FALSE /\ UNCHANGED <<mounts, data, inner>>

\* Mutant: without MS_REC.
BindFlat ==
  LET top == Top(inner, <<>>) IN
  /\ InitGoes("bind", "putold")
  /\ inner' = Append(inner, IF top = 0 THEN [at |-> <<>>, of |-> "plain"] ELSE inner[top])
  /\ UNCHANGED <<mounts, data, shared>>

\* The workspace is bound onto itself, with all that is mounted on it.
BindRoot ==
  LET top  == Top(inner, <<>>)
      tree == IF top = 0 THEN <<[at |-> <<>>, of |-> "plain"]>> ELSE SubSeq(inner, top, Len(inner)) IN
  /\ InitGoes("bind", "putold")
  /\ inner' = inner \o tree
  /\ mounts' = IF shared THEN mounts \o tree ELSE mounts
  /\ UNCHANGED <<data, shared>>

\* An old put_old is removed with all that is in it, which fails if something is mounted there.
RemovePutOld ==
  /\ init = "putold"
  /\ data' = data \ Reached(inner, PutOld)
  /\ init' = IF Reached(inner, PutOld) = {} THEN "pivot" ELSE "ended"
  /\ UNCHANGED <<volumes, mounts, step, next, failed, inner, shared, faults>>

\* pivot_root, which refuses a shared root: what was not bound to it is below put_old.
PivotRoot ==
  LET top == Top(inner, <<>>) IN
  /\ ~shared
  /\ InitGoes("pivot", "detach")
  /\ inner' = SubSeq(inner, top, Len(inner)) \o <<[at |-> PutOld, of |-> "old"]>>
  /\ UNCHANGED <<mounts, data, shared>>

DetachOld ==
  /\ InitGoes("detach", "proc")
  /\ inner' = RemoveAt(inner, Top(inner, PutOld))
  /\ UNCHANGED <<mounts, data, shared>>

MountProc ==
  /\ InitGoes("proc", "dev")
  /\ inner' = Append(inner, [at |-> ProcFS, of |-> "proc"])
  /\ UNCHANGED <<mounts, data, shared>>

MountDev ==
  /\ InitGoes("dev", "args")
  /\ inner' = Append(inner, [at |-> DevFS, of |-> "tmpfs"])
  /\ UNCHANGED <<mounts, data, shared>>

\* readArgs waits for the end of the pipe, and exec follows.
ExecProgram ==
  /\ step # "send"
  /\ InitGoes("args", "main")
  /\ UNCHANGED <<mounts, data, inner, shared>>

InitEnds ==
  /\ init \notin {"none", "ended"}
  /\ init' = "ended"
  /\ UNCHANGED <<volumes, hostVars, inner, shared, faults>>

-----------------------------------------------------------------------------
HostStep ==
  \/ MountOverlay \/ MountVolume \/ VolumesMounted \/ Start \/ SendInitArgs
  \/ BeginDelete \/ UmountVolume \/ UmountWorkspace \/ RemoveWorkspace
InitStep ==
  \/ MakePrivate \/ BindRoot \/ RemovePutOld \/ PivotRoot \/ DetachOld
  \/ MountProc \/ MountDev \/ ExecProgram \/ InitEnds

Next == HostStep \/ InitStep
Spec == Init /\ [][Next]_vars

-----------------------------------------------------------------------------
Given == {i \in DOMAIN volumes : volumes[i] # Invalid}

(***************************************************************************)
(* What layer.go and container.go can undo: no volume is made of a         *)
(* directory with a mount below, or lies below another volume or put_old.  *)
(***************************************************************************)
Undoable ==
  /\ \A i \in Given : volumes[i].dir \notin Deep /\ ~IsPrefix(PutOld, volumes[i].target)
  /\ \A i, j \in Given : volumes[i].target # volumes[j].target =>
       ~IsPrefix(volumes[i].target, volumes[j].target)

(***************************************************************************)
(* The directories behind such volumes keep their contents whatever the    *)
(* life of the container, as long as no umount fails: RemoveAll of the     *)
(* workspace goes through whatever is still mounted.                       *)
(***************************************************************************)
VolumesKept == Undoable /\ faults = 0 => data = Dir

(***************************************************************************)
(* Under the same conditions nothing stays mounted on the host once the    *)
(* workspace was deleted, and what the init process mounts never shows.    *)
(***************************************************************************)
NothingStaysMounted == Undoable /\ faults = 0 /\ step = "over" => mounts = <<>>

(***************************************************************************)
(* The program of a container that nobody began to remove finds each of    *)
(* its volumes at its path, unless a later volume, /proc or /dev covers    *)
(* it, and nothing of the host besides.                                    *)
(***************************************************************************)
Covered(i) ==
  \/ \E j \in Given : i < j /\ IsPrefix(volumes[j].target, volumes[i].target)
  \/ IsPrefix(ProcFS, volumes[i].target) \/ IsPrefix(DevFS, volumes[i].target)

FindsItsVolumes ==
  init = "main" /\ step = "up" =>
    /\ \A i \in DOMAIN inner : inner[i].of # "old"
    /\ \A i \in Given : ~Covered(i) =>
         LET top == Top(inner, volumes[i].target) IN top # 0 /\ inner[top].of = volumes[i].dir
=============================================================================

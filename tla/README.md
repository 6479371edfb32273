# my-runc in TLA+

TLA+ models of my-runc, a small container runtime, the TLC runs that check them
on small instances, and TLAPS proofs of the same properties, all but liveness,
for every instance. Paths are relative to `src/`.

    tlc -workers 2 -config MCIpam.cfg MCIpam       # a run, named in PROJECT.json
    tlapm ContainerProofs.tla                      # a module of proofs

## The system

Every command (`run`, `stop`, `rm`, `network create`, ...) is a process of its
own. There is no daemon: commands meet only in what they leave on the host, and
nothing locks any of it.

| component | source | state it keeps | operations |
|---|---|---|---|
| address manager | `pkg/network/ipam.go` | `subnets.json`: a bitmap for every subnet | Allocate, Release, Remove |
| networks | `pkg/network/network.go` | one file per network | CreateNetwork, DeleteNetwork, Connect, Disconnect, ListNetworks |
| bridge driver | `pkg/network/driver.go`, `pkg/util/network.go` | bridges, their addresses, veth pairs, MASQUERADE rules | create, delete, connect |
| port mappings | `pkg/network/network.go` | DNAT rules | set, clear |
| containers | `pkg/container`, `pkg/command/{run,stop,remove}.go` | a metadata file per container, its process | Run, StopContainer, RemoveContainer, and ps, logs, commit |
| layers | `pkg/layer` | write, work and mount point directories per name, overlay mounts | CreateWorkspace, DeleteWorkspace |
| cgroups | `pkg/cgroup`, `pkg/util/util.go` | one memory cgroup, `my-runc-cgroup`, for all containers | Set, Apply, Destroy |
| exec | `pkg/container/exec.go`, `pkg/nsenter` | none | ExecContainer |
| command line | `cmd`, `pkg/command` | none | wiring |
| demos | `prepare` | none | not part of the runtime |

How they interact: `run` makes a workspace, writes the limit, starts the child,
records it, puts it into the cgroup, calls `network.Connect` (which allocates an
address, plugs a veth, adds port rules, saves the metadata again), sends the
arguments, and in the foreground waits and undoes all of it in deferred calls.
`rm` calls `network.Disconnect` and then `RemoveContainer`. `network create` and
`delete` go through the driver to the address manager. The only callbacks are
the deferred calls of `run`, which look at one shared variable `err`, and those
of the address manager, which save the file when the call had no error.

What is hard about it:

- read-modify-write and truncate-then-write of files that other commands use
  between the two steps;
- a command that is killed, or an external call (iptables, netlink, mount, a
  write) that fails, between two of about ten steps;
- clean-up that is skipped (`logrus.Fatalf`, `err != nil` in a deferred call),
  done partly, or done twice;
- one resource for all containers: the cgroup, the parent directories of layers;
- process identifiers that are read from a file long after the process ended;
- endpoints that are copied: the record has one, and every command that read it;
- the order of mounts and umounts, in two mount namespaces, of volumes that lie
  below each other;
- addresses computed octet by octet with `uint8` overflow.

The hazards, each at its line and with the properties about it, are in
`PROJECT.json`.

What makes each component correct:

- *addresses*: nobody has an address somebody else has; bits and holders agree; a
  subnet is refused only when full; a file that cannot be read stops everything;
- *networks*: what is saved works (bridge up, gateway on it, rule there); an
  endpoint that is saved has its address, its interface and its port rules, but
  those that were refused; every set bit has an owner or is known to be lost;
- *containers*: a running container keeps its layers, record and cgroup, whatever
  other commands do; a workspace nobody can name any more is not left behind, but
  by what is named below; a run whose container ended leaves nothing, and every
  command comes to its end;
- *containers with a network*: a running container has its address for itself; a
  record goes after its address; every set bit is in a record, in the memory of
  a command, or known to be lost;
- *exec and ps*: exec enters one container, all of it; ps fails for a reason;
- *mounts*: the directories of the host behind volumes keep their contents,
  nothing stays mounted, and the container finds its volumes.

## The modules

| module | models | extends |
|---|---|---|
| `IPv4` | `ipToNumber`, `numberToIP`, the index of an address; CIDR blocks as `net.ParseCIDR` returns them | |
| `IPv4Walk` | the loop of `Allocate` as a subnet fills up | `SubnetTable` |
| `SubnetTable` | what is done to the map of bitmaps: mark, clear, set, delete | `IPv4` |
| `AddressPool` | what the address manager promises: an abstract pool of leases | `IPv4` |
| `Ipam` | the address manager with its file, by concurrent processes | `SubnetTable`, and `AddressPool` by INSTANCE |
| `Network` | networks, driver and port mappings | `SubnetTable` |
| `Container` | `run`, `stop`, `rm`, layers, cgroup and the container's process | |
| `Runtime` | `Container` composed with the network of each container | `Container` |
| `Readers` | `exec`, `nsenter` and `ps` between the steps of `Container` | `Container` |
| `Mounts` | workspace and volumes of one container, on the host and in the namespace of its init process | |
| `SubnetTableProofs`, `IPv4WalkProofs`, `IpamProofs`, `NetworkProofs`, `ContainerProofs`, `RuntimeProofs`, `ReadersProofs`, `MountsProofs` | theorems | the module they are about |
| `MC...` | small instances for TLC | the module they check |

### IPv4

Exact in the width of the code: the octets of an address are added modulo 256, and
what is an `uint32` in the code is written as the `int32` of the same bits
(`Int32`), which for an index of a bitmap is the same number. So `Index` wraps where
`target-base-1` does: where a carry between two octets was lost it lies outside the
bitmap and `Release` panics (`Wraps`), but in a subnet of a /1 to /8 at the very end
of the address space the address and the subtraction both wrap, and `Release` finds
the last bit.

### Ipam

A *holder* is whoever keeps an address: a network its gateway, an endpoint its
IP. A call is three steps: read the file and change the copy in memory
(`Allocate`, `Release`, `Remove`), truncate the file (`Create`), write it
(`Write`). A bitmap is the set of its '1' positions. `file` is a table, or not
there, or truncated, or torn: a write over the longer contents of another
process leaves its tail. A save that fails is success for the caller
(`CreateFails`, `WriteFails`), and a process can die between any two steps
(`Crash`). `Release` of an address whose index is outside the bitmap is a panic,
which in Go still runs the deferred save.

`held`, `stale` and `mishap` are history. `stale[h]` says that the file was
rewritten since `h` read it; `mishap` that a stale table was written, a save
failed, or a table was written that lacks the subnet of an address in use. The
mishaps are what the code does nothing about; the properties say that nothing
*else* goes wrong: that two commands at a time may lose an update, that a save may
fail without anybody noticing, and that `network delete` removes a bitmap whoever
has addresses in it, they confine and do not deny. `SerialSpec` is the address
manager without these: one command at a time, whose saves do not fail, of callers
that remove the bitmap of a subnet only when none of its addresses is in use (which
`network.go:127` does not check). A subnet that is reported full has all its
addresses held; the address of a process that died after its save counts as held.

### Network

A command is a record with a label: the next thing it does to the host. The
steps are those of the code in its order. `Quit` is a kill, or the failure of
the next external call where the code just returns the error; where it does more
(`PlugVeth`, `setPortMappingIPTables`, `setContainerNetwork`,
`disconnectEndpoint`, `clearPortMappingIPTables`) the step has a failing
alternative of its own. `iptables -A` appends a copy, so `nat` counts copies;
`-D` takes one away and fails if there is none. A call of the address manager is
one step here: what happens inside it is `Ipam`'s.

`held` says whose an address is (a command's while it works on it, then the
network's or container's), `lost` which addresses nobody can give back any
more, `doomed` for what a delete or disconnect has begun, `refused` which port rules
were not set when their container was connected: the loop that deletes the rules
before a refused one assigns to the `err` that is returned after it, so that
`setPortMappingIPTables` succeeds if the last deletion does, and `Connect` saves the
endpoint without its rules (`LastDeleted`). `mishap` says that an
address was released that somebody else has, that a bitmap in use was removed,
or that a container was disconnected twice.

`rm` disconnects before it looks at the status, so after the last step of
Disconnect it either removes the metadata or refuses (`PleaseStopFirst`).

### Container

The commands are processes with a label again; `process` are the kernel's
processes, with identifiers that are used again by containers and by the host
(`Host`). A container's first process ends when it likes (`Exit`), or when
signalled, if it handles the signal: as the first process of a pid namespace it
may ignore it. `Undo` and `Leave` show the rule of the deferred calls: an exit
status other than 0 skips them all, except that `Disconnect`, which runs first,
overwrites the error. `SetLimit`, `Apply` and `DestroyCgroup` share one
directory, which `GetCgroupPath` makes anew, without a limit, whenever it is
missing. The directories of the empty name are the parents of all others
(`Below`), and so is its mount point. Its overlay is busy while another one is
mounted below it, and hides those that were mounted before (`covered`,
`Unmountable`); a failed umount is only logged, so that the directories go and the
mount stays. With its directories gone, the overlay of the empty name takes no new
mount point (`Dead`): then `run` fails, until somebody unmounts it. `rm` derives
the paths from its own working directory; in another one than that of `run` it finds
nothing to delete and removes the record all the same (`DeleteElsewhere`). Why `Connect` and `Disconnect` fail is left open here and is
`Runtime`'s. `SaveMetadata` is one step in this module, which can leave a torn
record: a reader that meets the truncated file returns an error, as if it had
never begun.

`stopping`, `swept`, `nested`, `strayed` and `abandoned` are history: who was asked to
stop, whose directories went with those of the empty name, which mounts were made
below or above its overlay, whose workspace an `rm` in another directory left, and
`abandoned` holds the names
whose command was cut short: by a failure or a kill, but also where the code
itself skips its cleanup, on an exit status other than 0 or when the cgroup is
still in use.

That the name of a new container is not in use is not checked by the code; it is
an assumption about its user (`Unused`), who does not run a name again either whose
directories or mount are left over. All `run` commands are in one working directory,
and so is `rm` in all modules but this one.

### Runtime

Every step is one of `Container`'s with what it does to the one endpoint of a
container, and two steps, `Allocate` and the release of rm, are between
`Container`'s. The endpoint is in three places: in the record (`endpoint`), in
the memory of the commands that read the record or are about to write it
(`memory`), and as a bit of the subnet (`bits`). There is one network; it can be
deleted under its containers and made again, with an empty bitmap. Bridges and
port rules are `Network`'s, and a call of the address manager is one step.

`stop` saves what it read, so it can undo a `Connect`; `rm` releases before it
looks at the status; the deferred `Disconnect` of a foreground run releases what
`Connect` left in its memory, whatever `rm` did since. `given`, `early`, `lost`,
`address` and `mishap` are history and name these cases: an address was given
back; stop or rm read the record before `Connect` had saved it; the address of an
earlier run nobody can give back any more; the one of the last run; one was given
back twice.

### Readers

`exec` reads the record (`ExecContainer`), reads it again for the environment
(`GetEnvs`), and joins the namespaces one by one through `/proc` (`Join`): a
`setns` that fails is printed, and the command runs in whatever was joined. The
paths are those of the host only while the mount namespace is not joined
(`HostProc`): it must be the last.
`lived` is history: whether the process whose identifier was read was the
container's, and has been alive since. `ps` takes the list of directories and
reads the records one after the other (`ListNext`), failing at the first that it
cannot read (`ListFails`). `dirs` are those directories: a run without a terminal
makes one for its log before there is a record (`StartLogging`). `calm` is
history: the names no command was at work on since ps began.

### Mounts

One container, with up to three volumes in any order. A mount table is the
sequence of mounts as they were made; a path leads into the mount made last on it
or above it, and `umount` fails while something is mounted below. `run` mounts
(`MountOverlay`, `MountVolume`), starts the init process, whose table is a copy
(`Start`), and `DeleteWorkspace` unmounts the volumes in the order they were
mounted, then the workspace, and then removes the directory through whatever is
still mounted (`Reached`). The init process makes its mounts private, binds the
root, pivots, and mounts /proc and /dev, and may end at any step. The steps of
the two are interleaved in every way. `data` is what of the host's directories
behind volumes still has its contents. How the kernel resolves paths, binds,
unmounts and pivots is external to the code and modelled as far as the calls
need it.

## The runs

| run | question | bounds | result |
|---|---|---|---|
| `ipv4` | Is the octet arithmetic right? | four subnets: /30 and /26, /24 and /23, in the middle and at the end of an octet, every position; four at the end of the address space: /25, /23, /8 and /4, the last 100 positions | holds |
| `ipam_shared` | Is everything but the named mishaps harmless? | 3 holders, a /31 and a /32 whose address wraps; no bound on calls, crashes or failures | holds |
| `ipam_serial` | Is one command at a time, killed anywhere, whose saves do not fail and that removes no bitmap in use, a correct pool? | same | holds |
| `network_shared` | Does what is saved work, and is every address accounted for? | 1 network name, 2 containers with two ports, 2 commands, a /30, 1 failure or kill, 2 copies of a rule | holds |
| `network_serial` | Is nothing left behind? | 2 names, 2 containers with two ports, two /31, one of which wraps; no failures | holds |
| `container` | Does a running container keep what it has? Who leaves a workspace behind? | 2 names, one of them the empty one, 2 identifiers, 2 commands, 1 failure, kill or rm in another directory | holds |
| `runtime` | Whose is an address, and who can still give it back? | 2 names, 2 identifiers, 2 commands, 2 addresses, 1 delete of the network, no failures | holds |
| `runtime_fair` | Does every command end, and a run leave nothing behind? | 1 name, 1 identifier, 2 commands, 1 address, 1 delete, 1 failure or kill | holds |
| `runtime_refused` | Does a container stay connected until it is stopped? | 2 names, no failures, no delete | no: rm disconnects, then refuses |
| `readers` | What do exec and ps meet between the steps of the others? | 2 names, 2 identifiers, 1 command, 1 reader, 1 failure or kill | holds |
| `exec_outside` | Does the command of exec run in the container? | same, no failures | no: a setns that fails is only printed |
| `mounts` | Do volumes survive, and does nothing stay mounted? | up to 3 volumes of 2 directories on 6 paths, 1 failed call | holds |

Why the bounds are enough. In `ipv4`, `Taken` is how many positions of a subnet are
'1' when the walk begins: none, or all but the last 100 of the large ones, whose
last one is what they are there for. In `Ipam` three holders give a process that loses, one
that wins and one that watches; the state space is finite without a bound.
In `Network` the /30 has room for a gateway, two endpoints and one lost address; two
ports make a list of rules with one before the one that is refused;
a fault can hit any step of any command, and two commands interleave in every
way, which is what the properties, each about two pieces of state, take to
violate. Two constraints cut the run `network_shared`: it stops at a mishap
(`Bound`), after which no invariant but the type invariant says anything, and at
a second lost address. `MaxRules` blocks an `-A` when there are two copies. In
`Container` a third command adds states and no kind of interleaving the
properties tell apart: they are about one name and what commands for it and for
another one do; `Bound` (`MCContainer`) has one of two things go wrong, a failure or
a workspace that an rm in another directory leaves; two identifiers are enough for one to be used again while the
other is busy. In `runtime` two addresses let one be lost while the other is
used, and two commands let a stop or rm overlap a run or each other; `Bound`
(`MCRuntime`) leaves out what is `container`'s: processes of the host, exit
statuses other than 0, which `Disconnect` overwrites, and two commands in their
workspace or cgroup steps at once, and an `rm` in another directory; and, as above,
what follows a mishap. In
`readers` one command at a time is enough for what a reader meets, a record and
an identifier that change between two of its reads. In `mounts` the paths are
the root, one directory, one below it, the two the init process uses itself, and
one below the directory the old root is put into; a third volume can lie between
or over the other two.

What is proved needs no bound, and that is every property of every run but the
three of `runtime_fair` (below): also for several subnets, networks and failures
in `network_shared`; for the types and `HalfDeletedIsFinal` after a mishap and any
number of lost addresses, where its constraints cut the run; for `runtime` with
what its `Bound` leaves out; for any number of volumes, directories and paths in
`mounts`. Only `CleanWhenIdle` has a hypothesis the bounds of its run hide.

Symmetry is used over processes, containers, holders and, where no name is
special, names; not in `runtime_fair`, whose properties are about liveness.

Fairness, in `runtime_fair` only: weak fairness of the steps of each command that
has begun (`Command`), since it is a process of its own that the kernel
schedules, waits for no other command and makes no call that blocks, but for
`Wait`, which is not enabled while the container lives; and of a child that
reads the end of a pipe nobody has open for writing (`ReadNoArgs`), which read()
returns. Nothing is assumed of users, of the processes of the host, of when a
container ends, or of failures. `CommandsEnd` excludes the wait for a container
for this reason. `LeavesNothing` needs all the deferred calls in a row; it
excludes names a stop has begun for, since a stop that read the record before may
write it again after the run has removed it.

Deadlock is checked in `ipam_shared`, `ipam_serial`, `network_serial`,
`container`, `runtime`, `runtime_fair` and `readers`. The walk of `ipv4` ends at
the last position, and the life of the one container of `mounts` ends. In
`network_shared` two commands that wait for room under `MaxRules` stop for good,
which is the bound's doing and not the code's, where no command ever waits for
another.

### Where the code does not do what it says

Two runs find a property violated:

- `runtime_refused`: `rm` of a running container takes its address and port rules
  away and then asks to stop it first (`remove.go:25`, `container.go:191`);
- `exec_outside`: when the container ends while exec is about to join it, the
  command runs on the host (`nsenter.go:41`, `exec.go:18`).

Others are the exceptions that the passing properties name: a lost update of
`subnets.json` (`ipam.go:35`; `mishap` of `Ipam`); a container that is connected
without its port rules after iptables refused one of them (`network.go:248`;
`refused`), of which `network.go:180` says that setting them succeeded; an overlay
that stays mounted with no record to remove it by, where the unnamed container was
mounted above or below it (`layer.go:54`, `layer.go:203`; `nested` in
`NoOrphanWorkspace`), or a whole workspace, where `rm` is run in another directory
(`container.go:195`; `strayed`); the last address of a subnet,
which lies outside of it (`ipam.go:67`; `OnlyLastOutside`); an address that is
given back twice (`network.go:230`; `mishap` of `Network` and `Runtime`); a
container that is recorded as stopped while it runs (`container.go:172`;
`stopping` in `RunningIsWhole`); an unnamed container whose end takes the
directories of all others (`layer.go:194`; `swept`); volumes below each other,
which are unmounted in the wrong order and lose the files of the host
(`layer.go:164`), and one at or below `.pivot_root`, where the init process
removes what it finds (`container.go:275`; both `Undoable`); a subnet of one
address whose last octet is 255, whose network cannot be deleted: `Release` panics
after the bridge and its rule are gone (`ipam.go:113`; `GatewayReturns`). A
container may also run without a limit, when another run removes the cgroup
between its `Set` and `Apply` (`memory.go:43`): the model has the steps, and
nothing weaker about limits holds.

## The proofs

Assumptions: every subnet is one that `net.ParseCIDR` can return, with a mask of
/1 to /32 (`SubnetAssumption`); the marks for a missing or torn file, a free
identifier or an idle command are none of the values they stand beside
(`MarkAssumption`, `MachineAssumption`, `AddrAssumption`); a walk begins at a
position of the bitmap (`TakenAssumption`); commands, networks and
containers are different things (`OwnerAssumption`); a container maps ports
(`PortAssumption`); 0 is no process identifier (`PidAssumption`); directories are
none of the other sources of a mount (`DirAssumption`) and paths are sequences
(`TargetAssumption`); the bounds are numbers (`BoundAssumption`,
`DeleteAssumption`). Holders, names, processes, commands, readers, addresses,
subnets, directories and paths are any sets, the bounds any numbers. One theorem,
`NothingLeft`, has a hypothesis of its own, explained below.

`SubnetTableProofs`: the digits of `idx + 1` are added octet by octet. Below the
octet the mask ends in the base is 0; in that octet the base is a multiple of the
span, so that base plus a number below the size cannot overflow it (`Carry`); only
the size itself can, which is the last position. Hence `AddressNumber`: the address
of a position is base + idx + 1, or idx is the last one and the address is below
the base. The index of such an address is outside the bitmap, by the width of an
`uint32`, unless the mask ends in the first octet, where the address is 0.0.0.0 and
the subtraction wraps back to the position. Injectivity, the index of `Release` and what lies in the subnet follow,
and for tables `LeaseInjective`: two leases of a subnet have two addresses.

`IpamProofs`: type correctness first. The safety invariants are not inductive:
while the file is truncated `BitmapIsLeases` says nothing, and what the next
writer has in memory decides what it will say. `IInv` therefore adds

- `HoldLeases`: what is held, or about to be, is the address of a position;
- `FileThere`: who is about to write has created the file;
- `FreshWriter`: short of a mishap, a process that is not stale has in memory
  exactly the bits of what is held once its call returns, or lacks the bitmap of
  an address in use (then its write is a mishap), and nobody else has the address
  it is about to return.

`Invariant` proves `Spec => []IInv` with a lemma per action; `Uniqueness`,
`BitmapsAreLeases` and `FullMeansFull` follow. For the pool, `FreshChoice` adds
that the address such a process is about to return is still the lowest free one;
then `PoolStep` maps the write of a process to a step of the pool and every other
step to a stutter: `ConcurrentPool`. For one command at a time `Alone` adds that
the one process at work is not stale and drops nothing, so there is no mishap:
`SerialUniqueness` and the refinement `SerialRefinement`.

`NetworkProofs`: types and `NetInv` first: what a command does tells whether it is
about a network or a container (`Busywork`), the address it works on is one of its
subnet, and its own until it is stored or released. From that

- `Addresses`: short of a mishap (`Harmless`) a step lets owners lose addresses
  (`LosingAddresses`), passes one on (`PassingAddress`), marks a free position, or
  clears the position of the address it releases, which by `IndexOfAddress` and
  `LeaseInjective` is no other. `Accounted` is what this keeps;
- `HalfDeletedStays`: a command about another network, or about a container,
  leaves a network alone (`Foreign`), and the rules of ports are not its rule
  (`OtherRules`). The theorem needs what one subnet does not show: a delete that
  read the file of an earlier network of the name, with another subnet, may still
  find a rule of that subnet and go on, so `HalfDeleted` excludes it;
- `SavedStaysUp`: `Progress` adds what a command that creates a network has
  reached, in the order of the steps, for as long as nobody began to delete the
  network; two that create it at once only add to what is there (`Grows`);
- `Reachable`: `EndpointInv` says that one command at most joins a container
  (`OneJoins`), that it has no endpoint until then, and which of its address and
  interface is there at which label (`PluggedIn`, `Connected`). Rules of ports are
  shared by containers, so presence is not inductive: `Counted` says that there
  are at least as many copies of a rule as there are *users*, containers whose
  saved endpoint needs it and nobody cleared and commands that added it and have
  not saved; a rule that was `refused` is out of the count. A command takes away one copy and is one user less, because short of
  a mishap one command at most leaves a container (`LeavesOnce`);
- `NothingLeft`: for one command at a time that does not fail. `SerialInv` gives
  the exact state of the host as a function of the command `k` at work, if any:
  `State(k)` says what each of its steps may rely on (`Found`), who has an address
  (`Own`, `Holds`), which bridges (`Bridges`) and masquerade rules (`Masqueraded`)
  are there, and how many copies of each rule of a port (`Mapped`, an equality now,
  where `Counted` needs only a bound). With no command, `State(Idle)` is
  `CleanWhenIdle`. There is one lemma per action. The hypothesis `GatewayReturns`
  says that the first address of a subnet has its index in the bitmap. `GatewayWraps`
  shows that every subnet of two addresses or more is like that; a /32 that ends in
  255 is not, and there the theorem is false: `DeleteNetwork` removes bridge
  and rule and then panics in `Release`, leaving the file.

`ContainerProofs`: what a running container keeps is not inductive, since other
commands act on names and identifiers, not on containers. `Inv` adds

- `OneRun`, `Alone`: a name has one run command, and until that has saved a
  record no other command knows the name (`Unused` and the guard of stop and rm,
  a readable record, make it so);
- `NoChild`, `Child`, `OneProcess`: a name has at most one process, the child of
  its run command if that is still there, so that an identifier is not used
  again under the run that waits for it;
- `Stops`: a record, or one in memory, says stopped only of a name somebody began
  to stop, so that `rm` removes nothing else;
- `Keeps`, `Grouped`, `Group`: what a run has made is there until it is through.

`Changes` says once what a step of a command leaves alone, and `Frame` what of
`Inv` follows; then there is a lemma per action. `RunningStaysWhole` is a part of
`Inv`. For `NoWorkspaceIsOrphan`, `Claim` adds who still answers for a workspace
(a record, a run before or after it, an rm) and `Cleared` that an rm has deleted
it before it removes the record, or left it in another directory. `Nesting` says
that an overlay that is hidden, or that keeps the one of the empty name busy, is
`nested`, so that without a failure only such a mount stays.

`RuntimeProofs`: `Refines` shows that every step of `Runtime` is one of
`Container` or a stutter, so that all of the above holds with a network, too
(`NetworkedStaysWhole`). `StuckUntilNetwork` needs that every run command here
has a network (`Networked`). `RecordsOutliveAddresses` needs `Sound`: while a
name is neither given back nor read too early, who connects it is alone with it
(`AlonePlugging`), and a command or record without an endpoint means that there
is none (`NoneRead`, `NoneRecorded`); and that `rm` comes to the record only
without an endpoint in memory (`Disconnected`).

`AddressesAreOwn` follows the copies of an endpoint: `Traced` says that every copy,
in a record or in the memory of a command, is of the address the last run of the
name got (`Copies`), and that a run has a copy from `Connect` on and none before
(`Held`, `Fresh`). A release is then one of the address of its own name
(`AddressFrame`), and `Own`, addresses not given back are different, marked and not
lost, is inductive. `NoAddressForgotten` adds `Account`: of every such bit somebody
has the address (`Holds`), a record, the run that connects, or a name whose command
was cut short or whose record was read too early.

`ReadersProofs`: `ReadersOnlyRead` is the refinement again. `ExecEnters` needs
that a record that names a process names the container's (`Names`), through the
copies that `Connect` and `stop` save, so that the second read of exec meets the
same process or none. `PsFailsForAReason` needs `Excuses`: a name of which
something is there, but no readable record, was cut short or its run has not come
that far. `OnlyRunRepairs` needs the types only.

`MountsProofs`: mounts are matched by path, not by the volume they were made for, so
the invariant cannot say which mount is whose. `Kept` says that the mounts above
the workspace's and the volumes still to be unmounted can be paired, by some
bijection, with equal paths (`Paired`). Of two volumes on one path the umount of
the first takes the mount of the second, and the pairing is renumbered (`Shifted`);
as no volume lies below another, no umount finds anything mounted below and all
succeed. At the end no mount is left, and removing the directory reaches nothing of
the host: `VolumesSurvive`, `NothingStays`. For `VolumesFound`, `Finds` says that
each volume no later one covers is the last mount on or above its path; `FindsInv`
carries it through the mounting, the copy of the table, the bind of the root,
`pivot_root`, the umount of the old root, and /proc and /dev.

Only model-checked: liveness under fairness, the three properties of
`runtime_fair`, which is out of the prover's reach.

## What is not modelled

- the contents of files, layers and volumes: nothing of the runtime's state
  depends on them;
- `logs`, `network list`, `commit`: each reads, or packs, one thing in one step;
- what is set up inside the network namespace of a container: one step of
  `Network` that may fail; that two containers may need a veth of the same name
  is one reason for such a failure;
- the value of a memory limit: the model knows whether one was written;
- two metadata writes of one container that overlap; a network of the name of an
  interface the host has already;
- a mask of /0, whose bitmap would be 4 GB.

## Plan

Done: the address manager, networks, containers, their composition, those who
read of them, and mounts, each checked and proved.

Left: an abstract table of networks, each there or not with its endpoints, that
`network_serial` implements; the proof has the invariant for it, `SerialInv`. The
value of the memory limit, once the code keeps one per container.

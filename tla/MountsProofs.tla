---------------------------- MODULE MountsProofs ----------------------------
(***************************************************************************)
(* Proofs about the mounts of a container: what a path leads to, what      *)
(* deleting the workspace leaves and what the program of the container     *)
(* finds.                                                                  *)
(***************************************************************************)
EXTENDS Mounts, SequenceTheorems, WellFoundedInduction, TLAPS

(***************************************************************************)
(* What holds together with the types: the init process exists only once   *)
(* the host started it, its namespace is private before anything is        *)
(* mounted in it, and the root it pivots to is mounted.  The volumes begin *)
(* with the first.                                                         *)
(***************************************************************************)
Inside == {"bind", "putold", "pivot", "detach", "proc", "dev", "args", "main"}

TypeInv ==
  /\ TypeOK
  /\ init \in Inside => ~shared
  /\ step \in {"overlay", "volumes", "start"} => init = "none"
  /\ step = "overlay" => next = 1
  /\ init \in {"putold", "pivot"} => \E k \in DOMAIN inner : inner[k].at = <<>>

(***************************************************************************)
(* The volumes that the host has mounted and not yet tried to umount, and  *)
(* a numbering of them by the mounts made of them.                         *)
(***************************************************************************)
Todo ==
  CASE step = "volumes" -> {i \in Given : i < next}
    [] step \in {"start", "send", "up"} -> Given
    [] step = "umount" -> {i \in Given : i >= next}
    [] OTHER -> {}

Pairs(table, todo, g) ==
  /\ \A v \in todo : table[g[v]].at = volumes[v].target
  /\ \A v, w \in todo : g[v] = g[w] => v = w
  /\ \A k \in 2..Len(table) : \E v \in todo : g[v] = k

Paired(table, todo) == \E g \in [todo -> 2..Len(table)] : Pairs(table, todo, g)

Rooted(table) == table # <<>> /\ table[1].at = <<>>

Places == {<<>>} \cup {volumes[i].target : i \in Given}

\* What deleting the workspace relies on.
Kept ==
  /\ data = Dir /\ failed = FALSE /\ step # "cut"
  /\ step \in {"overlay", "remove", "over"} => mounts = <<>>
  /\ step \in {"volumes", "start", "send", "up", "umount"} => Rooted(mounts) /\ Paired(mounts, Todo)
  /\ init \in {"private", "bind", "putold"} => \A k \in DOMAIN inner : inner[k].at \in Places

KeptInv == TypeInv /\ (Undoable /\ faults = 0 => Kept)

(***************************************************************************)
(* Of the volumes before the n-th, those that nothing covers are the last  *)
(* mount on or above their path.                                           *)
(***************************************************************************)
Hidden(i, n) ==
  \/ \E j \in Given : i < j /\ j < n /\ IsPrefix(volumes[j].target, volumes[i].target)
  \/ IsPrefix(ProcFS, volumes[i].target) \/ IsPrefix(DevFS, volumes[i].target)

Leads(table, i, k) ==
  /\ table[k].at = volumes[i].target /\ table[k].of = volumes[i].dir
  /\ \A m \in DOMAIN table : m > k => ~IsPrefix(table[m].at, volumes[i].target)

Found(table, n) ==
  \A i \in Given : i < n /\ ~Hidden(i, n) => \E k \in DOMAIN table : Leads(table, i, k)

NoOld(table) == \A k \in DOMAIN table : table[k].of # "old"

Finds(table) == NoOld(table) /\ Found(table, Len(volumes) + 1)

\* What finding the volumes relies on.
FindsInv ==
  /\ TypeInv
  /\ step = "volumes" => Rooted(mounts) /\ NoOld(mounts) /\ (failed = FALSE => Found(mounts, next))
  /\ step = "start" => Rooted(mounts) /\ Finds(mounts)
  /\ step \in {"send", "up"} =>
       /\ init \in {"private", "bind"} => Rooted(inner)
       /\ init \in {"private", "bind", "putold", "pivot", "proc", "dev", "args", "main"} => Finds(inner)
       /\ init = "detach" =>
            /\ inner # <<>> /\ inner[Len(inner)] = [at |-> PutOld, of |-> "old"]
            /\ Finds(SubSeq(inner, 1, Len(inner) - 1))

-----------------------------------------------------------------------------
(***************************************************************************)
(* Paths and sequences.                                                    *)
(***************************************************************************)

\* A bounded set of numbers has a greatest one.
LEMMA Greatest ==
  ASSUME NEW n \in Nat, NEW S, S \subseteq 0..n, S # {}
  PROVE  Max(S) \in S /\ \A x \in S : Max(S) >= x
<1> DEFINE T == {n - x : x \in S}
<1>1. T \subseteq Nat /\ T # {}
  OBVIOUS
<1>2. IsWellFoundedOn(OpToRel(<, Nat), Nat)
  BY NatLessThanWellFounded
<1>3. PICK y \in T : \A z \in T : <<z, y>> \notin OpToRel(<, Nat)
  BY <1>1, <1>2, WFMin
<1>4. PICK x \in S : y = n - x
  BY <1>3
<1>5. \A z \in S : x >= z
  <2> SUFFICES ASSUME NEW z \in S PROVE x >= z
    OBVIOUS
  <2>1. <<n - z, n - x>> \notin OpToRel(<, Nat)
    BY <1>3, <1>4
  <2>2. ~(n - z < n - x)
    BY <2>1, <1>1 DEF OpToRel
  <2> QED
    BY <2>2
<1>6. \E m \in S : \A z \in S : m >= z
  BY <1>5
<1> QED
  BY <1>6 DEF Max

\* What a path leads to is the last mount on or above it.
LEMMA TopIs ==
  ASSUME NEW table, NEW n \in Nat, DOMAIN table = 1..n, NEW path
  PROVE  /\ Top(table, path) \in Over(table, path) \cup {0}
         /\ \A i \in Over(table, path) : i <= Top(table, path)
         /\ Top(table, path) \in 0..n
<1>1. Over(table, path) \cup {0} \subseteq 0..n
  BY DEF Over
<1>2. /\ Top(table, path) \in Over(table, path) \cup {0}
      /\ \A i \in Over(table, path) \cup {0} : Top(table, path) >= i
  BY <1>1, Greatest DEF Top
<1> QED
  BY <1>1, <1>2

\* A mount is on one that was made before, at a path that leads to its own.
LEMMA ParentIs ==
  ASSUME NEW table, NEW n \in Nat, DOMAIN table = 1..n, NEW j \in 1..n
  PROVE  /\ Parent(table, j) \in 0..(j - 1)
         /\ Parent(table, j) # 0 => Parent(table, j) \in Over(table, table[j].at)
<1> DEFINE S == {i \in Over(table, table[j].at) : i < j} \cup {0}
<1>1. S \subseteq 0..(j - 1) /\ S # {} /\ j - 1 \in Nat
  BY DEF Over
<1>2. Max(S) \in S
  BY <1>1, Greatest
<1> QED
  BY <1>1, <1>2 DEF Parent

\* A path is above itself and below the root, and nothing is above the root.
LEMMA Above ==
  ASSUME NEW E, NEW s \in Seq(E), NEW t \in Seq(E)
  PROVE  /\ IsPrefix(s, s) /\ IsPrefix(<<>>, s)
         /\ IsPrefix(s, <<>>) => s = <<>>
         /\ IsPrefix(s, t) => Len(s) <= Len(t)
<1>1. <<>> \in Seq(E) /\ Len(<<>>) = 0
  OBVIOUS
<1>2. IsPrefix(s, s) /\ (IsPrefix(s, t) => Len(s) <= Len(t))
  BY DEF IsPrefix
<1>3. IsPrefix(<<>>, s)
  <2>1. SubSeq(<<>>, 1, 0) = <<>> /\ SubSeq(s, 1, 0) = <<>>
    OBVIOUS
  <2> QED
    BY <2>1, <1>1 DEF IsPrefix
<1>4. IsPrefix(s, <<>>) => s = <<>>
  <2>1. IsPrefix(s, <<>>) => Len(s) <= 0
    BY <1>1 DEF IsPrefix
  <2>2. Len(s) <= 0 => s = <<>>
    OBVIOUS
  <2> QED
    BY <2>1, <2>2
<1> QED
  BY <1>2, <1>3, <1>4

\* What is above a path is above all below it.
LEMMA Below ==
  ASSUME NEW E, NEW s \in Seq(E), NEW t \in Seq(E), NEW u \in Seq(E), IsPrefix(s \o t, u)
  PROVE  IsPrefix(s, u)
<1>1. Len(s) + Len(t) <= Len(u) /\ Len(s \o t) = Len(s) + Len(t)
  BY DEF IsPrefix
<1>2. \A k \in 1..Len(s) : s[k] = u[k]
  <2> SUFFICES ASSUME NEW k \in 1..Len(s) PROVE s[k] = u[k]
    OBVIOUS
  <2>1. SubSeq(s \o t, 1, Len(s \o t)) = SubSeq(u, 1, Len(s \o t))
    BY DEF IsPrefix
  <2>2. SubSeq(s \o t, 1, Len(s \o t))[k] = (s \o t)[k] /\ SubSeq(u, 1, Len(s \o t))[k] = u[k]
    BY <1>1
  <2>3. (s \o t)[k] = s[k]
    OBVIOUS
  <2> QED
    BY <2>1, <2>2, <2>3
<1>3. SubSeq(s, 1, Len(s)) = SubSeq(u, 1, Len(s))
  BY <1>1, <1>2
<1> QED
  BY <1>1, <1>3 DEF IsPrefix

\* One sequence after another.
LEMMA Joined ==
  ASSUME NEW S, NEW a \in Seq(S), NEW b \in Seq(S)
  PROVE  /\ a \o b \in Seq(S) /\ Len(a \o b) = Len(a) + Len(b)
         /\ \A k \in 1..(Len(a) + Len(b)) : (a \o b)[k] = IF k <= Len(a) THEN a[k] ELSE b[k - Len(a)]
  OBVIOUS

\* Two elements in a sequence.
LEMMA Two ==
  ASSUME NEW S, NEW a \in S, NEW b \in S
  PROVE  /\ <<a>> \o <<b>> \in Seq(S) /\ Len(<<a>> \o <<b>>) = 2
         /\ (<<a>> \o <<b>>)[1] = a /\ (<<a>> \o <<b>>)[2] = b
<1>1. <<a>> \in Seq(S) /\ Len(<<a>>) = 1 /\ <<a>>[1] = a /\ <<b>> \in Seq(S) /\ Len(<<b>>) = 1 /\ <<b>>[1] = b
  OBVIOUS
<1> QED
  BY <1>1, Joined

\* What is left of a sequence without one of its elements.
LEMMA Removed ==
  ASSUME NEW S, NEW s \in Seq(S), NEW i \in 1..Len(s)
  PROVE  /\ RemoveAt(s, i) \in Seq(S) /\ Len(RemoveAt(s, i)) = Len(s) - 1
         /\ \A k \in 1..(Len(s) - 1) : RemoveAt(s, i)[k] = IF k < i THEN s[k] ELSE s[k + 1]
<1> DEFINE a == SubSeq(s, 1, i - 1)
           b == SubSeq(s, i + 1, Len(s))
<1>1. a \in Seq(S) /\ Len(a) = i - 1 /\ \A k \in 1..(i - 1) : a[k] = s[k]
  OBVIOUS
<1>2. b \in Seq(S) /\ Len(b) = Len(s) - i /\ \A k \in 1..(Len(s) - i) : b[k] = s[i + k]
  OBVIOUS
<1>3. RemoveAt(s, i) = a \o b
  BY DEF RemoveAt
<1> HIDE DEF a, b
<1>4. /\ a \o b \in Seq(S) /\ Len(a \o b) = Len(a) + Len(b)
      /\ \A k \in 1..(Len(a) + Len(b)) : (a \o b)[k] = IF k <= Len(a) THEN a[k] ELSE b[k - Len(a)]
  BY <1>1, <1>2, Joined
<1>5. Len(s) \in Nat
  OBVIOUS
<1>6. Len(a) + Len(b) = Len(s) - 1
  BY <1>1, <1>2, <1>5
<1>7. ASSUME NEW k \in 1..(Len(s) - 1) PROVE (a \o b)[k] = IF k < i THEN s[k] ELSE s[k + 1]
  <2>1. CASE k < i
    BY <2>1, <1>1, <1>4, <1>5, <1>6
  <2>2. CASE ~(k < i)
    <3>1. k - Len(a) \in 1..(Len(s) - i) /\ i + (k - Len(a)) = k + 1 /\ ~(k <= Len(a))
      BY <2>2, <1>1, <1>5
    <3> QED
      BY <3>1, <2>2, <1>2, <1>4, <1>6
  <2> QED
    BY <2>1, <2>2
<1> QED
  BY <1>3, <1>4, <1>6, <1>7

\* The end of a sequence from one of its elements on.
LEMMA Rest ==
  ASSUME NEW S, NEW s \in Seq(S), NEW i \in 1..Len(s)
  PROVE  /\ SubSeq(s, i, Len(s)) \in Seq(S) /\ Len(SubSeq(s, i, Len(s))) = Len(s) - i + 1
         /\ \A k \in 1..(Len(s) - i + 1) : SubSeq(s, i, Len(s))[k] = s[i + k - 1]
  OBVIOUS

-----------------------------------------------------------------------------
(***************************************************************************)
(* The types.                                                              *)
(***************************************************************************)

\* The paths are sequences of names.
LEMMA PathTypes ==
  /\ \A t \in Target : t \in Seq(Name)
  /\ <<>> \in Seq(Name) /\ Sub \in Seq(Name) /\ PutOld \in Seq(Name) /\ ProcFS \in Seq(Name) /\ DevFS \in Seq(Name)
<1>1. ASSUME NEW t \in Target PROVE t \in Seq(Name)
  <2>1. t \in Seq(Range(t)) /\ Range(t) \subseteq Name
    BY TargetAssumption DEF Name
  <2> QED
    BY <2>1
<1>2. "sub" \in Name /\ "put_old" \in Name /\ "proc" \in Name /\ "dev" \in Name
  BY DEF Name
<1>3. <<>> \in Seq(Name) /\ Sub \in Seq(Name) /\ PutOld \in Seq(Name) /\ ProcFS \in Seq(Name) /\ DevFS \in Seq(Name)
  BY <1>2 DEF Sub, PutOld, ProcFS, DevFS
<1> QED
  BY <1>1, <1>3

\* A volume that is given has a directory and a path.
LEMMA GivenIs ==
  ASSUME volumes \in Seq(Volume), NEW i \in Given
  PROVE  /\ i \in 1..Len(volumes)
         /\ volumes[i].dir \in Dir /\ volumes[i].target \in Target /\ volumes[i].target \in Seq(Name)
<1>1. i \in 1..Len(volumes) /\ volumes[i] \in Volume /\ volumes[i] # Invalid
  BY DEF Given
<1>2. volumes[i] \in [dir : Dir, target : Target]
  BY <1>1 DEF Volume
<1> QED
  BY <1>1, <1>2, PathTypes

\* A bind mount is one mount, or two if there is one below the directory.
LEMMA BindIs ==
  ASSUME NEW dir \in Dir, NEW path \in Seq(Name)
  PROVE  /\ Bind(dir, path) \in Seq(Mount)
         /\ Len(Bind(dir, path)) = IF dir \in Deep THEN 2 ELSE 1
         /\ Bind(dir, path)[1] = [at |-> path, of |-> dir]
         /\ dir \in Deep => Bind(dir, path)[2] = [at |-> path \o Sub, of |-> dir]
<1>1. path \o Sub \in Seq(Name)
  BY PathTypes
<1>2. [at |-> path, of |-> dir] \in Mount /\ [at |-> path \o Sub, of |-> dir] \in Mount
  BY <1>1 DEF Mount
<1>3. CASE dir \in Deep
  <2> DEFINE a == [at |-> path, of |-> dir]
             b == [at |-> path \o Sub, of |-> dir]
  <2>1. Bind(dir, path) = <<a>> \o <<b>>
    BY <1>3 DEF Bind
  <2>4. a \in Mount /\ b \in Mount
    BY <1>2
  <2> HIDE DEF a, b
  <2>2. /\ <<a>> \o <<b>> \in Seq(Mount) /\ Len(<<a>> \o <<b>>) = 2
        /\ (<<a>> \o <<b>>)[1] = a /\ (<<a>> \o <<b>>)[2] = b
    BY <2>4, Two
  <2>3. Bind(dir, path) \in Seq(Mount) /\ Len(Bind(dir, path)) = 2 /\ Bind(dir, path)[1] = a /\ Bind(dir, path)[2] = b
    BY <2>1, <2>2
  <2> QED
    BY <2>3, <1>3 DEF a, b
<1>4. CASE dir \notin Deep
  <2>1. Bind(dir, path) = <<[at |-> path, of |-> dir]>> \o <<>>
    BY <1>4 DEF Bind
  <2> QED
    BY <2>1, <1>2, <1>4
<1> QED
  BY <1>3, <1>4

\* What an umount leaves.
LEMMA UmountedIs ==
  ASSUME NEW S, NEW table \in Seq(S), NEW path
  PROVE  /\ Umounted(table, path) \in Seq(S)
         /\ \A k \in DOMAIN Umounted(table, path) : \E m \in DOMAIN table : Umounted(table, path)[k] = table[m]
         /\ CanUmount(table, path) =>
              /\ Top(table, path) \in 1..Len(table)
              /\ Umounted(table, path) = RemoveAt(table, Top(table, path))
<1>1. CASE CanUmount(table, path)
  <2> DEFINE i == Top(table, path)
  <2>1. i \in 0..Len(table) /\ i # 0
    BY <1>1, TopIs DEF CanUmount
  <2>2. i \in 1..Len(table) /\ Umounted(table, path) = RemoveAt(table, i)
    BY <1>1, <2>1 DEF Umounted
  <2> HIDE DEF i
  <2>3. /\ RemoveAt(table, i) \in Seq(S) /\ Len(RemoveAt(table, i)) = Len(table) - 1
        /\ \A k \in 1..(Len(table) - 1) : RemoveAt(table, i)[k] = IF k < i THEN table[k] ELSE table[k + 1]
    BY <2>2, Removed
  <2>4. ASSUME NEW k \in DOMAIN RemoveAt(table, i)
        PROVE  \E m \in DOMAIN table : RemoveAt(table, i)[k] = table[m]
    <3>1. k \in 1..(Len(table) - 1) /\ DOMAIN table = 1..Len(table) /\ Len(table) \in Nat
      BY <2>3
    <3>2. k \in DOMAIN table /\ k + 1 \in DOMAIN table
      BY <3>1
    <3> QED
      BY <3>1, <3>2, <2>3
  <2> QED
    BY <2>2, <2>3, <2>4 DEF i
<1>2. CASE ~CanUmount(table, path)
  BY <1>2 DEF Umounted
<1> QED
  BY <1>1, <1>2

\* The mounts that bind the workspace onto itself: its own and what is on it.
RootTree == IF Top(inner, <<>>) = 0 THEN <<[at |-> <<>>, of |-> "plain"]>>
            ELSE SubSeq(inner, Top(inner, <<>>), Len(inner))

\* They begin with the one that the path of the workspace leads to.
LEMMA RootTreeIs ==
  ASSUME inner \in Seq(Mount)
  PROVE  RootTree \in Seq(Mount) /\ Len(RootTree) >= 1 /\ RootTree[1].at = <<>>
<1>1. CASE Top(inner, <<>>) = 0
  <2>1. RootTree = <<[at |-> <<>>, of |-> "plain"]>> /\ [at |-> <<>>, of |-> "plain"] \in Mount
    BY <1>1, PathTypes DEF RootTree, Mount, Source
  <2> QED
    BY <2>1
<1>2. CASE Top(inner, <<>>) # 0
  <2> DEFINE i == Top(inner, <<>>)
  <2>1. i \in 1..Len(inner) /\ i \in Over(inner, <<>>)
    BY <1>2, TopIs
  <2>2. RootTree = SubSeq(inner, i, Len(inner))
    BY <1>2 DEF RootTree
  <2> HIDE DEF i
  <2>3. inner[i] \in Mount /\ IsPrefix(inner[i].at, <<>>)
    BY <2>1 DEF Over
  <2>7. inner[i].at \in Seq(Name)
    BY <2>3 DEF Mount
  <2>4. inner[i].at = <<>>
    BY <2>3, <2>7, Above
  <2>5. /\ SubSeq(inner, i, Len(inner)) \in Seq(Mount)
        /\ Len(SubSeq(inner, i, Len(inner))) = Len(inner) - i + 1
        /\ \A k \in 1..(Len(inner) - i + 1) : SubSeq(inner, i, Len(inner))[k] = inner[i + k - 1]
    BY <2>1, Rest
  <2>6. SubSeq(inner, i, Len(inner))[1] = inner[i] /\ Len(inner) - i + 1 >= 1
    BY <2>1, <2>5
  <2> QED
    BY <2>2, <2>4, <2>5, <2>6
<1> QED
  BY <1>1, <1>2

\* What a step of the host preserves of the types.
LEMMA HostTypes ==
  ASSUME TypeInv, HostStep
  PROVE  TypeInv'
<1> USE DEF TypeInv, TypeOK, hostVars, initVars
<1>0. volumes \in Seq(Volume) /\ mounts \in Seq(Mount) /\ inner \in Seq(Mount)
  OBVIOUS
<1>a. faults \in 0..MaxFaults /\ (Fault => faults' \in 0..MaxFaults)
  BY BoundAssumption DEF Fault
<1>1. CASE MountOverlay
  <2>1. [at |-> <<>>, of |-> "overlay"] \in Mount
    BY PathTypes DEF Mount, Source
  <2>2. <<[at |-> <<>>, of |-> "overlay"]>> \in Seq(Mount)
    BY <2>1
  <2>3. mounts' \in Seq(Mount) /\ step' \in {"volumes", "cut"} /\ init = "none" /\ faults' \in 0..MaxFaults
    BY <1>1, <1>a, <2>2 DEF MountOverlay
  <2> QED
    BY <1>1, <2>3 DEF MountOverlay, Inside
<1>2. CASE MountVolume
  <2>1. next' \in 1..(MaxVolumes + 1)
    BY <1>2, BoundAssumption DEF MountVolume
  <2>2. mounts' \in Seq(Mount)
    <3>1. CASE volumes[next] # Invalid /\ mounts' = mounts \o Bind(volumes[next].dir, volumes[next].target)
      <4>1. next \in Given
        BY <1>2, <3>1, BoundAssumption DEF MountVolume, Given
      <4>2. Bind(volumes[next].dir, volumes[next].target) \in Seq(Mount)
        BY <4>1, GivenIs, BindIs
      <4> HIDE DEF TypeInv, TypeOK
      <4> QED
        BY <1>0, <3>1, <4>2
    <3> QED
      BY <1>2, <3>1 DEF MountVolume
  <2>3. step' = "volumes" /\ init = "none" /\ faults' \in 0..MaxFaults /\ failed' \in BOOLEAN
    BY <1>2, <1>a DEF MountVolume
  <2> QED
    BY <1>2, <2>1, <2>2, <2>3 DEF MountVolume, Inside
<1>3. CASE VolumesMounted
  BY <1>3 DEF VolumesMounted
<1>4. CASE Start
  <2>1. inner' \in Seq(Mount)
    BY <1>4 DEF Start
  <2> QED
    BY <1>4, <2>1 DEF Start, Inside
<1>5. CASE SendInitArgs
  BY <1>5 DEF SendInitArgs
<1>6. CASE BeginDelete
  <2>1. 1 \in 1..(MaxVolumes + 1)
    BY BoundAssumption
  <2> QED
    BY <1>6, <2>1 DEF BeginDelete
<1>7. ASSUME NEW path, UmountPath(path), UNCHANGED init, UNCHANGED shared
      PROVE  /\ mounts' \in Seq(Mount) /\ inner' \in Seq(Mount) /\ faults' \in 0..MaxFaults
             /\ init \in Inside => inner' = inner
  <2>1. Umounted(mounts, path) \in Seq(Mount) /\ Umounted(inner, path) \in Seq(Mount)
    BY <1>0, UmountedIs
  <2> QED
    BY <1>7, <1>a, <2>1 DEF UmountPath
<1>8. CASE UmountVolume
  <2>1. next' \in 1..(MaxVolumes + 1)
    BY <1>8, BoundAssumption DEF UmountVolume
  <2>2. /\ mounts' \in Seq(Mount) /\ inner' \in Seq(Mount) /\ faults' \in 0..MaxFaults
        /\ init \in Inside => inner' = inner
    BY <1>7, <1>8 DEF UmountVolume
  <2> QED
    BY <1>8, <2>1, <2>2 DEF UmountVolume, Inside
<1>9. CASE UmountWorkspace
  <2>2. /\ mounts' \in Seq(Mount) /\ inner' \in Seq(Mount) /\ faults' \in 0..MaxFaults
        /\ init \in Inside => inner' = inner
    BY <1>7, <1>9 DEF UmountWorkspace
  <2> QED
    BY <1>9, <2>2 DEF UmountWorkspace, Inside
<1>10. CASE RemoveWorkspace
  BY <1>10 DEF RemoveWorkspace
<1> QED
  BY <1>1, <1>2, <1>3, <1>4, <1>5, <1>6, <1>8, <1>9, <1>10 DEF HostStep

\* What a step of the init process preserves of the types.
LEMMA InitTypes ==
  ASSUME TypeInv, InitStep
  PROVE  TypeInv'
<1> USE DEF TypeInv, TypeOK, hostVars, initVars, InitGoes
<1>0. volumes \in Seq(Volume) /\ mounts \in Seq(Mount) /\ inner \in Seq(Mount)
  OBVIOUS
<1>1. CASE MakePrivate
  BY <1>1 DEF MakePrivate, Inside
<1>2. CASE BindRoot
  <2>1. ~shared /\ init' = "putold" /\ inner' = inner \o RootTree /\ mounts' = mounts /\ step \notin {"overlay", "volumes", "start"}
    BY <1>2 DEF BindRoot, RootTree, Inside
  <2>2. /\ inner' \in Seq(Mount)
        /\ \E k \in DOMAIN inner' : inner'[k].at = <<>>
    <3> HIDE DEF TypeInv, TypeOK
    <3>1. RootTree \in Seq(Mount) /\ Len(RootTree) >= 1 /\ RootTree[1].at = <<>>
      BY <1>0, RootTreeIs
    <3> HIDE DEF RootTree
    <3>2. /\ inner \o RootTree \in Seq(Mount) /\ Len(inner \o RootTree) = Len(inner) + Len(RootTree)
          /\ \A k \in 1..(Len(inner) + Len(RootTree)) :
               (inner \o RootTree)[k] = IF k <= Len(inner) THEN inner[k] ELSE RootTree[k - Len(inner)]
      BY <1>0, <3>1, Joined
    <3>3. Len(inner) \in Nat /\ Len(RootTree) \in Nat
      BY <1>0, <3>1
    <3>4. (inner \o RootTree)[Len(inner) + 1] = RootTree[1]
      BY <3>1, <3>2, <3>3
    <3>5. Len(inner) + 1 \in DOMAIN (inner \o RootTree)
      BY <3>1, <3>2, <3>3
    <3> QED
      BY <2>1, <3>1, <3>2, <3>4, <3>5
  <2> QED
    BY <1>2, <2>1, <2>2 DEF BindRoot, Inside
<1>3. CASE RemovePutOld
  BY <1>3 DEF RemovePutOld, Inside
<1>4. CASE PivotRoot
  <2> DEFINE top == Top(inner, <<>>)
  <2>1. PICK k \in DOMAIN inner : inner[k].at = <<>>
    BY <1>4 DEF PivotRoot
  <2>2. top \in 1..Len(inner)
    <3> HIDE DEF TypeInv, TypeOK
    <3>1. IsPrefix(inner[k].at, <<>>)
      BY <2>1, PathTypes, Above
    <3>2. k \in Over(inner, <<>>) /\ k \in 1..Len(inner)
      BY <1>0, <2>1, <3>1 DEF Over
    <3> QED
      BY <1>0, <3>2, TopIs
  <2>3. SubSeq(inner, top, Len(inner)) \o <<[at |-> PutOld, of |-> "old"]>> \in Seq(Mount)
    <3> HIDE DEF TypeInv, TypeOK
    <3>1. SubSeq(inner, top, Len(inner)) \in Seq(Mount)
      BY <1>0, <2>2, Rest
    <3>2. [at |-> PutOld, of |-> "old"] \in Mount
      BY PathTypes DEF Mount, Source
    <3>3. <<[at |-> PutOld, of |-> "old"]>> \in Seq(Mount)
      BY <3>2
    <3> QED
      BY <3>1, <3>3, Joined
  <2> QED
    BY <1>4, <2>3 DEF PivotRoot, Inside
<1>5. CASE DetachOld
  <2> DEFINE top == Top(inner, PutOld)
  <2>1. RemoveAt(inner, top) \in Seq(Mount)
    <3> HIDE DEF TypeInv, TypeOK
    <3>1. top \in 0..Len(inner)
      BY <1>0, TopIs
    <3> HIDE DEF top
    <3>2. CASE top = 0
      <4>1. SubSeq(inner, 1, 0 - 1) = <<>> /\ SubSeq(inner, 0 + 1, Len(inner)) \in Seq(Mount) /\ <<>> \in Seq(Mount)
        BY <1>0
      <4>2. <<>> \o SubSeq(inner, 0 + 1, Len(inner)) \in Seq(Mount)
        BY <4>1, Joined
      <4> QED
        BY <3>2, <4>1, <4>2 DEF RemoveAt
    <3>3. CASE top # 0
      BY <1>0, <3>1, <3>3, Removed
    <3> QED
      BY <3>2, <3>3
  <2> QED
    BY <1>5, <2>1 DEF DetachOld, Inside
<1>6. ASSUME NEW path \in Seq(Name), NEW source \in Source
      PROVE  Append(inner, [at |-> path, of |-> source]) \in Seq(Mount)
  <2>1. [at |-> path, of |-> source] \in Mount
    BY DEF Mount
  <2> QED
    BY <1>0, <2>1
<1>7. CASE MountProc
  <2>1. inner' \in Seq(Mount)
    BY <1>6, <1>7, PathTypes DEF MountProc, Source
  <2> QED
    BY <1>7, <2>1 DEF MountProc, Inside
<1>8. CASE MountDev
  <2>1. inner' \in Seq(Mount)
    BY <1>6, <1>8, PathTypes DEF MountDev, Source
  <2> QED
    BY <1>8, <2>1 DEF MountDev, Inside
<1>9. CASE ExecProgram
  BY <1>9 DEF ExecProgram, Inside
<1>10. CASE InitEnds
  BY <1>10 DEF InitEnds, Inside
<1> QED
  BY <1>1, <1>2, <1>3, <1>4, <1>5, <1>7, <1>8, <1>9, <1>10 DEF InitStep

\* The first states are of their types.
LEMMA InitialTypes == Init => TypeInv
<1> SUFFICES ASSUME Init PROVE TypeInv
  OBVIOUS
<1>1. volumes \in Seq(Volume) /\ Len(volumes) <= MaxVolumes
  <2>1. PICK k \in 0..MaxVolumes : volumes \in [1..k -> Volume]
    BY DEF Init
  <2>2. k \in Nat
    BY BoundAssumption
  <2> QED
    BY <2>1, <2>2, BoundAssumption
<1>2. <<>> \in Seq(Mount) /\ 1 \in 1..(MaxVolumes + 1) /\ 0 \in 0..MaxFaults
  BY BoundAssumption
<1> QED
  BY <1>1, <1>2 DEF Init, TypeInv, TypeOK, Inside

\* And so are those that follow.
LEMMA TypesStay ==
  ASSUME TypeInv, [Next]_vars
  PROVE  TypeInv'
<1>1. ASSUME UNCHANGED vars PROVE TypeInv'
  BY <1>1 DEF TypeInv, TypeOK, vars, hostVars, initVars
<1> QED
  BY <1>1, HostTypes, InitTypes DEF Next

(***************************************************************************)
(* Whatever is mounted and umounted, by whom and in which order, the state *)
(* is one the program knows: the steps of the commands and of the init     *)
(* process, the volume they are at and the tables of both namespaces.      *)
(***************************************************************************)
THEOREM MountsTypes == Spec => []TypeOK
<1>1. Init => TypeInv
  BY InitialTypes
<1>2. TypeInv /\ [Next]_vars => TypeInv'
  BY TypesStay
<1>3. TypeInv => TypeOK
  BY DEF TypeInv
<1> QED
  BY <1>1, <1>2, <1>3, PTL DEF Spec

-----------------------------------------------------------------------------
(***************************************************************************)
(* Deleting the workspace.                                                 *)
(***************************************************************************)

\* Among volumes that can be undone, one is above another only at its path.
LEMMA Apart ==
  ASSUME volumes \in Seq(Volume), Undoable, NEW i \in Given, NEW j \in Given,
         IsPrefix(volumes[i].target, volumes[j].target)
  PROVE  volumes[i].target = volumes[j].target
  BY DEF Undoable

\* The mount of a volume is one that an umount of its path takes away.
LEMMA VolumeLeaves ==
  ASSUME volumes \in Seq(Volume), Undoable, NEW table \in Seq(Mount), Rooted(table),
         NEW todo \in SUBSET Given, NEW g \in [todo -> 2..Len(table)], Pairs(table, todo, g), NEW n \in todo
  PROVE  /\ CanUmount(table, volumes[n].target)
         /\ Top(table, volumes[n].target) >= g[n]
<1> DEFINE path == volumes[n].target
           i == Top(table, path)
<1>0. n \in Given /\ path \in Seq(Name) /\ Len(table) \in Nat /\ DOMAIN table = 1..Len(table)
  BY GivenIs
<1>1. g[n] \in 2..Len(table) /\ table[g[n]].at = path
  BY DEF Pairs
<1>2. g[n] \in Over(table, path)
  <2>1. IsPrefix(path, path)
    BY <1>0, Above
  <2> QED
    BY <1>0, <1>1, <2>1 DEF Over
<1>3. i >= g[n] /\ i \in 2..Len(table) /\ i \in Over(table, path) /\ \A j \in Over(table, path) : j <= i
  <2>1. /\ i \in Over(table, path) \cup {0} /\ i \in 0..Len(table)
        /\ \A j \in Over(table, path) : j <= i
    BY <1>0, TopIs
  <2> HIDE DEF i
  <2>2. g[n] <= i /\ g[n] \in Nat /\ g[n] >= 2
    BY <1>0, <1>1, <1>2, <2>1
  <2> QED
    BY <1>0, <2>1, <2>2
<1> HIDE DEF i
<1>4. PICK v \in todo : g[v] = i
  BY <1>3 DEF Pairs
<1>5. table[i].at = volumes[v].target /\ v \in Given
  BY <1>4 DEF Pairs
<1>6. table[i].at = path
  <2>1. IsPrefix(volumes[v].target, volumes[n].target)
    BY <1>3, <1>5 DEF Over
  <2> QED
    BY <1>0, <1>5, <2>1, Apart
<1>7. ASSUME NEW j \in DOMAIN table, Parent(table, j) = i PROVE FALSE
  <2>1. j \in 1..Len(table) /\ i \in 0..(j - 1) /\ i \in Over(table, table[j].at)
    <3>1. Parent(table, j) \in 0..(j - 1) /\ (Parent(table, j) # 0 => Parent(table, j) \in Over(table, table[j].at))
      BY <1>0, ParentIs
    <3> QED
      BY <1>0, <1>3, <1>7, <3>1
  <2>2. j \in 2..Len(table)
    BY <1>3, <2>1
  <2>3. PICK w \in todo : g[w] = j
    BY <2>2 DEF Pairs
  <2>4. table[j].at = volumes[w].target /\ w \in Given
    BY <2>3 DEF Pairs
  <2>5. IsPrefix(volumes[n].target, volumes[w].target)
    BY <1>6, <2>1, <2>4 DEF Over
  <2>6. table[j].at = path
    BY <1>0, <2>4, <2>5, Apart
  <2>7. j \in Over(table, path)
    BY <1>2, <1>0, <2>1, <2>6, Above DEF Over
  <2> QED
    BY <1>3, <2>1, <2>7
<1>8. i # 0
  BY <1>3
<1> QED
  BY <1>3, <1>6, <1>7, <1>8 DEF CanUmount, i

\* The number of a mount after the one numbered i was taken away, and the one numbered k if it was that.
Shifted(a, i, k) == IF a = i THEN k ELSE IF a > i THEN a - 1 ELSE a

\* Two mounts keep two numbers.
LEMMA ShiftedApart ==
  ASSUME NEW n \in Nat, NEW i \in 2..n, NEW k \in 2..i, NEW a \in 2..n, NEW b \in 2..n,
         a # k, b # k, Shifted(a, i, k) = Shifted(b, i, k)
  PROVE  a = b
  BY DEF Shifted

\* What the other volumes were mounted as is renumbered.
LEMMA Renumbered ==
  ASSUME NEW table \in Seq(Mount), Rooted(table), NEW todo \in SUBSET Given,
         NEW g \in [todo -> 2..Len(table)], Pairs(table, todo, g), NEW n \in todo,
         NEW i \in 2..Len(table), i >= g[n], table[i].at = volumes[n].target
  PROVE  Rooted(RemoveAt(table, i)) /\ Paired(RemoveAt(table, i), todo \ {n})
<1> DEFINE k == g[n]
           t == RemoveAt(table, i)
           h == [v \in todo \ {n} |-> IF g[v] = i THEN k ELSE IF g[v] > i THEN g[v] - 1 ELSE g[v]]
<1>0. Len(table) \in Nat /\ k \in 2..i /\ i \in 1..Len(table) /\ 1 \in 1..(Len(table) - 1)
  OBVIOUS
<1>1. /\ t \in Seq(Mount) /\ Len(t) = Len(table) - 1
      /\ \A m \in 1..(Len(table) - 1) : t[m] = IF m < i THEN table[m] ELSE table[m + 1]
  BY <1>0, Removed
<1> HIDE DEF t
<1>2. Rooted(t)
  BY <1>0, <1>1 DEF Rooted
<1>3. ASSUME NEW v \in todo \ {n} PROVE g[v] \in 2..Len(table) /\ g[v] # k
  BY DEF Pairs
<1>4. ASSUME NEW v \in todo \ {n}
      PROVE  h[v] \in 2..Len(t) /\ t[h[v]].at = volumes[v].target
  <2>0. g[v] \in 2..Len(table) /\ g[v] # k /\ table[g[v]].at = volumes[v].target /\ table[k].at = volumes[n].target
    BY <1>3, <1>4 DEF Pairs
  <2>1. CASE g[v] = i
    <3>1. h[v] = k /\ k < i /\ k \in 2..Len(t) /\ t[k] = table[k]
      BY <1>0, <1>1, <2>0, <2>1
    <3> QED
      BY <2>0, <2>1, <3>1
  <2>2. CASE g[v] > i
    <3>1. h[v] = g[v] - 1 /\ g[v] - 1 \in 2..Len(t) /\ g[v] - 1 >= i /\ g[v] - 1 + 1 = g[v]
      BY <1>0, <1>1, <2>0, <2>2
    <3>2. t[g[v] - 1] = table[g[v]]
      BY <1>1, <3>1
    <3> QED
      BY <2>0, <3>1, <3>2
  <2>3. CASE g[v] < i
    <3>2. g[v] # i /\ ~(g[v] > i) /\ g[v] \in 2..Len(t) /\ g[v] \in 1..(Len(table) - 1)
      BY <1>0, <1>1, <2>0, <2>3
    <3>3. t[g[v]] = table[g[v]]
      BY <1>1, <2>3, <3>2
    <3>1. h[v] = g[v] /\ g[v] \in 2..Len(t) /\ t[g[v]] = table[g[v]]
      BY <3>2, <3>3
    <3> QED
      BY <2>0, <3>1
  <2> QED
    BY <1>0, <2>0, <2>1, <2>2, <2>3
<1>5. ASSUME NEW v \in todo \ {n}, NEW w \in todo \ {n}, h[v] = h[w]
      PROVE  v = w
  <2>1. /\ g[v] \in 2..Len(table) /\ g[v] # k /\ g[w] \in 2..Len(table) /\ g[w] # k
    BY <1>3
  <2>2. /\ h[v] = IF g[v] = i THEN k ELSE IF g[v] > i THEN g[v] - 1 ELSE g[v]
        /\ h[w] = IF g[w] = i THEN k ELSE IF g[w] > i THEN g[w] - 1 ELSE g[w]
    OBVIOUS
  <2> HIDE DEF h
  <2>4. /\ g[v] \in 2..Len(table) /\ g[v] # k /\ g[w] \in 2..Len(table) /\ g[w] # k
        /\ Shifted(g[v], i, k) = Shifted(g[w], i, k)
    BY <1>5, <2>1, <2>2 DEF Shifted
  <2> HIDE DEF k
  <2>3. g[v] = g[w]
    BY <1>0, <2>4, ShiftedApart
  <2> QED
    BY <2>3 DEF Pairs
<1>6. ASSUME NEW m \in 2..Len(t)
      PROVE  \E v \in todo \ {n} : h[v] = m
  <2>1. CASE m = k /\ k < i
    <3>1. PICK v \in todo : g[v] = i
      BY DEF Pairs
    <3>2. v # n
      BY <2>1, <3>1
    <3> QED
      BY <2>1, <3>1, <3>2
  <2>2. CASE m < i /\ m # k
    <3>1. m \in 2..Len(table)
      BY <1>0, <1>1
    <3>2. PICK v \in todo : g[v] = m
      BY <3>1 DEF Pairs
    <3>3. v # n /\ h[v] = m
      BY <1>0, <2>2, <3>1, <3>2
    <3> QED
      BY <3>3
  <2>3. CASE m >= i
    <3>1. m + 1 \in 2..Len(table) /\ m + 1 > i
      BY <1>0, <1>1, <2>3
    <3>2. PICK v \in todo : g[v] = m + 1
      BY <3>1 DEF Pairs
    <3>3. v # n /\ h[v] = m
      BY <1>0, <1>1, <3>1, <3>2
    <3> QED
      BY <3>3
  <2> QED
    BY <1>0, <1>1, <2>1, <2>2, <2>3
<1>7. h \in [todo \ {n} -> 2..Len(t)]
  BY <1>4
<1> HIDE DEF h
<1>8. Pairs(t, todo \ {n}, h)
  BY <1>4, <1>5, <1>6 DEF Pairs
<1> QED
  BY <1>2, <1>7, <1>8 DEF Paired, t

\* An umount of its path takes a volume from those that are to do.
LEMMA VolumeUmounted ==
  ASSUME volumes \in Seq(Volume), Undoable, NEW table \in Seq(Mount), Rooted(table),
         NEW todo \in SUBSET Given, Paired(table, todo), NEW n \in todo
  PROVE  LET t == Umounted(table, volumes[n].target) IN Rooted(t) /\ Paired(t, todo \ {n})
<1> DEFINE i == Top(table, volumes[n].target)
<1>1. PICK g \in [todo -> 2..Len(table)] : Pairs(table, todo, g)
  BY DEF Paired
<1>2. CanUmount(table, volumes[n].target) /\ i >= g[n]
  BY <1>1, VolumeLeaves
<1>3. i \in 1..Len(table) /\ Umounted(table, volumes[n].target) = RemoveAt(table, i)
  BY <1>2, UmountedIs
<1>4. table[i].at = volumes[n].target
  BY <1>2 DEF CanUmount
<1>5. g[n] \in 2..Len(table)
  BY <1>1
<1>6. i \in 2..Len(table)
  BY <1>2, <1>3, <1>5
<1> HIDE DEF i
<1>7. Rooted(RemoveAt(table, i)) /\ Paired(RemoveAt(table, i), todo \ {n})
  BY <1>1, <1>2, <1>4, <1>6, Renumbered
<1> QED
  BY <1>3, <1>7

\* With nothing to do but the workspace, its umount leaves nothing.
LEMMA WorkspaceUmounted ==
  ASSUME NEW table \in Seq(Mount), Rooted(table), Paired(table, {})
  PROVE  Umounted(table, <<>>) = <<>>
<1>1. PICK g \in [{} -> 2..Len(table)] : Pairs(table, {}, g)
  BY DEF Paired
<1>2. Len(table) = 1
  <2>1. \A k \in 2..Len(table) : FALSE
    BY <1>1 DEF Pairs
  <2>2. Len(table) \in Nat /\ Len(table) # 0
    BY DEF Rooted
  <2>3. ASSUME NEW n \in Nat, n # 0, \A k \in 2..n : FALSE PROVE n = 1
    BY <2>3
  <2> QED
    BY <2>1, <2>2, <2>3
<1>3. DOMAIN table = 1..1 /\ table[1].at = <<>>
  BY <1>2 DEF Rooted
<1>4. 1 \in Over(table, <<>>)
  <2>1. IsPrefix(<<>>, <<>>)
    BY PathTypes, Above
  <2> QED
    BY <1>3, <2>1 DEF Over
<1>5. Top(table, <<>>) = 1
  <2>1. Top(table, <<>>) \in 0..1 /\ 1 <= Top(table, <<>>)
    BY <1>3, <1>4, TopIs
  <2> QED
    BY <2>1
<1>6. Parent(table, 1) \in 0..(1 - 1)
  <2>1. 1 \in Nat /\ 1 \in 1..1
    OBVIOUS
  <2> QED
    BY <1>3, <2>1, ParentIs
<1>7. CanUmount(table, <<>>)
  BY <1>3, <1>5, <1>6 DEF CanUmount
<1>8. Umounted(table, <<>>) = RemoveAt(table, 1)
  BY <1>5, <1>7 DEF Umounted
<1>9. RemoveAt(table, 1) \in Seq(Mount) /\ Len(RemoveAt(table, 1)) = Len(table) - 1
  <2>1. 1 \in 1..Len(table)
    BY <1>2
  <2> QED
    BY <2>1, Removed
<1> QED
  BY <1>2, <1>8, <1>9

\* A mount of a volume makes it one of those to do.
LEMMA VolumeMounted ==
  ASSUME volumes \in Seq(Volume), Undoable, NEW table \in Seq(Mount), Rooted(table),
         NEW todo \in SUBSET Given, Paired(table, todo), NEW n \in Given, n \notin todo
  PROVE  LET t == table \o Bind(volumes[n].dir, volumes[n].target) IN
           Rooted(t) /\ Paired(t, todo \cup {n})
<1> DEFINE b == Bind(volumes[n].dir, volumes[n].target)
           t == table \o b
<1>1. PICK g \in [todo -> 2..Len(table)] : Pairs(table, todo, g)
  BY DEF Paired
<1>2. b \in Seq(Mount) /\ Len(b) = 1 /\ b[1].at = volumes[n].target
  <2>1. volumes[n].dir \in Dir /\ volumes[n].dir \notin Deep /\ volumes[n].target \in Seq(Name)
    BY GivenIs DEF Undoable
  <2>2. b \in Seq(Mount) /\ Len(b) = 1 /\ b[1] = [at |-> volumes[n].target, of |-> volumes[n].dir]
    BY <2>1, BindIs
  <2> QED
    BY <2>2
<1> HIDE DEF b
<1>3. Len(table) \in Nat /\ Len(table) >= 1
  BY DEF Rooted
<1>4. /\ t \in Seq(Mount) /\ Len(t) = Len(table) + 1
      /\ \A k \in 1..Len(table) : t[k] = table[k]
      /\ t[Len(table) + 1] = b[1]
  <2>1. /\ t \in Seq(Mount) /\ Len(t) = Len(table) + Len(b)
        /\ \A k \in 1..(Len(table) + Len(b)) : t[k] = IF k <= Len(table) THEN table[k] ELSE b[k - Len(table)]
    BY <1>2, Joined
  <2> QED
    BY <1>2, <1>3, <2>1
<1> HIDE DEF t
<1>5. Rooted(t)
  BY <1>3, <1>4 DEF Rooted
<1> DEFINE h == [v \in todo \cup {n} |-> IF v = n THEN Len(table) + 1 ELSE g[v]]
<1>6. h \in [todo \cup {n} -> 2..Len(t)]
  BY <1>1, <1>3, <1>4
<1>7. ASSUME NEW v \in todo \cup {n} PROVE t[h[v]].at = volumes[v].target
  BY <1>1, <1>2, <1>3, <1>4 DEF Pairs
<1>8. ASSUME NEW v \in todo \cup {n}, NEW w \in todo \cup {n}, h[v] = h[w] PROVE v = w
  BY <1>1, <1>3, <1>8 DEF Pairs
<1>9. ASSUME NEW k \in 2..Len(t) PROVE \E v \in todo \cup {n} : h[v] = k
  <2>1. CASE k = Len(table) + 1
    BY <2>1
  <2>2. CASE k # Len(table) + 1
    <3>1. k \in 2..Len(table)
      BY <1>3, <1>4, <2>2
    <3>2. PICK v \in todo : g[v] = k
      BY <1>1, <3>1 DEF Pairs
    <3> QED
      BY <3>2
  <2> QED
    BY <2>1, <2>2
<1> HIDE DEF h
<1>10. Pairs(t, todo \cup {n}, h)
  BY <1>7, <1>8, <1>9 DEF Pairs
<1> QED
  BY <1>5, <1>6, <1>10 DEF Paired, t, b

\* What is to do once nothing was mounted, once everything was and once everything was umounted.
LEMMA TodoIs ==
  ASSUME volumes \in Seq(Volume)
  PROVE  /\ \A i \in Given : i \in 1..Len(volumes)
         /\ {i \in Given : i < 1} = {} /\ {i \in Given : i >= 1} = Given
         /\ \A n \in Nat : n > Len(volumes) => {i \in Given : i < n} = Given /\ {i \in Given : i >= n} = {}
         /\ \A n \in Nat \ {0} :
              /\ {i \in Given : i < n + 1} = {i \in Given : i < n} \cup ({n} \cap Given)
              /\ {i \in Given : i >= n + 1} = {i \in Given : i >= n} \ {n}
<1>1. \A i \in Given : i \in 1..Len(volumes)
  BY DEF Given
<1>2. Len(volumes) \in Nat
  OBVIOUS
<1> HIDE DEF Given
<1>3. Given \subseteq Nat
  BY <1>1, <1>2
<1>4. {i \in Given : i < 1} = {} /\ {i \in Given : i >= 1} = Given
  BY <1>1, <1>2
<1>5. \A n \in Nat : n > Len(volumes) => {i \in Given : i < n} = Given /\ {i \in Given : i >= n} = {}
  BY <1>1, <1>2
<1>6. ASSUME NEW n \in Nat \ {0}
      PROVE  /\ {i \in Given : i < n + 1} = {i \in Given : i < n} \cup ({n} \cap Given)
             /\ {i \in Given : i >= n + 1} = {i \in Given : i >= n} \ {n}
  <2>1. ASSUME NEW i \in Given
        PROVE  (i < n + 1 <=> i < n \/ i = n) /\ (i >= n + 1 <=> i >= n /\ i # n)
    BY <1>3
  <2> QED
    BY <2>1
<1> QED
  BY <1>1, <1>4, <1>5, <1>6

\* What the init process sees is at places of the host.
LEMMA PlacesStay ==
  ASSUME inner \in Seq(Mount), \A k \in DOMAIN inner : inner[k].at \in Places, NEW path
  PROVE  \A k \in DOMAIN Umounted(inner, path) : Umounted(inner, path)[k].at \in Places
<1>1. \A k \in DOMAIN Umounted(inner, path) : \E m \in DOMAIN inner : Umounted(inner, path)[k] = inner[m]
  BY UmountedIs
<1> QED
  BY <1>1

\* What the host has mounted is at its places.
LEMMA PlacesOf ==
  ASSUME volumes \in Seq(Volume), NEW table \in Seq(Mount), Rooted(table),
         NEW todo \in SUBSET Given, Paired(table, todo)
  PROVE  \A k \in DOMAIN table : table[k].at \in Places
<1>1. PICK g \in [todo -> 2..Len(table)] : Pairs(table, todo, g)
  BY DEF Paired
<1>2. SUFFICES ASSUME NEW k \in DOMAIN table PROVE table[k].at \in Places
  OBVIOUS
<1>3. CASE k = 1
  BY <1>3 DEF Rooted, Places
<1>4. CASE k # 1
  <2>1. k \in 2..Len(table)
    BY <1>4
  <2>2. PICK v \in todo : g[v] = k
    BY <1>1, <2>1 DEF Pairs
  <2>3. table[k].at = volumes[v].target /\ v \in Given
    BY <1>1, <2>2 DEF Pairs
  <2> QED
    BY <2>3 DEF Places
<1> QED
  BY <1>3, <1>4

\* As long as no call fails, no step of the host takes away what a volume is made of.
LEMMA HostKeeps ==
  ASSUME TypeInv, Undoable, Kept, faults = 0, faults' = 0, HostStep
  PROVE  Kept'
<1>0. /\ volumes \in Seq(Volume) /\ mounts \in Seq(Mount) /\ inner \in Seq(Mount) /\ Len(volumes) \in Nat
      /\ next \in Nat \ {0} /\ data = Dir /\ failed = FALSE
  BY BoundAssumption DEF TypeInv, TypeOK, Kept
<1>a. ~Fault
  BY DEF Fault
<1>b. volumes' = volumes /\ Given' = Given /\ Places' = Places
  <2>1. volumes' = volumes
    BY DEF HostStep, MountOverlay, MountVolume, VolumesMounted, Start, SendInitArgs,
           BeginDelete, UmountVolume, UmountWorkspace, RemoveWorkspace
  <2> QED
    BY <2>1 DEF Given, Places
<1>1. CASE MountOverlay
  <2>1. /\ mounts' = <<[at |-> <<>>, of |-> "overlay"]>> /\ step' = "volumes" /\ next' = 1 /\ init' = "none"
        /\ data' = data /\ failed' = failed
    BY <1>1, <1>a DEF MountOverlay, initVars, TypeInv
  <2>2. Rooted(mounts)'
    BY <2>1 DEF Rooted
  <2>3. Todo' = {}
    BY <2>1, <1>0, <1>b, TodoIs DEF Todo
  <2>4. Paired(mounts, Todo)'
    <3>1. [v \in {} |-> 0] \in [{} -> 2..Len(mounts')]
      OBVIOUS
    <3>2. Pairs(mounts', {}, [v \in {} |-> 0])
      BY <2>1 DEF Pairs
    <3>3. \E g \in [{} -> 2..Len(mounts')] : Pairs(mounts', {}, g)
      BY <3>1, <3>2
    <3> QED
      BY <2>3, <3>3, <1>b DEF Paired, Pairs
  <2> QED
    BY <1>0, <2>1, <2>2, <2>4 DEF Kept
<1>2. CASE MountVolume
  <2>1. /\ step = "volumes" /\ step' = step /\ init' = "none" /\ next' = next + 1 /\ data' = data /\ failed' = failed
        /\ Rooted(mounts) /\ Paired(mounts, Todo) /\ Todo = {i \in Given : i < next}
        /\ Todo' = {i \in Given : i < next + 1}
    BY <1>2, <1>a, <1>b DEF MountVolume, Kept, Todo, initVars, TypeInv
  <2>2. Todo' = Todo \cup ({next} \cap Given)
    BY <1>0, <2>1, TodoIs
  <2>3. Rooted(mounts') /\ \E g \in [Todo' -> 2..Len(mounts')] : Pairs(mounts', Todo', g)
    <3>1. CASE volumes[next] = Invalid
      <4>1. mounts' = mounts /\ next \notin Given
        BY <1>2, <3>1 DEF MountVolume, Given
      <4>2. Todo' = Todo
        BY <2>2, <4>1
      <4> QED
        BY <2>1, <4>1, <4>2 DEF Paired
    <3>2. CASE volumes[next] # Invalid
      <4>1. mounts' = mounts \o Bind(volumes[next].dir, volumes[next].target) /\ next \in Given
        BY <1>0, <1>2, <1>a, <3>2 DEF MountVolume, Given
      <4>2. Todo' = Todo \cup {next} /\ next \notin Todo /\ Todo \subseteq Given
        BY <1>0, <2>1, <2>2, <4>1
      <4>3. Rooted(mounts') /\ Paired(mounts', Todo \cup {next})
        BY <1>0, <2>1, <4>1, <4>2, VolumeMounted
      <4> QED
        BY <4>2, <4>3 DEF Paired
    <3> QED
      BY <3>1, <3>2
  <2>4. Rooted(mounts)' /\ Paired(mounts, Todo)'
    BY <2>3, <1>b DEF Rooted, Paired, Pairs
  <2> QED
    BY <1>0, <2>1, <2>4 DEF Kept
<1>3. CASE VolumesMounted
  <2>1. /\ step = "volumes" /\ step' = "start" /\ next > Len(volumes)
        /\ UNCHANGED <<mounts, data, failed, init, inner>> /\ init = "none"
    BY <1>0, <1>3 DEF VolumesMounted, initVars, TypeInv
  <2>2. Todo' = Todo
    BY <1>0, <1>b, <2>1, TodoIs DEF Todo
  <2> QED
    BY <1>b, <2>1, <2>2 DEF Kept, Rooted, Paired, Pairs
<1>4. CASE Start
  <2>1. /\ step = "start" /\ step' = "send" /\ init' = "private" /\ inner' = mounts
        /\ UNCHANGED <<mounts, data, failed>> /\ Rooted(mounts) /\ Paired(mounts, Todo)
    BY <1>4 DEF Start, Kept
  <2>2. Todo' = Todo /\ Todo \subseteq Given
    BY <1>b, <2>1 DEF Todo
  <2>3. \A k \in DOMAIN inner' : inner'[k].at \in Places
    BY <1>0, <2>1, <2>2, PlacesOf
  <2> QED
    BY <1>0, <1>b, <2>1, <2>2, <2>3 DEF Kept, Rooted, Paired, Pairs
<1>5. CASE SendInitArgs
  <2>1. /\ step = "send" /\ step' = "up" /\ UNCHANGED <<mounts, data, failed, init, inner>>
    BY <1>5 DEF SendInitArgs, initVars
  <2>2. Todo' = Todo
    BY <1>b, <2>1 DEF Todo
  <2> QED
    BY <1>b, <2>1, <2>2 DEF Kept, Rooted, Paired, Pairs
<1>6. CASE BeginDelete
  <2>1. /\ step = "up" /\ step' = "umount" /\ next' = 1 /\ UNCHANGED <<mounts, data, failed, init, inner>>
    BY <1>6 DEF BeginDelete, initVars
  <2>2. Todo = Given /\ Todo' = {i \in Given : i >= 1}
    BY <1>b, <2>1 DEF Todo
  <2>3. Todo' = Todo
    BY <1>0, <2>2, TodoIs
  <2> QED
    BY <1>b, <2>1, <2>3 DEF Kept, Rooted, Paired, Pairs
<1>7. ASSUME NEW path, UmountPath(path), UNCHANGED init
      PROVE  /\ mounts' = Umounted(mounts, path)
             /\ init \in {"private", "bind", "putold"} => \A k \in DOMAIN inner' : inner'[k].at \in Places
  <2>1. mounts' = Umounted(mounts, path) /\ inner' \in {inner, Umounted(inner, path)}
    BY <1>7, <1>a DEF UmountPath
  <2>2. ASSUME init \in {"private", "bind", "putold"} PROVE \A k \in DOMAIN inner' : inner'[k].at \in Places
    <3>1. \A k \in DOMAIN inner : inner[k].at \in Places
      BY <2>2 DEF Kept
    <3>2. \A k \in DOMAIN Umounted(inner, path) : Umounted(inner, path)[k].at \in Places
      BY <1>0, <3>1, PlacesStay
    <3> QED
      BY <2>1, <3>1, <3>2
  <2> QED
    BY <2>1, <2>2
<1>8. CASE UmountVolume
  <2>1. /\ step = "umount" /\ step' = step /\ next' = next + 1 /\ UNCHANGED <<data, failed, init>>
        /\ Rooted(mounts) /\ Paired(mounts, Todo) /\ Todo = {i \in Given : i >= next}
        /\ Todo' = {i \in Given : i >= next + 1}
    BY <1>8, <1>b DEF UmountVolume, Kept, Todo
  <2>2. Todo' = Todo \ {next}
    BY <1>0, <2>1, TodoIs
  <2>3. /\ Rooted(mounts') /\ \E g \in [Todo' -> 2..Len(mounts')] : Pairs(mounts', Todo', g)
        /\ init \in {"private", "bind", "putold"} => \A k \in DOMAIN inner' : inner'[k].at \in Places
    <3>1. CASE volumes[next] = Invalid
      <4>1. mounts' = mounts /\ inner' = inner /\ next \notin Given
        BY <1>8, <3>1 DEF UmountVolume, Given
      <4>2. Todo' = Todo
        BY <2>1, <2>2, <4>1
      <4> QED
        BY <2>1, <4>1, <4>2 DEF Paired, Kept
    <3>2. CASE volumes[next] # Invalid
      <4>1. UmountPath(volumes[next].target) /\ next \in Given
        BY <1>0, <1>8, <3>2 DEF UmountVolume, Given
      <4>2. /\ mounts' = Umounted(mounts, volumes[next].target)
            /\ init \in {"private", "bind", "putold"} => \A k \in DOMAIN inner' : inner'[k].at \in Places
        BY <1>7, <2>1, <4>1
      <4>3. next \in Todo /\ Todo \subseteq Given
        BY <1>0, <2>1, <4>1
      <4>4. Rooted(mounts') /\ Paired(mounts', Todo \ {next})
        BY <1>0, <2>1, <4>2, <4>3, VolumeUmounted
      <4> QED
        BY <2>2, <4>2, <4>4 DEF Paired
    <3> QED
      BY <3>1, <3>2
  <2>4. Rooted(mounts)' /\ Paired(mounts, Todo)'
    BY <2>3, <1>b DEF Rooted, Paired, Pairs
  <2> QED
    BY <1>0, <1>b, <2>1, <2>3, <2>4 DEF Kept
<1>9. CASE UmountWorkspace
  <2>1. /\ step = "umount" /\ step' = "remove" /\ next > Len(volumes) /\ UNCHANGED <<data, failed, init>>
        /\ Rooted(mounts) /\ Paired(mounts, Todo) /\ Todo = {i \in Given : i >= next} /\ UmountPath(<<>>)
    BY <1>9 DEF UmountWorkspace, Kept, Todo
  <2>2. Todo = {}
    BY <1>0, <2>1, TodoIs
  <2>3. Umounted(mounts, <<>>) = <<>>
    BY <1>0, <2>1, <2>2, WorkspaceUmounted
  <2>4. /\ mounts' = <<>>
        /\ init \in {"private", "bind", "putold"} => \A k \in DOMAIN inner' : inner'[k].at \in Places
    BY <1>7, <2>1, <2>3
  <2> QED
    BY <1>0, <1>b, <2>1, <2>4 DEF Kept
<1>10. CASE RemoveWorkspace
  <2>1. /\ step = "remove" /\ step' = "over" /\ mounts = <<>> /\ data' = data \ Reached(mounts, <<>>)
        /\ UNCHANGED <<mounts, failed, init, inner>>
    BY <1>10 DEF RemoveWorkspace, Kept, initVars
  <2>2. Reached(mounts, <<>>) = {}
    BY <2>1 DEF Reached
  <2> QED
    BY <1>0, <1>b, <2>1, <2>2 DEF Kept
<1> QED
  BY <1>1, <1>2, <1>3, <1>4, <1>5, <1>6, <1>8, <1>9, <1>10 DEF HostStep

\* Nor does a step of the init process.
LEMMA InitKeeps ==
  ASSUME TypeInv, Undoable, Kept, InitStep
  PROVE  Kept'
<1>0. volumes \in Seq(Volume) /\ mounts \in Seq(Mount) /\ inner \in Seq(Mount) /\ data = Dir
  BY DEF TypeInv, TypeOK, Kept
<1>a. volumes' = volumes /\ Given' = Given /\ Places' = Places /\ step' = step /\ next' = next /\ failed' = failed
  <2>1. volumes' = volumes /\ step' = step /\ next' = next /\ failed' = failed
    BY DEF InitStep, MakePrivate, BindRoot, RemovePutOld, PivotRoot, DetachOld, MountProc, MountDev,
           ExecProgram, InitEnds, InitGoes, hostVars
  <2> QED
    BY <2>1 DEF Given, Places
<1>b. Todo' = Todo
  BY <1>a DEF Todo
<1>1. SUFFICES /\ mounts' = mounts /\ data' = data
               /\ init' \in {"private", "bind", "putold"} => \A k \in DOMAIN inner' : inner'[k].at \in Places
  BY <1>a, <1>b DEF Kept, Rooted, Paired, Pairs
<1>2. CASE MakePrivate
  BY <1>2 DEF MakePrivate, InitGoes, Kept
<1>3. CASE BindRoot
  <2>1. inner' = inner \o RootTree /\ mounts' = mounts /\ data' = data /\ \A k \in DOMAIN inner : inner[k].at \in Places
    BY <1>3 DEF BindRoot, InitGoes, RootTree, TypeInv, Inside, Kept
  <2>2. RootTree \in Seq(Mount) /\ \A k \in DOMAIN RootTree : RootTree[k].at \in Places
    <3>1. CASE Top(inner, <<>>) = 0
      <4>1. RootTree = <<[at |-> <<>>, of |-> "plain"]>>
        BY <3>1 DEF RootTree
      <4>2. DOMAIN RootTree = 1..1 /\ RootTree[1].at = <<>>
        BY <4>1
      <4> QED
        BY <1>0, <4>2, RootTreeIs DEF Places
    <3>2. CASE Top(inner, <<>>) # 0
      <4> DEFINE i == Top(inner, <<>>)
      <4>1. i \in 1..Len(inner)
        BY <1>0, <3>2, TopIs
      <4>2. RootTree = SubSeq(inner, i, Len(inner))
        BY <3>2 DEF RootTree
      <4> HIDE DEF i
      <4>3. /\ RootTree \in Seq(Mount) /\ Len(RootTree) = Len(inner) - i + 1
            /\ \A k \in 1..(Len(inner) - i + 1) : RootTree[k] = inner[i + k - 1]
        BY <1>0, <4>1, <4>2, Rest
      <4>4. ASSUME NEW k \in DOMAIN RootTree PROVE RootTree[k].at \in Places
        <5>1. k \in 1..(Len(inner) - i + 1) /\ i + k - 1 \in DOMAIN inner
          BY <1>0, <4>1, <4>3
        <5> QED
          BY <2>1, <4>3, <5>1
      <4> QED
        BY <4>3, <4>4
    <3> QED
      BY <3>1, <3>2
  <2> HIDE DEF RootTree
  <2>3. /\ inner' \in Seq(Mount) /\ Len(inner') = Len(inner) + Len(RootTree)
        /\ \A k \in 1..(Len(inner) + Len(RootTree)) :
             inner'[k] = IF k <= Len(inner) THEN inner[k] ELSE RootTree[k - Len(inner)]
    BY <1>0, <2>1, <2>2, Joined
  <2>4. ASSUME NEW k \in DOMAIN inner' PROVE inner'[k].at \in Places
    <3>1. k \in 1..(Len(inner) + Len(RootTree)) /\ Len(inner) \in Nat /\ Len(RootTree) \in Nat
      BY <1>0, <2>2, <2>3
    <3>2. CASE k <= Len(inner)
      <4>1. k \in DOMAIN inner /\ inner'[k] = inner[k]
        BY <1>0, <2>3, <3>1, <3>2
      <4> QED
        BY <2>1, <4>1
    <3>3. CASE ~(k <= Len(inner))
      <4>1. k - Len(inner) \in DOMAIN RootTree /\ inner'[k] = RootTree[k - Len(inner)]
        BY <2>2, <2>3, <3>1, <3>3
      <4> QED
        BY <2>2, <4>1
    <3> QED
      BY <3>2, <3>3
  <2> QED
    BY <2>1, <2>4
<1>4. CASE RemovePutOld
  <2>1. /\ data' = data \ Reached(inner, PutOld) /\ mounts' = mounts /\ init' \in {"pivot", "ended"}
        /\ \A k \in DOMAIN inner : inner[k].at \in Places
    BY <1>4 DEF RemovePutOld, Kept
  <2>2. ASSUME NEW k \in DOMAIN inner PROVE ~IsPrefix(PutOld, inner[k].at)
    <3>1. CASE inner[k].at = <<>>
      <4>1. PutOld # <<>>
        BY DEF PutOld
      <4> QED
        BY <3>1, <4>1, PathTypes, Above
    <3>2. CASE \E i \in Given : inner[k].at = volumes[i].target
      BY <3>2 DEF Undoable
    <3> QED
      BY <2>1, <3>1, <3>2 DEF Places
  <2>3. Reached(inner, PutOld) = {}
    BY <2>2 DEF Reached
  <2> QED
    BY <2>1, <2>3
<1>5. CASE PivotRoot
  BY <1>5 DEF PivotRoot, InitGoes
<1>6. CASE DetachOld
  BY <1>6 DEF DetachOld, InitGoes
<1>7. CASE MountProc
  BY <1>7 DEF MountProc, InitGoes
<1>8. CASE MountDev
  BY <1>8 DEF MountDev, InitGoes
<1>9. CASE ExecProgram
  BY <1>9 DEF ExecProgram, InitGoes
<1>10. CASE InitEnds
  BY <1>10 DEF InitEnds, hostVars
<1> QED
  BY <1>2, <1>3, <1>4, <1>5, <1>6, <1>7, <1>8, <1>9, <1>10 DEF InitStep

\* So what deleting the workspace relies on holds in every state without a failure.
LEMMA KeptAlways == Spec => []KeptInv
<1>1. Init => KeptInv
  <2> SUFFICES ASSUME Init PROVE TypeInv /\ Kept
    BY DEF KeptInv
  <2> QED
    BY InitialTypes DEF Init, Kept
<1>2. KeptInv /\ [Next]_vars => KeptInv'
  <2> SUFFICES ASSUME KeptInv, [Next]_vars PROVE KeptInv'
    OBVIOUS
  <2>1. TypeInv'
    BY TypesStay DEF KeptInv
  <2>2. ASSUME Undoable', faults' = 0 PROVE Kept'
    <3>1. volumes' = volumes /\ faults = 0
      <4>1. volumes' = volumes /\ (faults' = faults \/ faults' = faults + 1) /\ faults \in Nat
        BY BoundAssumption
           DEF Next, HostStep, InitStep, MountOverlay, MountVolume, VolumesMounted, Start, SendInitArgs,
               BeginDelete, UmountVolume, UmountWorkspace, RemoveWorkspace, UmountPath, MakePrivate, BindRoot,
               RemovePutOld, PivotRoot, DetachOld, MountProc, MountDev, ExecProgram, InitEnds, InitGoes, Fault,
               vars, KeptInv, TypeInv, TypeOK
      <4> QED
        BY <2>2, <4>1
    <3>2. Undoable /\ Kept /\ TypeInv
      BY <2>2, <3>1 DEF Undoable, Given, KeptInv
    <3>3. CASE UNCHANGED vars
      <4>1. UNCHANGED <<volumes, mounts, data, step, next, failed, init, inner>>
        BY <3>3 DEF vars, hostVars, initVars
      <4>2. Given' = Given
        BY <4>1 DEF Given
      <4>3. Todo' = Todo /\ Places' = Places
        BY <4>1, <4>2 DEF Todo, Places
      <4> QED
        BY <3>2, <4>1, <4>3 DEF Kept, Rooted, Paired, Pairs
    <3> QED
      BY <2>2, <3>1, <3>2, <3>3, HostKeeps, InitKeeps DEF Next
  <2> QED
    BY <2>1, <2>2 DEF KeptInv
<1> QED
  BY <1>1, <1>2, PTL DEF Spec

(***************************************************************************)
(* As long as no call fails, the directories of the host behind volumes    *)
(* that can be undone keep their contents, whenever rm deletes the         *)
(* workspace and whatever the init process does by then: by the time of    *)
(* os.RemoveAll nothing is mounted that it could reach them through.       *)
(***************************************************************************)
THEOREM VolumesSurvive == Spec => []VolumesKept
<1>1. KeptInv => VolumesKept
  BY DEF KeptInv, Kept, VolumesKept
<1> QED
  BY <1>1, KeptAlways, PTL

(***************************************************************************)
(* Nor does a mount of the container stay on the host: each umount takes   *)
(* away one mount, and of a volume mounted twice on the same path both go. *)
(***************************************************************************)
THEOREM NothingStays == Spec => []NothingStaysMounted
<1>1. KeptInv => NothingStaysMounted
  BY DEF KeptInv, Kept, NothingStaysMounted
<1> QED
  BY <1>1, KeptAlways, PTL

-----------------------------------------------------------------------------
(***************************************************************************)
(* Finding the volumes.                                                    *)
(***************************************************************************)

\* A path leads to the mount of a volume that nothing covers.
LEMMA LeadsThere ==
  ASSUME volumes \in Seq(Volume), NEW table \in Seq(Mount), NEW i \in Given,
         NEW k \in DOMAIN table, Leads(table, i, k)
  PROVE  Top(table, volumes[i].target) = k
<1> DEFINE path == volumes[i].target
<1>1. path \in Seq(Name) /\ DOMAIN table = 1..Len(table) /\ Len(table) \in Nat
  BY GivenIs
<1>2. IsPrefix(path, path)
  BY <1>1, Above
<1>3. k \in Over(table, path)
  BY <1>2 DEF Leads, Over
<1>4. /\ Top(table, path) \in Over(table, path) \cup {0}
      /\ k <= Top(table, path) /\ Top(table, path) \in 0..Len(table)
  BY <1>1, <1>3, TopIs
<1> DEFINE top == Top(table, path)
<1>5. top # 0 /\ ~(top > k)
  BY <1>1, <1>4 DEF Leads, Over
<1> QED
  BY <1>1, <1>4, <1>5

\* What comes before does not hide what is found.
LEMMA FoundAfter ==
  ASSUME NEW a \in Seq(Mount), NEW b \in Seq(Mount), NoOld(a), Finds(b)
  PROVE  Finds(a \o b)
<1>1. /\ a \o b \in Seq(Mount) /\ Len(a \o b) = Len(a) + Len(b) /\ Len(a) \in Nat /\ Len(b) \in Nat
      /\ \A k \in 1..(Len(a) + Len(b)) : (a \o b)[k] = IF k <= Len(a) THEN a[k] ELSE b[k - Len(a)]
      /\ DOMAIN a = 1..Len(a) /\ DOMAIN b = 1..Len(b)
  BY Joined
<1> DEFINE t == a \o b
<1>2. DOMAIN t = 1..(Len(a) + Len(b))
  BY <1>1
<1> HIDE DEF t
<1>3. \A k \in DOMAIN a : k \in DOMAIN t /\ t[k] = a[k]
  BY <1>1, <1>2 DEF t
<1>4. \A k \in DOMAIN b : k + Len(a) \in DOMAIN t /\ t[k + Len(a)] = b[k]
  <2>1. SUFFICES ASSUME NEW k \in DOMAIN b PROVE k + Len(a) \in DOMAIN t /\ t[k + Len(a)] = b[k]
    OBVIOUS
  <2>2. k + Len(a) \in 1..(Len(a) + Len(b)) /\ ~(k + Len(a) <= Len(a)) /\ (k + Len(a)) - Len(a) = k
    BY <1>1, <2>1
  <2> QED
    BY <1>1, <1>2, <2>2 DEF t
<1>5. \A m \in DOMAIN t : m \in DOMAIN a \/ (m - Len(a) \in DOMAIN b /\ m = (m - Len(a)) + Len(a))
  BY <1>1, <1>2
<1>6. NoOld(t)
  <2>1. SUFFICES ASSUME NEW m \in DOMAIN t PROVE t[m].of # "old"
    BY DEF NoOld
  <2>2. CASE m \in DOMAIN a
    BY <1>3, <2>2 DEF NoOld
  <2>3. CASE m - Len(a) \in DOMAIN b /\ m = (m - Len(a)) + Len(a)
    <3>1. t[m] = b[m - Len(a)]
      BY <1>4, <2>3
    <3> QED
      BY <2>3, <3>1 DEF NoOld, Finds
  <2> QED
    BY <1>5, <2>1, <2>2, <2>3
<1>7. ASSUME NEW i \in Given, i < Len(volumes) + 1, ~Hidden(i, Len(volumes) + 1)
      PROVE  \E k \in DOMAIN t : Leads(t, i, k)
  <2>1. PICK k \in DOMAIN b : Leads(b, i, k)
    BY <1>7 DEF Finds, Found
  <2>2. k + Len(a) \in DOMAIN t /\ t[k + Len(a)] = b[k]
    BY <1>4
  <2>3. ASSUME NEW m \in DOMAIN t, m > k + Len(a) PROVE ~IsPrefix(t[m].at, volumes[i].target)
    <3>1. m - Len(a) \in DOMAIN b /\ m = (m - Len(a)) + Len(a) /\ m - Len(a) > k
      BY <1>1, <1>2, <2>3
    <3>2. t[m] = b[m - Len(a)]
      BY <1>4, <3>1
    <3> QED
      BY <2>1, <3>1, <3>2 DEF Leads
  <2>4. Leads(t, i, k + Len(a))
    BY <2>1, <2>2, <2>3 DEF Leads
  <2> QED
    BY <2>2, <2>4
<1> QED
  BY <1>6, <1>7 DEF Finds, Found, t

\* Nothing is found before the mount that the root leads to.
LEMMA FoundBelowRoot ==
  ASSUME volumes \in Seq(Volume), NEW table \in Seq(Mount), Finds(table), NEW top \in 1..Len(table), top = Top(table, <<>>)
  PROVE  Finds(SubSeq(table, top, Len(table)))
<1> DEFINE t == SubSeq(table, top, Len(table))
<1>1. /\ t \in Seq(Mount) /\ Len(t) = Len(table) - top + 1 /\ Len(table) \in Nat
      /\ \A k \in 1..(Len(table) - top + 1) : t[k] = table[top + k - 1]
  BY Rest
<1> HIDE DEF t
<1>2. DOMAIN t = 1..(Len(table) - top + 1)
  BY <1>1
<1>3. \A k \in DOMAIN t : top + k - 1 \in DOMAIN table /\ t[k] = table[top + k - 1]
  BY <1>1, <1>2
<1>4. NoOld(t)
  BY <1>3 DEF NoOld, Finds
<1>5. table[top].at = <<>>
  <2>1. top \in Over(table, <<>>)
    <3>1. DOMAIN table = 1..Len(table)
      OBVIOUS
    <3> QED
      BY <1>1, <3>1, TopIs
  <2>2. table[top] \in Mount /\ IsPrefix(table[top].at, <<>>)
    BY <2>1 DEF Over
  <2>3. table[top].at \in Seq(Name)
    BY <2>2 DEF Mount
  <2> QED
    BY <2>2, <2>3, Above
<1>6. ASSUME NEW i \in Given, i < Len(volumes) + 1, ~Hidden(i, Len(volumes) + 1)
      PROVE  \E k \in DOMAIN t : Leads(t, i, k)
  <2>1. PICK k \in DOMAIN table : Leads(table, i, k)
    BY <1>6 DEF Finds, Found
  <2>2. top <= k
    <3>1. IsPrefix(<<>>, volumes[i].target)
      BY GivenIs, Above
    <3>2. ~(top > k)
      BY <1>5, <2>1, <3>1 DEF Leads
    <3> QED
      BY <1>1, <3>2
  <2>3. k - top + 1 \in DOMAIN t /\ top + (k - top + 1) - 1 = k
    BY <1>1, <1>2, <2>2
  <2>4. t[k - top + 1] = table[k]
    BY <1>3, <2>3
  <2>5. ASSUME NEW m \in DOMAIN t, m > k - top + 1 PROVE ~IsPrefix(t[m].at, volumes[i].target)
    <3>1. top + m - 1 \in DOMAIN table /\ t[m] = table[top + m - 1] /\ top + m - 1 > k
      BY <1>1, <1>2, <1>3, <2>2, <2>5
    <3> QED
      BY <2>1, <3>1 DEF Leads
  <2>6. Leads(t, i, k - top + 1)
    BY <2>1, <2>4, <2>5 DEF Leads
  <2> QED
    BY <2>3, <2>6
<1> QED
  BY <1>4, <1>6 DEF Finds, Found, t

\* A mount of the init process covers what is on or below it, and that is not to be found.
LEMMA FoundBeside ==
  ASSUME volumes \in Seq(Volume), NEW table \in Seq(Mount), Finds(table), NEW path \in {ProcFS, DevFS}, NEW source \in {"proc", "tmpfs"}
  PROVE  Finds(Append(table, [at |-> path, of |-> source]))
<1> DEFINE new == [at |-> path, of |-> source]
           t == Append(table, new)
<1>0. new.at = path /\ new.of = source
  OBVIOUS
<1> HIDE DEF new
<1>1. DOMAIN t = 1..(Len(table) + 1) /\ t[Len(table) + 1] = new /\ DOMAIN table = 1..Len(table) /\ Len(table) \in Nat
  OBVIOUS
<1>2. \A k \in DOMAIN table : t[k] = table[k]
  OBVIOUS
<1> HIDE DEF t
<1>3. NoOld(t)
  <2>1. SUFFICES ASSUME NEW m \in DOMAIN t PROVE t[m].of # "old"
    BY DEF NoOld
  <2>2. m \in DOMAIN table \/ m = Len(table) + 1
    BY <1>1
  <2> QED
    BY <1>0, <1>1, <1>2, <2>2 DEF NoOld, Finds
<1>4. ASSUME NEW i \in Given, i < Len(volumes) + 1, ~Hidden(i, Len(volumes) + 1)
      PROVE  \E k \in DOMAIN t : Leads(t, i, k)
  <2>1. PICK k \in DOMAIN table : Leads(table, i, k)
    BY <1>4 DEF Finds, Found
  <2>2. ~IsPrefix(path, volumes[i].target)
    BY <1>4 DEF Hidden
  <2>3. k \in DOMAIN t /\ t[k] = table[k]
    BY <1>1, <1>2
  <2>4. ASSUME NEW m \in DOMAIN t, m > k PROVE ~IsPrefix(t[m].at, volumes[i].target)
    <3>1. m \in DOMAIN table \/ m = Len(table) + 1
      BY <1>1
    <3> QED
      BY <1>0, <1>1, <1>2, <2>1, <2>2, <2>4, <3>1 DEF Leads
  <2>5. Leads(t, i, k)
    BY <2>1, <2>3, <2>4 DEF Leads
  <2> QED
    BY <2>3, <2>5
<1> QED
  BY <1>3, <1>4 DEF Finds, Found, t, new

\* Mounting a volume covers those it is above, and it is found itself.
LEMMA FoundNext ==
  ASSUME volumes \in Seq(Volume), NEW table \in Seq(Mount), NEW n \in Given, NoOld(table)
  PROVE  LET t == table \o Bind(volumes[n].dir, volumes[n].target) IN NoOld(t) /\ (Found(table, n) => Found(t, n + 1))
<1> DEFINE dir == volumes[n].dir
           path == volumes[n].target
           b == Bind(dir, path)
           t == table \o b
<1>0. n \in 1..Len(volumes) /\ dir \in Dir /\ path \in Seq(Name) /\ Len(volumes) \in Nat /\ \A i \in Given : i \in Nat
  <2>1. \A i \in Given : i \in 1..Len(volumes)
    BY DEF Given
  <2> QED
    BY <2>1, GivenIs
<1>1. /\ b \in Seq(Mount) /\ Len(b) = IF dir \in Deep THEN 2 ELSE 1
      /\ b[1] = [at |-> path, of |-> dir] /\ (dir \in Deep => b[2] = [at |-> path \o Sub, of |-> dir])
  BY <1>0, BindIs
<1>2. b[1].at = path /\ b[1].of = dir /\ (dir \in Deep => b[2].at = path \o Sub /\ b[2].of = dir)
  BY <1>1
<1>3. Len(b) \in {1, 2} /\ (Len(b) = 2 => dir \in Deep)
  BY <1>1
<1>4. dir # "old"
  BY <1>0, DirAssumption DEF Source
<1> HIDE DEF b
<1>5. /\ Len(t) = Len(table) + Len(b) /\ Len(table) \in Nat /\ t \in Seq(Mount)
      /\ \A k \in 1..(Len(table) + Len(b)) : t[k] = IF k <= Len(table) THEN table[k] ELSE b[k - Len(table)]
      /\ DOMAIN table = 1..Len(table)
  <2>1. b \in Seq(Mount) /\ DOMAIN table = 1..Len(table) /\ Len(table) \in Nat
    BY <1>1
  <2> QED
    BY <2>1, Joined
<1> HIDE DEF t
<1>6. DOMAIN t = 1..(Len(table) + Len(b))
  BY <1>5
<1>7. \A k \in DOMAIN table : k \in DOMAIN t /\ t[k] = table[k]
  BY <1>3, <1>5, <1>6
<1>8. /\ Len(table) + 1 \in DOMAIN t /\ t[Len(table) + 1] = b[1]
      /\ Len(b) = 2 => t[Len(table) + 2] = b[2]
  <2>1. Len(table) + 1 \in 1..(Len(table) + Len(b)) /\ ~(Len(table) + 1 <= Len(table)) /\ (Len(table) + 1) - Len(table) = 1
    <3>1. \A k \in Nat : k + 1 \in 1..(k + 1) /\ k + 1 \in 1..(k + 2) /\ ~(k + 1 <= k) /\ (k + 1) - k = 1
      OBVIOUS
    <3> QED
      BY <1>3, <1>5, <3>1
  <2>2. Len(b) = 2 => Len(table) + 2 \in 1..(Len(table) + Len(b)) /\ ~(Len(table) + 2 <= Len(table)) /\ (Len(table) + 2) - Len(table) = 2
    BY <1>5
  <2> QED
    BY <1>5, <1>6, <2>1, <2>2
<1>9. \A m \in DOMAIN t : m \in DOMAIN table \/ m = Len(table) + 1 \/ (m = Len(table) + 2 /\ Len(b) = 2)
  BY <1>3, <1>5, <1>6
<1>10. NoOld(t)
  <2>1. SUFFICES ASSUME NEW m \in DOMAIN t PROVE t[m].of # "old"
    BY DEF NoOld
  <2>2. CASE m \in DOMAIN table
    BY <1>7, <2>2 DEF NoOld
  <2>3. CASE m = Len(table) + 1
    BY <1>2, <1>4, <1>8, <2>3
  <2>4. CASE m = Len(table) + 2 /\ Len(b) = 2
    BY <1>2, <1>3, <1>4, <1>8, <2>4
  <2> QED
    BY <1>9, <2>2, <2>3, <2>4
<1>11. ASSUME Found(table, n), NEW i \in Given, i < n + 1, ~Hidden(i, n + 1)
       PROVE  \E k \in DOMAIN t : Leads(t, i, k)
  <2>0. volumes[i].target \in Seq(Name) /\ i \in Nat /\ n \in Nat
    BY <1>0, GivenIs
  <2>1. CASE i < n
    <3>1. ~Hidden(i, n)
      <4>1. \A j \in Given : j < n => j < n + 1
        BY <1>0, <2>0
      <4> QED
        BY <1>11, <4>1 DEF Hidden
    <3>2. PICK k \in DOMAIN table : Leads(table, i, k)
      BY <1>11, <2>1, <3>1 DEF Found
    <3>3. ~IsPrefix(path, volumes[i].target)
      <4>1. n < n + 1
        BY <2>0
      <4> QED
        BY <1>11, <2>1, <4>1 DEF Hidden
    <3>4. ~IsPrefix(path \o Sub, volumes[i].target)
      BY <1>0, <2>0, <3>3, PathTypes, Below
    <3>5. ASSUME NEW m \in DOMAIN t, m > k PROVE ~IsPrefix(t[m].at, volumes[i].target)
      <4>1. CASE m \in DOMAIN table
        BY <1>7, <3>2, <3>5, <4>1 DEF Leads
      <4>2. CASE m = Len(table) + 1
        BY <1>2, <1>8, <3>3, <4>2
      <4>3. CASE m = Len(table) + 2 /\ Len(b) = 2
        BY <1>2, <1>3, <1>8, <3>4, <4>3
      <4> QED
        BY <1>9, <4>1, <4>2, <4>3
    <3>6. Leads(t, i, k) /\ k \in DOMAIN t
      BY <1>7, <3>2, <3>5 DEF Leads
    <3> QED
      BY <3>6
  <2>2. CASE i = n
    <3>1. ~IsPrefix(path \o Sub, path)
      <4>1. path \o Sub \in Seq(Name) /\ Len(path \o Sub) = Len(path) + 1 /\ Len(path) \in Nat
        BY <1>0, PathTypes DEF Sub
      <4>2. IsPrefix(path \o Sub, path) => Len(path \o Sub) <= Len(path)
        BY DEF IsPrefix
      <4> QED
        BY <4>1, <4>2
    <3>2. ASSUME NEW m \in DOMAIN t, m > Len(table) + 1 PROVE ~IsPrefix(t[m].at, path)
      <4>1. m = Len(table) + 2 /\ Len(b) = 2
        BY <1>5, <1>9, <3>2
      <4> QED
        BY <1>2, <1>3, <1>8, <3>1, <4>1
    <3>3. Leads(t, i, Len(table) + 1)
      BY <1>2, <1>8, <2>2, <3>2 DEF Leads
    <3> QED
      BY <1>8, <3>3
  <2> QED
    BY <1>11, <2>0, <2>1, <2>2
<1> QED
  BY <1>10, <1>11 DEF Found, t, b

\* Without its last element a sequence is what it was before that was added.
LEMMA LastOff ==
  ASSUME NEW S, NEW s \in Seq(S), NEW e \in S
  PROVE  /\ s \o <<e>> # <<>> /\ (s \o <<e>>)[Len(s \o <<e>>)] = e
         /\ SubSeq(s \o <<e>>, 1, Len(s \o <<e>>) - 1) = s
<1> DEFINE t == s \o <<e>>
<1>1. /\ t \in Seq(S) /\ Len(t) = Len(s) + 1 /\ Len(s) \in Nat
      /\ \A k \in 1..(Len(s) + 1) : t[k] = IF k <= Len(s) THEN s[k] ELSE e
  OBVIOUS
<1> HIDE DEF t
<1>2. t # <<>> /\ t[Len(t)] = e
  BY <1>1
<1>3. SubSeq(t, 1, Len(s)) \in Seq(S) /\ Len(SubSeq(t, 1, Len(s))) = Len(s) /\ \A k \in 1..Len(s) : SubSeq(t, 1, Len(s))[k] = s[k]
  BY <1>1
<1>4. SubSeq(t, 1, Len(s)) = s
  BY <1>3
<1> QED
  BY <1>1, <1>2, <1>4 DEF t

\* To remove the last element is to keep the others.
LEMMA LastRemoved ==
  ASSUME NEW S, NEW s \in Seq(S), s # <<>>
  PROVE  RemoveAt(s, Len(s)) = SubSeq(s, 1, Len(s) - 1)
<1>1. SubSeq(s, Len(s) + 1, Len(s)) = <<>> /\ SubSeq(s, 1, Len(s) - 1) \in Seq(S)
  OBVIOUS
<1>2. \A t \in Seq(S) : t \o <<>> = t
  OBVIOUS
<1> QED
  BY <1>1, <1>2 DEF RemoveAt

\* A root that a host has mounted is one the init process finds.
LEMMA RootFound ==
  ASSUME inner \in Seq(Mount), Rooted(inner)
  PROVE  Top(inner, <<>>) \in 1..Len(inner)
<1>1. 1 \in 1..Len(inner) /\ DOMAIN inner = 1..Len(inner) /\ Len(inner) \in Nat
  BY DEF Rooted
<1>2. 1 \in Over(inner, <<>>)
  BY <1>1, PathTypes, Above DEF Over, Rooted
<1>3. 1 <= Top(inner, <<>>) /\ Top(inner, <<>>) \in 0..Len(inner)
  BY <1>1, <1>2, TopIs
<1> QED
  BY <1>1, <1>3

\* The host mounts the volumes where they are to be found.
LEMMA HostFinds ==
  ASSUME FindsInv, HostStep
  PROVE  FindsInv'
<1>0. /\ volumes \in Seq(Volume) /\ mounts \in Seq(Mount) /\ Len(volumes) \in Nat
      /\ next \in Nat \ {0} /\ failed \in BOOLEAN
  BY BoundAssumption DEF FindsInv, TypeInv, TypeOK
<1>a. TypeInv'
  BY TypesStay DEF FindsInv, Next
<1>b. volumes' = volumes /\ Given' = Given
  <2>1. volumes' = volumes
    BY DEF HostStep, MountOverlay, MountVolume, VolumesMounted, Start, SendInitArgs,
           BeginDelete, UmountVolume, UmountWorkspace, RemoveWorkspace
  <2> QED
    BY <2>1 DEF Given
<1> USE <1>a
<1>1. CASE MountOverlay
  <2>1. step' \in {"volumes", "cut"} /\ (step' = "volumes" => mounts' = <<[at |-> <<>>, of |-> "overlay"]>> /\ next' = 1)
    BY <1>1 DEF MountOverlay, FindsInv, TypeInv
  <2>2. ASSUME step' = "volumes" PROVE Rooted(mounts)' /\ NoOld(mounts)' /\ Found(mounts, next)'
    <3>1. mounts' = <<[at |-> <<>>, of |-> "overlay"]>> /\ next' = 1
      BY <2>1, <2>2
    <3>2. DOMAIN mounts' = 1..1 /\ mounts'[1].at = <<>> /\ mounts'[1].of = "overlay" /\ mounts' # <<>>
      BY <3>1
    <3>3. \A i \in Given' : ~(i < next')
      BY <1>0, <1>b, <3>1, TodoIs
    <3> QED
      BY <3>2, <3>3 DEF Rooted, NoOld, Found
  <2> QED
    BY <2>1, <2>2 DEF FindsInv
<1>2. CASE MountVolume
  <2>1. /\ step = "volumes" /\ step' = step /\ next' = next + 1 /\ next <= Len(volumes)
        /\ Rooted(mounts) /\ NoOld(mounts) /\ (failed = FALSE => Found(mounts, next))
    BY <1>2 DEF MountVolume, FindsInv
  <2>2. Rooted(mounts') /\ NoOld(mounts') /\ (failed' = FALSE => Found(mounts', next + 1))
    <3>1. CASE volumes[next] = Invalid /\ mounts' = mounts /\ failed' = failed
      <4>1. next \notin Given
        BY <3>1 DEF Given
      <4>2. Found(mounts, next) => Found(mounts, next + 1)
        <5>1. \A i \in Given : i < next + 1 => i < next
          BY <1>0, <4>1, TodoIs
        <5>2. \A i \in Given : \A j \in Given : j < next => j < next + 1
          BY <1>0, TodoIs
        <5> QED
          BY <5>1, <5>2 DEF Found, Hidden
      <4> QED
        BY <2>1, <3>1, <4>2
    <3>2. CASE /\ volumes[next] # Invalid /\ failed' = failed
               /\ mounts' = mounts \o Bind(volumes[next].dir, volumes[next].target)
      <4> DEFINE b == Bind(volumes[next].dir, volumes[next].target)
      <4>1. next \in Given
        BY <1>0, <2>1, <3>2 DEF Given
      <4>2. b \in Seq(Mount)
        BY <1>0, <4>1, GivenIs, BindIs
      <4>3. Rooted(mounts')
        <5> HIDE DEF b
        <5>1. /\ mounts \o b \in Seq(Mount) /\ Len(mounts \o b) = Len(mounts) + Len(b)
              /\ \A k \in 1..(Len(mounts) + Len(b)) : (mounts \o b)[k] = IF k <= Len(mounts) THEN mounts[k] ELSE b[k - Len(mounts)]
          BY <1>0, <4>2, Joined
        <5>2. Len(mounts) \in Nat /\ Len(mounts) >= 1 /\ Len(b) \in Nat /\ mounts[1].at = <<>>
          BY <1>0, <2>1, <4>2 DEF Rooted
        <5>3. (mounts \o b)[1] = mounts[1] /\ mounts \o b # <<>>
          BY <5>1, <5>2
        <5> QED
          BY <3>2, <5>2, <5>3 DEF Rooted, b
      <4>4. NoOld(mounts')
        BY <1>0, <2>1, <3>2, <4>1, FoundNext
      <4>5. failed = FALSE => Found(mounts', next + 1)
        BY <1>0, <2>1, <3>2, <4>1, FoundNext
      <4> QED
        BY <3>2, <4>3, <4>4, <4>5
    <3>3. CASE failed' = TRUE /\ mounts' = mounts
      BY <2>1, <3>3
    <3> QED
      BY <1>2, <3>1, <3>2, <3>3 DEF MountVolume
  <2> QED
    BY <1>b, <2>1, <2>2 DEF FindsInv, Rooted, NoOld, Found, Hidden, Leads
<1>3. CASE VolumesMounted
  <2>1. /\ step = "volumes" /\ next > Len(volumes) /\ mounts' = mounts /\ step' = IF failed THEN "cut" ELSE "start"
        /\ Rooted(mounts) /\ NoOld(mounts) /\ (failed = FALSE => Found(mounts, next))
    BY <1>3 DEF VolumesMounted, FindsInv
  <2>2. Found(mounts, next) => Found(mounts, Len(volumes) + 1)
    <3>1. \A i \in Given : i < Len(volumes) + 1 /\ i < next
      BY <1>0, <2>1, TodoIs
    <3> QED
      BY <3>1 DEF Found, Hidden
  <2>3. step' = "start" => Rooted(mounts') /\ NoOld(mounts') /\ Found(mounts', Len(volumes') + 1)
    BY <1>0, <1>b, <2>1, <2>2
  <2> QED
    BY <1>b, <2>1, <2>3 DEF FindsInv, Rooted, Finds, NoOld, Found, Hidden, Leads
<1>4. CASE Start
  <2>1. step' = "send" /\ init' = "private" /\ inner' = mounts /\ Rooted(mounts) /\ Finds(mounts)
    BY <1>4 DEF Start, FindsInv
  <2> QED
    BY <1>b, <2>1 DEF FindsInv, Rooted, Finds, NoOld, Found, Hidden, Leads
<1>5. CASE SendInitArgs
  <2>1. step = "send" /\ step' = "up" /\ init' = init /\ inner' = inner
    BY <1>5 DEF SendInitArgs, initVars
  <2> QED
    BY <1>b, <2>1 DEF FindsInv, Rooted, Finds, NoOld, Found, Hidden, Leads
<1>6. CASE BeginDelete \/ UmountVolume \/ UmountWorkspace \/ RemoveWorkspace
  <2>1. step' \in {"umount", "remove", "over"}
    BY <1>6 DEF BeginDelete, UmountVolume, UmountWorkspace, RemoveWorkspace
  <2> QED
    BY <2>1 DEF FindsInv
<1> QED
  BY <1>1, <1>2, <1>3, <1>4, <1>5, <1>6 DEF HostStep

\* The init process keeps what it found together.
LEMMA InitFinds ==
  ASSUME FindsInv, InitStep
  PROVE  FindsInv'
<1>0. volumes \in Seq(Volume) /\ inner \in Seq(Mount) /\ Len(volumes) \in Nat
  BY DEF FindsInv, TypeInv, TypeOK
<1>a. TypeInv'
  BY TypesStay DEF FindsInv, Next
<1>b. volumes' = volumes /\ Given' = Given /\ step' = step /\ step \notin {"volumes", "start"}
  <2>1. volumes' = volumes /\ step' = step /\ init # "none"
    BY DEF InitStep, MakePrivate, BindRoot, RemovePutOld, PivotRoot, DetachOld, MountProc, MountDev,
           ExecProgram, InitEnds, InitGoes, hostVars
  <2> QED
    BY <2>1 DEF Given, FindsInv, TypeInv
<1> DEFINE Going == {"private", "bind", "putold", "pivot", "proc", "dev", "args", "main"}
<1>c. ASSUME step \in {"send", "up"}, init \in Going PROVE Finds(inner)
  BY <1>c DEF FindsInv
<1>d. SUFFICES ASSUME step \in {"send", "up"}
               PROVE  /\ init' \in {"private", "bind"} => Rooted(inner')
                      /\ init' \in Going => Finds(inner')
                      /\ init' = "detach" =>
                           /\ inner' # <<>> /\ inner'[Len(inner')] = [at |-> PutOld, of |-> "old"]
                           /\ Finds(SubSeq(inner', 1, Len(inner') - 1))
  BY <1>a, <1>b DEF FindsInv, Rooted, Finds, NoOld, Found, Hidden, Leads
<1>1. CASE MakePrivate
  <2>1. init = "private" /\ init' = "bind" /\ inner' = inner /\ Rooted(inner)
    BY <1>1, <1>d DEF MakePrivate, InitGoes, FindsInv
  <2> QED
    BY <1>c, <1>d, <2>1
<1>2. CASE BindRoot
  <2>1. init = "bind" /\ init' = "putold" /\ Rooted(inner)
    BY <1>2, <1>d DEF BindRoot, InitGoes, FindsInv
  <2> DEFINE top == Top(inner, <<>>)
  <2>2. top \in 1..Len(inner)
    BY <1>0, <2>1, RootFound
  <2>3. inner' = inner \o SubSeq(inner, top, Len(inner))
    BY <1>2, <2>2 DEF BindRoot
  <2>4. Finds(inner)
    BY <1>c, <1>d, <2>1
  <2>5. Finds(SubSeq(inner, top, Len(inner)))
    BY <1>0, <2>2, <2>4, FoundBelowRoot
  <2>6. SubSeq(inner, top, Len(inner)) \in Seq(Mount)
    BY <1>0, <2>2, Rest
  <2>7. Finds(inner \o SubSeq(inner, top, Len(inner)))
    BY <1>0, <2>4, <2>5, <2>6, FoundAfter DEF Finds
  <2> QED
    BY <2>1, <2>3, <2>7
<1>3. CASE RemovePutOld
  <2>1. init = "putold" /\ init' \in {"pivot", "ended"} /\ inner' = inner
    BY <1>3 DEF RemovePutOld
  <2> QED
    BY <1>c, <1>d, <2>1
<1>4. CASE PivotRoot
  <2> DEFINE top == Top(inner, <<>>)
             rest == SubSeq(inner, top, Len(inner))
             old == [at |-> PutOld, of |-> "old"]
  <2>1. init = "pivot" /\ init' = "detach" /\ inner' = rest \o <<old>>
    BY <1>4 DEF PivotRoot, InitGoes
  <2>2. PICK k \in DOMAIN inner : inner[k].at = <<>>
    BY <2>1 DEF FindsInv, TypeInv
  <2>3. top \in 1..Len(inner)
    <3>1. IsPrefix(inner[k].at, <<>>)
      BY <2>2, PathTypes, Above
    <3>2. k \in Over(inner, <<>>) /\ k \in 1..Len(inner)
      BY <1>0, <2>2, <3>1 DEF Over
    <3> QED
      BY <1>0, <3>2, TopIs
  <2>4. rest \in Seq(Mount)
    BY <1>0, <2>3, Rest
  <2>5. Finds(rest)
    BY <1>0, <1>c, <1>d, <2>1, <2>3, FoundBelowRoot
  <2>6. old \in Mount
    BY PathTypes DEF Mount, Source
  <2> HIDE DEF rest, old
  <2>7. /\ rest \o <<old>> # <<>> /\ (rest \o <<old>>)[Len(rest \o <<old>>)] = old
        /\ SubSeq(rest \o <<old>>, 1, Len(rest \o <<old>>) - 1) = rest
    BY <2>4, <2>6, LastOff
  <2> QED
    BY <2>1, <2>5, <2>7 DEF old
<1>5. CASE DetachOld
  <2>1. /\ init = "detach" /\ init' = "proc" /\ inner' = RemoveAt(inner, Top(inner, PutOld))
        /\ inner # <<>> /\ inner[Len(inner)] = [at |-> PutOld, of |-> "old"]
        /\ Finds(SubSeq(inner, 1, Len(inner) - 1))
    BY <1>5, <1>d DEF DetachOld, InitGoes, FindsInv
  <2>2. Len(inner) \in Nat /\ Len(inner) \in 1..Len(inner) /\ DOMAIN inner = 1..Len(inner)
    BY <1>0, <2>1
  <2>3. inner[Len(inner)].at = PutOld
    BY <2>1
  <2>4. Len(inner) \in Over(inner, PutOld)
    BY <2>2, <2>3, PathTypes, Above DEF Over
  <2>5. Top(inner, PutOld) = Len(inner)
    <3>1. Len(inner) <= Top(inner, PutOld) /\ Top(inner, PutOld) \in 0..Len(inner)
      BY <2>2, <2>4, TopIs
    <3> QED
      BY <2>2, <3>1
  <2>6. RemoveAt(inner, Len(inner)) = SubSeq(inner, 1, Len(inner) - 1)
    BY <1>0, <2>2, LastRemoved
  <2> QED
    BY <2>1, <2>5, <2>6
<1>6. CASE MountProc
  <2>1. init = "proc" /\ init' = "dev" /\ inner' = Append(inner, [at |-> ProcFS, of |-> "proc"])
    BY <1>6 DEF MountProc, InitGoes
  <2>2. Finds(inner)
    BY <1>c, <1>d, <2>1
  <2>3. Finds(Append(inner, [at |-> ProcFS, of |-> "proc"]))
    BY <1>0, <2>2, FoundBeside
  <2> QED
    BY <2>1, <2>3
<1>7. CASE MountDev
  <2>1. init = "dev" /\ init' = "args" /\ inner' = Append(inner, [at |-> DevFS, of |-> "tmpfs"])
    BY <1>7 DEF MountDev, InitGoes
  <2>2. Finds(inner)
    BY <1>c, <1>d, <2>1
  <2>3. Finds(Append(inner, [at |-> DevFS, of |-> "tmpfs"]))
    BY <1>0, <2>2, FoundBeside
  <2> QED
    BY <2>1, <2>3
<1>8. CASE ExecProgram
  <2>1. init = "args" /\ init' = "main" /\ inner' = inner
    BY <1>8 DEF ExecProgram, InitGoes
  <2> QED
    BY <1>c, <1>d, <2>1
<1>9. CASE InitEnds
  <2>1. init' = "ended"
    BY <1>9 DEF InitEnds
  <2> QED
    BY <2>1
<1> QED
  BY <1>1, <1>2, <1>3, <1>4, <1>5, <1>6, <1>7, <1>8, <1>9 DEF InitStep

(***************************************************************************)
(* As long as nobody began to delete the workspace, the program of a       *)
(* container that run started finds each of its volumes where run put it,  *)
(* through the bind of the root, pivot_root and the detached old root, or  *)
(* a later volume, /proc or /dev covers it; the file systems of the host   *)
(* are gone.                                                               *)
(***************************************************************************)
THEOREM VolumesFound == Spec => []FindsItsVolumes
<1>1. Init => FindsInv
  BY InitialTypes DEF Init, FindsInv
<1>2. FindsInv /\ [Next]_vars => FindsInv'
  <2>1. ASSUME FindsInv, UNCHANGED vars PROVE FindsInv'
    <3>1. UNCHANGED <<volumes, mounts, step, next, failed, init, inner>>
      BY <2>1 DEF vars, hostVars, initVars
    <3>2. TypeInv'
      BY <2>1, TypesStay DEF FindsInv
    <3>3. Given' = Given
      BY <3>1 DEF Given
    <3> QED
      BY <2>1, <3>1, <3>2, <3>3 DEF FindsInv, Rooted, Finds, NoOld, Found, Hidden, Leads
  <2> QED
    BY <2>1, HostFinds, InitFinds DEF Next
<1>3. FindsInv => FindsItsVolumes
  <2> SUFFICES ASSUME FindsInv, init = "main", step = "up"
               PROVE  /\ \A i \in DOMAIN inner : inner[i].of # "old"
                      /\ \A i \in Given : ~Covered(i) =>
                           LET top == Top(inner, volumes[i].target) IN top # 0 /\ inner[top].of = volumes[i].dir
    BY DEF FindsItsVolumes
  <2>1. volumes \in Seq(Volume) /\ inner \in Seq(Mount) /\ Finds(inner) /\ Len(volumes) \in Nat
    BY DEF FindsInv, TypeInv, TypeOK
  <2>2. ASSUME NEW i \in Given, ~Covered(i)
        PROVE  LET top == Top(inner, volumes[i].target) IN top # 0 /\ inner[top].of = volumes[i].dir
    <3>1. i < Len(volumes) + 1 /\ ~Hidden(i, Len(volumes) + 1)
      BY <2>1, <2>2, TodoIs DEF Covered, Hidden
    <3>2. PICK k \in DOMAIN inner : Leads(inner, i, k)
      BY <2>1, <3>1 DEF Finds, Found
    <3>3. Top(inner, volumes[i].target) = k /\ k # 0
      BY <2>1, <3>2, LeadsThere
    <3> QED
      BY <3>2, <3>3 DEF Leads
  <2> QED
    BY <2>1, <2>2 DEF Finds, NoOld
<1> QED
  BY <1>1, <1>2, <1>3, PTL DEF Spec
=============================================================================

------------------------------- MODULE Mounts -------------------------------
(* What minijail_enter() does to the file system: the mount namespace and its  *)
(* propagation, the mounts of the jail in order, the private /dev that is      *)
(* built at a temporary path and moved into place, chroot or pivot_root, /tmp   *)
(* and /proc.  The namespace starts as a copy of the caller's: each of the      *)
(* caller's mounts is in it, with a propagation type that decides whether a     *)
(* mount or an unmount beneath it also happens in the caller's namespace.       *)
EXTENDS Sequences, FiniteSetsExt, Naturals

CONSTANTS
  Jails,          \* the jails considered
  HostProps,      \* the propagation the caller's mounts may have
  BlockSymlinks,  \* BLOCK_SYMLINKS_IN_BINDMOUNT_PATHS, a build option
  MaxFaults       \* bound: system calls that fail for a reason outside the model

\* The caller's mounts, and the mount each of them sits on.
Host == {"/", "/proc", "/dev", "/mnt", "/mnt/sub"}
Parent == [m \in Host |-> IF m = "/mnt/sub" THEN "/mnt" ELSE "/"]

\* In the caller's peer group, in a group of its own, or neither.
Shared == {"peer", "shared", "slave+shared"}

\* MS_UNBINDABLE, MS_PRIVATE, MS_SLAVE and MS_SHARED; 0 leaves everything alone.
UNBINDABLE == 1
PRIVATE    == 2
SLAVE      == 3
SHARED     == 4

\* A struct mountpoint.  `src' is what its source path turns out to be, `from'
\* and `flags' the caller's mount it is on and the flags of that mount, `there'
\* whether the destination exists already.
Entries ==
  [dest : {"/dev/log", "/data", "/proc"}, kind : {"bind", "rawbind", "remount", "fs"},
   ro : BOOLEAN, src : {"file", "missing", "link", "relative"}, from : Host,
   flags : SUBSET {"ro", "nosuid"}, there : BOOLEAN]

JailOptions ==
  [enter_vfs : BOOLEAN, vfs : BOOLEAN, mode : 0..4,
   remounts : Seq([at : Host, mode : 1..4]), userns : BOOLEAN,
   mount_dev : BOOLEAN, list : Seq(Entries), root : {"none", "chroot", "pivot"},
   dir : Host,    \* the caller's mount that chrootdir is on
   tmp : BOOLEAN, proc_ro : BOOLEAN]

ASSUME MountsAssumption ==
  /\ Jails \subseteq JailOptions
  /\ HostProps \subseteq [Host -> {"peer", "private"}]
  /\ BlockSymlinks \in BOOLEAN
  /\ MaxFaults \in Nat

VARIABLES
  jail,    \* struct minijail
  pc,      \* the step minijail_enter() is at
  i,       \* the entry of the jail's list, or of its remounts, that is next
  inside,  \* whether the process has a mount namespace of its own
  prop,    \* the propagation of the caller's mounts in that namespace
  gone,    \* those of them that are unmounted there
  made,    \* the jail's own mounts, in order: which entry, where, with which flags
  dev,     \* where the jail's /dev is
  temp,    \* its temporary directory and mount
  umask,
  root,    \* the root directory of the process
  proc,    \* the jail's own /proc
  outside, \* what the caller's namespace has lost or gained
  faults

vars == <<jail, pc, i, inside, prop, gone, made, dev, temp, umask, root, proc, outside, faults>>

Steps ==
  {"setns", "unshare", "remounts", "mkdtemp", "devfs", "nodes", "mounts", "unmount_dev",
   "move_dev", "root", "bind_root", "pivot", "private", "detach", "tmp", "umount_proc", "proc"}

Init ==
  /\ jail \in Jails
  /\ prop \in HostProps
  /\ pc = "setns" /\ i = 1
  /\ inside = FALSE /\ gone = {} /\ made = <<>> /\ dev = "none" /\ temp = "none"
  /\ umask = "caller" /\ root = "host" /\ proc = FALSE /\ outside = {} /\ faults = 0

-----------------------------------------------------------------------------
(* The kernel: propagation.                                                    *)

\* mount(2) with a propagation type, on one mount.
WithMode(p, mode) ==
  CASE mode = PRIVATE    -> "private"
    [] mode = UNBINDABLE -> "unbindable"
    [] mode = SLAVE      -> (IF p \in {"peer", "slave", "slave+shared"} THEN "slave" ELSE "private")
    [] mode = SHARED     -> (IF p = "peer" THEN p
                             ELSE IF p \in {"slave", "slave+shared"} THEN "slave+shared"
                             ELSE "shared")

Beneath(m) == {n \in Host : n = m \/ Parent[n] = m \/ m = "/"}
Remounted(m, mode) ==
  [n \in Host |-> IF n \in Beneath(m) THEN WithMode(prop[n], mode) ELSE prop[n]]

\* A new mount on `m', and the loss of the caller's mounts `ms'.
Gained(m)  == IF ~inside \/ prop[m] = "peer" THEN {<<"gained", m>>} ELSE {}
Lost(ms)   == {<<"lost", m>> : m \in {n \in ms : ~inside \/ (n # "/" /\ prop[Parent[n]] = "peer")}}

\* Where a destination inside the jail lies.
On(dest) ==
  IF jail.root # "none" THEN jail.dir
  ELSE IF dest = "/proc" /\ "/proc" \notin gone THEN "/proc"
  ELSE IF dest = "/dev/log" /\ "/dev" \notin gone THEN "/dev" ELSE "/"

-----------------------------------------------------------------------------
(* The mount namespace.                                                        *)

\* setns(2) enters the namespace of another process; its mounts are not the
\* caller's, which is modelled as a namespace where nothing propagates.
EnterVfs ==
  /\ pc = "setns"
  /\ pc' = "unshare"
  /\ IF jail.enter_vfs THEN inside' = TRUE /\ prop' = [m \in Host |-> "private"]
     ELSE UNCHANGED <<inside, prop>>
  /\ UNCHANGED <<i, gone, made, dev, temp, umask, root, proc, outside>>

FirstMount == IF jail.mount_dev THEN "mkdtemp" ELSE "mounts"

\* unshare(2) copies the namespace; then every mount gets the jail's mode.
VfsOnly ==
  /\ pc = "unshare"
  /\ pc' = FirstMount
  /\ inside' = (inside \/ jail.vfs)
  /\ UNCHANGED <<i, prop, gone, made, dev, temp, umask, root, proc, outside>>
Vfs ==
  /\ pc = "unshare"
  /\ IF jail.vfs
     THEN /\ inside' = TRUE
          /\ prop' = IF jail.mode = 0 THEN prop ELSE Remounted("/", jail.mode)
          /\ pc' = IF jail.mode = 0 THEN FirstMount ELSE "remounts"
     ELSE pc' = FirstMount /\ UNCHANGED <<inside, prop>>
  /\ UNCHANGED <<i, gone, made, dev, temp, umask, root, proc, outside>>

\* minijail_add_remount(): a mode of its own for one mount, never stricter than
\* the root's.
Remounts ==
  /\ pc = "remounts"
  /\ IF i > Len(jail.remounts) THEN pc' = FirstMount /\ i' = 1 /\ UNCHANGED prop
     ELSE LET r == jail.remounts[i] IN
          IF r.mode < jail.mode THEN pc' = "dead" /\ UNCHANGED <<i, prop>>
          ELSE pc' = pc /\ i' = i + 1 /\ prop' = Remounted(r.at, r.mode)
  /\ UNCHANGED <<inside, gone, made, dev, temp, umask, root, proc, outside>>

-----------------------------------------------------------------------------
(* process_mounts_or_die().                                                    *)

\* mount_dev(): a directory, a tmpfs on it, and the nodes in that with umask 0.
MakeTemp ==
  /\ pc = "mkdtemp"
  /\ pc' = "devfs" /\ temp' = "dir"
  /\ UNCHANGED <<i, inside, prop, gone, made, dev, umask, root, proc, outside>>

MountDevfs ==
  /\ pc = "devfs"
  /\ pc' = "nodes" /\ temp' = "mounted" /\ dev' = "temp" /\ umask' = "zero"
  /\ outside' = outside \cup Gained("/")
  /\ UNCHANGED <<i, inside, prop, gone, made, root, proc>>

MakeNodes ==
  /\ pc = "nodes"
  /\ pc' = "mounts" /\ umask' = "caller"
  /\ UNCHANGED <<i, inside, prop, gone, made, dev, temp, root, proc, outside>>

\* mount_dev_cleanup().
Forgotten == dev' = dev /\ temp' = temp
Cleanup   == dev' = "none" /\ temp' = "none"

DevFails ==
  /\ pc \in {"mkdtemp", "devfs", "nodes"}
  /\ pc' = "dead" /\ umask' = "caller" /\ Cleanup
  /\ UNCHANGED <<i, inside, prop, gone, made, root, proc, outside>>

AfterMounts == IF jail.mount_dev THEN "unmount_dev" ELSE "root"

HasBind(e) == e.kind \in {"bind", "rawbind", "remount"}

\* setup_mount_destination(): a destination that exists is enough; otherwise the
\* source decides what to create.
NoDestination(e) ==
  ~e.there /\ (e.src = "missing" \/ (e.src = "relative" /\ HasBind(e)))

\* is_valid_bind_path().
ValidBindPath(e) == BlockSymlinks => e.src = "file"

\* The two errors for which mount_one() returns 0, without the mounts that follow.
SkipsRest(e) ==
  \/ e.kind = "bind" /\ e.src \in {"missing", "relative"}
  \/ e.kind \in {"bind", "rawbind"} /\ ~ValidBindPath(e)

\* minijail_bind() needs a second mount(2) to change MS_RDONLY, which a user
\* namespace may not clear.
NeedsRemount(e) == e.kind = "bind" /\ e.ro # ("ro" \in e.flags)

Earlier(e) == {k \in DOMAIN made : jail.list[made[k].entry].dest = e.dest}

MountRefused(e) ==
  \/ e.kind \in {"bind", "rawbind"} /\
       (e.src \in {"missing", "relative"} \/ prop[e.from] = "unbindable")
  \/ e.kind = "remount" /\ Earlier(e) = {}
  \/ NeedsRemount(e) /\ jail.userns /\ ~e.ro

ReadOnly(e) == IF e.ro THEN {"ro"} ELSE {}

WithoutSource(e) == IF NeedsRemount(e) THEN ReadOnly(e) ELSE e.flags
\* A bind mount has the flags of its source; the remount keeps all but MS_RDONLY.
FlagsOf(e) ==
  IF e.kind = "fs" THEN ReadOnly(e)
  ELSE IF NeedsRemount(e) THEN (e.flags \ {"ro"}) \cup ReadOnly(e) ELSE e.flags

Under(e) == IF jail.mount_dev /\ e.dest = "/dev/log" THEN "temp" ELSE "root"

MountOne ==
  /\ pc = "mounts"
  /\ i <= Len(jail.list)
  /\ LET e == jail.list[i] IN
     /\ ~NoDestination(e) /\ ~SkipsRest(e) /\ ~MountRefused(e)
     /\ i' = i + 1
     /\ IF e.kind = "remount"
        THEN /\ made' = [made EXCEPT ![Max(Earlier(e))].flags = ReadOnly(e)]
             /\ UNCHANGED outside
        ELSE /\ made' = Append(made, [entry |-> i, under |-> Under(e), flags |-> FlagsOf(e)])
             /\ outside' = outside \cup (IF Under(e) = "temp" THEN {} ELSE Gained(On(e.dest)))
  /\ UNCHANGED <<pc, inside, prop, gone, dev, temp, umask, root, proc>>

MountOneSkips ==
  /\ pc = "mounts"
  /\ i <= Len(jail.list)
  /\ ~NoDestination(jail.list[i]) /\ SkipsRest(jail.list[i])
  /\ pc' = AfterMounts
  /\ UNCHANGED <<i, inside, prop, gone, made, dev, temp, umask, root, proc, outside>>

MountsDone ==
  /\ pc = "mounts"
  /\ i > Len(jail.list)
  /\ pc' = AfterMounts
  /\ UNCHANGED <<i, inside, prop, gone, made, dev, temp, umask, root, proc, outside>>

MountFails(e) == NoDestination(e) \/ (~SkipsRest(e) /\ MountRefused(e))

\* mount_one() failed: clean up and exit.
MountsFail ==
  /\ pc' = "dead" /\ (IF jail.mount_dev THEN Cleanup ELSE UNCHANGED <<dev, temp>>)
  /\ UNCHANGED <<i, inside, prop, gone, made, umask, root, proc, outside>>

MountOneFails ==
  /\ pc = "mounts"
  /\ i <= Len(jail.list) /\ MountFails(jail.list[i])
  /\ MountsFail

\* mount_dev_finalize(): detach the old /dev and move the new one there, which
\* the kernel refuses beneath a shared mount.  A user namespace cannot unmount
\* the caller's mounts one by one.
FinalizeFails ==
  /\ pc' = "dead" /\ Cleanup
  /\ UNCHANGED <<i, inside, prop, gone, made, umask, root, proc, outside>>

UnmountDev ==
  /\ pc = "unmount_dev"
  /\ IF jail.userns THEN FinalizeFails
     ELSE /\ pc' = "move_dev" /\ gone' = gone \cup {"/dev"}
          /\ outside' = outside \cup Lost({"/dev"})
          /\ UNCHANGED <<i, inside, prop, made, dev, temp, umask, root, proc>>

MoveDev ==
  /\ pc = "move_dev"
  /\ IF prop["/"] \in Shared THEN FinalizeFails
     ELSE /\ pc' = "root" /\ dev' = "final" /\ temp' = "none"
          /\ outside' = outside \cup Gained(On("/dev"))
          /\ UNCHANGED <<i, inside, prop, gone, made, umask, root, proc>>

-----------------------------------------------------------------------------
(* The root directory, /tmp and /proc.                                         *)

EnterRoot ==
  /\ pc = "root"
  /\ pc' = (IF jail.root = "pivot" THEN "bind_root" ELSE "tmp")
  /\ root' = (IF jail.root = "chroot" THEN "jail" ELSE root)
  /\ UNCHANGED <<i, inside, prop, gone, made, dev, temp, umask, proc, outside>>

\* enter_pivot_root(): bind the directory, with everything mounted beneath it,
\* onto itself; swap it with the root; then let go of the old root.
RootBindPlain == {"BIND"}
RootBind      == {"BIND", "REC"}

BindRoot ==
  /\ pc = "bind_root"
  /\ IF prop[jail.dir] = "unbindable" THEN pc' = "dead" /\ UNCHANGED <<outside, made, dev>>
     ELSE /\ pc' = "pivot" /\ outside' = outside \cup Gained(jail.dir)
          /\ IF "REC" \in RootBind THEN UNCHANGED <<made, dev>> ELSE made' = <<>> /\ dev' = "none"
  /\ UNCHANGED <<i, inside, prop, gone, temp, umask, root, proc>>

PivotRoot ==
  /\ pc = "pivot"
  /\ IF prop[jail.dir] \in Shared THEN pc' = "dead" /\ UNCHANGED root
     ELSE pc' = "private" /\ root' = "both"
  /\ UNCHANGED <<i, inside, prop, gone, made, dev, temp, umask, proc, outside>>

KeepShared == prop
MakePrivate == [m \in Host |-> WithMode(prop[m], PRIVATE)]
OldRootPrivate ==
  /\ pc = "private"
  /\ pc' = "detach" /\ prop' = MakePrivate
  /\ UNCHANGED <<i, inside, gone, made, dev, temp, umask, root, proc, outside>>

DetachOldRoot ==
  /\ pc = "detach"
  /\ pc' = "tmp" /\ root' = "jail" /\ gone' = Host
  /\ outside' = outside \cup Lost(Host \ gone)
  /\ UNCHANGED <<i, inside, prop, made, dev, temp, umask, proc>>

\* The new root of a pivot is a mount of its own that nothing propagates from.
GainedHere ==
  IF jail.root = "pivot" THEN {} ELSE Gained(IF jail.root = "chroot" THEN jail.dir ELSE "/")

MountTmp ==
  /\ pc = "tmp"
  /\ pc' = (IF ~jail.proc_ro THEN "done" ELSE IF jail.userns THEN "proc" ELSE "umount_proc")
  /\ outside' = outside \cup (IF jail.tmp THEN GainedHere ELSE {})
  /\ UNCHANGED <<i, inside, prop, gone, made, dev, temp, umask, root, proc>>

\* remount_proc_readonly(): unmount what is on /proc, then mount a read-only one.
WithoutMount(k) == SubSeq(made, 1, k - 1) \o SubSeq(made, k + 1, Len(made))
ProcMounts == {k \in DOMAIN made : jail.list[made[k].entry].dest = "/proc"}
UnmountProc ==
  /\ pc = "umount_proc"
  /\ IF ProcMounts # {}
     THEN pc' = "proc" /\ made' = WithoutMount(Max(ProcMounts)) /\ UNCHANGED <<gone, outside>>
     ELSE IF jail.root = "none"
     THEN /\ pc' = "proc" /\ gone' = gone \cup {"/proc"}
          /\ outside' = outside \cup Lost({"/proc"}) /\ UNCHANGED made
     ELSE pc' = "dead" /\ UNCHANGED <<made, gone, outside>>
  /\ UNCHANGED <<i, inside, prop, dev, temp, umask, root, proc>>

MountProc ==
  /\ pc = "proc"
  /\ pc' = "done" /\ proc' = TRUE
  /\ outside' = outside \cup GainedHere
  /\ UNCHANGED <<i, inside, prop, gone, made, dev, temp, umask, root>>

\* Any other reason for a call to fail.
CallFails ==
  /\ pc \in Steps \ {"mkdtemp", "devfs", "nodes", "mounts", "unmount_dev", "move_dev"}
  /\ pc' = "dead"
  /\ UNCHANGED <<i, inside, prop, gone, made, dev, temp, umask, root, proc, outside>>

Fault ==
  /\ faults < MaxFaults
  /\ faults' = faults + 1
  /\ \/ DevFails
     \/ pc = "mounts" /\ i <= Len(jail.list) /\ MountsFail
     \/ pc \in {"unmount_dev", "move_dev"} /\ FinalizeFails
     \/ CallFails
  /\ UNCHANGED jail

Step ==
  /\ \/ EnterVfs \/ Vfs \/ Remounts
     \/ MakeTemp \/ MountDevfs \/ MakeNodes
     \/ MountOne \/ MountOneSkips \/ MountOneFails \/ MountsDone
     \/ UnmountDev \/ MoveDev
     \/ EnterRoot \/ BindRoot \/ PivotRoot \/ OldRootPrivate \/ DetachOldRoot
     \/ MountTmp \/ UnmountProc \/ MountProc
  /\ UNCHANGED <<jail, faults>>

Next == Step \/ Fault

Spec == Init /\ [][Next]_vars

-----------------------------------------------------------------------------
(* What the jail's file system promises.                                       *)

\* "so the mounts don't leak out into the containing vfs namespace": with a mount
\* namespace and any mode but MS_SHARED, nothing the jail mounts, unmounts or
\* moves is seen outside, even when minijail_add_remount() makes a mount shared.
NoLeak ==
  jail.vfs /\ jail.mode \in {UNBINDABLE, PRIVATE, SLAVE} => outside = {}

\* pivot_root "To prevent this unexpected unmounting": detaching the old root
\* never takes a mount from the caller, even with skip_remount_private.
PivotKeepsCallers ==
  jail.root = "pivot" /\ inside => \A m \in Host : <<"lost", m>> \in outside => m = "/dev"

\* "we don't want to go leaking empty tempdirs": however minijail_enter() ends,
\* the temporary /dev is gone and the umask is the caller's again.
NoTempLeft == pc \in {"done", "dead"} => temp = "none" /\ umask = "caller"

\* minijail_bind() gives MS_RDONLY exactly as asked for, whatever the source's
\* mount has, and keeps its other flags.
BindFlags ==
  \A k \in DOMAIN made :
    LET e == jail.list[made[k].entry] IN
    e.kind = "bind" /\ (\A n \in DOMAIN jail.list : jail.list[n].kind # "remount") =>
      /\ ("ro" \in made[k].flags) = e.ro
      /\ made[k].flags \ {"ro"} = e.flags \ {"ro"}

\* The program finds every mount that mount_one() made in its own root, in its
\* /dev too, although /dev is moved and the root swapped after them.
MountsVisible ==
  pc = "done" =>
    /\ (jail.root = "none") = (root = "host")
    /\ \A n \in 1..(i - 1) :
         LET e == jail.list[n] IN
         e.kind # "remount" /\ ~(e.dest = "/proc" /\ jail.proc_ro) =>
           \E k \in DOMAIN made : made[k].entry = n /\ (made[k].under = "temp" => dev = "final")

\* mount_one() "Returns 0 for success", and process_mounts_or_die() dies
\* otherwise: the program never runs without all of its mounts.
MountsComplete == pc = "done" => i > Len(jail.list)

-----------------------------------------------------------------------------
(* The inductive invariants behind them.                                       *)

Props == {"peer", "private", "unbindable", "slave", "shared", "slave+shared"}
Made == [entry : Nat, under : {"temp", "root"}, flags : SUBSET {"ro", "nosuid"}]

\* The types of the variables.  What the jail has mounted comes from its list.
MountsType ==
  /\ jail \in Jails
  /\ pc \in Steps \cup {"done", "dead"}
  /\ i \in Nat \ {0}
  /\ inside \in BOOLEAN
  /\ prop \in [Host -> Props]
  /\ gone \subseteq Host
  /\ made \in Seq(Made)
  /\ dev \in {"none", "temp", "final"}
  /\ temp \in {"none", "dir", "mounted"}
  /\ umask \in {"caller", "zero"}
  /\ root \in {"host", "both", "jail"}

\* Once the namespace is set up, no mount in it is in the caller's peer group.
Sealed == jail.vfs /\ jail.mode \in {UNBINDABLE, PRIVATE, SLAVE}
LeakInv ==
  Sealed =>
    /\ outside = {}
    /\ pc \in {"setns", "unshare", "dead"} \/ (inside /\ \A m \in Host : prop[m] # "peer")

\* Nothing happens outside before the namespace is set up; from the time the old
\* root is private nothing propagates from it.
PivotInv ==
  /\ pc \in {"setns", "unshare"} => outside = {}
  /\ pc = "detach" => \A m \in Host : prop[m] # "peer"
  /\ PivotKeepsCallers

\* The temporary directory exists while mount_dev() and the mounts are under way,
\* and only for a jail that asks for a /dev.
TempInv ==
  /\ pc \in {"mkdtemp", "devfs", "nodes", "unmount_dev", "move_dev"} => jail.mount_dev
  /\ temp # "none" =>
       jail.mount_dev /\ pc \in {"devfs", "nodes", "mounts", "unmount_dev", "move_dev"}
  /\ umask # "caller" => pc = "nodes"

\* Each of the jail's mounts is for an entry of its list, under the place and with
\* the flags of that entry unless a remount has changed the flags.
MadeInv ==
  \A k \in DOMAIN made :
    /\ made[k].entry \in DOMAIN jail.list
    /\ made[k].under = Under(jail.list[made[k].entry])
    /\ (\A n \in DOMAIN jail.list : jail.list[n].kind # "remount") =>
         made[k].flags = FlagsOf(jail.list[made[k].entry])

Early == {"setns", "unshare", "remounts", "mkdtemp", "devfs", "nodes"}
Late  == {"tmp", "umount_proc", "proc", "done"}

\* The root directory, step by step.
RootInv ==
  /\ pc \in Early \cup {"mounts", "unmount_dev", "move_dev", "root", "bind_root", "pivot"} => root = "host"
  /\ pc \in {"bind_root", "pivot", "private", "detach"} => jail.root = "pivot"
  /\ pc \in Late => root = (IF jail.root = "none" THEN "host" ELSE "jail")

\* Each entry that mount_one() has been through is among the jail's mounts, until
\* remount_proc_readonly() takes one from /proc; and the jail's own /dev is in place
\* before the root is entered.
EntriesInv ==
  /\ pc \in Early \ {"remounts"} => i = 1
  /\ pc \notin Early \cup {"dead"} =>
       /\ i - 1 <= Len(jail.list)
       /\ \A n \in 1..(i - 1) :
            LET e == jail.list[n] IN
            e.kind # "remount" /\ ~(e.dest = "/proc" /\ pc \in {"proc", "done"} /\ jail.proc_ro) =>
              \E k \in DOMAIN made : made[k].entry = n
  /\ pc \in {"umount_proc", "proc"} => jail.proc_ro
  /\ jail.mount_dev /\ pc \notin Early \cup {"dead", "mounts", "unmount_dev", "move_dev"} => dev = "final"

=============================================================================

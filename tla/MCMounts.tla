------------------------------ MODULE MCMounts ------------------------------
(* Small jails for TLC. *)
EXTENDS Mounts

Base ==
  [enter_vfs |-> FALSE, vfs |-> TRUE, mode |-> PRIVATE, remounts |-> <<>>, userns |-> FALSE,
   mount_dev |-> FALSE, list |-> <<>>, root |-> "none", dir |-> "/",
   tmp |-> FALSE, proc_ro |-> FALSE]

Bind ==
  [dest |-> "/data", kind |-> "bind", ro |-> TRUE, src |-> "file", from |-> "/",
   flags |-> {}, there |-> TRUE]
Fs == [Bind EXCEPT !.kind = "fs", !.src = "relative", !.dest = "/proc"]

\* One bind mount of every sort, and one that follows it.
Binds ==
  {[Bind EXCEPT !.kind = k, !.ro = r, !.src = s, !.flags = f, !.there = t] :
     k \in {"bind", "rawbind"}, r \in BOOLEAN, s \in {"file", "missing", "link", "relative"},
     f \in SUBSET {"ro", "nosuid"}, t \in BOOLEAN}
BindJails ==
  {[Base EXCEPT !.list = <<b, Fs>>, !.userns = u] : b \in Binds, u \in BOOLEAN}

\* Propagation: every mode, with and without a mount of its own mode.
Modes == 0..4
PropJails ==
  {[Base EXCEPT !.enter_vfs = n, !.vfs = v, !.mode = m,
                !.remounts = IF x = 0 THEN <<>> ELSE <<[at |-> "/mnt", mode |-> x]>>,
                !.root = r, !.dir = d, !.tmp = TRUE, !.proc_ro = TRUE,
                !.list = <<[Bind EXCEPT !.from = "/mnt/sub"], Fs>>, !.mount_dev = y] :
     n \in {FALSE}, v \in BOOLEAN, m \in Modes, x \in Modes, y \in BOOLEAN,
     r \in {"none", "chroot", "pivot"}, d \in {"/", "/mnt"}}

\* A private /dev with a mount in it, in a jail with a root of its own.
DevJails ==
  {[Base EXCEPT !.mount_dev = y, !.root = r, !.enter_vfs = n, !.userns = u, !.proc_ro = p,
                !.list = <<[Bind EXCEPT !.dest = "/dev/log"], Bind,
                           [Bind EXCEPT !.kind = "remount", !.ro = FALSE],
                           [Fs EXCEPT !.dest = d]>>] :
     y \in BOOLEAN, r \in {"none", "chroot", "pivot"}, n \in BOOLEAN, u \in BOOLEAN,
     p \in BOOLEAN, d \in {"/data", "/proc"}}

AllJails == BindJails \cup PropJails \cup DevJails

AllPeer  == [m \in Host |-> "peer"]
SomePeer == [m \in Host |-> IF m \in {"/mnt", "/mnt/sub"} THEN "peer" ELSE "private"]
AllHosts == {AllPeer, SomePeer}
=============================================================================

---------------------------- MODULE MinijailEnter ----------------------------
(* How minijail_enter() gives up privileges: the credentials of the process,   *)
(* the privileged calls of minijail_enter() in the order the code makes them,  *)
(* and the program that runs afterwards with what is left.  A call succeeds    *)
(* when the kernel's rule for it allows it and the seccomp filter lets it      *)
(* through; minijail_enter() dies on any failure.  What happens inside the     *)
(* mount namespace is the module Mounts; here a jail with namespaces or mounts *)
(* only needs CAP_SYS_ADMIN for them.                                          *)
EXTENDS FiniteSets, Integers

CONSTANTS
  Cap,        \* the capabilities up to get_last_valid_cap()
  Jails,      \* the jails considered
  Callers,    \* the credentials minijail_run() or minijail_enter() may find
  Programs,   \* the files the jailed program may execve(2)
  Asked,      \* the capability sets it may ask capset(2) for
  AskedBits,  \* the securebits it may ask prctl(2) for
  SoftFail    \* USE_SECCOMP_SOFTFAIL, a build option

AdminCaps == {"SETPCAP", "SETUID", "SETGID", "SYS_ADMIN"}

Flags == {"NOROOT", "NO_SETUID_FIXUP", "KEEP_CAPS", "NO_CAP_AMBIENT_RAISE"}
Locks == {"NOROOT_LOCKED", "NO_SETUID_FIXUP_LOCKED", "KEEP_CAPS_LOCKED",
          "NO_CAP_AMBIENT_RAISE_LOCKED"}
SecureBits == Flags \cup Locks
LockPairs ==
  {<<"NOROOT", "NOROOT_LOCKED">>, <<"NO_SETUID_FIXUP", "NO_SETUID_FIXUP_LOCKED">>,
   <<"KEEP_CAPS", "KEEP_CAPS_LOCKED">>,
   <<"NO_CAP_AMBIENT_RAISE", "NO_CAP_AMBIENT_RAISE_LOCKED">>}

\* What a seccomp policy tells apart here: the set*id calls, capget/capset,
\* prctl, seccomp and landlock, and execve.
Calls == {"ids", "capset", "prctl", "restrict", "execve"}

Credentials ==
  [uid : {"root", "user"}, gid : {"caller", "jail"},
   groups : {"caller", "user", "list", "none"},
   perm : SUBSET Cap, eff : SUBSET Cap, inh : SUBSET Cap, amb : SUBSET Cap, bnd : SUBSET Cap,
   bits : SUBSET SecureBits, nnp : BOOLEAN, landlock : BOOLEAN,
   policy : SUBSET Calls, mode : {"off", "filter", "strict"},
   sigsys : {"inherited", "handler", "default"}]

\* `caps' may name capabilities this kernel does not know.  minijail_use_caps()
\* takes back minijail_capbset_drop(), which dies after it: no jail has both.
\* `landlock' stands for rules that are enabled, and `ruleset' for fs_rules_fd >= 0:
\* setup_fs_rules_fd() got a descriptor from landlock_create_ruleset(2).
JailOptions ==
  [preload : BOOLEAN, uid : BOOLEAN, gid : BOOLEAN, user : BOOLEAN,
   suppl : SUBSET {"inherit", "keep", "set"}, nosetgroups : BOOLEAN, ns : BOOLEAN,
   capbset_drop : BOOLEAN, cap_bset : SUBSET Cap,
   use_caps : BOOLEAN, caps : SUBSET (Cap \cup {"UNKNOWN"}), ambient : BOOLEAN,
   skip : SUBSET SecureBits, no_new_privs : BOOLEAN, landlock : BOOLEAN, ruleset : BOOLEAN,
   filter : BOOLEAN, policy : SUBSET Calls, log : BOOLEAN, tsync : BOOLEAN,
   alt_syscall : BOOLEAN, seccomp : BOOLEAN]

Files == [setuid : BOOLEAN, perm : SUBSET Cap, inh : SUBSET Cap, eff : BOOLEAN]

ASSUME EnterAssumption ==
  /\ AdminCaps \subseteq Cap
  /\ Jails \subseteq {j \in JailOptions : ~(j.capbset_drop /\ j.use_caps)}
  /\ Callers \subseteq {c \in Credentials : c.amb \subseteq c.perm \cap c.inh}
  /\ Programs \subseteq Files
  /\ Asked \subseteq SUBSET Cap
  /\ AskedBits \subseteq SUBSET SecureBits
  /\ SoftFail \in BOOLEAN

VARIABLES
  jail,    \* struct minijail
  caller,  \* the credentials the run started from
  cred,    \* the credentials of the process now
  pc       \* the step minijail_enter() is at, or what became of the process

vars == <<jail, caller, cred, pc>>

Steps ==
  {"run", "checks", "bset", "bits", "groups", "gid", "uid", "clean", "bound", "final",
   "ambient", "nnp", "landlock", "filter", "alt", "strict", "leave"}
Over    == {"dead", "killed"}
Running == {"start", "main"}

\* The credentials of the process that minijail_enter() confines, and its place
\* in the function, stay within their types.
TypeOK ==
  /\ jail \in Jails
  /\ caller \in Callers
  /\ cred \in Credentials
  /\ pc \in Steps \cup Over \cup Running

Init ==
  /\ jail \in Jails
  /\ caller \in Callers
  /\ cred = caller
  /\ pc = "run"

-----------------------------------------------------------------------------
(* The kernel's rules for the calls minijail makes.                            *)

\* setresuid(2) from root to a user gives up capabilities unless securebits say
\* otherwise.
AfterSetUid(c, to) ==
  IF c.uid = to \/ "NO_SETUID_FIXUP" \in c.bits THEN [c EXCEPT !.uid = to]
  ELSE IF to = "root" THEN [c EXCEPT !.uid = to, !.eff = c.perm]
  ELSE [c EXCEPT !.uid = to, !.eff = {}, !.amb = {},
                 !.perm = IF "KEEP_CAPS" \in c.bits THEN @ ELSE {}]

\* prctl(PR_SET_SECUREBITS) needs CAP_SETPCAP and respects the locks.
MaySetBits(c, bits) ==
  /\ "SETPCAP" \in c.eff
  /\ c.bits \cap Locks \subseteq bits
  /\ \A p \in LockPairs : p[2] \in c.bits => (p[1] \in c.bits <=> p[1] \in bits)

\* capset(2): no new permitted capability, and inheritable ones only from the
\* permitted set or, with CAP_SETPCAP, from the bounding set.
MayCapset(c, perm, inh) ==
  /\ perm \subseteq c.perm
  /\ inh \subseteq c.inh \cup c.bnd
  /\ "SETPCAP" \in c.eff \/ inh \subseteq c.inh \cup c.perm
Capset(c, perm, inh) ==
  [c EXCEPT !.perm = perm, !.eff = perm, !.inh = inh, !.amb = @ \cap perm \cap inh]

\* seccomp(2) and landlock_restrict_self(2) are open to a process that cannot
\* gain privileges, or that has CAP_SYS_ADMIN.
MayRestrict(c) == c.nnp \/ "SYS_ADMIN" \in c.eff

\* execve(2) of the file f.
AfterExec(c, f) ==
  LET setid  == f.setuid /\ ~c.nnp /\ c.uid # "root"
      uid    == IF setid THEN "root" ELSE c.uid
      asroot == uid = "root" /\ "NOROOT" \notin c.bits
      fcaps  == f.perm \cup f.inh # {}
      gained == IF asroot THEN c.bnd \cup c.inh
                ELSE (c.bnd \cap f.perm) \cup (c.inh \cap f.inh)
      amb    == IF setid \/ fcaps THEN {} ELSE c.amb
      perm   == (IF c.nnp THEN gained \cap c.perm ELSE gained) \cup amb
  IN  [c EXCEPT !.uid = uid, !.perm = perm, !.amb = amb,
                !.eff = IF asroot \/ (fcaps /\ f.eff) THEN perm ELSE amb,
                !.bits = @ \ {"KEEP_CAPS"}]

Plain == [setuid |-> FALSE, perm |-> {}, inh |-> {}, eff |-> FALSE]

\* One system call: the filter may kill the process, the kernel may refuse it,
\* in which case minijail dies; otherwise the process goes on with `new'.
Call(call, allowed, new, next) ==
  /\ pc' = (IF call \notin cred.policy THEN "killed" ELSE IF allowed THEN next ELSE "dead")
  /\ cred' = IF call \in cred.policy /\ allowed THEN new ELSE cred
  /\ UNCHANGED <<jail, caller>>

\* No system call, or none that matters here.
Goto(next) == pc' = next /\ UNCHANGED <<jail, caller, cred>>

-----------------------------------------------------------------------------
(* minijail_enter().                                                           *)

\* The requested capabilities this kernel knows: the loops stop at
\* last_valid_cap.
Requested == jail.caps \cap Cap

SkipsNoRoot == {"NOROOT", "NOROOT_LOCKED"} \cap jail.skip # {}

\* minijail_run() without LD_PRELOAD refuses capabilities that would not survive
\* execve(2); with it, everything below happens in the program's process image.
Run ==
  /\ pc = "run"
  /\ IF jail.preload THEN Call("execve", TRUE, AfterExec(cred, Plain), "checks")
     ELSE Goto(IF jail.use_caps /\ jail.caps # {} /\ ~jail.ambient THEN "dead" ELSE "checks")

\* The checks, the namespaces and the mounts.
Checks ==
  /\ pc = "checks"
  /\ Goto(IF \/ "inherit" \in jail.suppl /\ ~jail.user
             \/ jail.ns /\ "SYS_ADMIN" \notin cred.eff
          THEN "dead" ELSE "bset")

\* drop_capbset(): no call for a capability in `keep'.
DropCapbset(keep, next) ==
  IF Cap \subseteq keep THEN Goto(next)
  ELSE Call("prctl", "SETPCAP" \in cred.eff, [cred EXCEPT !.bnd = @ \cap keep], next)

DropBoundingOnly ==
  /\ pc = "bset"
  /\ IF jail.capbset_drop THEN DropCapbset(jail.cap_bset, "bits") ELSE Goto("bits")

\* lock_securebits(): every bit but the two about ambient capabilities, and
\* KEEP_CAPS unless it is locked off and not required.
BitsToSet ==
  LET off == jail.ambient /\ "KEEP_CAPS_LOCKED" \in cred.bits /\ "KEEP_CAPS" \notin cred.bits
  IN  ((SecureBits \ {"NO_CAP_AMBIENT_RAISE", "NO_CAP_AMBIENT_RAISE_LOCKED"})
        \ (IF off THEN {"KEEP_CAPS"} ELSE {})) \ jail.skip

\* With no_new_privs the filter comes last; without it, first.
AlwaysFirst == TRUE
FilterFirst == ~jail.no_new_privs
FirstDrop   == IF FilterFirst THEN "landlock" ELSE "groups"
AfterCaps   == IF FilterFirst THEN "alt" ELSE "nnp"
AfterFilter == IF FilterFirst THEN "groups" ELSE "alt"

LockSecurebits ==
  /\ pc = "bits"
  /\ IF jail.use_caps /\ BitsToSet # {}
     THEN Call("prctl", MaySetBits(cred, BitsToSet), [cred EXCEPT !.bits = BitsToSet], FirstDrop)
     ELSE Goto(FirstDrop)

\* drop_ugid(), in its order: groups, gid, uid.
MaySetGroups == "SETGID" \in cred.eff /\ ~jail.nosetgroups

SetGroups ==
  /\ pc = "groups"
  /\ IF Cardinality(jail.suppl) > 1 THEN Goto("dead")
     ELSE IF jail.suppl = {"inherit"}
       THEN Call("ids", MaySetGroups, [cred EXCEPT !.groups = "user"], "gid")
     ELSE IF jail.suppl = {"set"}
       THEN Call("ids", MaySetGroups, [cred EXCEPT !.groups = "list"], "gid")
     ELSE IF jail.suppl = {} /\ ~jail.nosetgroups /\ (jail.uid \/ jail.gid)
       THEN Call("ids", MaySetGroups, [cred EXCEPT !.groups = "none"], "gid")
     ELSE Goto("gid")

SetGid ==
  /\ pc = "gid"
  /\ IF jail.gid THEN Call("ids", "SETGID" \in cred.eff, [cred EXCEPT !.gid = "jail"], "uid")
     ELSE Goto("uid")

SetUid ==
  /\ pc = "uid"
  /\ IF jail.uid
     THEN Call("ids", "SETUID" \in cred.eff \/ cred.uid = "user", AfterSetUid(cred, "user"), "clean")
     ELSE Goto("clean")

\* drop_caps(): keep CAP_SETPCAP for the bounding set, drop that, then let
\* CAP_SETPCAP go unless it was asked for.
CleanAllCaps ==
  /\ pc = "clean"
  /\ IF jail.use_caps
     THEN Call("capset", MayCapset(cred, Requested, Requested),
               Capset(cred, Requested, Requested), "bound")
     ELSE Goto(AfterCaps)
CleanCaps ==
  /\ pc = "clean"
  /\ LET keep == Requested \cup {"SETPCAP"} IN
     IF jail.use_caps
     THEN Call("capset", MayCapset(cred, keep, keep), Capset(cred, keep, keep), "bound")
     ELSE Goto(AfterCaps)

KeepBounding == pc = "bound" /\ Goto("final")
DropBounding ==
  /\ pc = "bound"
  /\ IF SkipsNoRoot THEN Goto("final") ELSE DropCapbset(Requested, "final")

FinalCaps ==
  /\ pc = "final"
  /\ Call("capset", MayCapset(cred, Requested, Requested),
          Capset(cred, Requested, Requested), "ambient")

\* Clear the ambient set, then raise every requested capability.
RaiseNothing ==
  /\ pc = "ambient"
  /\ IF jail.ambient THEN Call("prctl", TRUE, [cred EXCEPT !.amb = {}], AfterCaps)
     ELSE Goto(AfterCaps)
RaiseAnything ==
  /\ pc = "ambient"
  /\ IF jail.ambient THEN Call("prctl", TRUE, [cred EXCEPT !.amb = jail.caps], AfterCaps)
     ELSE Goto(AfterCaps)
RaiseAmbient ==
  /\ pc = "ambient"
  /\ IF jail.ambient
     THEN Call("prctl",
               Requested = {} \/ (/\ Requested \subseteq cred.perm \cap cred.inh
                                  /\ "NO_CAP_AMBIENT_RAISE" \notin cred.bits),
               [cred EXCEPT !.amb = Requested], AfterCaps)
     ELSE Goto(AfterCaps)

ForgetNoNewPrivs == pc = "nnp" /\ Goto("landlock")
SetNoNewPrivs ==
  /\ pc = "nnp"
  /\ Call("prctl", TRUE, [cred EXCEPT !.nnp = TRUE], "landlock")

\* Without a ruleset there is nothing to enter, and minijail_enter() goes on.
ApplyLandlock ==
  /\ pc = "landlock"
  /\ IF jail.landlock /\ jail.ruleset
     THEN Call("restrict", MayRestrict(cred), [cred EXCEPT !.landlock = TRUE], "filter")
     ELSE Goto("filter")

\* set_seccomp_filter() for a kernel without SECCOMP_RET_LOG: logging goes
\* through a SIGSYS handler.
SetSeccompFilter ==
  /\ pc = "filter"
  /\ IF jail.filter
     THEN Call("restrict", MayRestrict(cred) /\ cred.mode # "strict",
               [cred EXCEPT !.policy = @ \cap jail.policy, !.mode = "filter",
                            !.sigsys = IF jail.log THEN "handler"
                                       ELSE IF jail.tsync THEN "default" ELSE @],
               AfterFilter)
     ELSE Goto(AfterFilter)

\* The kernel may not have the alternate syscall table.
AltSyscall ==
  /\ pc = "alt"
  /\ IF jail.alt_syscall THEN \E known \in BOOLEAN : Call("prctl", known, cred, "strict")
     ELSE Goto("strict")

\* PR_SET_SECCOMP with strict mode is EINVAL for a process under a filter.
Strict ==
  /\ pc = "strict"
  /\ IF jail.seccomp
     THEN Call("prctl", cred.mode # "filter" \/ SoftFail,
               IF cred.mode = "filter" THEN cred
               ELSE [cred EXCEPT !.mode = "strict", !.policy = {}], "leave")
     ELSE Goto("leave")

\* The first instruction of the program: at once in the preloaded library's
\* process, after execve(2) otherwise.
Leave ==
  /\ pc = "leave"
  /\ IF jail.preload THEN Goto("start")
     ELSE Call("execve", TRUE, AfterExec(cred, Plain), "start")

-----------------------------------------------------------------------------
(* The jailed program, which may try anything.                                 *)

Become(new) == pc' = "main" /\ cred' = new /\ UNCHANGED <<jail, caller>>

ProgramExec ==
  /\ pc \in Running
  /\ \E f \in Programs : Become(AfterExec(cred, f))

\* It gets what the kernel allows of what it asks for.
ProgramCapset ==
  /\ pc \in Running
  /\ \E want \in Asked :
       LET perm == want \cap cred.perm
           from == IF "SETPCAP" \in cred.eff THEN cred.bnd ELSE cred.bnd \cap cred.perm
       IN  Become(Capset(cred, perm, want \cap (cred.inh \cup from)))

ProgramAmbient ==
  /\ pc \in Running
  /\ "NO_CAP_AMBIENT_RAISE" \notin cred.bits
  /\ Become([cred EXCEPT !.amb = @ \cup (cred.perm \cap cred.inh)])

ProgramBits ==
  /\ pc \in Running
  /\ \E bits \in AskedBits :
       MaySetBits(cred, bits) /\ Become([cred EXCEPT !.bits = bits])

ProgramSetUid ==
  /\ pc \in Running
  /\ "SETUID" \in cred.eff
  /\ Become(AfterSetUid(cred, "root"))

Next ==
  \/ Run \/ Checks \/ DropBoundingOnly \/ LockSecurebits
  \/ SetGroups \/ SetGid \/ SetUid
  \/ CleanCaps \/ DropBounding \/ FinalCaps \/ RaiseAmbient
  \/ SetNoNewPrivs \/ ApplyLandlock \/ SetSeccompFilter \/ AltSyscall \/ Strict \/ Leave
  \/ ProgramExec \/ ProgramCapset \/ ProgramAmbient \/ ProgramBits \/ ProgramSetUid

Spec == Init /\ [][Next]_vars

-----------------------------------------------------------------------------
(* What minijail_enter() promises.                                             *)

Restricted == jail.use_caps /\ ~SkipsNoRoot

\* minijail_use_caps() puts the program "in a capabilities-only environment":
\* whatever it executes later, set-user-ID root or with file capabilities, and
\* whatever it asks capset(2), prctl(2) or setresuid(2) for, it never holds a
\* capability the jail did not ask for.  This needs drop_caps() to empty the
\* bounding and inheritable sets and lock_securebits() to lock NOROOT.
CapsOnlyForever ==
  pc \in Running /\ Restricted => cred.perm \cup cred.eff \subseteq jail.caps

\* Why: the securebits are locked before any capability goes, the bounding set is
\* emptied before the permitted set, and from then on every source of
\* capabilities that the kernel has lies within the jail's set.
AfterBits  == (Steps \ {"run", "checks", "bset", "bits"}) \cup Running
AfterFinal ==
  {"ambient", "nnp", "alt", "strict", "leave"} \cup Running
    \cup (IF jail.no_new_privs THEN {"landlock", "filter"} ELSE {})
CapsInv ==
  /\ cred.amb \subseteq cred.perm \cap cred.inh
  /\ Restricted =>
       /\ pc \in AfterBits => {"NOROOT", "NOROOT_LOCKED"} \subseteq cred.bits
       /\ pc \in AfterFinal \cup {"final"} => cred.bnd \subseteq jail.caps
       /\ pc \in AfterFinal =>
            cred.perm \cup cred.eff \cup cred.inh \subseteq jail.caps

\* Where the first instruction of the program finds itself: with exactly the
\* capabilities asked for, also across the execve(2) of a jail without
\* LD_PRELOAD, under the jail's ids and none of the caller's groups (unless they
\* are kept), and behind every restriction the jail has.  The Landlock rules are the
\* exception libminijail.h:271 makes, "succeed, however without any actual effects":
\* if landlock_create_ruleset(2) failed for whatever reason, setup_fs_rules_fd()
\* only warns and the program starts outside a domain.
StartsConfined ==
  pc = "start" =>
    /\ jail.use_caps /\ (~SkipsNoRoot \/ jail.uid \/ jail.preload) =>
         cred.perm = jail.caps \cap Cap /\ cred.eff = jail.caps \cap Cap
    /\ jail.uid => cred.uid = "user"
    /\ jail.gid => cred.gid = "jail"
    /\ jail.uid /\ ~("keep" \in jail.suppl \/ jail.nosetgroups) => cred.groups # "caller"
    /\ jail.no_new_privs => cred.nnp
    /\ jail.landlock /\ jail.ruleset => cred.landlock
    /\ jail.filter => cred.policy \subseteq jail.policy
    /\ jail.seccomp /\ ~SoftFail => cred.mode = "strict"

\* A jail minijail_enter() can always enter: its options do not contradict each
\* other, it does not skip both securebits that protect capabilities from
\* setresuid(2), and without no_new_privs its policy allows the calls that the
\* WARNING in minijail_enter() names.
Sensible ==
  /\ Cardinality(jail.suppl) <= 1
  /\ "inherit" \in jail.suppl => jail.user
  /\ jail.suppl \cap {"inherit", "set"} # {} => ~jail.nosetgroups
  /\ jail.use_caps => ~({"NO_SETUID_FIXUP", "KEEP_CAPS"} \subseteq jail.skip)
  /\ jail.use_caps /\ jail.caps # {} => jail.preload \/ jail.ambient
  /\ jail.filter /\ ~jail.no_new_privs => {"ids", "capset", "prctl"} \subseteq jail.policy
  /\ jail.filter /\ ~jail.preload => "execve" \in jail.policy
  /\ ~jail.alt_syscall /\ ~jail.seccomp

\* A caller with every privilege the jail needs: root as booted, or root inside
\* another jail that was given enough ambient capabilities.
AsBooted == [uid |-> "root", perm |-> Cap, eff |-> Cap, bnd |-> Cap, bits |-> {}]
Privileged ==
  /\ caller.mode = "off" /\ caller.policy = Calls
  /\ \/ \A field \in DOMAIN AsBooted : caller[field] = AsBooted[field]
     \/ /\ jail.ambient /\ jail.skip = {}
        /\ caller.bits = SecureBits \ {"KEEP_CAPS", "NO_CAP_AMBIENT_RAISE",
                                       "NO_CAP_AMBIENT_RAISE_LOCKED"}
        /\ AdminCaps \cup (jail.caps \cap Cap) \subseteq caller.amb \cap caller.eff \cap caller.bnd

\* The order of the calls gives each of them the privilege it needs: a privileged
\* caller always gets through a sensible jail.  The capabilities, ids, filter and
\* Landlock steps each need something another one takes away.
PrivilegeLasts == Privileged /\ Sensible => pc \notin Over

\* "This way filter policies don't need to allow privilege-dropping syscalls":
\* with no_new_privs only the calls that come after the filter can be killed by
\* it.
PolicyNeedsNoDrops ==
  pc = "killed" /\ jail.no_new_privs /\ caller.policy = Calls =>
    \/ "prctl" \notin jail.policy /\ (jail.alt_syscall \/ jail.seccomp)
    \/ ~jail.preload /\ (jail.seccomp \/ "execve" \notin jail.policy)

\* With no_new_privs and without CAP_SETUID the program never is root again.
NoReturnToRoot ==
  /\ pc \in Running
  /\ jail.uid /\ jail.no_new_privs /\ jail.use_caps /\ "SETUID" \notin jail.caps
  => cred.uid = "user"

\* Why: from the final capset(2) on, nothing holds CAP_SETUID, and no_new_privs
\* keeps execve(2) from adding to the permitted set.
Unprivileged ==
  jail.uid /\ jail.no_new_privs /\ jail.use_caps /\ "SETUID" \notin jail.caps
UidInv ==
  Unprivileged =>
    /\ pc \in AfterFinal \cup {"clean", "bound", "final"} => cred.uid = "user"
    /\ pc \in AfterFinal => "SETUID" \notin cred.perm \cup cred.eff
    /\ pc \in AfterFinal \ {"ambient", "nnp"} => cred.nnp

-----------------------------------------------------------------------------
(* The inductive invariants behind StartsConfined, PrivilegeLasts and          *)
(* PolicyNeedsNoDrops.                                                         *)

\* Where drop_ugid(), drop_caps() and the filter are behind the process, on its
\* way to the first instruction of the program.
Finished == AfterFinal \ Running
Dropped  == Finished \cup {"clean", "bound", "final"}
Drops    == {"groups", "gid", "uid", "clean", "bound", "final", "ambient"}
Filtered ==
  {"alt", "strict", "leave"} \cup (IF jail.no_new_privs THEN {} ELSE Drops)

\* Each restriction stays in force from the call that makes it on.  Without
\* LD_PRELOAD the capabilities cross execve(2) in the ambient set.
StartInv ==
  /\ pc \in {"gid", "uid"} \cup Dropped =>
       (jail.uid /\ ~("keep" \in jail.suppl \/ jail.nosetgroups) => cred.groups # "caller")
  /\ pc \in {"uid"} \cup Dropped => (jail.gid => cred.gid = "jail")
  /\ pc \in Dropped => (jail.uid => cred.uid = "user")
  /\ pc \in Steps \ {"run"} =>
       (jail.use_caps /\ ~jail.preload => jail.caps = {} \/ jail.ambient)
  /\ pc \in Finished /\ jail.use_caps =>
       /\ cred.perm = Requested /\ cred.eff = Requested
       /\ pc # "ambient" /\ jail.ambient => cred.amb = Requested
  /\ pc \in Finished \ {"ambient", "nnp"} => (jail.no_new_privs => cred.nnp)
  /\ pc \in Filtered \cup {"filter"} => (jail.landlock /\ jail.ruleset => cred.landlock)
  /\ pc \in Filtered => (jail.filter => cred.policy \subseteq jail.policy)
  /\ pc = "leave" => (jail.seccomp /\ ~SoftFail => cred.mode = "strict")
  /\ StartsConfined

Unfiltered == Steps \ Filtered
Kept == Requested \cup {"SETPCAP"}

\* Privileged, as far as the calls after the first execve(2) need it.
Able ==
  \/ /\ cred.uid = "root" /\ cred.perm = Cap /\ cred.eff = Cap /\ cred.bits = {}
     /\ jail.use_caps => cred.bnd = Cap
  \/ /\ jail.ambient /\ jail.skip = {}
     /\ cred.bits = SecureBits \ {"KEEP_CAPS", "NO_CAP_AMBIENT_RAISE",
                                  "NO_CAP_AMBIENT_RAISE_LOCKED"}
     /\ AdminCaps \cup Requested \subseteq cred.perm \cap cred.eff
     /\ jail.use_caps => AdminCaps \cup Requested \subseteq cred.bnd

\* What each call needs is still there when its turn comes: CAP_SETPCAP until the
\* bounding set is dropped, the other privileges until the ids are, the requested
\* capabilities in the permitted set throughout, and no_new_privs before whatever
\* restricts the process without CAP_SYS_ADMIN.
PrivilegeInv ==
  Privileged /\ Sensible =>
    /\ pc \notin Over
    /\ pc = "run" => cred = caller
    /\ pc \in Unfiltered => cred.policy = Calls /\ cred.mode = "off"
    /\ pc \in Filtered => cred.policy = IF jail.filter THEN jail.policy ELSE Calls
    /\ pc \in {"checks", "bset", "bits"} => Able
    /\ \/ pc \in {"groups", "gid", "uid"}
       \/ pc \in {"landlock", "filter"} /\ ~jail.no_new_privs
       => /\ AdminCaps \subseteq cred.eff
          /\ jail.use_caps => {"NO_SETUID_FIXUP", "KEEP_CAPS"} \cap cred.bits # {}
    /\ jail.use_caps =>
         /\ pc \in Drops \cup (IF jail.no_new_privs THEN {} ELSE {"landlock", "filter"})
            => "NO_CAP_AMBIENT_RAISE" \notin cred.bits
         /\ pc \in {"groups", "gid", "uid", "clean"}
                   \cup (IF jail.no_new_privs THEN {} ELSE {"landlock", "filter"})
            => Kept \subseteq cred.perm \cap cred.bnd
    /\ pc \in {"bound", "final"} => Kept = cred.perm /\ Kept = cred.eff /\ Kept = cred.inh
    /\ pc \in {"bound", "final", "ambient"} => jail.use_caps
    /\ pc = "ambient" => Requested = cred.perm /\ Requested = cred.inh
    /\ pc = "nnp" => jail.no_new_privs
    /\ pc \in {"landlock", "filter"} /\ jail.no_new_privs => cred.nnp

\* With no_new_privs no policy but the caller's is in force before the filter, and
\* after it nothing is forbidden that the jail's allows, until strict mode.
PolicyInv ==
  /\ jail.no_new_privs /\ caller.policy = Calls =>
       /\ pc \in Unfiltered => cred.policy = Calls
       /\ pc \in {"alt", "strict"} => jail.policy \subseteq cred.policy
       /\ pc = "leave" => jail.seccomp \/ jail.policy \subseteq cred.policy
  /\ PolicyNeedsNoDrops

=============================================================================

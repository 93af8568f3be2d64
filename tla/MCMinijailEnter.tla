-------------------------- MODULE MCMinijailEnter --------------------------
(* Small jails, callers and programs for TLC. *)
EXTENDS MinijailEnter

AllCaps == AdminCaps \cup {"NET"}
NoRoot  == {"NOROOT", "NOROOT_LOCKED"}

Root ==
  [uid |-> "root", gid |-> "caller", groups |-> "caller",
   perm |-> AllCaps, eff |-> AllCaps, inh |-> {}, amb |-> {}, bnd |-> AllCaps,
   bits |-> {}, nnp |-> FALSE, landlock |-> FALSE,
   policy |-> Calls, mode |-> "off", sigsys |-> "inherited"]

\* Root with SECURE_NOROOT on but not locked, root inside a jail with ambient
\* capabilities, and an ordinary user.
Rootless == [Root EXCEPT !.bits = {"NOROOT"}, !.inh = AllCaps, !.amb = AllCaps]
Nested   == [Root EXCEPT !.inh = AllCaps, !.amb = AllCaps,
              !.bits = SecureBits \ {"KEEP_CAPS", "NO_CAP_AMBIENT_RAISE",
                                     "NO_CAP_AMBIENT_RAISE_LOCKED"}]
User     == [Root EXCEPT !.uid = "user", !.perm = {}, !.eff = {}]

AllCallers == {Root, Rootless, Nested, User}

Base ==
  [preload |-> FALSE, uid |-> TRUE, gid |-> TRUE, user |-> TRUE,
   suppl |-> {}, nosetgroups |-> FALSE, ns |-> FALSE,
   capbset_drop |-> FALSE, cap_bset |-> {},
   use_caps |-> FALSE, caps |-> {}, ambient |-> FALSE,
   skip |-> {}, no_new_privs |-> FALSE, landlock |-> FALSE, ruleset |-> TRUE,
   filter |-> FALSE, policy |-> Calls, log |-> FALSE, tsync |-> FALSE,
   alt_syscall |-> FALSE, seccomp |-> FALSE]

\* Jails that keep capabilities.
CapJails ==
  {[Base EXCEPT !.preload = p, !.uid = u, !.no_new_privs = n, !.use_caps = TRUE,
                !.caps = c, !.ambient = a, !.skip = s, !.landlock = r, !.filter = r] :
     p \in BOOLEAN, r \in BOOLEAN, u \in BOOLEAN, n \in BOOLEAN, a \in BOOLEAN,
     c \in {{}, {"NET"}, {"SETPCAP", "UNKNOWN"}, {"SETUID", "SYS_ADMIN"}},
     s \in {{}, NoRoot, {"NO_SETUID_FIXUP"}, {"NO_SETUID_FIXUP", "KEEP_CAPS"}}}

\* Jails that only change ids, with the options about groups.
IdJails ==
  {[Base EXCEPT !.preload = TRUE, !.uid = u, !.user = u, !.suppl = g, !.nosetgroups = d,
                !.ns = TRUE, !.capbset_drop = TRUE, !.cap_bset = {"NET"}] :
     u \in BOOLEAN, d \in BOOLEAN, g \in SUBSET {"inherit", "keep", "set"}}

\* Jails with seccomp policies, on kernels with and without Landlock.
FilterJails ==
  {[Base EXCEPT !.no_new_privs = n, !.filter = TRUE, !.policy = q, !.landlock = TRUE, !.ruleset = k,
                !.use_caps = c, !.alt_syscall = a, !.seccomp = s, !.log = a, !.tsync = s] :
     n \in BOOLEAN, c \in BOOLEAN, a \in BOOLEAN, s \in BOOLEAN, k \in BOOLEAN,
     q \in {Calls, {"execve"}, {"prctl"}, {"ids", "capset", "execve"}}}

StrictJails == {[Base EXCEPT !.preload = TRUE, !.seccomp = TRUE, !.no_new_privs = TRUE]}

AllJails == CapJails \cup IdJails \cup FilterJails \cup StrictJails

SomeFile == [setuid |-> FALSE, perm |-> {}, inh |-> {}, eff |-> FALSE]
AllPrograms ==
  {SomeFile, [SomeFile EXCEPT !.setuid = TRUE],
   [SomeFile EXCEPT !.perm = AllCaps, !.eff = TRUE],
   [SomeFile EXCEPT !.inh = AllCaps]}

AllAsked     == {AllCaps, {"NET"}, {"SETUID"}}
AllAskedBits == {{}, {"NO_CAP_AMBIENT_RAISE"}, SecureBits \ {"KEEP_CAPS"}}
=============================================================================

----------------------------- MODULE JailStages -----------------------------
(* How one jail is put in force in two stages.  With a preloaded library the    *)
(* child keeps what execve(2) hands on (minijail_preexec), enters, and runs the *)
(* program, whose library gets the whole jail from the caller, strips what was  *)
(* done already (minijail_preenter) and enters again.  Without one the child    *)
(* enters once.  A jail is the set of its options: flags of struct minijail,    *)
(* and the pointers and lists that are not empty.                               *)
EXTENDS ChildEnv, FiniteSets

CONSTANTS
  Jails,   \* the jails considered, as sets of options
  Envs     \* the environments asked for: config->envp or environ

\* What minijail_enter() does, in the order it does it; the last few depend on
\* whether no_new_privs lets it drop privileges before the filter is in force.
Namespaces == <<"enter_vfs", "vfs", "remount_mode", "ipc", "uts", "hostname", "enter_net",
                "net", "ns_cgroups", "new_session_keyring">>
FileSystem == <<"mount_dev", "mounts", "chroot", "pivot_root", "mount_tmp", "remount_proc_ro">>
Privileges == <<"uid", "inherit_suppl_gids", "use_caps">>

EnterOrder(o) ==
  Namespaces \o FileSystem \o <<"hook_caps", "capbset_drop">>
  \o (IF "no_new_privs" \in o
        THEN Privileges \o <<"no_new_privs", "landlock", "seccomp_filter">>
        ELSE <<"landlock", "seccomp_filter">> \o Privileges)
  \o <<"alt_syscall", "seccomp">>

Options ==
  ToSet(Namespaces \o FileSystem \o Privileges)
  \cup {"hook_caps", "capbset_drop", "no_new_privs", "seccomp_filter", "alt_syscall", "seccomp",
        "fs_rules", "enable_fs_restrictions", "user", "pids", "do_init", "run_as_init", "userns",
        "uidmap", "pid_file", "cgroups", "forward_signals", "setsid", "hook_exec",
        "seccomp_policy_path", "preload_path"}
Effects == ToSet(EnterOrder({})) \cup {"no_new_privs", "hook_exec", "clone", "uidmap"}

\* What the configuration functions keep true of a jail: who asks for mounts, a
\* new /proc or a pid namespace gets a mount namespace, a hostname its own uts
\* namespace, and chroot and pivot_root exclude each other.
Configured(o) ==
  /\ "mounts" \in o => {"vfs", "enter_vfs"} \cap o # {}
  /\ "remount_proc_ro" \in o => "vfs" \in o
  /\ "pids" \in o => {"vfs", "do_init"} \subseteq o
  /\ "do_init" \in o => "pids" \in o
  /\ "hostname" \in o => "uts" \in o
  /\ ~({"chroot", "pivot_root"} \subseteq o)

ASSUME StagesAssumption == \A o \in Jails : o \subseteq Options /\ Configured(o)

VARIABLES
  jail,   \* the jail as its caller configured it
  mode,   \* "preload", "exec" without a library, or "fork"
  pc,     \* where the process that becomes the program is
  j,      \* struct minijail in its memory
  done,   \* what it has done, in order
  given,  \* the environment its caller asked for
  env     \* child_env, and after execve(2) the environment of the process

vars == <<jail, mode, pc, j, done, given, env>>
asked == <<jail, mode, given>>

Modes == {"preload", "exec", "fork"}

Init ==
  /\ jail \in Jails
  /\ mode \in Modes
  /\ pc = "run"
  /\ j = jail
  /\ done = <<>>
  /\ given \in Envs
  /\ env = given
-----------------------------------------------------------------------------
(* The steps of the child. *)

\* minijail_run_internal() up to the clone(2): hooks are functions of the
\* caller's and cannot be had with a library.
Refused ==
  \/ mode = "preload" /\ {"hook_caps", "hook_exec"} \cap jail # {}
  \/ "userns" \in jail /\ "pids" \notin jail

\* The environment is copied only when something is added to it; a forked child
\* keeps that of its caller.  What setup_pipe() writes is a descriptor.
child_env ==
  LET labelled == IF "seccomp_policy_path" \in jail
                    THEN setup_seccomp_policy_path(given, <<"policy">>) ELSE given
      library == IF "preload_path" \in jail THEN "own library" ELSE "PRELOADPATH"
  IN CASE mode = "preload" -> setup_pipe(setup_preload(labelled, library), <<"fd">>)
       [] mode = "exec"    -> labelled
       [] mode = "fork"    -> given

Run ==
  /\ pc = "run"
  /\ pc' = IF Refused THEN "dead" ELSE "child"
  /\ done' = IF "pids" \in jail /\ ~Refused THEN <<"clone">> ELSE done
  /\ env' = child_env
  /\ UNCHANGED <<asked, j>>

KeepsInit(o) == "do_init" \in o /\ "run_as_init" \notin o

\* The flags minijail_preexec() saves over its memset(), and the memory it frees.
Inherited == {"vfs", "enter_vfs", "ns_cgroups", "net", "uts", "remount_proc_ro", "userns",
              "enable_fs_restrictions"}
Untouched == {"hostname", "uidmap", "remount_mode", "hook_caps", "hook_exec"}

\* Mutant: a flag too many is restored.
PreexecKeeps(o) == o \cap (Inherited \cup Untouched \cup {"use_caps"})

minijail_preexec(o) == o \cap (Inherited \cup Untouched)

\* enter_user_namespace(), then the options that are not for this stage.  A
\* program that is its own init mounts /proc when it likes.
Child ==
  LET o == IF "pids" \in jail /\ ~KeepsInit(jail) THEN j \ {"remount_proc_ro"} ELSE j IN
  /\ pc = "child"
  /\ j' = IF mode = "preload" THEN minijail_preexec(o) ELSE o \ {"pids"}
  /\ done' = IF {"userns", "uidmap"} \subseteq j THEN Append(done, "uidmap") ELSE done
  /\ pc' = "enter"
  /\ UNCHANGED <<asked, env>>

\* What minijail_enter() does of step s for jail o.
Does(s, o) ==
  CASE s = "net"          -> "net" \in o /\ "enter_net" \notin o
    [] s = "remount_mode" -> {"vfs", "remount_mode"} \subseteq o
    [] s = "hostname"     -> {"uts", "hostname"} \subseteq o
    [] s = "landlock"     -> {"fs_rules", "enable_fs_restrictions"} \subseteq o
    [] OTHER              -> s \in o

minijail_enter(next) ==
  LET dies == "pids" \in j \/ ("inherit_suppl_gids" \in j /\ "user" \notin j)
      does(s) == Does(s, j)
  IN /\ pc' = IF dies THEN "dead" ELSE next
     /\ done' = IF dies THEN done ELSE done \o SelectSeq(EnterOrder(j), does)

Enter ==
  /\ pc = "enter"
  /\ minijail_enter("hooks")
  /\ UNCHANGED <<asked, j, env>>

\* The hooks before execve(2), in the process that will call it.
Hooks ==
  /\ pc = "hooks"
  /\ done' = IF "hook_exec" \in j THEN Append(done, "hook_exec") ELSE done
  /\ pc' = CASE mode = "preload" -> "library" [] mode = "exec" -> "execve" [] mode = "fork" -> "main"
  /\ UNCHANGED <<asked, j, env>>

Execve ==
  /\ pc = "execve"
  /\ pc' = "main"
  /\ UNCHANGED <<asked, j, done, env>>
-----------------------------------------------------------------------------
(* The preloaded library. *)

\* minijail_from_fd(): the caller's jail without what only lives in its memory.
\* Each mount is added with minijail_mount_with_data(), which may set vfs again.
minijail_unmarshal(o) ==
  (o \ {"uidmap", "hook_caps", "hook_exec"})
  \cup (IF "mounts" \in o /\ "enter_vfs" \notin o THEN {"vfs"} ELSE {})

\* The library's __libc_start_main() has the C library call fake_main() in the
\* place of main(), or exits when it cannot find the C library.
__libc_start_main ==
  /\ pc = "library"
  /\ pc' \in {"fake_main", "dead"}
  /\ UNCHANGED <<asked, j, done, env>>

\* fake_main() up to minijail_preenter().  It ends the program when the ids are
\* not those of its user or what it reads from its pipe is not a jail.
fake_main ==
  /\ pc = "fake_main"
  /\ \/ pc' = "dead" /\ UNCHANGED <<j, env>>
     \/ /\ Has(env, kFdEnvVar)
        /\ j' = minijail_unmarshal(jail)
        /\ env' = truncate_preload_env(minijail_unsetenv(env, kFdEnvVar), kLdPreloadEnvVar)
        /\ pc' = "preenter"
  /\ UNCHANGED <<asked, done>>

\* Mutant: the vfs that minijail_unmarshal() sets is left.
PreenterKeepsVfs(o) ==
  o \ {"enter_vfs", "ns_cgroups", "net", "uts", "remount_proc_ro", "pids", "do_init",
       "run_as_init", "pid_file", "cgroups", "forward_signals", "setsid", "remount_mode"}

minijail_preenter(o) ==
  o \ {"vfs", "enter_vfs", "ns_cgroups", "net", "uts", "remount_proc_ro", "pids", "do_init",
       "run_as_init", "pid_file", "cgroups", "forward_signals", "setsid", "remount_mode"}

Preenter ==
  /\ pc = "preenter"
  /\ j' = minijail_preenter(j)
  /\ pc' = "again"
  /\ UNCHANGED <<asked, done, env>>

EnterAgain ==
  /\ pc = "again"
  /\ minijail_enter("main")
  /\ UNCHANGED <<asked, j, env>>

Next == Run \/ Child \/ Enter \/ Hooks \/ Execve \/ __libc_start_main \/ fake_main \/ Preenter \/ EnterAgain

Spec == Init /\ [][Next]_vars
-----------------------------------------------------------------------------
(* Properties. *)

\* What the program's caller asked for, whatever the mode.  An enter_net takes
\* the place of a net, an own init that of the read-only /proc.
Asked ==
  LET simple == Effects \ {"clone", "net", "remount_mode", "hostname", "landlock", "uidmap",
                           "remount_proc_ro"}
      if(c, e) == IF c THEN {e} ELSE {}
  IN (jail \cap simple)
     \cup if("pids" \in jail, "clone")
     \cup if({"userns", "uidmap"} \subseteq jail, "uidmap")
     \cup if("net" \in jail /\ "enter_net" \notin jail, "net")
     \cup if({"vfs", "remount_mode"} \subseteq jail, "remount_mode")
     \cup if("hostname" \in jail, "hostname")
     \cup if({"fs_rules", "enable_fs_restrictions"} \subseteq jail, "landlock")
     \cup if("remount_proc_ro" \in jail /\ ("pids" \in jail => "run_as_init" \notin jail),
            "remount_proc_ro")

Times(e) == Cardinality({n \in DOMAIN done : done[n] = e})

\* The division of labour between minijail_preexec() and minijail_preenter(),
\* which a WARNING in struct minijail asks to keep up to date: when the program
\* starts, each option of the jail has been put in force exactly once and none
\* that was not asked for, in either stage.  (With both net and enter_net a
\* preloaded jail passes through a new network namespace it leaves again.)
EachOnce ==
  pc = "main" =>
    /\ \A e \in Asked : Times(e) = 1
    /\ \A e \in Effects \ Asked : (e = "net" /\ "enter_net" \in Asked) \/ Times(e) = 0

\* The steps of minijail_enter() that depend on an earlier one: file systems are
\* changed only in the jail's own mount namespace, mounts are made before the
\* root changes, /tmp and the read-only /proc after, the last network namespace is
\* the one asked for, and whatever needs privileges or paths comes before ids,
\* capabilities and Landlock take them away.
ProcLast == {"mount_dev", "mounts", "chroot", "pivot_root", "mount_tmp"} \X {"remount_proc_ro"}
Depends ==
  ({"enter_vfs"} \X {"vfs"})
  \cup ({"enter_vfs", "vfs", "remount_mode"} \X ToSet(FileSystem))
  \cup ({"mount_dev", "mounts"} \X {"chroot", "pivot_root"})
  \cup ({"chroot", "pivot_root"} \X {"mount_tmp"})
  \cup ProcLast
  \cup ({"net"} \X {"enter_net"})
  \cup ({"clone", "uidmap", "hook_caps"} \cup ToSet(Namespaces) \cup ToSet(FileSystem))
         \X ({"landlock", "seccomp_filter", "seccomp"} \cup ToSet(Privileges))

\* Splitting minijail_enter() over two stages keeps the order of all steps of
\* which one depends on the other, but for /proc: minijail_preexec() keeps
\* remount_proc_ro for the first stage and leaves the mounts and the new root to the
\* second, so with a library it is the /proc of the old root that is made read-only,
\* and minijail0.1:216 ("Remount /proc readonly") need not hold of the program's.
OrderKept ==
  \A n \in DOMAIN done : \A k \in 1 .. n - 1 :
     <<done[n], done[k]>> \in Depends => mode = "preload" /\ <<done[n], done[k]>> \in ProcLast

\* What the program should find for a name.  Preloading leaves no trace but for
\* an LD_PRELOAD that was empty and is now unset.
Expected(name) ==
  LET was == minijail_getenv(given, name) IN
  CASE name = kSeccompPolicyPathEnvVar /\ mode # "fork" /\ "seccomp_policy_path" \in jail
                                               -> {<<"policy">>}
    [] name = kFdEnvVar /\ mode = "preload"    -> {}
    [] name = kLdPreloadEnvVar /\ was = {<<>>} /\ mode = "preload" -> {}
    [] OTHER                                   -> was

Own == {kFdEnvVar, kLdPreloadEnvVar, kSeccompPolicyPathEnvVar}
Names(e) == {e[i].name : i \in DOMAIN e}

\* When main() starts, what was added to the environment for the library is gone
\* and the rest is as the caller asked: no other entry is lost, added or doubled,
\* although removing one moves another, and each name has the value it was given
\* unless the caller gave
\* it twice.
EnvHandedOn ==
  pc = "main" =>
    /\ \A e \in Range(given) \cup Range(env) :
         e.name \notin Own =>
           Cardinality({i \in DOMAIN env : env[i] = e}) = Cardinality({i \in DOMAIN given : given[i] = e})
    /\ IsInjective([i \in DOMAIN given |-> given[i].name]) =>
         \A name \in Names(given) \cup Names(env) : minijail_getenv(env, name) = Expected(name)
=============================================================================

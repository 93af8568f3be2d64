----------------------------- MODULE JailConfig -----------------------------
(* The functions of libminijail that build a jail before it is run, as        *)
(* operators on struct minijail.  A boolean flag is a member of `flags'.  A    *)
(* function that dies leaves `died' behind; one that returns an error has a    *)
(* predicate for it, and no effect.  `sys' is what the functions learn about   *)
(* the system they run on.                                                     *)
EXTENDS OptionArguments

CONSTANT MaxRlimits   \* MAX_RLIMITS

None == "none"
NoFilter == [from |-> None, block |-> None, len |-> 0]
NoRuleset == {"none"}
NoMap == <<>>

minijail_new ==
  [flags |-> {"enable_fs_restrictions", "enable_profile_fs_restrictions", "enable_default_runtime"},
   remount_mode |-> "private", uid |-> 0, gid |-> 0, user |-> None, caps |-> {}, skip |-> {},
   uidmap |-> NoMap, gidmap |-> NoMap, chrootdir |-> <<>>, hostname |-> None, rlimits |-> <<>>,
   mounts |-> <<>>, fs_rules |-> {}, handled |-> NoRuleset, tmpfs_size |-> 0, filter |-> NoFilter,
   died |-> FALSE]

With(j, f)    == [j EXCEPT !.flags = @ \cup f]
Without(j, f) == [j EXCEPT !.flags = @ \ f]
Dies(j)       == [j EXCEPT !.died = TRUE]

-----------------------------------------------------------------------------
(* Ids and groups. *)

\* "useless change to uid 0"
minijail_change_uid(j, uid) == IF uid = 0 THEN Dies(j) ELSE [With(j, {"uid"}) EXCEPT !.uid = uid]
minijail_change_gid(j, gid) == IF gid = 0 THEN Dies(j) ELSE [With(j, {"gid"}) EXCEPT !.gid = gid]
minijail_change_user(j, user, uid) == [minijail_change_uid(j, uid) EXCEPT !.user = user]

minijail_set_supplementary_gids(j) ==
  IF {"inherit_suppl_gids", "keep_suppl_gids"} \cap j.flags # {}
  THEN Dies(j) ELSE With(j, {"set_suppl_gids"})

minijail_uidmap(j, map) == [j EXCEPT !.uidmap = map]
minijail_gidmap(j, map) == [j EXCEPT !.gidmap = map]

minijail_use_caps(j, caps) == [With(Without(j, {"capbset_drop"}), {"use_caps"}) EXCEPT !.caps = caps]
minijail_skip_setting_securebits(j, bits) == [j EXCEPT !.skip = bits]

\* A limit is set once, and there is room for so many.
RlimitFails(j, r) == Len(j.rlimits) >= MaxRlimits \/ \E n \in DOMAIN j.rlimits : j.rlimits[n].type = r.type
minijail_rlimit(j, r) == [j EXCEPT !.rlimits = Append(@, r)]

-----------------------------------------------------------------------------
(* Namespaces and the file system. *)

minijail_namespace_vfs(j)         == With(j, {"vfs"})
minijail_remount_proc_readonly(j) == With(j, {"vfs", "remount_proc_ro"})
minijail_namespace_pids(j)        == With(j, {"vfs", "remount_proc_ro", "pids", "do_init"})
minijail_remount_mode(j, mode)    == [j EXCEPT !.remount_mode = mode]
minijail_skip_remount_private(j)  == [j EXCEPT !.remount_mode = None]

\* A second name is ignored by the command line, which drops the error.
minijail_namespace_set_hostname(j, name) ==
  IF j.hostname # None THEN j ELSE [With(j, {"uts"}) EXCEPT !.hostname = name]

\* minijail_enter_chroot() and minijail_enter_pivot_root() share a directory.
HasRoot(j) == j.chrootdir # <<>>
minijail_enter_chroot(j, dir)     == [With(j, {"chroot"}) EXCEPT !.chrootdir = dir]
minijail_enter_pivot_root(j, dir) == [With(j, {"pivot_root"}) EXCEPT !.chrootdir = dir]

\* realpath(3) gives the path itself, or the path without its last slash.
is_canonical_path(path, sys) ==
  \E rp \in {path, Front(path)} :
     /\ rp # <<>> /\ rp \notin sys.links
     /\ rp = <<"/">> \/ Last(rp) # "/"
     /\ path \in {rp, Append(rp, "/")}

is_valid_bind_path(path, sys) ==
  \/ ~sys.blocks_links \/ is_canonical_path(path, sys)
  \/ \E prefix \in {<<"/", "dev">>, <<"/", "sys">>} : path_is_parent(prefix, path)

\* The errors that minijail_mount_with_data() and minijail_bind() return.
MountFails(m)     == ~IsAbsolute(m.dest)
BindFails(m, sys) == ~is_valid_bind_path(m.src, sys) \/ ~IsAbsolute(m.dest)

\* Defaults for what the caller left out.
WithDefaults(m) ==
  [m EXCEPT !.flags = IF @ = {} THEN {"nodev", "noexec", "nosuid"} ELSE @,
            !.data = IF m.type = "tmpfs" /\ @ = <<>> THEN <<"mode=0755", "size=10M">> ELSE @]

\* Mutant: only bind mounts get a namespace.
MountInNamespaceOfBind(j, m) ==
  [IF "bind" \notin m.flags THEN j ELSE minijail_namespace_vfs(j)
   EXCEPT !.mounts = Append(@, WithDefaults(m))]

\* "Unless asked to enter an existing namespace, force vfs namespacing".
minijail_mount_with_data(j, m) ==
  [IF "enter_vfs" \in j.flags THEN j ELSE minijail_namespace_vfs(j)
   EXCEPT !.mounts = Append(@, WithDefaults(m))]

minijail_bind(j, b) ==
  minijail_mount_with_data(j,
    [src |-> b.src, dest |-> b.dest, type |-> "minijail_bind", data |-> <<>>,
     flags |-> {"bind"} \cup IF b.writeable THEN {} ELSE {"ro"}])

\* Where a path of the jail is outside of it, for minijail0 to look at the program:
\* the first mount whose destination is the start of the path counts.
minijail_get_original_path(j, path) ==
  LET first == SelectInSeq(j.mounts, LAMBDA m : IsPrefix(m.dest, path))
      m == j.mounts[first]
  IN CASE first > 0 -> IF m.dest = path THEN m.src
                       ELSE path_join(m.src, SubSeq(path, Len(m.dest) + 1, Len(path)))
       [] first = 0 -> IF HasRoot(j) THEN path_join(j.chrootdir, path) ELSE path

minijail_mount_tmp_size(j, size) == [With(j, {"mount_tmp"}) EXCEPT !.tmpfs_size = size]

-----------------------------------------------------------------------------
(* Landlock: the rights of a rule, and of the ruleset that is to have it. *)

Read        == {"read_file", "read_dir"}
ReadExecute == Read \cup {"execute"}
Edit        == {"write_file", "remove_dir", "remove_file"}
BasicWrite  == Edit \cup {"make_dir", "make_reg"}
FullWrite   == BasicWrite \cup {"make_char", "make_sock", "make_fifo", "make_block", "make_sym"}
ACCESS_FILE == {"execute", "write_file", "read_file"}
HANDLED_ACCESS_TYPES == ReadExecute \cup FullWrite

fs_refer_restriction_supported(sys) == sys.landlock >= 2
Refer(sys) == IF fs_refer_restriction_supported(sys) THEN {"refer"} ELSE {}

\* The empty ruleset, if the kernel has Landlock.
setup_fs_rules_fd(j, sys) ==
  IF sys.landlock > 0 THEN [j EXCEPT !.handled = HANDLED_ACCESS_TYPES \cup Refer(sys)] ELSE j

\* The first rule also makes the ruleset.
AddRules(j, rules, sys) ==
  [IF j.fs_rules = {} /\ rules # {} THEN setup_fs_rules_fd(j, sys) ELSE j EXCEPT !.fs_rules = @ \cup rules]

\* The minijail_add_fs_restriction_*() functions, by the end of their name.
RightsOf(how, sys) ==
  CASE how = "rx" -> ReadExecute
    [] how = "ro" -> Read
    [] how = "rw" -> Read \cup BasicWrite
    [] how = "edit" -> Read \cup Edit
    [] how = "advanced_rw" -> Read \cup FullWrite \cup Refer(sys)

Rules(paths, how, sys) == paths \X {RightsOf(how, sys)}

\* minijail_enable_default_fs_restrictions()
DefaultPaths ==
  {<<"/", d>> : d \in {"lib", "lib64", "bin", "sbin"}}
  \cup {<<"/", "usr", "/", d>> : d \in {"lib", "lib64", "bin", "sbin"}}

MayWrite(m) == "ro" \notin m.flags \/ {"shared", "slave"} \cap m.flags # {}

\* With the minimalistic profile each mount gets a rule, and so do the usual paths.
minijail_add_minimalistic_mountns_fs_rules(j, sys) ==
  LET mounted == ToSet(j.mounts)
  IN IF /\ {"using_minimalistic_mountns", "enable_profile_fs_restrictions"} \subseteq j.flags
        /\ mounted # {}
     THEN AddRules(j, Rules({m.dest : m \in mounted} \cup DefaultPaths, "rx", sys)
                      \cup Rules({m.dest : m \in {w \in mounted : MayWrite(w)}}, "advanced_rw", sys)
                      \cup Rules({<<"/", "dev">>}, "edit", sys) \cup Rules({<<"/", "proc">>}, "ro", sys)
                      \cup IF "vfs" \in j.flags THEN Rules({<<"/", "tmp">>}, "rw", sys) ELSE {}, sys)
     ELSE j

\* In the child: what is asked of the kernel for a rule.
populate_ruleset_internal(rights, dir) == IF dir THEN rights ELSE rights \cap ACCESS_FILE

-----------------------------------------------------------------------------
(* Seccomp. *)

\* The words of /proc/sys/kernel/seccomp/actions_avail, none if it cannot be read.
seccomp_action_is_available(wanted, sys) == ~sys.android /\ wanted \in sys.actions
seccomp_ret_log_available(sys)          == seccomp_action_is_available("log", sys)
seccomp_ret_kill_process_available(sys) == seccomp_action_is_available("kill_process", sys)
seccomp_filter_flags_available(flag, sys) == flag \in sys.kernel

\* The options that are compiled into a filter must come before it, and two of
\* them need SECCOMP_RET_LOG to go together.
minijail_set_seccomp_filter_tsync(j, sys) ==
  IF j.filter # NoFilter \/ ("seccomp_filter_logging" \in j.flags /\ ~seccomp_ret_log_available(sys))
  THEN Dies(j) ELSE With(j, {"seccomp_filter_tsync"})

minijail_log_seccomp_filter_failures(j, sys) ==
  IF j.filter # NoFilter \/ ("seccomp_filter_tsync" \in j.flags /\ ~seccomp_ret_log_available(sys))
  THEN Dies(j) ELSE IF sys.debug THEN With(j, {"seccomp_filter_logging"}) ELSE j

minijail_set_seccomp_filter_allow_speculation(j) ==
  IF j.filter # NoFilter THEN Dies(j) ELSE With(j, {"seccomp_filter_allow_speculation"})

clear_seccomp_options(j) ==
  [Without(j, {"seccomp_filter", "seccomp_filter_tsync", "seccomp_filter_logging",
               "seccomp_filter_allow_speculation", "no_new_privs"}) EXCEPT !.filter = NoFilter]

\* USE_SECCOMP_SOFTFAIL, which a build has if it is made with USE_seccomp=no.
seccomp_can_softfail(sys) == sys.softfail

\* A kernel that cannot filter is put up with only where that is allowed.  Elsewhere
\* the filter is made all the same: "Worst case scenario minijail_enter() will abort()".
seccomp_should_use_filters(j, sys) ==
  seccomp_can_softfail(sys) =>
    /\ "filters" \in sys.kernel
    /\ "seccomp_filter_tsync" \in j.flags => seccomp_filter_flags_available("tsync", sys)
Filterable(j, sys) ==
  IF seccomp_filter_flags_available("spec", sys) THEN j ELSE Without(j, {"seccomp_filter_allow_speculation"})

\* What a blocked call does is decided when the policy is compiled.
BlockAction(j, sys) ==
  CASE "seccomp_filter_logging" \in j.flags -> IF seccomp_ret_log_available(sys) THEN "log" ELSE "trap"
    [] "seccomp_filter_tsync" \in j.flags   -> IF seccomp_ret_kill_process_available(sys) THEN "kill_process" ELSE "trap"
    [] OTHER                                -> "kill"

minijail_parse_seccomp_filters(j, sys) ==
  IF ~seccomp_should_use_filters(j, sys) THEN clear_seccomp_options(j)
  ELSE IF ~sys.policy_compiles THEN Dies(j)
  ELSE [Filterable(j, sys) EXCEPT !.filter = [from |-> "policy", block |-> BlockAction(j, sys), len |-> 0]]

minijail_set_seccomp_filters(j, file, len, sys) ==
  IF ~seccomp_should_use_filters(j, sys) THEN clear_seccomp_options(j)
  ELSE IF "seccomp_filter_logging" \in j.flags THEN Dies(j)
  ELSE [Filterable(j, sys) EXCEPT !.filter = [from |-> file, block |-> "as compiled", len |-> len]]
=============================================================================

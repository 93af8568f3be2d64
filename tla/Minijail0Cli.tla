---------------------------- MODULE Minijail0Cli ----------------------------
(* The command line of minijail0: parse_args() takes options one by one, from  *)
(* the command line or from a configuration file, calls the functions of       *)
(* JailConfig, and checks and completes the jail at the end; main() then runs  *)
(* it.  With --gen-config it writes what it was given to a file instead, which *)
(* a later call can be started with.                                           *)
EXTENDS JailConfig, FiniteSets

CONSTANT
  Calls   \* the calls of minijail0: the system `sys' it finds itself on; the options it may be
          \* given, `arg.options', the arguments they have, and the configuration files there
          \* are, `arg.files', as sequences of options; and how many options it has at `most'

\* Options that only set flags of the jail, with those flags.
FlagOptions ==
  [o \in {"-n", "-l", "-N", "-w", "-a", "-f", "--enable-profile-fs-restrictions"} |->
     CASE o = "-n" -> {"no_new_privs"} [] o = "-l" -> {"ipc"} [] o = "-N" -> {"ns_cgroups"}
       [] o = "-w" -> {"new_session_keyring"} [] o = "-a" -> {"alt_syscall"} [] o = "-f" -> {"pid_file"}
       [] OTHER -> {"enable_profile_fs_restrictions"}]

\* An argument that is not one of those an option has, and -h.
BadOptions == {"-T other", "--logging other", "--profile other", "-h"}

AllOptions ==
  DOMAIN FlagOptions \cup BadOptions \cup
  {"-u uid", "-u name", "-g gid", "-g name", "-s", "-S policy", "--seccomp-bpf-binary", "-L", "-Y",
   "--allow-speculative-execution", "-b src", "-k mount", "-B", "-c caps", "--ambient", "-R limit", "-R CPU", "-R CORE",
   "-C dir", "-P dir", "-K", "-K mode", "-t", "-t size", "-v", "-V ns", "-r", "-d", "-p", "-I", "-U", "-e",
   "-e ns", "-m", "-m map", "-M", "-M map", "-G", "-y", "--add-suppl-group", "--uts", "--uts name",
   "--profile", "--profile nodev", "--fs-path-rx", "--fs-path-ro", "--fs-path-rw", "--fs-path-advanced-rw",
   "--fs-default-paths", "--no-fs-restrictions", "--no-default-runtime-environment", "-T static", "-T dynamic",
   "-z", "-i", "--logging stderr", "--logging syslog", "--env-add", "--env-reset", "--config", "--gen-config"}

ASSUME CliAssumption ==
  \A c \in Calls :
     /\ c.arg.options \subseteq AllOptions
     /\ \A f \in c.arg.files : ToSet(f) \subseteq AllOptions
     /\ c.most \in Nat

VARIABLES
  sys, arg,   \* the system and the arguments of the options, of one of Calls
  pc,      \* "options", "parsed", "running", "refused", "written"
  left,    \* how many more options the command line may have
  conf,    \* what is left of the configuration file that is being read
  opts,    \* the list of options kept for --gen-config
  a,       \* the variables of parse_args()
  j,       \* the jail
  files,   \* the file that --gen-config wrote, if it has
  asked    \* the options of the user, also when they come back from `files'

vars == <<sys, arg, pc, left, conf, opts, a, j, files, asked>>

Fresh ==
  [seccomp |-> None, log |-> FALSE, forward |-> TRUE, binding |-> FALSE,
   chroot |-> FALSE, pivot_root |-> FALSE, mount_ns |-> FALSE, change_remount |-> FALSE,
   remount_mode |-> None, inherit |-> FALSE, keep |-> FALSE, caps |-> FALSE, ambient |-> FALSE,
   use_uid |-> FALSE, use_gid |-> FALSE, uid |-> 0, gid |-> 0, suppl |-> 0,
   set_uidmap |-> FALSE, uidmap |-> NoMap, set_gidmap |-> FALSE, gidmap |-> NoMap,
   tmp_size |-> 0, parse_mode |-> FALSE, fs_flag |-> FALSE, fs_enabled |-> TRUE,
   logging |-> "auto", elf |-> None, exit_now |-> FALSE, env |-> {"inherited"}]

Init ==
  /\ \E c \in Calls : sys = c.sys /\ arg = c.arg /\ left = c.most
  /\ pc = "options"
  /\ conf = <<>> /\ opts = <<>> /\ files = <<>> /\ asked = <<>>
  /\ a = Fresh
  /\ j = minijail_new

-----------------------------------------------------------------------------
(* parse_args(): one option. *)

\* The options of a configuration file come before the rest of the command line.
getopt_conf_or_cli(o) ==
  IF conf # <<>>
  THEN o = Head(conf) /\ conf' = Tail(conf) /\ UNCHANGED left
  ELSE left > 0 /\ o \in arg.options /\ left' = left - 1 /\ (o # "--config" => UNCHANGED conf)

\* The errors that end minijail0 as soon as the option is seen.
SeccompKind(o) ==
  CASE o = "-s" -> "strict" [] o = "-S policy" -> "filter" [] o = "--seccomp-bpf-binary" -> "binary"
    [] OTHER -> None
RootOptions == {"-C dir", "-P dir", "--profile", "--profile nodev"}

\* The limits of -R.
RlimitOptions == {"-R limit", "-R CPU", "-R CORE"}
Limits(o) ==
  IF o = "-R limit" THEN add_rlimit(arg.limit)
  ELSE add_rlimit([type |-> IF o = "-R CPU" THEN "CPU" ELSE "CORE", cur |-> "0", max |-> "unlimited", more |-> FALSE])

\* The environment is a copy of that of minijail0, made by the first --env-add or
\* at the end, unless --env-reset comes first.  The argument is VAR=value, where only
\* the value may be empty.
set_child_env(env, e) == IF ~e.delim \/ ~e.name THEN {} ELSE {env \cup {"added"}}

\* An argument that cannot be used.  What touches the system is left for the call
\* that uses the file when --gen-config comes before.
BadArgument(o) ==
  \/ ~a.parse_mode /\
       \/ o = "-u name" /\ lookup_user(sys.user) = {}
       \/ o = "-g name" /\ lookup_group(sys.group) = {}
       \/ o = "-b src" /\ \A b \in add_binding(arg.bind) : BindFails(b, sys)
       \/ o = "-k mount" /\ \A m \in add_mount(arg.mount) : MountFails(m)
  \/ o = "--add-suppl-group" /\ lookup_group(sys.group) = {}
  \/ o = "--env-add" /\ set_child_env(a.env, arg.env) = {}
  \/ o = "-B" /\ skip_securebits(arg.mask) = {}
  \/ o = "-c caps" /\ use_caps(arg.caps, sys) = {}
  \/ o \in RlimitOptions /\ \A r \in Limits(o) : RlimitFails(j, r)
  \/ o = "-t size" /\ parse_size(a.tmp_size, arg.size, sys.errno) = {}
  \/ o \in {"--profile", "--profile nodev"} /\ ~is_valid_bind_path(<<"/">>, sys)
  \/ o \in BadOptions


Rejects(o) ==
  \/ o \in {"-u uid", "-u name"} /\ a.use_uid
  \/ o \in {"-g gid", "-g name"} /\ a.use_gid
  \/ SeccompKind(o) # None /\ a.seccomp \notin {None, SeccompKind(o)}
  \/ o = "-L" /\ a.seccomp = "binary"
  \/ o = "--seccomp-bpf-binary" /\ a.log
  \/ o = "-C dir" /\ (a.pivot_root \/ HasRoot(j))
  \/ o \in RootOptions \ {"-C dir"} /\ (a.chroot \/ HasRoot(j))
  \/ o = "-G" /\ a.keep
  \/ o = "-y" /\ a.inherit
  \/ o = "--config" /\ conf # <<>>
  \/ BadArgument(o)

\* A function of the library that is not called while a file is generated.
Unless(skip, new) == IF skip THEN j ELSE new

Flag(o) ==
  /\ o \in DOMAIN FlagOptions
  /\ j' = Unless(o = "-f" /\ a.parse_mode, With(j, FlagOptions[o]))
  /\ UNCHANGED a

\* set_user() looks a name up, and with it the group of the user.
User(o) ==
  \/ /\ a.parse_mode /\ o \in {"-u uid", "-u name"}
     /\ a' = [a EXCEPT !.use_uid = TRUE] /\ UNCHANGED j
  \/ /\ ~a.parse_mode /\ o = "-u uid"
     /\ a' = [a EXCEPT !.use_uid = TRUE, !.uid = ToId(arg.uid)]
     /\ j' = minijail_change_uid(j, ToId(arg.uid))
  \/ /\ ~a.parse_mode /\ o = "-u name"
     /\ \E u \in lookup_user(sys.user) :
          /\ a' = [a EXCEPT !.use_uid = TRUE, !.uid = u.uid, !.gid = u.gid]
          /\ j' = minijail_change_user(j, "name", u.uid)

set_group(o) == IF o = "-g name" THEN lookup_group(sys.group) ELSE {ToId(arg.gid)}

Group(o) ==
  /\ o \in {"-g gid", "-g name"}
  /\ \/ a.parse_mode /\ a' = [a EXCEPT !.use_gid = TRUE] /\ UNCHANGED j
     \/ /\ ~a.parse_mode
        /\ \E gid \in set_group(o) :
             a' = [a EXCEPT !.use_gid = TRUE, !.gid = gid] /\ j' = minijail_change_gid(j, gid)

Groups(o) ==
  \/ o = "-G" /\ a' = [a EXCEPT !.inherit = TRUE] /\ j' = With(j, {"inherit_suppl_gids"})
  \/ o = "-y" /\ a' = [a EXCEPT !.keep = TRUE]    /\ j' = With(j, {"keep_suppl_gids"})
  \/ o = "--add-suppl-group" /\ a' = [a EXCEPT !.suppl = @ + 1] /\ UNCHANGED j

Capabilities(o) ==
  \/ /\ o = "-c caps"
     /\ a' = [a EXCEPT !.caps = TRUE]
     /\ \E caps \in use_caps(arg.caps, sys) : j' = minijail_use_caps(j, caps)
  \/ o = "--ambient" /\ a' = [a EXCEPT !.ambient = TRUE] /\ j' = With(j, {"set_ambient_caps"})
  \/ /\ o = "-B"
     /\ \E bits \in skip_securebits(arg.mask) : j' = minijail_skip_setting_securebits(j, bits)
     /\ UNCHANGED a

Rlimit(o) ==
  /\ o \in RlimitOptions
  /\ \E r \in Limits(o) : j' = minijail_rlimit(j, r)
  /\ UNCHANGED a

Seccomp(o) ==
  \/ /\ SeccompKind(o) # None
     /\ a' = [a EXCEPT !.seccomp = SeccompKind(o)]
     /\ j' = With(j, {IF o = "-s" THEN "seccomp" ELSE "seccomp_filter"})
  \/ /\ o = "-L"
     /\ a' = [a EXCEPT !.log = TRUE]
     /\ j' = minijail_log_seccomp_filter_failures(j, sys)
  \/ o = "-Y" /\ j' = minijail_set_seccomp_filter_tsync(j, sys) /\ UNCHANGED a
  \/ /\ o = "--allow-speculative-execution"
     /\ j' = minijail_set_seccomp_filter_allow_speculation(j)
     /\ UNCHANGED a
  \/ /\ o = "--no-default-runtime-environment"
     /\ j' = Without(j, {"enable_default_runtime"})
     /\ UNCHANGED a

Namespaces(o) ==
  /\ \/ o = "-p" /\ j' = minijail_namespace_pids(j)
     \/ o = "-I" /\ j' = With(minijail_namespace_pids(j), {"run_as_init"})
     \/ o = "-U" /\ j' = minijail_namespace_pids(With(j, {"userns"}))
     \/ o = "-e" /\ j' = Unless(a.parse_mode, With(j, {"net"}))
     \/ o = "-e ns" /\ j' = Unless(a.parse_mode, With(j, {"enter_net"}))
     \/ o = "-V ns" /\ j' = Unless(a.parse_mode, With(j, {"enter_vfs"}))
     \/ o = "--uts" /\ j' = With(j, {"uts"})
     \/ o = "--uts name" /\ j' = minijail_namespace_set_hostname(With(j, {"uts"}), "name")
  /\ UNCHANGED a

\* "Configure the remount flag here to avoid having -v override it": -K waits
\* for the end.
MountNamespace(o) ==
  \/ /\ o = "-v"
     /\ a' = [a EXCEPT !.mount_ns = TRUE]
     /\ j' = minijail_remount_mode(minijail_namespace_vfs(j), "slave")
  \/ /\ o \in {"-K", "-K mode"}
     /\ a' = [a EXCEPT !.change_remount = TRUE, !.remount_mode = IF o = "-K" THEN None ELSE arg.mode]
     /\ UNCHANGED j

IdMaps(o) ==
  /\ \/ /\ o \in {"-m", "-m map"}
        /\ a' = [a EXCEPT !.set_uidmap = TRUE, !.uidmap = IF o = "-m" THEN NoMap ELSE <<"map">>]
     \/ /\ o \in {"-M", "-M map"}
        /\ a' = [a EXCEPT !.set_gidmap = TRUE, !.gidmap = IF o = "-M" THEN NoMap ELSE <<"map">>]
  /\ UNCHANGED j

Root(o) ==
  \/ o = "-C dir" /\ a' = [a EXCEPT !.chroot = TRUE] /\ j' = minijail_enter_chroot(j, <<"/", "jail">>)
  \/ /\ o = "-P dir"
     /\ a' = [a EXCEPT !.pivot_root = TRUE]
     /\ j' = minijail_namespace_vfs(minijail_enter_pivot_root(j, <<"/", "jail">>))

\* DEFAULT_TMP_SIZE, and no size.
DefaultSize == 64
DefaultTmp == IF a.tmp_size = 0 THEN DefaultSize ELSE a.tmp_size

Bound(x, path) == minijail_bind(x, [src |-> path, dest |-> path, writeable |-> FALSE])

use_profile(o) ==
  LET bound == Bound(Bound(minijail_namespace_vfs(j), <<"/">>), <<"/", "proc">>)
      dev == With(Bound(bound, <<"/", "dev", "/", "log">>), {"mount_dev"})
      profile == With(minijail_remount_proc_readonly(IF o = "--profile" THEN dev ELSE bound),
                      {"using_minimalistic_mountns"})
  IN /\ o \in {"--profile", "--profile nodev"}
     /\ a' = [a EXCEPT !.pivot_root = TRUE, !.tmp_size = DefaultTmp]
     /\ j' = minijail_namespace_vfs(minijail_enter_pivot_root(profile, <<"/", "var", "/", "empty">>))

FileSystem(o) ==
  \/ /\ o = "-b src"
     /\ a' = [a EXCEPT !.binding = TRUE]
     /\ \/ a.parse_mode /\ UNCHANGED j
        \/ ~a.parse_mode /\ \E b \in add_binding(arg.bind) : j' = minijail_bind(j, b)
  \/ /\ o = "-k mount"
     /\ \/ a.parse_mode /\ UNCHANGED j
        \/ ~a.parse_mode /\ \E m \in add_mount(arg.mount) : j' = minijail_mount_with_data(j, m)
     /\ UNCHANGED a
  \/ /\ o = "-t"
     /\ a' = [a EXCEPT !.tmp_size = DefaultTmp]
     /\ j' = minijail_namespace_vfs(j)
  \/ /\ o = "-t size"
     /\ \E size \in parse_size(DefaultTmp, arg.size, sys.errno) : a' = [a EXCEPT !.tmp_size = size]
     /\ j' = minijail_namespace_vfs(j)
  \/ o = "-r" /\ j' = minijail_remount_proc_readonly(j) /\ UNCHANGED a
  \/ o = "-d" /\ j' = With(minijail_namespace_vfs(j), {"mount_dev"}) /\ UNCHANGED a

PathOptions ==
  [o \in {"--fs-path-rx", "--fs-path-ro", "--fs-path-rw", "--fs-path-advanced-rw"} |->
     CASE o = "--fs-path-rx" -> "rx" [] o = "--fs-path-ro" -> "ro" [] o = "--fs-path-rw" -> "rw"
       [] OTHER -> "advanced_rw"]

FsRules(o) ==
  \/ /\ o \in DOMAIN PathOptions \cup {"--fs-default-paths"}
     /\ a' = [a EXCEPT !.fs_flag = TRUE]
     /\ j' = AddRules(j, IF o = "--fs-default-paths" THEN Rules(DefaultPaths, "rx", sys)
                         ELSE Rules({<<"/", "mnt">>}, PathOptions[o], sys), sys)
  \/ /\ o = "--no-fs-restrictions"
     /\ a' = [a EXCEPT !.fs_enabled = FALSE]
     /\ j' = Without(j, {"enable_fs_restrictions"})

Program(o) ==
  /\ \/ o = "-z" /\ a' = [a EXCEPT !.forward = FALSE]
     \/ o = "-i" /\ a' = [a EXCEPT !.exit_now = TRUE]
     \/ o = "--logging stderr" /\ a' = [a EXCEPT !.logging = "stderr"]
     \/ o = "--logging syslog" /\ a' = [a EXCEPT !.logging = "syslog"]
     \/ o = "-T static"  /\ a' = [a EXCEPT !.elf = "static"]
     \/ o = "-T dynamic" /\ a' = [a EXCEPT !.elf = "dynamic"]
     \/ o = "--gen-config" /\ a' = [a EXCEPT !.parse_mode = TRUE]
  /\ UNCHANGED j

Environment(o) ==
  /\ \/ o = "--env-reset" /\ a' = [a EXCEPT !.env = {}]
     \/ o = "--env-add"   /\ \E env \in set_child_env(a.env, arg.env) : a' = [a EXCEPT !.env = env]
  /\ UNCHANGED j

Config(o) == o = "--config" /\ conf' \in arg.files /\ UNCHANGED <<a, j>>

ParseOption(o) ==
  /\ pc = "options"
  /\ getopt_conf_or_cli(o)
  /\ opts' = Append(opts, o)
  /\ asked' = IF files # <<>> \/ o \in {"--config", "--gen-config"} THEN asked ELSE Append(asked, o)
  /\ IF Rejects(o) THEN UNCHANGED <<a, j>>
     ELSE \/ Flag(o) \/ User(o) \/ Group(o) \/ Groups(o) \/ Capabilities(o) \/ Rlimit(o) \/ Seccomp(o)
          \/ Namespaces(o) \/ MountNamespace(o) \/ IdMaps(o) \/ Root(o) \/ use_profile(o)
          \/ FileSystem(o) \/ FsRules(o) \/ Program(o) \/ Environment(o) \/ Config(o)
  /\ pc' = IF Rejects(o) \/ j'.died THEN "refused" ELSE "options"
  /\ UNCHANGED <<sys, arg, files>>

-----------------------------------------------------------------------------
(* parse_args() after the last option, and main(). *)

Mapped(x) ==
  LET user == minijail_namespace_pids(With(x, {"userns"}))
      uids == minijail_uidmap(user, IF a.uidmap = NoMap THEN build_idmap(a.uid, "getuid") ELSE a.uidmap)
      gids(y) == minijail_gidmap(minijail_namespace_pids(With(y, {"userns"} \cup
                   IF sys.setgid THEN {} ELSE {"disable_setgroups"})),
                   IF a.gidmap = NoMap THEN build_idmap(a.gid, "getgid") ELSE a.gidmap)
      first == IF a.set_uidmap THEN uids ELSE x
  IN IF a.set_gidmap THEN gids(first) ELSE first

Remounted(x) ==
  IF ~a.change_remount THEN x
  ELSE IF a.remount_mode # None THEN minijail_remount_mode(x, a.remount_mode)
  ELSE minijail_skip_remount_private(x)

\* A file that cannot be read ends minijail0 as an error of the library does.
set_seccomp_filters(x, name, file) ==
  IF read_seccomp_filter(file) = {} THEN Dies(x)
  ELSE minijail_set_seccomp_filters(x, name, CHOOSE len \in read_seccomp_filter(file) : TRUE, sys)

\* "We parse seccomp filters here to make sure we've collected all cmdline options."
Filtered(x) ==
  CASE a.seccomp = "filter" -> minijail_parse_seccomp_filters(x, sys)
    [] a.seccomp = "binary" -> set_seccomp_filters(x, "binary", sys.binary)
    [] a.seccomp \notin {"filter", "binary"} /\ "enable_default_runtime" \in x.flags ->
         With(IF sys.policy THEN set_seccomp_filters(With(x, {"seccomp_filter"}), "default", sys.default)
              ELSE x, {"no_new_privs"})
    [] OTHER -> x

Completed ==
  LET logged    == IF a.logging = "stderr" \/ (a.logging = "auto" /\ sys.tty)
                   THEN With(j, {"preserve_stderr"}) ELSE j
      forwarded == IF a.forward THEN With(Mapped(logged), {"forward_signals"}) ELSE Mapped(logged)
      grouped   == IF a.suppl > 0 THEN minijail_set_supplementary_gids(Remounted(forwarded))
                   ELSE Remounted(forwarded)
      filtered  == Filtered(grouped)
      tmp       == IF a.tmp_size # 0 THEN minijail_mount_tmp_size(filtered, a.tmp_size) ELSE filtered
  IN minijail_add_minimalistic_mountns_fs_rules(tmp, sys)

\* How the kernel looks a path up: slashes in a row are one.
Lookup(path) ==
  FoldLeft(LAMBDA q, t : IF t = "/" /\ q # <<>> /\ Last(q) = "/" THEN q ELSE Append(q, t), <<>>, path)

\* The file that is taken for the program of the jail x, and its linkage unless -T
\* was given.
ProgramFile(x) == Lookup(minijail_get_original_path(x, arg.program))
Linkage(x) ==
  CASE a.elf # None -> a.elf
    [] a.elf = None /\ ProgramFile(x) \in DOMAIN sys.programs -> get_elf_linkage(sys.programs[ProgramFile(x)])
    [] OTHER -> "missing"

\* The errors of the last checks.
RejectsAll(x) ==
  \/ a.ambient /\ ~a.caps
  \/ a.binding /\ ~(a.chroot \/ a.pivot_root \/ a.mount_ns)
  \/ a.change_remount /\ ~a.mount_ns
  \/ a.change_remount /\ a.remount_mode \notin {None, "shared", "private", "slave", "unbindable"}
  \/ Linkage(x) = "missing"
  \/ a.caps /\ Linkage(x) = "static" /\ ~a.ambient

FsConflict == a.fs_flag /\ ~a.fs_enabled

OptionsEnd == pc = "options" /\ conf = <<>>


\* "Add all flags except --config and --gen-config."
ToWrite == SelectSeq(opts, LAMBDA o : o \notin {"--config", "--gen-config"})

GenConfig ==
  /\ OptionsEnd /\ a.parse_mode
  /\ pc' = IF FsConflict \/ files # <<>> THEN "refused" ELSE "written"
  /\ files' = IF FsConflict \/ files # <<>> THEN files ELSE <<ToWrite>>
  /\ UNCHANGED <<sys, arg, left, conf, opts, a, j, asked>>

ParseEnds ==
  /\ OptionsEnd /\ ~a.parse_mode
  /\ j' = Completed
  /\ a' = [a EXCEPT !.elf = Linkage(j')]
  /\ pc' = IF FsConflict \/ RejectsAll(j') \/ j'.died THEN "refused" ELSE "parsed"
  /\ UNCHANGED <<sys, arg, left, conf, opts, files, asked>>

\* main(): minijail_run_no_preload(), with the environment of minijail0, or
\* minijail_run_env().
Main ==
  /\ pc = "parsed"
  /\ pc' = IF a.elf = "error" \/ (a.elf = "dynamic" /\ ~sys.library) THEN "refused" ELSE "running"
  /\ a' = IF a.elf = "static" THEN [a EXCEPT !.env = {"inherited"}] ELSE a
  /\ UNCHANGED <<sys, arg, left, conf, opts, j, files, asked>>

\* minijail0 --config with the file that was written.
UseConfig ==
  /\ pc = "written"
  /\ pc' = "options"
  /\ left' = 0 /\ conf' = files[1] /\ opts' = <<"--config">>
  /\ a' = Fresh /\ j' = minijail_new
  /\ UNCHANGED <<sys, arg, files, asked>>

Next ==
  \/ \E o \in AllOptions : ParseOption(o)
  \/ GenConfig \/ ParseEnds \/ Main \/ UseConfig

Spec == Init /\ [][Next]_vars
-----------------------------------------------------------------------------
(* Properties.  They speak of the options the user asked for, in any order.    *)

Given(o) == o \in ToSet(asked)
Times(O) == Len(SelectSeq(asked, LAMBDA o : o \in O))
LastOf(O) == IF Times(O) = 0 THEN None ELSE Last(SelectSeq(asked, LAMBDA o : o \in O))
After(p) == SubSeq(asked, SelectLastInSeq(asked, LAMBDA o : o = p) + 1, Len(asked))

\* The kernel has what a filter with these options needs.
KernelFilters == "filters" \in sys.kernel /\ (Given("-Y") => "tsync" \in sys.kernel)

\* -S, or else --seccomp-bpf-binary, or else the default runtime environment; none if
\* minijail0 was built to do without and the kernel cannot filter.
FilterAsked ==
  CASE sys.softfail /\ ~KernelFilters -> None
    [] Given("-S policy") -> "policy"
    [] Given("--seccomp-bpf-binary") -> "binary"
    [] Given("--no-default-runtime-environment") \/ ~sys.policy -> None
    [] OTHER -> "default"

BlockAsked ==
  CASE Given("-L") /\ sys.debug -> {"log", "trap"}
    [] Given("-Y") -> {"kill_process", "trap"}
    [] OTHER -> {"kill"}

\* The bytes that the last -t asks for, or the default.  A size of 0 is no size.
TmpAsked ==
  CASE Given("-t size") /\ arg.bytes # 0 -> arg.bytes
    [] Given("-t size") /\ arg.bytes = 0 ->
         IF {"-t", "--profile", "--profile nodev"} \cap ToSet(After("-t size")) # {} THEN DefaultSize ELSE 0
    [] OTHER -> IF Times({"-t", "--profile", "--profile nodev"}) > 0 THEN DefaultSize ELSE 0

\* The mounts of -b and -k, in their order.
MountAsked(o) ==
  IF o = "-b src"
  THEN <<IF arg.bind.dest = <<>> THEN arg.bind.src ELSE arg.bind.dest, arg.bind.flags = "1", <<>>>>
  ELSE <<arg.mount.dest, arg.mount.flags # "ro", arg.mount.data>>
MountsAsked ==
  LET given == SelectSeq(asked, LAMBDA o : o \in {"-b src", "-k mount"})
  IN [n \in DOMAIN given |-> MountAsked(given[n])]
MountsMade ==
  LET made == SelectSeq(j.mounts, LAMBDA m : m.dest \notin {<<"/">>, <<"/", "proc">>, <<"/", "dev", "/", "log">>})
  IN [n \in DOMAIN made |-> <<made[n].dest, "ro" \notin made[n].flags,
                              IF made[n].data = <<"mode=0755", "size=10M">> THEN <<>> ELSE made[n].data>>]

\* Where the program of the jail is, if at most one mount is over its path: what is
\* mounted there, or the new root.
Over(path) == {m \in ToSet(j.mounts) : m.dest \in {path, <<"/">>} \/ path_is_parent(m.dest, path)}
Beside(path) == {m \in ToSet(j.mounts) : IsPrefix(m.dest, path)} \ Over(path)
Unambiguous == Cardinality(Over(arg.program)) <= 1 /\ Beside(arg.program) = {}
Place ==
  LET rest(m) == SubSeq(arg.program, Len(m.dest) + 1, Len(arg.program))
  IN Lookup(IF Over(arg.program) = {} THEN j.chrootdir \o arg.program
            ELSE LET m == CHOOSE x \in Over(arg.program) : TRUE
                 IN IF rest(m) = <<>> THEN m.src ELSE m.src \o <<"/">> \o rest(m))

\* A number that an id of someone other than root can have.
IsId(t) == ~t.minus /\ t.n \in 1..(2 ^ IdWidth - 1)

Printable(id) == id < 2 ^ (IdWidth - 1)


\* The combinations the manual calls an error, arguments it does not allow, and what
\* the system cannot run.
Contradiction ==
  \/ \E O \in {{"-u uid", "-u name"}, {"-g gid", "-g name"}} : Times(O) > 1
  \/ Given("-u uid") /\ arg.uid.n = 0
  \/ Given("-g gid") /\ arg.gid.n = 0
  \/ Given("-u name") /\ sys.user.uid = 0
  \/ Given("-g name") /\ sys.group.gid = 0
  \/ ToSet(asked) \cap (arg.malformed \cup BadOptions) # {}
  \/ Given("-K mode") /\ arg.mode \notin {"shared", "private", "slave", "unbindable"}
  \/ Times(RlimitOptions) > MaxRlimits \/ \E o \in RlimitOptions : Times({o}) > 1
  \/ Given("-R limit") /\ Given("-R CPU") /\ arg.limit.type = "CPU"
  \/ \E o, p \in {"-s", "-S policy", "--seccomp-bpf-binary"} : o # p /\ Given(o) /\ Given(p)
  \/ Given("-L") /\ Given("--seccomp-bpf-binary")
  \/ Given("-L") /\ sys.debug /\ FilterAsked \notin {None, "policy"}
  \/ Given("-L") /\ Given("-Y") /\ (sys.android \/ "log" \notin sys.actions)
       /\ (sys.debug \/ LastOf({"-L", "-Y"}) = "-L")
  \/ Times(RootOptions) > 1
  \/ Cardinality({"-G", "-y", "--add-suppl-group"} \cap ToSet(asked)) > 1
  \/ Given("--ambient") /\ ~Given("-c caps")
  \/ Given("-b src") /\ Times(RootOptions \cup {"-v"}) = 0
  \/ Times({"-K", "-K mode"}) > 0 /\ ~Given("-v")
  \/ Times(DOMAIN PathOptions \cup {"--fs-default-paths"}) > 0 /\ Given("--no-fs-restrictions")
  \/ Given("-c caps") /\ a.elf = "static" /\ ~Given("--ambient")
  \/ FilterAsked = "policy" /\ ~sys.policy_compiles
  \/ a.elf = "error" \/ (a.elf = "dynamic" /\ ~sys.library)

\* Files that are read even if the kernel cannot filter.
UnreadableFilter ==
  \/ Given("--seccomp-bpf-binary") /\ (~sys.binary.opens \/ sys.binary.odd)
  \/ /\ Times({"-S policy", "--seccomp-bpf-binary", "--no-default-runtime-environment"}) = 0
     /\ sys.policy /\ (~sys.default.opens \/ sys.default.odd)


\* A jail that minijail0 runs is one the library and the kernel accept: no options that
\* contradict each other and make minijail_run() or minijail_enter() die half way
\* through, no mount without a mount namespace, no filter the kernel will refuse if
\* minijail0 was built to do without (the default build makes it, and minijail_enter()
\* aborts), and no Landlock rule with rights that its ruleset does not have, on a
\* directory or on a file.  Two jails it runs are not accepted: minijail_enter() refuses
\* -G without a user, and -s with the policy of the default runtime environment asks for
\* mode 1 behind a filter, which the kernel does not change, so that it dies at
\* libminijail.c:2961.  With -S or --seccomp-bpf-binary, -s was refused.
LibraryAccepts ==
  pc = "running" =>
    /\ Cardinality({"inherit_suppl_gids", "keep_suppl_gids", "set_suppl_gids"} \cap j.flags) <= 1
    /\ ~({"chroot", "pivot_root"} \subseteq j.flags)
    /\ ~({"use_caps", "capbset_drop"} \subseteq j.flags)
    /\ "userns" \in j.flags => {"pids", "vfs"} \subseteq j.flags
    /\ (j.uidmap # NoMap \/ j.gidmap # NoMap) => "userns" \in j.flags
    /\ ("seccomp_filter" \in j.flags) = (j.filter # NoFilter)
    /\ {"seccomp", "seccomp_filter"} \subseteq j.flags => j.filter.from = "default"
    /\ "seccomp_filter" \in j.flags /\ sys.softfail =>
         /\ "filters" \in sys.kernel
         /\ "seccomp_filter_tsync" \in j.flags => "tsync" \in sys.kernel
         /\ "seccomp_filter_allow_speculation" \in j.flags => "spec" \in sys.kernel
    /\ {"remount_proc_ro", "mount_dev", "mount_tmp", "pivot_root"} \cap j.flags # {} => "vfs" \in j.flags
    /\ j.mounts # <<>> => {"vfs", "enter_vfs"} \cap j.flags # {}
    /\ "use_caps" \in j.flags /\ a.elf = "static" => "set_ambient_caps" \in j.flags
    /\ j.handled # NoRuleset =>
         \A rule \in j.fs_rules, dir \in BOOLEAN :
            LET rights == populate_ruleset_internal(rule[2], dir)
            IN rights # {} /\ rights \subseteq j.handled
=============================================================================

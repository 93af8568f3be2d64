---------------------------- MODULE MCJailStages ----------------------------
(* Every jail of up to two options, with what those bring with them, in a jail  *)
(* of its own and in one with a root and a filter, for TLC.                     *)
EXTENDS JailStages

Implied(o) ==
  o \cup (IF {"mounts", "remount_proc_ro", "pids"} \cap o # {} THEN {"vfs", "remount_mode"} ELSE {})
    \cup (IF "pids" \in o THEN {"do_init"} ELSE {})
    \cup (IF "hostname" \in o THEN {"uts"} ELSE {})
    \cup (IF "fs_rules" \in o THEN {"enable_fs_restrictions"} ELSE {})
    \cup (IF "uidmap" \in o THEN {"userns"} ELSE {})

Free == Options \ {"do_init", "enable_fs_restrictions"}

Bases == {{}, {"mounts", "pivot_root", "seccomp_filter", "fs_rules"}}

SmallJails ==
  {o \in {Implied({a, b} \cup x) : a \in Free, b \in Free, x \in Bases} : Configured(o)}

\* Everything at once, with either kind of root.
LargeJails ==
  {(Options \ {"hook_caps", "hook_exec", "run_as_init", "enter_net", r}) \ x :
     r \in {"chroot", "pivot_root"}, x \in SUBSET {"no_new_privs", "enter_vfs", "pids", "userns"}}

AllJails == SmallJails \cup {o \in LargeJails : Configured(o)}

\* Entries before and after the ones the library uses, lists of libraries of
\* none to two words, a stale descriptor, and a name given twice.
Entry(n, v) == [name |-> n, value |-> v]

AllEnvs ==
  LET home == Entry("HOME", <<"h">>)
      lang == Entry("LANG", <<"l">>)
      ld(v) == Entry(kLdPreloadEnvVar, v)
  IN {<<>>, <<home, lang>>, <<home, Entry("HOME", <<"h2">>), lang>>,
      <<Entry(kFdEnvVar, <<"stale">>), home, lang>>}
     \cup {<<ld(v), home, lang, Entry(kSeccompPolicyPathEnvVar, <<"outer">>)>> :
            v \in {<<>>, <<"lib">>, <<"lib", "lib2">>}}
=============================================================================

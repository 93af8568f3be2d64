----------------------------- MODULE MCMarshal -----------------------------
(* Small jails for TLC. *)
EXTENDS Marshal

Jail(P, n, fd, f) ==
  LET counts == [c \in Counted |-> IF c \in Lists THEN n[c] ELSE IF c \in P THEN 1 ELSE 0]
  IN  [at |-> [p \in Pointers |-> IF p \in P THEN 1 ELSE 0], len |-> n, count |-> counts,
       data |-> 1 .. n["mounts"] - 1, nopath |-> FALSE, fs_rules_fd |-> fd, filtering |-> f]

Some == {{}, {"user", "suppl_gid_list"}, {"chrootdir", "hostname", "alt_syscall_table"}, Range(Sent)}

\* Many jails that are copied as they are.
ReadyJails ==
  {Jail(s \cup f \cup u \cup p, n, IF n["fs_rules"] = 0 THEN -1 ELSE d, g) :
     s \in Some, f \in {{}, Program}, u \in {{}, Unsent}, p \in {{}, {"seccomp_policy_path"}},
     n \in [Lists -> {0, 2}], d \in {-1, 0, 3}, g \in BOOLEAN}

\* A new jail, and jails with some of their fields and with all of them, for which
\* there are more calls.
CalledJails ==
  {Jail({}, [l \in Lists |-> 0], -1, FALSE)}
  \cup {Jail(P, [l \in Lists |-> 1], 3, TRUE) :
          P \in {{"user", "suppl_gid_list"} \cup Program, {"chrootdir", "hostname"}, Pointers}}
AllJails == ReadyJails \cup CalledJails
CallsFor == [j \in AllJails |-> IF j \in CalledJails THEN 3 ELSE 0]
=============================================================================

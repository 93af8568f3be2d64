--------------------------- MODULE MCMinijailRun ---------------------------
(* Small jails for TLC. *)
EXTENDS MinijailRunLifecycle

\* A jail with nothing but an execve(2) in it.
Plain ==
  [preload |-> FALSE, exec |-> TRUE, pids |-> FALSE, init |-> FALSE,
   forward |-> FALSE, pidfile |-> FALSE, cgroups |-> 0, rlimits |-> 0,
   userns |-> FALSE, uidmap |-> FALSE, gidmap |-> FALSE, deny |-> FALSE,
   nosetgroups |-> FALSE, hooks |-> FALSE, nonambient |-> FALSE,
   size |-> 2, catch |-> FALSE]

PidNs(c)  == [c EXCEPT !.pids = TRUE, !.init = TRUE]
AsInit(c) == [c EXCEPT !.pids = TRUE]
Setup(c)  == [c EXCEPT !.forward = TRUE, !.cgroups = 2, !.rlimits = 1]
UserNs(c) == [c EXCEPT !.userns = TRUE, !.uidmap = TRUE, !.gidmap = TRUE, !.deny = TRUE]
Preload(c, n) == [c EXCEPT !.preload = TRUE, !.size = n]
Fork(c)   == [c EXCEPT !.exec = FALSE, !.hooks = TRUE]

StaticJails ==
  {Setup(Plain), [Setup(Plain) EXCEPT !.catch = TRUE],
   Fork(Setup(PidNs(Plain))), [UserNs(PidNs(Plain)) EXCEPT !.pidfile = TRUE],
   [UserNs(AsInit(Plain)) EXCEPT !.nosetgroups = TRUE],
   UserNs(Plain), [Plain EXCEPT !.nonambient = TRUE]}

PreloadJails ==
  {Preload(Setup(Plain), 2), Preload(Plain, 3), Preload(UserNs(PidNs(Plain)), 4),
   Preload(Setup(PidNs(Plain)), 2), Preload(AsInit(Plain), 5), Fork(Preload(Plain, 2))}

AllJails == StaticJails \cup PreloadJails
=============================================================================

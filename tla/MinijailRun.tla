---------------------------- MODULE MinijailRun ----------------------------
(***************************************************************************)
(* The life of one jailed command: minijail_run_internal() of              *)
(* libminijail.c on both sides of its clone(2), the init process it may    *)
(* leave in a new pid namespace, the LD_PRELOAD half of                    *)
(* libminijailpreload.c, and the calls minijail_wait() and minijail_kill() *)
(* that end it.                                                            *)
(*                                                                         *)
(* There are four processes.  "caller" is the process that called the      *)
(* library; its control point is ppc.  "child" is the process clone(2)     *)
(* returned (j->initpid), "prog" the one the in-jail init forks when it is *)
(* used, and "desc" a descendant the confined program forks.  They share   *)
(* two pipes: the synchronisation pipe, on which nothing is ever written   *)
(* and which the child reads until every write end is closed, and the      *)
(* configuration pipe, over which the caller sends [size][minijail] to the *)
(* preloaded library.                                                      *)
(***************************************************************************)
EXTENDS Integers, FiniteSets

CONSTANTS
  Configs,         \* the jails a behaviour may run; chosen once, in Init
  CallerMayCrash,  \* TRUE: the caller can be killed at any point
  PipeCap,         \* units a pipe buffers before write(2) blocks
  MaxBody,         \* USHRT_MAX of minijail_from_fd(), in the same units
  ExitCodes,       \* exit codes of the confined programs
  Signals          \* signals that can kill a confined program

\* What of struct minijail decides the control flow of a run.  "init" is
\* do_init && !run_as_init (namespace_pids sets pids and do_init together),
\* "catch" says that the program handles SIGTERM and carries on, and
\* "nosetgroups" that the kernel has no /proc/<pid>/setgroups.
Config ==
  [preload : BOOLEAN, exec : BOOLEAN, pids : BOOLEAN, init : BOOLEAN,
   forward : BOOLEAN, pidfile : BOOLEAN, cgroups : Nat, rlimits : Nat,
   userns : BOOLEAN, uidmap : BOOLEAN, gidmap : BOOLEAN, deny : BOOLEAN,
   nosetgroups : BOOLEAN, hooks : BOOLEAN, nonambient : BOOLEAN,
   size : Nat \ {0}, catch : BOOLEAN]

ASSUME ConfigAssumption ==
  Configs \subseteq Config /\ \A c \in Configs : c.init => c.pids

ASSUME SizeAssumption == PipeCap \in Nat \ {0} /\ MaxBody \in Nat

ASSUME StatusAssumption ==
  ExitCodes \subseteq 0..255 /\ Signals \subseteq 1..64

ASSUME CrashAssumption == CallerMayCrash \in BOOLEAN

VARIABLES
  cfg,       \* the jail being run
  ppc,       \* where the caller is
  done,      \* parent-side setup applied so far, per kind
  failed,    \* the result of minijail_to_fd() is an error
  sigpipe,   \* SIGPIPE at the caller
  reply,     \* what the last minijail_wait() or minijail_kill() returned
  pc,        \* where each jailed process is
  status,    \* wait(2) status of each process that has died
  applied,   \* the stages of minijail_enter() each process has gone through
  syncW,     \* holders of the write end of the synchronisation pipe
  confW,     \* holders of the write end of the configuration pipe
  confR,     \* holders of its read end
  buf,       \* units buffered in it
  sent,      \* units of the body the caller has written
  handler,   \* init has installed init_term()
  exitstatus,\* init_exitstatus
  lastPid, lastStatus,  \* what init's last wait(2) returned
  term       \* a SIGTERM the kernel accepted for the child

callerVars == <<ppc, done, failed, sigpipe, reply>>
procVars   == <<pc, status, applied>>
syncVars   == <<syncW>>
confVars   == <<confW, confR, buf, sent>>
initVars   == <<handler, exitstatus, lastPid, lastStatus>>
vars == <<cfg, callerVars, procVars, syncVars, confVars, initVars, term>>

Procs   == {"child", "prog", "desc"}
Holders == Procs \cup {"caller"}
Gone    == {"none", "zombie", "reaped"}
Stages  == {"early", "late"}

Alive(p) == pc[p] \notin Gone

(***************************************************************************)
(* wait(2) statuses, as the W... macros read them, and the codes of        *)
(* libminijail.h.                                                          *)
(***************************************************************************)
SIGABRT == 6
SIGKILL == 9
SIGTERM == 15
SIGSYS  == 31

MINIJAIL_ERR_NO_ACCESS  == 126
MINIJAIL_ERR_NO_COMMAND == 127
MINIJAIL_ERR_SIG_BASE   == 128
MINIJAIL_ERR_MOUNT      == 251
MINIJAIL_ERR_PRELOAD    == 252
MINIJAIL_ERR_JAIL       == 253
MINIJAIL_ERR_INIT       == 254

Exited(n)       == (n % 256) * 256
WIFEXITED(st)   == st % 128 = 0
WEXITSTATUS(st) == (st \div 256) % 256
WTERMSIG(st)    == st % 128

\* The value minijail_wait_internal() makes of the status of j->initpid.
WaitResult(st) ==
  IF WIFEXITED(st) THEN WEXITSTATUS(st)
  ELSE IF WTERMSIG(st) = SIGSYS THEN MINIJAIL_ERR_JAIL
  ELSE MINIJAIL_ERR_SIG_BASE + WTERMSIG(st)

ECHILD == 10
ESRCH  == 3

(***************************************************************************)
(* The parent-side setup of a jail: how often each kind is applied.        *)
(***************************************************************************)
Tasks == {"forward", "pid_file", "cgroups", "rlimits", "uid_map",
          "setgroups", "gid_map"}

One(b) == IF b THEN 1 ELSE 0

Need(c, t) ==
  [forward   |-> One(c.forward),
   pid_file  |-> One(c.pidfile),
   cgroups   |-> c.cgroups,
   rlimits   |-> c.rlimits,
   uid_map   |-> One(c.userns /\ c.uidmap),
   setgroups |-> One(c.userns /\ c.gidmap /\ c.deny /\ ~c.nosetgroups),
   gid_map   |-> One(c.userns /\ c.gidmap)][t]

\* sync_child of minijail_run_internal(): the child has to wait.
SyncChild(c) == c.forward \/ c.pidfile \/ c.cgroups > 0 \/ c.rlimits > 0 \/ c.userns

ParentSetupDone == \A t \in Tasks : done[t] = Need(cfg, t)

\* The combinations minijail_run_internal() dies on before or at its clone(2).
Refused(c) ==
  \/ c.preload /\ (c.hooks \/ ~c.exec)
  \/ ~c.preload /\ c.nonambient
  \/ c.userns /\ ~c.pids

Init ==
  /\ cfg \in Configs
  /\ ppc = "start"
  /\ done = [t \in Tasks |-> 0]
  /\ failed = FALSE
  /\ sigpipe = "default"
  /\ reply = -1
  /\ pc = [p \in Procs |-> "none"]
  /\ status = [p \in Procs |-> 0]
  /\ applied = [p \in Procs |-> {}]
  /\ syncW = {} /\ confW = {} /\ confR = {}
  /\ buf = 0 /\ sent = 0
  /\ handler = FALSE
  /\ exitstatus = 0
  /\ lastPid = "prog" /\ lastStatus = 0
  /\ term = FALSE

(***************************************************************************)
(* Death.  The kernel closes the descriptors of a dead process; when pid 1 *)
(* of a pid namespace dies, it kills everything in the namespace.          *)
(***************************************************************************)
Jailed(p)  == p # "child" /\ pc[p] # "none"
Victims(p) == {p} \cup (IF p = "child" /\ cfg.pids THEN {q \in Procs : Jailed(q)} ELSE {})

\* A child of the in-jail init waits for init to reap it.
AfterDeath(p) == IF p = "child" \/ (cfg.init /\ cfg.exec) THEN "zombie" ELSE "reaped"

CloseFds(ps) ==
  /\ syncW' = syncW \ ps
  /\ confW' = confW \ ps
  /\ confR' = confR \ ps

Die(p, st) ==
  /\ pc' = [q \in Procs |-> IF q = p THEN AfterDeath(p)
                            ELSE IF q \in Victims(p) THEN "reaped" ELSE pc[q]]
  /\ status' = [q \in Procs |-> IF q = p THEN st
                                ELSE IF q \in Victims(p) /\ Alive(q) THEN SIGKILL
                                ELSE status[q]]
  /\ CloseFds(Victims(p))
  /\ UNCHANGED <<applied, buf, sent>>

\* kill(j->initpid, SIGKILL)
KillChild ==
  IF Alive("child") THEN Die("child", SIGKILL)
  ELSE UNCHANGED <<procVars, syncVars, confVars>>

\* kill(j->initpid, SIGTERM).  The kernel drops a signal for pid 1 of a
\* namespace that has no handler for it.
SendTerm == term' = (term \/ (Alive("child") /\ (handler \/ ~cfg.pids)))

(***************************************************************************)
(* The caller: minijail_run_internal() up to the clone(2).                 *)
(***************************************************************************)
\* The environment or a pipe could not be created: an error is returned and
\* j->initpid stays unset.
RunFails ==
  /\ ppc = "start"
  /\ ppc' = "idle"
  /\ UNCHANGED <<cfg, done, failed, sigpipe, reply, procVars, syncVars, confVars, initVars, term>>

\* A combination the function refuses, or a clone(2) that fails.
RunDies ==
  /\ ppc = "start"
  /\ ppc' = "dead"
  /\ UNCHANGED <<cfg, done, failed, sigpipe, reply, procVars, syncVars, confVars, initVars, term>>

CloneChild ==
  /\ ppc = "start"
  /\ ~Refused(cfg)
  /\ ppc' = "forward"
  /\ pc' = [pc EXCEPT !["child"] = "fds"]
  /\ syncW' = IF SyncChild(cfg) THEN {"caller", "child"} ELSE {}
  /\ confW' = IF cfg.preload THEN {"caller", "child"} ELSE {}
  /\ confR' = IF cfg.preload THEN {"caller", "child"} ELSE {}
  /\ UNCHANGED <<cfg, done, failed, sigpipe, reply, status, applied, buf, sent, initVars, term>>

(***************************************************************************)
(* The caller: parent-side setup of the child, one task after the other.   *)
(* A task that fails goes to kill_child_and_die().                         *)
(***************************************************************************)
\* Mutant: the result of the write is ignored.
ParentTaskIgnoringErrors(t, mayFail, next) ==
  /\ ppc = t
  /\ \/ done[t] < Need(cfg, t) /\ done' = [done EXCEPT ![t] = @ + 1] /\ UNCHANGED ppc
     \/ (mayFail \/ done[t] = Need(cfg, t)) /\ ppc' = next /\ UNCHANGED done
  /\ UNCHANGED <<cfg, failed, sigpipe, reply, procVars, syncVars, confVars, initVars, term>>

ParentTask(t, mayFail, next) ==
  /\ ppc = t
  /\ \/ /\ done[t] < Need(cfg, t)
        /\ \/ done' = [done EXCEPT ![t] = @ + 1] /\ UNCHANGED ppc
           \/ mayFail /\ ppc' = "kill" /\ UNCHANGED done
     \/ done[t] = Need(cfg, t) /\ ppc' = next /\ UNCHANGED done
  /\ UNCHANGED <<cfg, failed, sigpipe, reply, procVars, syncVars, confVars, initVars, term>>

InstallSignalHandlers == ParentTask("forward", FALSE, "pid_file")
WritePidFileOrDie     == ParentTask("pid_file", TRUE, "cgroups")
AddToCgroupsOrDie     == ParentTask("cgroups", TRUE, "rlimits")
SetRlimitsOrDie       == ParentTask("rlimits", TRUE, "uid_map")
WriteUidMapOrDie      == ParentTask("uid_map", TRUE, "setgroups")
DenySetgroupsOrDie    == ParentTask("setgroups", TRUE, "gid_map")
WriteGidMapOrDie      == ParentTask("gid_map", TRUE, "complete")

\* Mutant: die() alone.
DieWithoutKill ==
  /\ ppc = "kill"
  /\ ppc' = "abort"
  /\ UNCHANGED <<cfg, done, failed, sigpipe, reply, procVars, syncVars, confVars, initVars, term>>

\* kill_child_and_die(): the SIGKILL, then the abort() of die().
KillChildAndDie ==
  /\ ppc = "kill"
  /\ ppc' = "abort"
  /\ KillChild
  /\ UNCHANGED <<cfg, done, failed, sigpipe, reply, initVars, term>>

Abort ==
  /\ ppc = "abort"
  /\ ppc' = "dead"
  /\ CloseFds({"caller"})
  /\ UNCHANGED <<cfg, done, failed, sigpipe, reply, procVars, buf, sent, initVars, term>>

\* parent_setup_complete(), and the fork in the road after it.
ParentSetupComplete ==
  /\ ppc = "complete"
  /\ syncW' = syncW \ {"caller"}
  /\ ppc' = IF cfg.preload THEN "block" ELSE "idle"
  /\ UNCHANGED <<cfg, done, failed, sigpipe, reply, procVars, confVars, initVars, term>>

(***************************************************************************)
(* The caller: sending the marshalled jail with SIGPIPE blocked.           *)
(***************************************************************************)
\* Mutant: the caller keeps its read end while it writes.
BlockSigpipeOnly ==
  /\ ppc = "block"
  /\ sigpipe' = "blocked"
  /\ ppc' = "header"
  /\ UNCHANGED <<cfg, done, failed, reply, procVars, syncVars, confVars, initVars, term>>

BlockSigpipe ==
  /\ ppc = "block"
  /\ sigpipe' = "blocked"
  /\ confR' = confR \ {"caller"}
  /\ ppc' = "header"
  /\ UNCHANGED <<cfg, done, failed, reply, procVars, syncVars, confW, buf, sent, initVars, term>>

\* write(2) with no reader left: EPIPE, and a SIGPIPE for the caller.
BrokenPipe ==
  /\ confR = {}
  /\ failed' = TRUE
  /\ sigpipe' = IF sigpipe = "blocked" THEN "pending" ELSE "fatal"
  /\ ppc' = "closew"
  /\ UNCHANGED <<buf, sent>>

\* minijail_to_fd(): marshalling may fail, then the size is written.
WriteHeader ==
  /\ ppc = "header"
  /\ \/ BrokenPipe
     \/ confR # {} /\ buf' = buf + 1 /\ ppc' = "body" /\ UNCHANGED <<failed, sigpipe, sent>>
     \/ failed' = TRUE /\ ppc' = "closew" /\ UNCHANGED <<sigpipe, buf, sent>>
  /\ UNCHANGED <<cfg, done, reply, procVars, syncVars, confW, confR, initVars, term>>

Minimum(a, b) == IF a <= b THEN a ELSE b

\* One write(2) of write_exactly(): what fits, or nothing while the pipe is full.
WriteBody ==
  /\ ppc = "body"
  /\ \/ BrokenPipe
     \/ LET n == Minimum(PipeCap - buf, cfg.size - sent) IN
        /\ confR # {} /\ n > 0
        /\ buf' = buf + n
        /\ sent' = sent + n
        /\ ppc' = IF sent' = cfg.size THEN "closew" ELSE "body"
        /\ UNCHANGED <<failed, sigpipe>>
  /\ UNCHANGED <<cfg, done, reply, procVars, syncVars, confW, confR, initVars, term>>

CloseConfigPipe ==
  /\ ppc = "closew"
  /\ confW' = confW \ {"caller"}
  /\ ppc' = "drain"
  /\ UNCHANGED <<cfg, done, failed, sigpipe, reply, procVars, syncVars, confR, buf, sent, initVars, term>>

\* Mutant: the pending signal is left where it is.
SkipDrain ==
  /\ ppc = "drain"
  /\ ppc' = "restore"
  /\ UNCHANGED <<cfg, done, failed, sigpipe, reply, procVars, syncVars, confVars, initVars, term>>

\* The sigtimedwait(2) loop accepts a pending SIGPIPE.
DrainSigpipe ==
  /\ ppc = "drain"
  /\ sigpipe' = "blocked"
  /\ ppc' = "restore"
  /\ UNCHANGED <<cfg, done, failed, reply, procVars, syncVars, confVars, initVars, term>>

\* Mutant: the error of minijail_to_fd() is only logged.
RestoreMaskOnly ==
  /\ ppc = "restore"
  /\ sigpipe' = IF sigpipe = "pending" THEN "fatal" ELSE "default"
  /\ ppc' = "idle"
  /\ UNCHANGED <<cfg, done, failed, reply, procVars, syncVars, confVars, initVars, term>>

\* The mask is restored, which would deliver what is still pending, and a
\* child that did not get its jail is killed.
RestoreMask ==
  /\ ppc = "restore"
  /\ sigpipe' = IF sigpipe = "pending" THEN "fatal" ELSE "default"
  /\ ppc' = "idle"
  /\ IF failed THEN KillChild ELSE UNCHANGED <<procVars, syncVars, confVars>>
  /\ UNCHANGED <<cfg, done, failed, reply, initVars, term>>

(***************************************************************************)
(* The caller: minijail_wait(), minijail_kill(), the forwarding of         *)
(* signals, and its own death.                                             *)
(***************************************************************************)
MinijailWait ==
  /\ ppc = "idle"
  /\ IF pc["child"] = "none" THEN reply' = -ECHILD /\ UNCHANGED ppc
     ELSE ppc' = "waiting" /\ UNCHANGED reply
  /\ UNCHANGED <<cfg, done, failed, sigpipe, procVars, syncVars, confVars, initVars, term>>

MinijailKill ==
  /\ ppc = "idle"
  /\ \/ pc["child"] = "none" /\ reply' = -ECHILD /\ UNCHANGED <<ppc, term>>
     \/ pc["child"] = "reaped" /\ reply' = -ESRCH /\ UNCHANGED <<ppc, term>>
     \/ /\ pc["child"] \notin {"none", "reaped"}
        /\ ppc' = "killing" /\ SendTerm /\ UNCHANGED reply
  /\ UNCHANGED <<cfg, done, failed, sigpipe, procVars, syncVars, confVars, initVars>>

\* waitpid(2) returns in minijail_wait_internal().
WaitReturns ==
  /\ ppc \in {"waiting", "killing"}
  /\ \/ /\ pc["child"] = "zombie"
        /\ reply' = WaitResult(status["child"])
        /\ pc' = [pc EXCEPT !["child"] = "reaped"]
     \/ /\ pc["child"] = "reaped"
        /\ reply' = -ECHILD
        /\ UNCHANGED pc
  /\ ppc' = "idle"
  /\ UNCHANGED <<cfg, done, failed, sigpipe, status, applied, syncVars, confVars, initVars, term>>

\* forward_signal(): a SIGTERM for the caller goes to the child.
ForwardSignal ==
  /\ done["forward"] = 1
  /\ ppc \notin {"dead", "crashed"}
  /\ SendTerm
  /\ UNCHANGED <<cfg, callerVars, procVars, syncVars, confVars, initVars>>

\* The caller is killed, or exits while the jail runs on.
CallerCrash ==
  /\ CallerMayCrash
  /\ ppc \notin {"start", "dead", "crashed"}
  /\ ppc' = "crashed"
  /\ CloseFds({"caller"})
  /\ UNCHANGED <<cfg, done, failed, sigpipe, reply, procVars, buf, sent, initVars, term>>

(***************************************************************************)
(* The child of the clone(2), up to the execve(2).                         *)
(***************************************************************************)
Step(p, from, to) == pc[p] = from /\ pc' = [pc EXCEPT ![p] = to]

callerSide == <<cfg, callerVars, initVars, term>>

\* Signal dispositions, close_open_fds() and redirect_fds().
ChildFds ==
  /\ Step("child", "fds", IF SyncChild(cfg) THEN "sync" ELSE "userns")
  /\ UNCHANGED <<callerSide, status, applied, syncVars, confVars>>

\* Mutant: the child keeps its own write end.
KeepSyncPipe ==
  /\ Step("child", "sync", "syncread")
  /\ UNCHANGED <<callerSide, status, applied, syncVars, confVars>>

\* wait_for_parent_setup(): it gives up its own write end ...
CloseSyncPipe ==
  /\ Step("child", "sync", "syncread")
  /\ syncW' = syncW \ {"child"}
  /\ UNCHANGED <<callerSide, status, applied, confVars>>

\* Mutant: the result of the read is not waited for.
SkipParentSetup ==
  /\ Step("child", "syncread", "userns")
  /\ UNCHANGED <<callerSide, status, applied, syncVars, confVars>>

\* ... and reads until the last writer is gone.
WaitForParentSetup ==
  /\ Step("child", "syncread", "userns")
  /\ syncW = {}
  /\ UNCHANGED <<callerSide, status, applied, syncVars, confVars>>

\* setresgid(2) and setresuid(2) fail in a namespace without the mapping.
MapsWritten ==
  cfg.userns => /\ cfg.gidmap => done["gid_map"] = 1
                /\ cfg.uidmap => done["uid_map"] = 1

EnterUserNamespace ==
  /\ pc["child"] = "userns"
  /\ IF MapsWritten
     THEN Step("child", "userns", "std") /\ UNCHANGED <<status, applied, syncVars, confVars>>
     ELSE Die("child", SIGABRT)
  /\ UNCHANGED callerSide

SetupChildStdFds ==
  /\ Step("child", "std", "enter")
  /\ UNCHANGED <<callerSide, status, applied, syncVars, confVars>>

\* minijail_enter() before the execve(2): what minijail_preexec() leaves of
\* the jail, or all of it when nothing is preloaded.
EnterBeforeExec ==
  /\ Step("child", "enter", IF cfg.exec /\ cfg.pids /\ cfg.init THEN "fork" ELSE "hooks")
  /\ applied' = [applied EXCEPT !["child"] = IF cfg.preload THEN {"early"} ELSE Stages]
  /\ UNCHANGED <<callerSide, status, syncVars, confVars>>

\* The child becomes init and its own child goes on to the program.
ForkInit ==
  /\ pc["child"] = "fork"
  /\ pc' = [pc EXCEPT !["child"] = "free", !["prog"] = "hooks"]
  /\ applied' = [applied EXCEPT !["prog"] = applied["child"]]
  /\ confW' = IF "child" \in confW THEN confW \cup {"prog"} ELSE confW
  /\ confR' = IF "child" \in confR THEN confR \cup {"prog"} ELSE confR
  /\ UNCHANGED <<callerSide, status, syncVars, buf, sent>>

\* run_hooks_or_die(PRE_EXECVE); minijail_fork() returns here.
RunHooks(p) ==
  /\ Step(p, "hooks", IF cfg.exec THEN "exec" ELSE "main")
  /\ UNCHANGED <<callerSide, status, applied, syncVars, confVars>>

\* minijail_free_run_state() keeps the read end for the preloaded library.
Exec(p) ==
  /\ Step(p, "exec", IF cfg.preload THEN "readsize" ELSE "main")
  /\ confW' = confW \ {p}
  /\ UNCHANGED <<callerSide, status, applied, syncVars, confR, buf, sent>>

(***************************************************************************)
(* init() in the child.                                                    *)
(***************************************************************************)
InitFreeRunState ==
  /\ Step("child", "free", "signal")
  /\ confW' = confW \ {"child"}
  /\ confR' = confR \ {"child"}
  /\ UNCHANGED <<callerSide, status, applied, syncVars, buf, sent>>

InitInstallHandler ==
  /\ Step("child", "signal", "wait")
  /\ handler' = TRUE
  /\ UNCHANGED <<cfg, callerVars, term, exitstatus, lastPid, lastStatus, status, applied, syncVars, confVars>>

\* The processes init's wait(2) can return: orphans have been handed to it.
Reapable == {q \in {"prog", "desc"} : pc[q] = "zombie" /\ (q = "desc" => ~Alive("prog"))}

\* Mutant: waitpid(2) for the program only.
InitWaitRoot(q) ==
  /\ pc["child"] = "wait"
  /\ q \in Reapable /\ q = "prog"
  /\ lastPid' = q
  /\ lastStatus' = status[q]
  /\ pc' = [pc EXCEPT !["child"] = "store", ![q] = "reaped"]
  /\ UNCHANGED <<cfg, callerVars, term, handler, exitstatus, status, applied, syncVars, confVars>>

InitWait(q) ==
  /\ pc["child"] = "wait"
  /\ q \in Reapable
  /\ lastPid' = q
  /\ lastStatus' = status[q]
  /\ pc' = [pc EXCEPT !["child"] = "store", ![q] = "reaped"]
  /\ UNCHANGED <<cfg, callerVars, term, handler, exitstatus, status, applied, syncVars, confVars>>

\* Mutant: the status of whichever process was reaped last is kept.
InitStoreAny ==
  /\ Step("child", "store", "wait")
  /\ exitstatus' = lastStatus
  /\ UNCHANGED <<cfg, callerVars, term, handler, lastPid, lastStatus, status, applied, syncVars, confVars>>

InitStore ==
  /\ Step("child", "store", "wait")
  /\ exitstatus' = IF lastPid = "prog" THEN lastStatus ELSE exitstatus
  /\ UNCHANGED <<cfg, callerVars, term, handler, lastPid, lastStatus, status, applied, syncVars, confVars>>

\* Mutant: the loop ends with the program.
ProgramReaped == pc["prog"] = "reaped"

\* wait(2) says ECHILD: nothing is left in the namespace.
NoChildren == \A q \in {"prog", "desc"} : pc[q] \in {"none", "reaped"}

InitExit ==
  /\ pc["child"] = "wait"
  /\ NoChildren
  /\ Die("child", Exited(IF WIFEXITED(exitstatus) THEN WEXITSTATUS(exitstatus)
                         ELSE MINIJAIL_ERR_INIT))
  /\ UNCHANGED callerSide

\* SIGTERM reaches the child: init_term(), the default action, or the
\* program's own handler.
DeliverTerm ==
  /\ term /\ Alive("child")
  /\ IF ~handler /\ pc["child"] = "main" /\ cfg.catch
     THEN term' = FALSE /\ UNCHANGED <<procVars, syncVars, confVars>>
     ELSE /\ Die("child", IF handler THEN Exited(exitstatus) ELSE SIGTERM)
          /\ UNCHANGED term
  /\ UNCHANGED <<cfg, callerVars, initVars>>

(***************************************************************************)
(* fake_main() of libminijailpreload.c in the executed program: one read   *)
(* for the size, one for the body, minijail_enter() with what              *)
(* minijail_preenter() leaves, then the program's own main().              *)
(***************************************************************************)
ReadSize(p) ==
  /\ pc[p] = "readsize"
  /\ \/ /\ buf > 0
        /\ IF cfg.size <= MaxBody
           THEN /\ Step(p, "readsize", "readbody")
                /\ buf' = buf - 1
                /\ UNCHANGED <<status, applied, syncVars, confW, confR, sent>>
           ELSE Die(p, SIGABRT)
     \/ buf = 0 /\ confW = {} /\ Die(p, SIGABRT)
  /\ UNCHANGED callerSide

\* Mutant: the length of the read is not compared with the size.
ReadBodyUnchecked(p) ==
  /\ Step(p, "readbody", "enter2")
  /\ buf > 0
  /\ buf' = buf - cfg.size
  /\ confR' = confR \ {p}
  /\ UNCHANGED <<callerSide, status, applied, syncVars, confW, sent>>

\* A single read(2) returns what is buffered; a short one is fatal.
ReadBody(p) ==
  /\ pc[p] = "readbody"
  /\ \/ /\ buf > 0
        /\ IF buf >= cfg.size
           THEN /\ Step(p, "readbody", "enter2")
                /\ buf' = buf - cfg.size
                /\ confR' = confR \ {p}
                /\ UNCHANGED <<status, applied, syncVars, confW, sent>>
           ELSE Die(p, SIGABRT)
     \/ buf = 0 /\ confW = {} /\ Die(p, SIGABRT)
  /\ UNCHANGED callerSide

EnterAfterExec(p) ==
  /\ Step(p, "enter2", "main")
  /\ applied' = [applied EXCEPT ![p] = @ \cup {"late"}]
  /\ UNCHANGED <<callerSide, status, syncVars, confVars>>

\* How a setup step can end its process: die() aborts, a mount that fails
\* and an execve(2) that fails have codes of their own, and the preloaded
\* library returns one when it cannot start.
On(b, S) == IF b THEN S ELSE {}

FailureStatus(l) ==
       On(l \in {"fds", "syncread", "userns", "std", "enter", "readsize", "readbody", "enter2"}
            \/ (l = "hooks" /\ cfg.hooks), {SIGABRT})
  \cup On(l = "enter2" \/ (l = "enter" /\ ~cfg.preload), {Exited(MINIJAIL_ERR_MOUNT)})
  \cup On(l = "fork", {Exited(255)})
  \cup On(l = "exec", {Exited(MINIJAIL_ERR_NO_ACCESS), Exited(MINIJAIL_ERR_NO_COMMAND)})
  \cup On(l = "readsize", {Exited(MINIJAIL_ERR_PRELOAD)})

SetupFails(p) ==
  /\ \E st \in FailureStatus(pc[p]) : Die(p, st)
  /\ UNCHANGED callerSide

(***************************************************************************)
(* The confined program: it may fork, exit, or be killed.                  *)
(***************************************************************************)
ProgramForks(p) ==
  /\ p # "desc" /\ pc[p] = "main" /\ pc["desc"] = "none"
  /\ pc' = [pc EXCEPT !["desc"] = "main"]
  /\ applied' = [applied EXCEPT !["desc"] = applied[p]]
  /\ UNCHANGED <<callerSide, status, syncVars, confVars>>

ProgramEnds(p) ==
  /\ pc[p] = "main"
  /\ \E st \in {Exited(n) : n \in ExitCodes} \cup Signals : Die(p, st)
  /\ UNCHANGED callerSide

(***************************************************************************)
(* Everything has stopped for good.                                        *)
(***************************************************************************)
Over ==
  /\ ppc \in {"dead", "crashed"}
  /\ \A p \in Procs : ~Alive(p)
  /\ UNCHANGED vars

Run == RunFails \/ RunDies \/ CloneChild
ParentSetup ==
  \/ InstallSignalHandlers \/ WritePidFileOrDie \/ AddToCgroupsOrDie
  \/ SetRlimitsOrDie \/ WriteUidMapOrDie \/ DenySetgroupsOrDie
  \/ WriteGidMapOrDie \/ KillChildAndDie \/ Abort \/ ParentSetupComplete
SendJail ==
  BlockSigpipe \/ WriteHeader \/ WriteBody \/ CloseConfigPipe \/ DrainSigpipe \/ RestoreMask
Call == MinijailWait \/ MinijailKill
ChildSetup ==
  \/ ChildFds \/ CloseSyncPipe \/ WaitForParentSetup \/ EnterUserNamespace
  \/ SetupChildStdFds \/ EnterBeforeExec \/ ForkInit
ProgramSetup(p) ==
  RunHooks(p) \/ Exec(p) \/ ReadSize(p) \/ ReadBody(p) \/ EnterAfterExec(p)
InitLoop ==
  \/ InitFreeRunState \/ InitInstallHandler \/ InitStore \/ InitExit
  \/ \E q \in {"prog", "desc"} : InitWait(q)
Program(p) == ProgramForks(p) \/ ProgramEnds(p)

Next ==
  \/ Run \/ ParentSetup \/ SendJail \/ Call \/ WaitReturns
  \/ ForwardSignal \/ CallerCrash
  \/ ChildSetup \/ InitLoop \/ DeliverTerm
  \/ \E p \in {"child", "prog"} : ProgramSetup(p)
  \/ \E p \in Procs : SetupFails(p) \/ Program(p)
  \/ Over

Spec == Init /\ [][Next]_vars

\* The scheduler runs every process that can take a step of minijail's own
\* code, and delivers the signals it accepted.  Nothing makes the confined
\* program end or the caller call again.
Fairness ==
  /\ WF_vars(ParentSetup) /\ WF_vars(SendJail) /\ WF_vars(WaitReturns)
  /\ WF_vars(ChildSetup) /\ WF_vars(InitLoop) /\ WF_vars(DeliverTerm)
  /\ \A p \in {"child", "prog"} : WF_vars(ProgramSetup(p))

FairSpec == Spec /\ Fairness

(***************************************************************************)
(* Properties.                                                             *)
(***************************************************************************)
ChildPoints ==
  Gone \cup {"fds", "sync", "syncread", "userns", "std", "enter", "fork",
             "free", "signal", "wait", "store", "hooks", "exec", "readsize",
             "readbody", "enter2", "main"}
CallerPoints ==
  Tasks \cup {"start", "kill", "abort", "dead", "crashed", "complete", "block",
              "header", "body", "closew", "drain", "restore", "idle", "waiting",
              "killing"}

\* Every variable stays within its type.
TypeOK ==
  /\ cfg \in Configs
  /\ ppc \in CallerPoints
  /\ done \in [Tasks -> Nat]
  /\ failed \in BOOLEAN
  /\ sigpipe \in {"default", "blocked", "pending", "fatal"}
  /\ reply \in Int
  /\ pc \in [Procs -> ChildPoints]
  /\ status \in [Procs -> Nat]
  /\ applied \in [Procs -> SUBSET Stages]
  /\ syncW \subseteq Holders /\ confW \subseteq Holders /\ confR \subseteq Holders
  /\ buf \in Nat /\ sent \in Nat
  /\ handler \in BOOLEAN
  /\ exitstatus \in Nat
  /\ lastPid \in Procs /\ lastStatus \in Nat
  /\ term \in BOOLEAN

\* No process of the jail executes a single instruction of the program's own
\* code, at the end of minijail_fork(), after a plain execve(2) or after
\* fake_main(), before both halves of minijail_enter() have been applied to
\* it and before every cgroup, rlimit, pid file and id map the caller was to
\* install is there; for a preloaded program, even if the caller is killed
\* half way through minijail_run_internal().  (Another child takes the death of
\* the caller for the end of the setup: wait_for_parent_setup() reads 0 bytes.)
Confined ==
  \A p \in Procs : pc[p] = "main" =>
    /\ applied[p] = Stages
    /\ (cfg.preload \/ ppc # "crashed") => ParentSetupDone

\* When a piece of parent-side setup fails, kill_child_and_die() leaves no
\* process of the jail behind: the abort() that closes the synchronisation
\* pipe never releases a half-configured child.
FailedSetupLeavesNothing ==
  ppc \in {"abort", "dead"} => \A p \in Procs : ~Alive(p)

\* When minijail_to_fd() fails, nothing of the program ever runs, and once
\* minijail_run_internal() has returned the child has been killed.
UndeliveredJailNeverRuns ==
  failed => \A p \in Procs :
    /\ pc[p] # "main"
    /\ ppc \in {"idle", "waiting", "killing"} => ~Alive(p)

\* A child that dies early never takes the caller with it: SIGPIPE is blocked
\* while the jail is sent, accepted, and the mask is restored only then.
SigpipeContained ==
  /\ sigpipe # "fatal"
  /\ ppc \in {"idle", "waiting", "killing"} => sigpipe = "default"

\* An init that was not told to stop exits with the code of the program, or
\* with MINIJAIL_ERR_INIT when a signal killed the program, whatever the other
\* processes of the namespace exited with and whenever they did.
InitReportsProgram ==
  handler /\ ~term /\ ~Alive("child") /\ WIFEXITED(status["child"]) =>
    status["child"] = IF WIFEXITED(status["prog"]) THEN status["prog"]
                      ELSE Exited(MINIJAIL_ERR_INIT)

\* "This loop will only end when either there are no processes left inside our pid
\* namespace or we get a signal" (init(), libminijail.c:2982): init never drags a
\* descendant of the program down by exiting early.  The manual says the opposite of the
\* same case, "If the program exits, all of its children will be killed immediately by
\* the kernel" (minijail0.1:206), which is so only with -I, where the program itself is
\* the namespace's first process; the property takes the side of the code's comment.
InitOutlivesJail ==
  [][handler /\ ~term /\ Alive("child") /\ ~Alive("child")' /\ status["child"]' # SIGKILL
       => ~Alive("prog") /\ ~Alive("desc")]_vars

\* The claim of the comment on init_term(), "so that we exit with the right
\* status": an init that is told to stop after it has recorded the exit of
\* the program exits with the program's code.
TermReportsProgram ==
  handler /\ ~Alive("child") /\ WIFEXITED(status["child"]) /\ WIFEXITED(exitstatus) =>
    WEXITSTATUS(status["child"]) = WEXITSTATUS(exitstatus)

\* The setup of the child ends: the program runs or the child is dead.  The
\* two sides never wait for each other, neither on the synchronisation pipe
\* nor on a full configuration pipe.
ChildSettles ==
  (pc["child"] = "fds") ~> \/ ~Alive("child")
                           \/ pc["prog"] \in {"zombie", "reaped"}
                           \/ \E p \in Procs : pc[p] = "main"

\* minijail_run() returns, or the caller has died, and so does a minijail_kill()
\* whose SIGTERM the kernel accepted, provided the program does not handle it.
CallsReturn ==
  /\ (ppc = "forward") ~> (ppc \in {"idle", "dead", "crashed"})
  /\ (ppc = "killing" /\ term /\ ~cfg.catch) ~> (ppc # "killing")

\* Once the program and its descendants have ended, init ends too, so that a
\* minijail_wait() of a jail with an init process returns.
InitEnds ==
  (handler /\ Alive("child") /\ pc["prog"] \in Gone /\ pc["desc"] \in Gone) ~> ~Alive("child")

(***************************************************************************)
(* The inductive invariant behind Confined, FailedSetupLeavesNothing,      *)
(* UndeliveredJailNeverRuns and SigpipeContained.                          *)
(***************************************************************************)
InitPoints   == {"free", "signal", "wait", "store"}
ReaderPoints == {"readsize", "readbody", "enter2"}
Early        == {"fds", "sync", "syncread"}

\* The points of the caller from which the parent-side setup is complete,
\* those at which nothing has been sent yet, and, for each task, those from
\* which that task is complete.
Sent        == {"complete", "block", "header", "body", "closew", "drain",
                "restore", "idle", "waiting", "killing"}
Unsent      == Tasks \cup {"start", "kill", "abort", "complete", "block", "header"}
PastSetgroups == Sent \cup {"gid_map"}
PastUidMap    == PastSetgroups \cup {"setgroups"}
PastRlimits   == PastUidMap \cup {"uid_map"}
PastCgroups   == PastRlimits \cup {"rlimits"}
PastPidFile   == PastCgroups \cup {"cgroups"}
PastForward   == PastPidFile \cup {"pid_file"}

\* Which processes there are, and where they can be.
ShapeInv ==
  /\ ppc = "start" => \A p \in Procs : pc[p] = "none"
  /\ ppc \notin {"start", "idle", "dead", "crashed"} => pc["child"] # "none"
  /\ \A p \in Procs : pc[p] # "none" => pc["child"] # "none" /\ ~Refused(cfg)
  /\ pc["desc"] \in Gone \cup {"main"}
  /\ pc["prog"] \in Gone \cup ReaderPoints \cup {"hooks", "exec", "main"}
  /\ pc["prog"] # "none" => cfg.pids /\ pc["child"] \in InitPoints \cup {"zombie", "reaped"}
  /\ pc["child"] = "fork" => cfg.pids
  /\ Alive("prog") => pc["child"] \in InitPoints
  /\ cfg.pids /\ Alive("desc") => Alive("child")

\* How far minijail_enter() has gone at each point.
StageInv ==
  \A p \in Procs :
    /\ pc[p] \in InitPoints \cup {"fork", "hooks", "exec"} =>
         applied[p] = IF cfg.preload THEN {"early"} ELSE Stages
    /\ pc[p] \in ReaderPoints => cfg.preload /\ applied[p] = {"early"}
    /\ pc[p] = "main" => applied[p] = Stages

\* The tasks before the caller's point are complete, none is overdone.
TaskInv ==
  /\ \A t \in Tasks : done[t] <= Need(cfg, t)
  /\ pc["child"] # "none" =>
       /\ ppc \in PastForward => done["forward"] = Need(cfg, "forward")
       /\ ppc \in PastPidFile => done["pid_file"] = Need(cfg, "pid_file")
       /\ ppc \in PastCgroups => done["cgroups"] = Need(cfg, "cgroups")
       /\ ppc \in PastRlimits => done["rlimits"] = Need(cfg, "rlimits")
       /\ ppc \in PastUidMap => done["uid_map"] = Need(cfg, "uid_map")
       /\ ppc \in PastSetgroups => done["setgroups"] = Need(cfg, "setgroups")
       /\ ppc \in Sent => done["gid_map"] = Need(cfg, "gid_map")

\* The caller holds the synchronisation pipe until its setup is complete, and
\* the child is not past it while the caller does.
SyncInv ==
  /\ SyncChild(cfg) /\ ppc \in Tasks \cup {"kill", "complete"} => "caller" \in syncW
  /\ SyncChild(cfg) /\ "caller" \in syncW =>
       /\ pc["child"] \in Gone \cup Early
       /\ pc["prog"] = "none" /\ pc["desc"] = "none"
  /\ ppc = "kill" => SyncChild(cfg)

\* What is in the configuration pipe, and what its reader has made of it.
PipeInv ==
  /\ sent <= cfg.size /\ buf <= sent + 1
  /\ buf > 0 => ParentSetupDone
  /\ ppc \in Unsent => buf = 0 /\ sent = 0
  /\ ppc = "body" => sent < cfg.size
  /\ failed => /\ sent < cfg.size
               /\ ppc \in {"closew", "drain", "restore", "idle", "waiting", "killing", "crashed"}
  /\ ppc \in {"block", "header", "body"} => cfg.preload
  /\ failed => cfg.preload
  /\ \A p \in Procs :
       /\ pc[p] = "readbody" => ppc \notin Unsent /\ buf <= sent /\ ParentSetupDone
       /\ pc[p] = "enter2" => sent = cfg.size /\ ParentSetupDone
       /\ pc[p] = "main" /\ cfg.preload => sent = cfg.size /\ ParentSetupDone
  /\ cfg.preload /\ pc["desc"] # "none" => sent = cfg.size

\* Nothing is alive behind a failed setup or a jail that was not delivered.
DeathInv ==
  /\ ppc \in {"abort", "dead"} => \A p \in Procs : ~Alive(p)
  /\ failed /\ ppc \in {"idle", "waiting", "killing"} => \A p \in Procs : ~Alive(p)

\* The mask of SIGPIPE at each point of the caller.
SigpipeInv ==
  /\ ppc \in {"start", "block", "idle", "waiting", "killing", "complete", "kill"} \cup Tasks => sigpipe = "default"
  /\ ppc \in {"header", "body", "restore"} => sigpipe = "blocked"
  /\ sigpipe # "fatal"

\* Together with TypeOK, these parts are preserved by every step and imply
\* that the program only runs in a complete jail, that a failed setup leaves
\* nothing alive and that SIGPIPE never reaches the caller.
SetupInv ==
  ShapeInv /\ StageInv /\ TaskInv /\ SyncInv /\ PipeInv /\ DeathInv /\ SigpipeInv

(***************************************************************************)
(* The inductive invariant behind InitReportsProgram and InitOutlivesJail. *)
(***************************************************************************)
\* Where init is once its handler is installed, that a status has the form wait(2)
\* gives it, and that the status init keeps is the program's from the moment the
\* program is reaped, except between the wait(2) that reaps it and the store.
InitInv ==
  /\ handler => pc["child"] \in {"wait", "store", "zombie", "reaped"}
  /\ pc["child"] \in InitPoints \cup {"fork"} => cfg.init /\ cfg.exec
  /\ pc["child"] \in InitPoints => pc["prog"] # "none"
  /\ pc["child"] \in {"free", "signal"} => pc["prog"] # "reaped"
  /\ \A p \in Procs : WIFEXITED(status[p]) => status[p] = Exited(WEXITSTATUS(status[p]))
  /\ pc["child"] = "store" /\ lastPid = "prog" => pc["prog"] = "reaped" /\ lastStatus = status["prog"]
  /\ pc["prog"] = "reaped" /\ (pc["child"] = "wait" \/ (pc["child"] = "store" /\ lastPid # "prog")) =>
       exitstatus = status["prog"]
  /\ InitReportsProgram

=============================================================================

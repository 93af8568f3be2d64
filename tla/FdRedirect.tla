----------------------------- MODULE FdRedirect -----------------------------
(***************************************************************************)
(* The file descriptors of one minijail_run(): the pipes the caller makes, *)
(* the table its child inherits, and what the child does to that table     *)
(* before the program's main(): close_open_fds(), the relocation of        *)
(* descriptors that the preserved ones would overwrite, the redirection,   *)
(* the standard pipes, the namespace and Landlock descriptors, execve(2)   *)
(* and, with a preloaded library, the descriptor named in __MINIJAIL_FD.   *)
(*                                                                         *)
(* What travels through the pipes is in MinijailRun.  Here a descriptor    *)
(* is a number, and a table says which open file a number stands for.      *)
(***************************************************************************)
EXTENDS Integers, Sequences

CONSTANTS FdSetSize,     \* FD_SETSIZE: descriptors are 0 .. FdSetSize - 1
          MaxPreserved,  \* MAX_PRESERVED_FDS
          Runs           \* the calls of minijail_run() that are considered

Fd == 0 .. FdSetSize - 1
NoFd == -1

Closed == [of |-> "none", n |-> 0]
CallerFile(fd) == [of |-> "caller", n |-> fd]
PipeEnd(name, n) == [of |-> name, n |-> n]
Ruleset == [of |-> "ruleset", n |-> 0]

PipeNames == {"config", "sync", "stdin", "stdout", "stderr"}
\* The ends in the order of avoid_pipe_conflicts().
Ends ==
  <<[pipe |-> "config", n |-> 0], [pipe |-> "config", n |-> 1],
    [pipe |-> "sync", n |-> 0],   [pipe |-> "sync", n |-> 1],
    [pipe |-> "stdin", n |-> 0],  [pipe |-> "stdin", n |-> 1],
    [pipe |-> "stdout", n |-> 0], [pipe |-> "stdout", n |-> 1],
    [pipe |-> "stderr", n |-> 0], [pipe |-> "stderr", n |-> 1]>>
\* The ends that become descriptors 0, 1 and 2, in the order of
\* setup_child_std_fds().
Std == <<[pipe |-> "stdin", n |-> 0], [pipe |-> "stdout", n |-> 1], [pipe |-> "stderr", n |-> 1]>>
StdPipes == {"stdin", "stdout", "stderr"}

Files == {Closed, Ruleset} \cup {CallerFile(fd) : fd \in Fd}
           \cup {PipeEnd(name, n) : name \in PipeNames, n \in {0, 1}}
Tables == [Fd -> Files]
Redirect == [parent : Fd, child : Fd]

\* One call: the descriptors the caller has open and those of them with
\* FD_CLOEXEC, the preserved ones, the pipes it asks for or needs, whether
\* minijail_close_open_fds() was called, the program's descriptor for
\* fexecve(2), those of the namespaces to enter, and whether there are
\* Landlock rules.
Run == [open : SUBSET Fd, cloexec : SUBSET Fd, maps : Seq(Redirect),
        pipes : SUBSET PipeNames, closefds : BOOLEAN,
        elf : Fd \cup {NoFd}, mountns : Fd \cup {NoFd}, netns : Fd \cup {NoFd},
        landlock : BOOLEAN]

\* minijail_preserve_fd() refuses more than MAX_PRESERVED_FDS; a preserved
\* descriptor, one for fexecve(2) and one of a namespace are open.
Legal(r) ==
  /\ Len(r.maps) <= MaxPreserved
  /\ \A k \in 1 .. Len(r.maps) : r.maps[k].parent \in r.open
  /\ {r.elf, r.mountns, r.netns} \subseteq r.open \cup {NoFd}

ASSUME RunAssumption ==
  /\ FdSetSize \in Nat /\ MaxPreserved \in Nat
  /\ Runs \subseteq Run /\ \A r \in Runs : Legal(r)

VARIABLES
  cfg,       \* the call
  pc,        \* where the caller is until clone(2), then where the child is
  i,         \* the index of the loop the child is in
  table,     \* the table of the caller until clone(2), then the child's
  cloexec,   \* the descriptors of that table with FD_CLOEXEC
  maps,      \* j->preserved_fds
  pipes,     \* state->pipe_fds, child_sync_pipe_fds, stdin_fds, ...
  elf,       \* the child's copy of config->elf_fd
  rules,     \* j->fs_rules_fd
  childFds,  \* the fd_set child_fds
  env,       \* the number in __MINIJAIL_FD
  ppc,       \* "shared" until clone(2), then where the caller is
  ptable,    \* the caller's table after clone(2)
  ppipes,    \* the caller's copy of the pipes' numbers
  prules     \* the caller's j->fs_rules_fd, which the marshalled jail holds

childVars == <<pc, i, table, cloexec, maps, pipes, elf, rules, childFds>>
callerVars == <<ppc, ptable, ppipes, prules>>
vars == <<cfg, childVars, env, callerVars>>

Preload == "config" \in cfg.pipes
Open(t) == {fd \in Fd : t[fd] # Closed}
PipesOf(p) == {p[name][n] : name \in PipeNames, n \in {0, 1}}

\* close(2) of a set of numbers; NoFd among them is nothing.
Close(t, S) == [fd \in Fd |-> IF fd \in S THEN Closed ELSE t[fd]]

\* dup2(2).
Dup2(t, from, to) == [t EXCEPT ![to] = t[from]]

\* The number the kernel gives: the lowest that is free.
Lowest(t) == CHOOSE fd \in Fd : t[fd] = Closed /\ \A k \in Fd : t[k] = Closed => fd <= k

Init ==
  /\ cfg \in Runs
  /\ pc = "config" /\ i = 1
  /\ table = [fd \in Fd |-> IF fd \in cfg.open THEN CallerFile(fd) ELSE Closed]
  /\ cloexec = cfg.cloexec
  /\ maps = cfg.maps
  /\ pipes = [p \in PipeNames |-> [n \in {0, 1} |-> NoFd]]
  /\ elf = cfg.elf
  /\ rules = NoFd /\ childFds = {} /\ env = NoFd
  /\ ppc = "shared" /\ ptable = table /\ ppipes = pipes /\ prules = NoFd

(***************************************************************************)
(* Before clone(2).                                                        *)
(***************************************************************************)
After(p) ==
  [config |-> "stdin", stdin |-> "stdout", stdout |-> "stderr", stderr |-> "sync", sync |-> "clone"][p]

\* One pipe(2): its read end gets the lowest free number, its write end the
\* next.  The number of the configuration pipe's read end goes to the
\* environment.
MakePipe(p) ==
  LET r  == Lowest(table)
      t1 == [table EXCEPT ![r] = PipeEnd(p, 0)]
      w  == Lowest(t1)
      t2 == [t1 EXCEPT ![w] = PipeEnd(p, 1)]
  IN /\ \E a, b \in Fd : a # b /\ table[a] = Closed /\ table[b] = Closed
     /\ table' = t2
     /\ pipes' = [pipes EXCEPT ![p] = [n \in {0, 1} |-> IF n = 0 THEN r ELSE w]]
     /\ cloexec' = cloexec \ {r, w}
     /\ env' = IF p = "config" THEN r ELSE env

SetupPipe(p) ==
  /\ ppc = "shared" /\ pc = p
  /\ IF p \in cfg.pipes
     THEN MakePipe(p)
     ELSE UNCHANGED <<table, cloexec, pipes, env>>
  /\ pc' = After(p)
  /\ UNCHANGED <<cfg, i, maps, elf, rules, childFds, callerVars>>

\* Mutant: an early return that forgets minijail_free_run_state().
PipeFailsLeaking(p) ==
  /\ ppc = "shared" /\ pc = p /\ p \in cfg.pipes
  /\ pc' = "none" /\ ppc' = "returned"
  /\ ptable' = table
  /\ UNCHANGED <<cfg, i, table, cloexec, maps, pipes, elf, rules, childFds, env, ppipes, prules>>

\* pipe(2) fails: minijail_run_internal() returns an error and
\* minijail_run_config_internal() closes what had been made.
PipeFails(p) ==
  /\ ppc = "shared" /\ pc = p /\ p \in cfg.pipes
  /\ pc' = "none" /\ ppc' = "returned"
  /\ ptable' = Close(table, PipesOf(pipes))
  /\ UNCHANGED <<cfg, i, table, cloexec, maps, pipes, elf, rules, childFds, env, ppipes, prules>>

\* landlock_create_ruleset(2), done by both processes: the lowest free number.
RulesFd(t) == IF cfg.landlock /\ \E fd \in Fd : t[fd] = Closed THEN Lowest(t) ELSE NoFd
WithRules(t) == [fd \in Fd |-> IF fd = RulesFd(t) THEN Ruleset ELSE t[fd]]

\* minijail_preserve_fd(), whose result minijail_run_internal() ignores.
Preserve(ms, fd) ==
  IF fd = NoFd \/ Len(ms) >= MaxPreserved THEN ms
  ELSE Append(ms, [parent |-> fd, child |-> fd])

\* Mutant: the ruleset is not preserved.
CloneOnly ==
  /\ ppc = "shared" /\ pc = "clone"
  /\ ppc' = "forked" /\ ptable' = WithRules(table) /\ ppipes' = pipes /\ prules' = RulesFd(table)
  /\ table' = WithRules(table) /\ rules' = RulesFd(table)
  /\ cloexec' = cloexec \cup ({RulesFd(table)} \ {NoFd})
  /\ pc' = "closefds"
  /\ UNCHANGED <<cfg, i, pipes, elf, childFds, env, maps>>

\* clone(2) or fork(2): the child gets a copy of the table, and then each
\* process makes a ruleset and preserves it.
Clone ==
  /\ ppc = "shared" /\ pc = "clone"
  /\ ppc' = "forked" /\ ptable' = WithRules(table) /\ ppipes' = pipes /\ prules' = RulesFd(table)
  /\ table' = WithRules(table) /\ rules' = RulesFd(table)
  /\ cloexec' = cloexec \cup ({RulesFd(table)} \ {NoFd})
  /\ maps' = Preserve(maps, RulesFd(table))
  /\ pc' = "closefds"
  /\ UNCHANGED <<cfg, i, pipes, elf, childFds, env>>

\* The rest of the caller's side: the namespace descriptors, the
\* synchronisation pipe and the configuration pipe are closed; the far ends
\* of the standard pipes go to the calling program, the rest is freed.
RunReturns ==
  /\ ppc = "forked"
  /\ ppc' = "returned"
  /\ LET kept == {ppipes["stdin"][1], ppipes["stdout"][0], ppipes["stderr"][0]}
     IN ptable' = Close(ptable, (PipesOf(ppipes) \ kept) \cup {cfg.mountns, cfg.netns})
  /\ UNCHANGED <<cfg, childVars, env, ppipes, prules>>

(***************************************************************************)
(* The child, up to minijail_enter().                                      *)
(***************************************************************************)
Child == ppc # "shared"
Next1(p) == pc' = p /\ i' = 1
Die == pc' = "dead" /\ UNCHANGED <<i, table, cloexec, maps, pipes, elf, rules, childFds>>

\* What close_open_fds() is told to keep: the pipes, the preserved
\* descriptors and the program's.
Inheritable(ms) == PipesOf(pipes) \cup {ms[k].parent : k \in 1 .. Len(ms)} \cup {elf}

\* close_open_fds(), with the namespace descriptors preserved first.
CloseOpenFds ==
  /\ Child /\ pc = "closefds"
  /\ IF cfg.closefds
     THEN LET ms == Preserve(Preserve(maps, cfg.mountns), cfg.netns)
          IN /\ maps' = ms
             /\ table' = Close(table, Fd \ Inheritable(ms))
             /\ cloexec' = cloexec \cap Inheritable(ms)
     ELSE UNCHANGED <<maps, table, cloexec>>
  /\ Next1("get")
  /\ UNCHANGED <<cfg, pipes, elf, rules, childFds, env, callerVars>>

\* Mutants of the search below: it starts one too high; descriptors that
\* are open are taken.
UnusedFrom(t) ==
  IF t[FdSetSize - 1] = Closed THEN FdSetSize
  ELSE IF \E fd \in Fd : t[fd] = Closed /\ fd \notin childFds
  THEN CHOOSE fd \in Fd : t[fd] = Closed /\ fd \notin childFds
  ELSE NoFd

\* The highest number that is neither open nor a child's.
Unused(t) ==
  LET free == {fd \in Fd : t[fd] = Closed /\ fd \notin childFds}
  IN IF free = {} THEN NoFd ELSE CHOOSE fd \in free : \A k \in free : k <= fd

\* Mutant: nothing is moved.
StayPut(t, child, fd) == fd

\* ensure_no_fd_conflict(): where fd goes so that it is not overwritten:
\* nowhere if no child descriptor has its number, else to its own child
\* number if that is not open, else to an unused one.
Conflict(t, child, fd) ==
  IF fd \notin childFds THEN fd
  ELSE IF child # NoFd /\ t[child] = Closed THEN child
  ELSE Unused(t)

Moved(fd, to) ==
  /\ table' = IF to = fd THEN table ELSE Dup2(table, fd, to)
  /\ cloexec' = IF to = fd THEN cloexec ELSE cloexec \ {to}

\* get_child_fds(), one preserved descriptor at a time.
GetChildFds ==
  /\ Child /\ pc = "get" /\ i <= Len(maps)
  /\ LET m  == maps[i]
         to == Conflict(table, m.child, m.parent)
     IN IF m.child \in childFds \/ to = NoFd
        THEN Die
        ELSE /\ Moved(m.parent, to)
             /\ maps' = [maps EXCEPT ![i].parent = to]
             /\ childFds' = childFds \cup {m.child}
             /\ i' = i + 1
             /\ UNCHANGED <<pc, pipes, elf, rules>>
  /\ UNCHANGED <<cfg, env, callerVars>>

GetChildFdsDone ==
  /\ Child /\ pc = "get" /\ i > Len(maps)
  /\ Next1("avoid")
  /\ UNCHANGED <<cfg, table, cloexec, maps, pipes, elf, rules, childFds, env, callerVars>>

\* avoid_pipe_conflicts(), one end at a time.
AvoidPipeConflicts ==
  /\ Child /\ pc = "avoid" /\ i <= Len(Ends)
  /\ LET e  == Ends[i]
         fd == pipes[e.pipe][e.n]
         to == Conflict(table, NoFd, fd)
     IN IF fd # NoFd /\ to = NoFd
        THEN Die
        ELSE /\ IF fd = NoFd THEN UNCHANGED <<table, cloexec>> ELSE Moved(fd, to)
             /\ pipes' = IF fd = NoFd THEN pipes ELSE [pipes EXCEPT ![e.pipe][e.n] = to]
             /\ i' = i + 1
             /\ UNCHANGED <<pc, maps, elf, rules, childFds>>
  /\ UNCHANGED <<cfg, env, callerVars>>

\* The descriptor for fexecve(2) is moved out of the way as well.
MoveElf ==
  /\ Child /\ pc = "avoid" /\ i > Len(Ends)
  /\ LET to == Conflict(table, NoFd, elf)
     IN IF elf # NoFd /\ to = NoFd
        THEN Die
        ELSE /\ IF elf = NoFd THEN UNCHANGED <<table, cloexec>> ELSE Moved(elf, to)
             /\ elf' = IF elf = NoFd THEN elf ELSE to
             /\ Next1("dup")
             /\ UNCHANGED <<maps, pipes, rules, childFds>>
  /\ UNCHANGED <<cfg, env, callerVars>>

\* redirect_fds(), first loop: dup2(2), which clears FD_CLOEXEC, and so does
\* the fcntl(2) on a descriptor that keeps its number.
RedirectFds ==
  /\ Child /\ pc = "dup" /\ i <= Len(maps)
  /\ LET m == maps[i]
     IN IF table[m.parent] = Closed /\ m.parent # m.child
        THEN Die
        ELSE /\ table' = IF m.parent = m.child THEN table ELSE Dup2(table, m.parent, m.child)
             /\ cloexec' = cloexec \ {m.child}
             /\ i' = i + 1
             /\ UNCHANGED <<pc, maps, pipes, elf, rules, childFds>>
  /\ UNCHANGED <<cfg, env, callerVars>>

\* Mutant: the parents' descriptors stay open.
KeepParents ==
  /\ Child /\ pc = "dup" /\ i > Len(maps)
  /\ Next1("sync2")
  /\ UNCHANGED <<cfg, table, cloexec, maps, pipes, elf, rules, childFds, env, callerVars>>

\* Second loop: the parents' numbers that are no child's are closed.
CloseParents ==
  /\ Child /\ pc = "dup" /\ i > Len(maps)
  /\ table' = Close(table, {maps[k].parent : k \in 1 .. Len(maps)} \ childFds)
  /\ Next1("sync2")
  /\ UNCHANGED <<cfg, cloexec, maps, pipes, elf, rules, childFds, env, callerVars>>

Reset(p) == [pipes EXCEPT ![p] = [n \in {0, 1} |-> NoFd]]

\* wait_for_parent_setup() closes both ends of the synchronisation pipe.
WaitForParentSetup ==
  /\ Child /\ pc = "sync2"
  /\ table' = Close(table, {pipes["sync"][0], pipes["sync"][1]})
  /\ pipes' = Reset("sync")
  /\ Next1("std")
  /\ UNCHANGED <<cfg, cloexec, maps, elf, rules, childFds, env, callerVars>>

\* setup_child_std_fds(), one descriptor at a time.
SetupChildStdFds ==
  /\ Child /\ pc = "std" /\ i <= 3
  /\ LET from == pipes[Std[i].pipe][Std[i].n]
     IN IF from = NoFd \/ from = i - 1
        THEN UNCHANGED <<table, cloexec>>
        ELSE table' = Dup2(table, from, i - 1) /\ cloexec' = cloexec \ {i - 1}
  /\ i' = i + 1
  /\ UNCHANGED <<cfg, pc, maps, pipes, elf, rules, childFds, env, callerVars>>

CloseStdPipes ==
  /\ Child /\ pc = "std" /\ i > 3
  /\ table' = Close(table, {pipes[p][n] : p \in StdPipes, n \in {0, 1}})
  /\ pipes' = [p \in PipeNames |-> IF p \in StdPipes THEN [n \in {0, 1} |-> NoFd] ELSE pipes[p]]
  /\ Next1("enter")
  /\ UNCHANGED <<cfg, cloexec, maps, elf, rules, childFds, env, callerVars>>

(***************************************************************************)
(* minijail_enter(), execve(2) and the preloaded library.                  *)
(***************************************************************************)
\* setns(2) and landlock_restrict_self(2) refuse a descriptor that is not
\* what they need; each is closed after its use.
Usable(t, fd, file) == fd = NoFd \/ t[fd] = file
Landlocked(r) == IF cfg.landlock THEN r ELSE NoFd

\* Before execve(2): the mount namespace; without a preloaded library, the
\* network namespace and the ruleset too.
EnterBeforeExec ==
  /\ Child /\ pc = "enter"
  /\ LET net == IF Preload THEN NoFd ELSE cfg.netns
         rs  == IF Preload THEN NoFd ELSE Landlocked(rules)
     IN IF /\ Usable(table, cfg.mountns, CallerFile(cfg.mountns))
           /\ Usable(table, net, CallerFile(net)) /\ Usable(table, rs, Ruleset)
        THEN /\ table' = Close(table, {cfg.mountns, net, rs})
             /\ Next1("exec")
             /\ UNCHANGED <<cloexec, maps, pipes, elf, rules, childFds>>
        ELSE Die
  /\ UNCHANGED <<cfg, env, callerVars>>

\* What is left of the run state is closed but the configuration pipe's read
\* end; execve(2) closes the descriptors with FD_CLOEXEC.
Exec ==
  /\ Child /\ pc = "exec"
  /\ table' = Close(table, cloexec \cup (PipesOf(pipes) \ {pipes["config"][0]}))
  /\ cloexec' = {}
  /\ Next1(IF Preload THEN "library" ELSE "main")
  /\ UNCHANGED <<cfg, maps, pipes, elf, rules, childFds, env, callerVars>>

\* The library reads the jail from the descriptor in __MINIJAIL_FD and closes
\* it.  Unmarshalling the first Landlock rule makes a ruleset once more, whose
\* number is then replaced by the marshalled one.  The library enters the
\* network namespace and the Landlock domain by the numbers the marshalled
\* jail holds, which are the caller's.
EnterAfterExec ==
  /\ Child /\ pc = "library"
  /\ LET t  == WithRules(table)
         rs == Landlocked(prules)
     IN IF /\ table[env] = PipeEnd("config", 0)
           /\ Usable(t, cfg.netns, CallerFile(cfg.netns)) /\ Usable(t, rs, Ruleset)
        THEN /\ table' = Close(t, {env, cfg.netns, rs})
             /\ cloexec' = cloexec \cup ({RulesFd(table)} \ {NoFd})
             /\ Next1("main")
             /\ UNCHANGED <<maps, pipes, elf, rules, childFds>>
        ELSE Die
  /\ UNCHANGED <<cfg, env, callerVars>>

ChildStep ==
  \/ CloseOpenFds \/ GetChildFds \/ GetChildFdsDone \/ AvoidPipeConflicts \/ MoveElf
  \/ RedirectFds \/ CloseParents \/ WaitForParentSetup \/ SetupChildStdFds \/ CloseStdPipes
  \/ EnterBeforeExec \/ Exec \/ EnterAfterExec

\* Nothing is left to do.
Over ==
  /\ pc \in {"none", "dead", "main"}
  /\ UNCHANGED vars

Next ==
  \/ \E p \in PipeNames : SetupPipe(p) \/ PipeFails(p)
  \/ Clone \/ RunReturns \/ ChildStep \/ Over

Spec == Init /\ [][Next]_vars

(***************************************************************************)
(* Properties.                                                             *)
(***************************************************************************)
PipeNumbers == [PipeNames -> [{0, 1} -> Fd \cup {NoFd}]]
Points == PipeNames \cup {"clone", "closefds", "get", "avoid", "dup", "sync2", "std", "enter",
                          "exec", "library", "main", "none", "dead"}

\* Every number is a descriptor or NoFd, every table maps descriptors to files.
TypeOK ==
  /\ cfg \in Run /\ Legal(cfg) /\ pc \in Points /\ i \in Nat \ {0}
  /\ table \in Tables /\ cloexec \subseteq Fd
  /\ maps \in Seq(Redirect) /\ Len(maps) <= MaxPreserved
  /\ pipes \in PipeNumbers /\ elf \in Fd \cup {NoFd} /\ rules \in Fd \cup {NoFd}
  /\ childFds \subseteq Fd /\ env \in Fd \cup {NoFd}
  /\ ppc \in {"shared", "forked", "returned"} /\ ptable \in Tables
  /\ ppipes \in PipeNumbers /\ prules \in Fd \cup {NoFd}

\* The descriptors that a standard pipe takes.
StdTaken == {k - 1 : k \in {k \in 1 .. 3 : Std[k].pipe \in cfg.pipes}}

\* libminijail.h on minijail_preserve_fd(): "preserves @parent_fd and makes it
\* available as @child_fd in the child process".  Whatever the preserved
\* descriptors overwrite on their way (each other in chains and cycles, the
\* pipes, the program's descriptor), the program finds behind each child
\* number what the caller had behind the parent's; a standard pipe asked for
\* takes precedence, and a namespace's descriptor is used up.
PreservedFdsDelivered ==
  pc = "main" =>
    \A k \in 1 .. Len(cfg.maps) :
      cfg.maps[k].child \notin StdTaken \cup {cfg.mountns, cfg.netns} =>
        table[cfg.maps[k].child] = CallerFile(cfg.maps[k].parent)

\* "@parent_fd will be closed if no other redirect has claimed it": with
\* minijail_close_open_fds() the program has the preserved descriptors, the
\* standard pipes and the one it was executed from, and nothing else: no
\* temporary of a relocation, no end of a pipe of minijail's own.  The one
\* exception is the ruleset that the preloaded library makes and abandons.
NoStrayFds ==
  pc = "main" /\ cfg.closefds =>
    LET abandoned == {fd \in Fd : Preload /\ table[fd] = Ruleset}
    IN Open(table) \ abandoned \subseteq
         {cfg.maps[k].child : k \in 1 .. Len(cfg.maps)} \cup StdTaken \cup {elf}

\* libminijail.h on minijail_run_pid_pipes(): the descriptors handed to the
\* caller are the other ends of the program's standard input, output and
\* error.  This needs a caller whose own three are open.
StdPipesConnected ==
  pc = "main" /\ {0, 1, 2} \subseteq cfg.open =>
    \A k \in 1 .. 3 : Std[k].pipe \in cfg.pipes => table[k - 1] = PipeEnd(Std[k].pipe, Std[k].n)

\* A run leaves the caller the descriptors it had, the far ends of the pipes
\* it asked for and the ruleset it made; a run that fails leaves it as it was.
CallerFds ==
  ppc = "returned" =>
    LET far == {PipeEnd("stdin", 1), PipeEnd("stdout", 0), PipeEnd("stderr", 0)}
    IN /\ \A fd \in cfg.open \ {cfg.mountns, cfg.netns} : ptable[fd] = CallerFile(fd)
       /\ \A fd \in Open(ptable) \ cfg.open :
            ptable[fd] \in IF pc = "none" THEN {} ELSE far \cup {Ruleset}

\* The number under which the child's code looks for the Landlock ruleset,
\* its own before execve(2) and the caller's in the preloaded library, is the
\* ruleset's, in spite of close_open_fds(), FD_CLOEXEC and the redirections.
\* The exceptions are a table of preserved descriptors that is already full, and
\* a caller that has closed a standard descriptor and asks for a pipe in its
\* place: the ruleset may get that number.
RulesetReachable ==
  cfg.landlock /\ Len(cfg.maps) < MaxPreserved /\ StdTaken \subseteq cfg.open =>
    /\ pc = "enter" /\ rules # NoFd => table[rules] = Ruleset
    /\ pc = "library" /\ prules # NoFd => table[prules] = Ruleset

\* The comment before execve(2): the read side of the LD_PRELOAD pipe is
\* handed "down into the target in which the preloaded code will read from
\* it": the number in the environment is that pipe's.
ConfigPipeReachable ==
  pc = "library" => table[env] = PipeEnd("config", 0)

(***************************************************************************)
(* The inductive invariant behind PreservedFdsDelivered.                   *)
(***************************************************************************)
\* The file that the caller asked to find behind the k-th child number.
Wanted(k) == CallerFile(cfg.maps[k].parent)
User == 1 .. Len(cfg.maps)

Made     == PipeNames \cup {"clone", "closefds"}
Relocated == {"avoid", "dup", "sync2", "std", "enter", "exec", "library", "main"}
Settled  == {"dup", "sync2", "std", "enter", "exec", "library", "main"}
Entered  == {"exec", "library", "main"}

\* The caller's preserved descriptors keep their places in the table.
MapsInv ==
  /\ Len(cfg.maps) <= Len(maps)
  /\ \A k \in User : maps[k].child = cfg.maps[k].child

\* Until redirect_fds() the file is behind the (possibly moved) parent number.
ParentsInv ==
  /\ pc \in Made \cup {"get", "avoid"} => \A k \in User : table[maps[k].parent] = Wanted(k)
  /\ pc = "dup" => \A k \in User : k >= i => table[maps[k].parent] = Wanted(k)

\* No parent number is overwritten before it is used: it is none of the
\* child numbers that come earlier.
OrderInv ==
  /\ pc \in Made => childFds = {}
  /\ pc = "get" =>
       /\ i <= Len(maps) + 1
       /\ childFds = {maps[a].child : a \in 1 .. i - 1}
       /\ \A a, b \in 1 .. i - 1 : a < b => maps[a].child \notin {maps[b].child, maps[b].parent}
  /\ pc \in Relocated =>
       /\ childFds = {maps[a].child : a \in 1 .. Len(maps)}
       /\ \A a, b \in 1 .. Len(maps) : a < b => maps[a].child \notin {maps[b].child, maps[b].parent}

\* The pipes are out of the way of the child numbers.
PipesInv ==
  /\ \A p \in PipeNames \ cfg.pipes, n \in {0, 1} : pipes[p][n] = NoFd
  /\ pc = "avoid" => \A k \in 1 .. Len(Ends) : k < i => pipes[Ends[k].pipe][Ends[k].n] \notin childFds
  /\ pc \in Settled => \A p \in PipeNames, n \in {0, 1} : pipes[p][n] \notin childFds

\* From redirect_fds() on the file is behind the child number, and execve(2)
\* does not close it.
ChildrenInv ==
  /\ pc = "dup" => \A k \in User : k < i =>
       table[maps[k].child] = Wanted(k) /\ maps[k].child \notin cloexec
  /\ pc = "sync2" => \A k \in User :
       table[maps[k].child] = Wanted(k) /\ maps[k].child \notin cloexec
  /\ pc \in {"std", "enter"} => \A k \in User : maps[k].child \notin StdTaken =>
       table[maps[k].child] = Wanted(k) /\ maps[k].child \notin cloexec
  /\ pc \in Entered => \A k \in User : maps[k].child \notin StdTaken \cup {cfg.mountns, cfg.netns} =>
       table[maps[k].child] = Wanted(k) /\ maps[k].child \notin cloexec

\* Together with TypeOK, these parts are preserved by every step and imply
\* PreservedFdsDelivered.
RedirectInv == MapsInv /\ ParentsInv /\ OrderInv /\ PipesInv /\ ChildrenInv

(***************************************************************************)
(* The inductive invariants behind the other properties.                   *)
(***************************************************************************)
\* A table with the caller's descriptors, the pipes' ends, and files of F.
Holds(t, ps, F) ==
  /\ \A fd \in cfg.open : t[fd] = CallerFile(fd)
  /\ \A p \in PipeNames, n \in {0, 1} : ps[p][n] # NoFd => t[ps[p][n]] = PipeEnd(p, n)
  /\ \A fd \in Fd \ cfg.open : t[fd] # Closed => t[fd] \in F \/ fd \in PipesOf(ps)

\* The pipes that are not made yet at a point of the caller.
Pending(p) ==
  CASE p = "config" -> PipeNames
    [] p = "stdin"  -> {"stdin", "stdout", "stderr", "sync"}
    [] p = "stdout" -> {"stdout", "stderr", "sync"}
    [] p = "stderr" -> {"stderr", "sync"}
    [] p = "sync"   -> {"sync"}
    [] OTHER        -> {}

\* The caller has what it had, and the pipes; it is alone until clone(2).
CallerSideInv ==
  /\ pc \in PipeNames \cup {"clone"} => ppc = "shared"
  /\ ppc = "shared" =>
       /\ pc \in PipeNames \cup {"clone"} /\ Holds(table, pipes, {})
       /\ \A p \in Pending(pc), n \in {0, 1} : pipes[p][n] = NoFd
  /\ ppc = "forked" => pc # "none" /\ Holds(ptable, ppipes, {Ruleset})
  /\ CallerFds

\* What minijail preserves besides, and the numbers it remembers.
ListInv ==
  /\ prules = rules
  /\ ppc = "shared" => maps = cfg.maps /\ rules = NoFd /\ env = pipes["config"][0]
  /\ \A k \in 1 .. Len(maps) : k > Len(cfg.maps) => maps[k].child \in {rules, cfg.mountns, cfg.netns}
  /\ rules # NoFd => cfg.landlock /\ rules \notin cfg.open /\ rules # env
  /\ env # NoFd => env \notin cfg.open
  /\ Preload /\ pc \notin {"config", "none", "dead"} =>
       env # NoFd /\ (env = pipes["config"][0] \/ env \in childFds)

\* The pipes' numbers lead to the pipes until setup_child_std_fds().
Unsettled == {"closefds", "get", "avoid"}
EndsInv ==
  pc \in PipeNames \cup {"clone", "dup", "sync2"} \cup Unsettled =>
    /\ \A p \in PipeNames, n \in {0, 1} : pipes[p][n] # NoFd => table[pipes[p][n]] = PipeEnd(p, n)
    /\ \A p \in cfg.pipes \ Pending(pc), n \in {0, 1} : pipes[p][n] # NoFd

\* What redirect_fds() closes is none of them.
NotEndsInv ==
  /\ pc = "closefds" => Holds(table, pipes, {Ruleset})
  /\ pc \in Unsettled => \A k \in 1 .. Len(maps) : table[maps[k].parent].of \in {"caller", "ruleset"}
  /\ pc = "dup" => \A k \in 1 .. Len(maps) : maps[k].parent \notin PipesOf(pipes)

\* From then on a standard pipe is behind each number that one takes, or nothing.
StdFilesInv ==
  /\ pc = "std" =>
       /\ \A p \in cfg.pipes \cap StdPipes, n \in {0, 1} :
            pipes[p][n] # NoFd /\ table[pipes[p][n]].of \in StdPipes
       /\ \A k \in 1 .. 3 : k < i /\ Std[k].pipe \in cfg.pipes /\ k - 1 \in Fd => table[k - 1].of \in StdPipes
  /\ pc \in {"enter", "exec", "library"} =>
       \A fd \in StdTaken \cap Fd : table[fd].of \in StdPipes \cup {"none"}

FilesInv == EndsInv /\ NotEndsInv /\ StdFilesInv

\* What may be open after close_open_fds(): a descriptor that is moved leaves
\* behind a number that is a child's.
Parents == {maps[k].parent : k \in 1 .. Len(maps)}
StrayInv ==
  cfg.closefds =>
    /\ pc \in {"get", "avoid", "dup"} => Open(table) \subseteq PipesOf(pipes) \cup Parents \cup {elf} \cup childFds
    /\ pc = "sync2" => Open(table) \subseteq PipesOf(pipes) \cup {elf} \cup childFds
    /\ pc \in {"std", "enter", "exec"} =>
         Open(table) \subseteq PipesOf(pipes) \cup {elf} \cup childFds \cup StdTaken
    /\ pc = "library" =>
         Open(table) \subseteq {pipes["config"][0], elf} \cup childFds \cup StdTaken
    /\ pc \in {"exec", "library"} =>
         Open(table) \cap ({cfg.mountns} \cup IF Preload THEN {} ELSE {cfg.netns, rules}) = {}
    /\ NoStrayFds

\* The ruleset is preserved like the caller's descriptors.
OfRules == Len(cfg.maps) + 1
RulesInv ==
  Len(cfg.maps) < MaxPreserved /\ rules # NoFd =>
    /\ pc \in {"closefds", "get"} \cup Relocated => OfRules <= Len(maps) /\ maps[OfRules].child = rules
    /\ \/ pc \in Unsettled
       \/ pc = "dup" /\ OfRules >= i
       => table[maps[OfRules].parent] = Ruleset
    /\ \/ pc = "dup" /\ OfRules < i
       \/ pc = "sync2"
       \/ pc \in {"std", "enter", "library"} /\ StdTaken \subseteq cfg.open
       \/ pc = "exec" /\ StdTaken \subseteq cfg.open /\ Preload
       => table[rules] = Ruleset /\ rules \notin cloexec

\* The table is larger than all that minijail keeps open in it: FD_SETSIZE is
\* 1024 and MAX_PRESERVED_FDS is 128.
Room == FdSetSize > 2 * MaxPreserved + 14

\* With 0, 1 and 2 open in the caller, no pipe ever has one of these numbers.
StdPipesInv ==
  {0, 1, 2} \subseteq cfg.open =>
    /\ pc \in {"closefds", "get", "avoid"} /\ (pc = "closefds" \/ ~cfg.closefds) =>
         \A fd \in {0, 1, 2} : table[fd] # Closed
    /\ \A p \in PipeNames, n \in {0, 1} : pipes[p][n] \notin {0, 1, 2}
    /\ pc \in {"std", "enter", "exec", "library", "main"} =>
         \A k \in 1 .. 3 : Std[k].pipe \in cfg.pipes =>
           IF pc = "std" /\ k >= i
           THEN table[pipes[Std[k].pipe][Std[k].n]] = PipeEnd(Std[k].pipe, Std[k].n)
           ELSE table[k - 1] = PipeEnd(Std[k].pipe, Std[k].n) /\ k - 1 \notin cloexec
=============================================================================

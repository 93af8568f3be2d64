-------------------------- MODULE FdRedirectFiles ---------------------------
(***************************************************************************)
(* For every size of the descriptor table, every limit on the preserved    *)
(* descriptors and every set of calls: what each step of the child does to *)
(* its table, what the caller keeps of its own, and which of the numbers   *)
(* in use lead to the pipes.                                               *)
(***************************************************************************)
EXTENDS FdRedirectProofs

\* The files of a table are told apart.
LEMMA FilesDiffer ==
  /\ \A fd : CallerFile(fd) \notin {Closed, Ruleset} /\ CallerFile(fd).of = "caller"
  /\ \A n : \A p \in PipeNames : PipeEnd(p, n) \notin {Closed, Ruleset} /\ PipeEnd(p, n).of = p
  /\ \A fd, n : \A p \in PipeNames : CallerFile(fd) # PipeEnd(p, n)
  /\ Ruleset # Closed /\ Ruleset.of = "ruleset" /\ Closed.of = "none"
BY DEF CallerFile, PipeEnd, Ruleset, Closed, PipeNames

\* The -1 of an unset descriptor is no descriptor.
LEMMA NoFdNot == NoFd \notin Fd /\ NoFd \notin {0, 1, 2}
BY DEF NoFd, Fd

\* What is above a descriptor that is not a standard one is none either.
LEMMA AboveStd == \A a, b \in Fd : a > 2 /\ a <= b => b \notin {0, 1, 2}
BY RunAssumption DEF Fd

\* The list holds pairs of descriptors.
LEMMA ParentsTypes ==
  ASSUME TypeOK
  PROVE  /\ maps \in Seq(Redirect) /\ Len(maps) \in Nat /\ Len(maps) <= MaxPreserved /\ i \in Nat \ {0}
         /\ \A k \in 1 .. Len(maps) : maps[k] \in Redirect /\ maps[k].parent \in Fd /\ maps[k].child \in Fd
<1>1. maps \in Seq(Redirect) /\ Len(maps) \in Nat /\ Len(maps) <= MaxPreserved /\ i \in Nat \ {0}
  BY DEF TypeOK
<1>2. \A k \in 1 .. Len(maps) : maps[k] \in Redirect
  BY <1>1
<1> QED
  BY <1>1, <1>2 DEF Redirect

\* Each number that minijail remembers for a pipe is one of the pipes' numbers.
LEMMA AmongPipes == ASSUME NEW ps PROVE \A p \in PipeNames, n \in {0, 1} : ps[p][n] \in PipesOf(ps)
BY DEF PipesOf

\* The order in which the caller makes the pipes.
LEMMA PendingTypes ==
  /\ \A p \in PipeNames : After(p) \in PipeNames \cup {"clone"} /\ Pending(p) \subseteq Pending(After(p)) \cup {p}
  /\ \A p \in Unsettled : Pending(p) = {}
BY DEF After, Pending, PipeNames, Unsettled

\* A call's pipes have their names.
LEMMA CallPipes == ASSUME TypeOK PROVE cfg.pipes \subseteq PipeNames
BY DEF TypeOK, Run

\* A step of the child leaves the call, the environment and the caller alone.
LEMMA ChildFrame ==
  ASSUME ChildStep
  PROVE  /\ UNCHANGED <<cfg, env, callerVars>> /\ ppc # "shared"
         /\ pc \notin PipeNames \cup {"clone", "none", "dead"}
         /\ pc' \notin PipeNames \cup {"clone", "none"}
         /\ pc' = "main" => Exec \/ EnterAfterExec
<1>1. UNCHANGED <<cfg, env, callerVars>> /\ ppc # "shared"
  <2>1. CASE CloseOpenFds \/ GetChildFds \/ GetChildFdsDone
    BY <2>1 DEF Child, CloseOpenFds, GetChildFds, GetChildFdsDone
  <2>2. CASE AvoidPipeConflicts \/ MoveElf
    BY <2>2 DEF Child, AvoidPipeConflicts, MoveElf
  <2>3. CASE RedirectFds \/ CloseParents \/ WaitForParentSetup
    BY <2>3 DEF Child, RedirectFds, CloseParents, WaitForParentSetup
  <2>4. CASE SetupChildStdFds \/ CloseStdPipes
    BY <2>4 DEF Child, SetupChildStdFds, CloseStdPipes
  <2>5. CASE EnterBeforeExec \/ Exec \/ EnterAfterExec
    BY <2>5 DEF Child, EnterBeforeExec, Exec, EnterAfterExec
  <2> QED
    BY <2>1, <2>2, <2>3, <2>4, <2>5, ZenonT(60) DEF ChildStep
<1>2. CASE CloseOpenFds \/ GetChildFds \/ GetChildFdsDone \/ AvoidPipeConflicts \/ MoveElf
  <2>1. /\ pc \in {"closefds", "get", "avoid"} /\ pc' \in {"get", "avoid", "dup", "dead"}
    BY <1>2 DEF Next1, Die, CloseOpenFds, GetChildFds, GetChildFdsDone, AvoidPipeConflicts, MoveElf
  <2> QED
    BY <1>1, <2>1 DEF PipeNames
<1>3. CASE RedirectFds \/ CloseParents \/ WaitForParentSetup \/ SetupChildStdFds \/ CloseStdPipes
  <2>1. /\ pc \in {"dup", "sync2", "std"} /\ pc' \in {"dup", "sync2", "std", "enter", "dead"}
    BY <1>3 DEF Next1, Die, RedirectFds, CloseParents, WaitForParentSetup, SetupChildStdFds, CloseStdPipes
  <2> QED
    BY <1>1, <2>1 DEF PipeNames
<1>4. CASE EnterBeforeExec \/ Exec \/ EnterAfterExec
  <2>1. /\ pc \in {"enter", "exec", "library"} /\ pc' \in {"exec", "library", "main", "dead"}
        /\ pc' = "main" => Exec \/ EnterAfterExec
    BY <1>4 DEF Next1, Die, EnterBeforeExec, Exec, EnterAfterExec
  <2> QED
    BY <1>1, <2>1 DEF PipeNames
<1> QED
  BY <1>2, <1>3, <1>4 DEF ChildStep

\* The ruleset of landlock_create_ruleset(2) in a table.
LEMMA RulesTable ==
  ASSUME TypeOK
  PROVE  \A k \in Fd : WithRules(table)[k] = IF k = RulesFd(table) THEN Ruleset ELSE table[k]
BY DEF WithRules

-----------------------------------------------------------------------------
(* What the steps of the child do. *)

\* What minijail_preserve_fd() adds.
LEMMA PreserveEntry ==
  ASSUME NEW ms \in Seq(Redirect), Len(ms) <= MaxPreserved, NEW fd \in Fd \cup {NoFd}
  PROVE  LET new == Preserve(ms, fd)
         IN /\ \A k \in 1 .. Len(new) : k > Len(ms) => fd # NoFd /\ new[k].parent = fd /\ new[k].child = fd
            /\ fd # NoFd /\ Len(ms) < MaxPreserved => Len(new) = Len(ms) + 1
<1>1. CASE fd = NoFd \/ Len(ms) >= MaxPreserved
  BY <1>1, RunAssumption DEF Preserve
<1>2. CASE fd # NoFd /\ Len(ms) < MaxPreserved
  <2> DEFINE m == [parent |-> fd, child |-> fd]
  <2>1. m \in Redirect /\ m.parent = fd /\ m.child = fd
    BY <1>2 DEF Redirect
  <2>2. Preserve(ms, fd) = Append(ms, m)
    BY <1>2, RunAssumption DEF Preserve
  <2> HIDE DEF m
  <2>3. Len(Append(ms, m)) = Len(ms) + 1 /\ Append(ms, m)[Len(ms) + 1] = m /\ Len(ms) \in Nat
    BY <2>1
  <2> QED
    BY <1>2, <2>1, <2>2, <2>3
<1> QED
  BY <1>1, <1>2, RunAssumption

\* close_open_fds(), and the namespaces' descriptors that are preserved first.
LEMMA CloseFdsEffect ==
  ASSUME TypeOK, CloseOpenFds
  PROVE  /\ pc = "closefds" /\ pc' = "get" /\ i' = 1
         /\ UNCHANGED <<cfg, pipes, elf, rules, childFds, env, prules>> /\ cloexec' \subseteq cloexec
         /\ maps' \in Seq(Redirect) /\ Len(maps) <= Len(maps')
         /\ \A k \in 1 .. Len(maps) : maps'[k] = maps[k]
         /\ \A k \in 1 .. Len(maps') : k > Len(maps) =>
              /\ maps'[k].parent = maps'[k].child /\ maps'[k].child \in {cfg.mountns, cfg.netns} \ {NoFd}
         /\ \A k \in Fd : table'[k] = IF cfg.closefds /\ k \notin PipesOf(pipes) \cup Parents' \cup {elf}
                                      THEN Closed ELSE table[k]
<1> DEFINE one == Preserve(maps, cfg.mountns)
           two == Preserve(one, cfg.netns)
<1>1. /\ pc = "closefds" /\ pc' = "get" /\ i' = 1
      /\ UNCHANGED <<cfg, pipes, elf, rules, childFds, env, prules>> /\ cloexec' \subseteq cloexec
  BY DEF CloseOpenFds, Next1, callerVars
<1>2. /\ maps' \in Seq(Redirect) /\ Len(maps) <= Len(maps') /\ \A k \in 1 .. Len(maps) : maps'[k] = maps[k]
  BY NamespacesTypes DEF CloseOpenFds, TypeOK
<1>3. \A k \in 1 .. Len(maps') : k > Len(maps) =>
         /\ maps'[k].parent = maps'[k].child /\ maps'[k].child \in {cfg.mountns, cfg.netns} \ {NoFd}
  <2>1. CASE ~cfg.closefds
    BY <1>2, <2>1 DEF CloseOpenFds
  <2>2. CASE cfg.closefds
    <3>1. /\ one \in Seq(Redirect) /\ Len(one) <= MaxPreserved
          /\ \A k \in 1 .. Len(one) : k > Len(maps) =>
               cfg.mountns # NoFd /\ one[k].parent = cfg.mountns /\ one[k].child = cfg.mountns
      BY PreserveTypes, PreserveEntry, CallTypes, ZenonT(60) DEF TypeOK
    <3> HIDE DEF one
    <3>2. /\ two \in Seq(Redirect) /\ \A k \in 1 .. Len(one) : two[k] = one[k]
          /\ \A k \in 1 .. Len(two) : k > Len(one) =>
               cfg.netns # NoFd /\ two[k].parent = cfg.netns /\ two[k].child = cfg.netns
      BY <3>1, PreserveTypes, PreserveEntry, CallTypes, ZenonT(60)
    <3>3. maps' = two
      BY <2>2 DEF CloseOpenFds, one
    <3> HIDE DEF two
    <3> SUFFICES ASSUME NEW k \in 1 .. Len(two), k > Len(maps)
                 PROVE  two[k].parent = two[k].child /\ two[k].child \in {cfg.mountns, cfg.netns} \ {NoFd}
      BY <3>3
    <3>4. CASE k <= Len(one)
      <4>1. k \in 1 .. Len(one) /\ two[k] = one[k]
        BY <3>1, <3>2, <3>4
      <4> QED
        BY <3>1, <4>1
    <3>5. CASE k > Len(one)
      BY <3>2, <3>5
    <3> QED
      BY <3>1, <3>4, <3>5
  <2> QED
    BY <2>1, <2>2
<1>4. \A k \in Fd : table'[k] = IF cfg.closefds /\ k \notin PipesOf(pipes) \cup Parents' \cup {elf}
                                THEN Closed ELSE table[k]
  <2>1. CASE ~cfg.closefds
    BY <2>1 DEF CloseOpenFds
  <2>2. CASE cfg.closefds
    <3> DEFINE kept == PipesOf(pipes) \cup Parents' \cup {elf}
    <3>1. table' = Close(table, Fd \ kept)
      BY <2>2 DEF CloseOpenFds, Inheritable, Parents
    <3> HIDE DEF kept
    <3>2. \A k \in Fd : table'[k] = IF k \in Fd \ kept THEN Closed ELSE table[k]
      BY <3>1, CloseTable DEF TypeOK
    <3>3. \A k \in Fd : table'[k] = IF k \notin kept THEN Closed ELSE table[k]
      BY <3>2
    <3> QED
      BY <2>2, <3>3 DEF kept
  <2> QED
    BY <2>1, <2>2
<1> QED
  BY <1>1, <1>2, <1>3, <1>4

\* get_child_fds(): a parent's descriptor stays or goes to a free number.
LEMMA GetEffect ==
  ASSUME TypeOK, GetChildFds, pc' # "dead"
  PROVE  /\ pc = "get" /\ pc' = "get" /\ i \in 1 .. Len(maps) /\ i' = i + 1
         /\ maps[i].parent \in Fd /\ maps[i].child \in Fd /\ maps[i].child \notin childFds
         /\ childFds' = childFds \cup {maps[i].child}
         /\ UNCHANGED <<cfg, pipes, elf, rules, env, prules>> /\ cloexec' \subseteq cloexec
         /\ \E to \in Fd :
              /\ \/ to = maps[i].parent /\ to \notin childFds
                 \/ maps[i].parent \in childFds /\ table[to] = Closed /\ (to = maps[i].child \/ to \notin childFds)
              /\ \A k \in Fd : table'[k] = IF k = to THEN table[maps[i].parent] ELSE table[k]
              /\ Len(maps') = Len(maps)
              /\ \A k \in 1 .. Len(maps) :
                   /\ maps'[k].child = maps[k].child
                   /\ maps'[k].parent = IF k = i THEN to ELSE maps[k].parent
<1> DEFINE m == maps[i]
           to == Conflict(table, m.child, m.parent)
<1>1. pc = "get" /\ i \in 1 .. Len(maps) /\ UNCHANGED <<cfg, env, prules>>
  BY DEF GetChildFds, TypeOK, callerVars
<1>2. m \in Redirect /\ m.parent \in Fd /\ m.child \in Fd
  <2>1. m \in Redirect
    BY <1>1 DEF TypeOK
  <2> HIDE DEF m
  <2> QED
    BY <2>1 DEF Redirect
<1>3. ~(m.child \in childFds \/ to = NoFd)
  BY DEF GetChildFds, Die
<1>4. /\ Moved(m.parent, to) /\ maps' = [maps EXCEPT ![i].parent = to]
      /\ childFds' = childFds \cup {m.child} /\ i' = i + 1 /\ UNCHANGED <<pc, pipes, elf, rules>>
  BY <1>3 DEF GetChildFds
<1>5. /\ to \in Fd
      /\ \/ to = m.parent /\ to \notin childFds
         \/ m.parent \in childFds /\ table[to] = Closed /\ (to = m.child \/ to \notin childFds)
  BY <1>2, <1>3, ConflictFree
<1> HIDE DEF to
<1>6. /\ \A k \in Fd : table'[k] = IF k = to THEN table[m.parent] ELSE table[k]
      /\ cloexec' \subseteq cloexec
  BY <1>2, <1>4, <1>5, MovedTable
<1>7. /\ Len(maps') = Len(maps)
      /\ \A k \in 1 .. Len(maps) :
           maps'[k].child = maps[k].child /\ maps'[k].parent = IF k = i THEN to ELSE maps[k].parent
  <2> DEFINE new == [maps[i] EXCEPT !.parent = to]
  <2>1. /\ maps' = [maps EXCEPT ![i] = new] /\ maps \in Seq(Redirect) /\ new \in Redirect
        /\ new.parent = to /\ new.child = maps[i].child
    BY <1>2, <1>4, <1>5 DEF TypeOK, Redirect
  <2> HIDE DEF new
  <2>2. Len(maps') = Len(maps) /\ maps'[i] = new /\ \A k \in 1 .. Len(maps) : k # i => maps'[k] = maps[k]
    BY <1>1, <2>1
  <2>3. maps'[i].child = maps[i].child /\ maps'[i].parent = to
    BY <2>1, <2>2
  <2>4. \A k \in 1 .. Len(maps) : maps'[k].child = maps[k].child
    BY <2>2, <2>3, ZenonT(60)
  <2>5. \A k \in 1 .. Len(maps) : maps'[k].parent = IF k = i THEN to ELSE maps[k].parent
    BY <2>2, <2>3, ZenonT(60)
  <2> QED
    BY <2>2, <2>4, <2>5, ZenonT(60)
<1> QED
  BY <1>1, <1>2, <1>3, <1>4, <1>5, <1>6, <1>7

\* avoid_pipe_conflicts(): an end stays or goes to a free number.
LEMMA AvoidEffect ==
  ASSUME TypeOK, AvoidPipeConflicts, pc' # "dead"
  PROVE  /\ pc = "avoid" /\ pc' = "avoid" /\ i' = i + 1
         /\ UNCHANGED <<cfg, maps, elf, rules, childFds, env, prules>> /\ cloexec' \subseteq cloexec
         /\ \/ UNCHANGED <<table, pipes>>
            \/ \E q \in PipeNames, m \in {0, 1}, to \in Fd :
                 /\ pipes[q][m] \in Fd /\ to \notin childFds
                 /\ \/ to = pipes[q][m]
                    \/ pipes[q][m] \in childFds /\ table[to] = Closed /\ to = Unused(table)
                 /\ \A k \in Fd : table'[k] = IF k = to THEN table[pipes[q][m]] ELSE table[k]
                 /\ \A p \in PipeNames, n \in {0, 1} : pipes'[p][n] = IF p = q /\ n = m THEN to ELSE pipes[p][n]
<1> DEFINE e == Ends[i]
           fd == pipes[e.pipe][e.n]
           to == Conflict(table, NoFd, fd)
<1>1. pc = "avoid" /\ i <= Len(Ends) /\ UNCHANGED <<cfg, env, prules>>
  BY DEF AvoidPipeConflicts, callerVars
<1>2. i \in 1 .. 10
  <2>1. i <= Len(Ends) /\ i \in Nat \ {0}
    BY <1>1 DEF TypeOK
  <2> QED
    BY <2>1, EndsTypes
<1>3. e.pipe \in PipeNames /\ e.n \in {0, 1}
  BY <1>2, EndsTypes
<1>4. fd \in Fd \cup {NoFd}
  BY <1>3, PipesOfTypes, ZenonT(60)
<1>5. ~(fd # NoFd /\ to = NoFd)
  BY DEF AvoidPipeConflicts, Die
<1>6. i' = i + 1 /\ UNCHANGED <<pc, maps, elf, rules, childFds>>
  BY <1>5 DEF AvoidPipeConflicts
<1>7. CASE fd = NoFd
  <2>1. UNCHANGED <<table, cloexec, pipes>>
    BY <1>5, <1>7, ZenonT(60) DEF AvoidPipeConflicts
  <2> QED
    BY <1>1, <1>6, <2>1
<1>8. CASE fd # NoFd
  <2>1. Moved(fd, to) /\ pipes' = [pipes EXCEPT ![e.pipe][e.n] = to]
    BY <1>5, <1>8, ZenonT(60) DEF AvoidPipeConflicts
  <2>2. fd \in Fd /\ NoFd \notin Fd /\ to # NoFd
    BY <1>4, <1>5, <1>8, SMTT(60) DEF NoFd, Fd
  <2>3. /\ to \in Fd
        /\ \/ to = fd /\ fd \notin childFds
           \/ fd \in childFds /\ table[to] = Closed /\ to \notin childFds /\ to = Unused(table)
    <3> HIDE DEF fd
    <3> QED
      BY <2>2, ConflictFree
  <2> HIDE DEF to, fd
  <2>4. /\ \A k \in Fd : table'[k] = IF k = to THEN table[fd] ELSE table[k]
        /\ cloexec' \subseteq cloexec
    BY <2>1, <2>2, <2>3, MovedTable
  <2>5. \A p \in PipeNames, n \in {0, 1} : pipes'[p][n] = IF p = e.pipe /\ n = e.n THEN to ELSE pipes[p][n]
    <3> HIDE DEF e
    <3> QED
      BY <1>3, <2>1, ZenonT(60) DEF TypeOK, PipeNumbers
  <2> HIDE DEF e
  <2>6. \E q \in PipeNames, m \in {0, 1}, x \in Fd :
          /\ pipes[q][m] \in Fd /\ x \notin childFds
          /\ \/ x = pipes[q][m]
             \/ pipes[q][m] \in childFds /\ table[x] = Closed /\ x = Unused(table)
          /\ \A k \in Fd : table'[k] = IF k = x THEN table[pipes[q][m]] ELSE table[k]
          /\ \A p \in PipeNames, n \in {0, 1} : pipes'[p][n] = IF p = q /\ n = m THEN x ELSE pipes[p][n]
    <3> USE <1>3, <2>3
    <3> WITNESS e.pipe \in PipeNames, e.n \in {0, 1}, to \in Fd
    <3> QED
      BY <2>2, <2>3, <2>4, <2>5 DEF fd
  <2> QED
    BY <1>1, <1>6, <2>4, <2>6, ZenonT(60)
<1> QED
  BY <1>7, <1>8

\* The descriptor for fexecve(2) stays or goes to a free number.
LEMMA ElfEffect ==
  ASSUME TypeOK, MoveElf, pc' # "dead"
  PROVE  /\ pc = "avoid" /\ pc' = "dup" /\ i' = 1
         /\ UNCHANGED <<cfg, maps, pipes, rules, childFds, env, prules>> /\ cloexec' \subseteq cloexec
         /\ \/ UNCHANGED <<table, elf>>
            \/ \E to \in Fd :
                 /\ elf \in childFds /\ table[to] = Closed /\ elf' = to
                 /\ \A k \in Fd : table'[k] = IF k = to THEN table[elf] ELSE table[k]
<1> DEFINE to == Conflict(table, NoFd, elf)
<1>1. pc = "avoid" /\ UNCHANGED <<cfg, env, prules>>
  BY DEF MoveElf, callerVars
<1>2. ~(elf # NoFd /\ to = NoFd)
  BY DEF MoveElf, Die
<1>3. pc' = "dup" /\ i' = 1 /\ UNCHANGED <<maps, pipes, rules, childFds>>
  BY <1>2 DEF MoveElf, Next1
<1>4. CASE elf = NoFd
  BY <1>1, <1>2, <1>3, <1>4 DEF MoveElf
<1>5. CASE elf # NoFd
  <2>1. Moved(elf, to) /\ elf' = to /\ elf \in Fd /\ to # NoFd
    BY <1>2, <1>5 DEF MoveElf, TypeOK
  <2>2. /\ to \in Fd
        /\ \/ to = elf /\ elf \notin childFds
           \/ elf \in childFds /\ table[to] = Closed
    BY <2>1, ConflictFree
  <2> HIDE DEF to
  <2>3. cloexec' \subseteq cloexec /\ \A k \in Fd : table'[k] = IF k = to THEN table[elf] ELSE table[k]
    BY <2>1, <2>2, MovedTable
  <2>4. CASE to = elf
    BY <1>1, <1>3, <2>1, <2>4 DEF Moved
  <2>5. CASE to # elf
    BY <1>1, <1>3, <2>1, <2>2, <2>3, <2>5
  <2> QED
    BY <2>4, <2>5
<1> QED
  BY <1>4, <1>5

\* redirect_fds(), first loop: dup2(2).
LEMMA DupEffect ==
  ASSUME TypeOK, RedirectFds, pc' # "dead"
  PROVE  /\ pc = "dup" /\ pc' = "dup" /\ i \in 1 .. Len(maps) /\ i' = i + 1
         /\ maps[i].parent \in Fd /\ maps[i].child \in Fd
         /\ UNCHANGED <<cfg, maps, pipes, elf, rules, childFds, env, prules>>
         /\ cloexec' = cloexec \ {maps[i].child}
         /\ \A k \in Fd : table'[k] = IF k = maps[i].child THEN table[maps[i].parent] ELSE table[k]
<1> DEFINE m == maps[i]
<1>1. pc = "dup" /\ i \in 1 .. Len(maps) /\ UNCHANGED <<cfg, env, prules>>
  BY DEF RedirectFds, TypeOK, callerVars
<1>2. m.parent \in Fd /\ m.child \in Fd /\ table \in Tables
  <2>1. m \in Redirect
    BY <1>1 DEF TypeOK
  <2> HIDE DEF m
  <2> QED
    BY <2>1 DEF Redirect, TypeOK
<1>3. ~(table[m.parent] = Closed /\ m.parent # m.child)
  BY DEF RedirectFds, Die
<1>4. /\ table' = IF m.parent = m.child THEN table ELSE Dup2(table, m.parent, m.child)
      /\ cloexec' = cloexec \ {m.child}
      /\ i' = i + 1 /\ UNCHANGED <<pc, maps, pipes, elf, rules, childFds>>
  BY <1>3 DEF RedirectFds
<1>5. \A k \in Fd : table'[k] = IF k = m.child THEN table[m.parent] ELSE table[k]
  <2>1. \A k \in Fd : Dup2(table, m.parent, m.child)[k] = IF k = m.child THEN table[m.parent] ELSE table[k]
    <3> HIDE DEF m
    <3> QED
      BY <1>2, Dup2Table, ZenonT(60)
  <2>2. CASE m.parent = m.child
    BY <1>4, <2>2
  <2>3. CASE m.parent # m.child
    <3>1. table' = Dup2(table, m.parent, m.child)
      BY <1>4, <2>3
    <3> QED
      BY <2>1, <3>1, ZenonT(60)
  <2> QED
    BY <2>2, <2>3
<1> QED
  BY <1>1, <1>2, <1>4, <1>5

\* redirect_fds(), second loop.
LEMMA CloseParentsEffect ==
  ASSUME TypeOK, CloseParents
  PROVE  /\ pc = "dup" /\ pc' = "sync2" /\ i > Len(maps)
         /\ UNCHANGED <<cfg, cloexec, maps, pipes, elf, rules, childFds, env, prules>>
         /\ \A k \in Fd : table'[k] = IF k \in Parents \ childFds THEN Closed ELSE table[k]
<1>1. /\ pc = "dup" /\ pc' = "sync2" /\ i > Len(maps) /\ table' = Close(table, Parents \ childFds)
      /\ UNCHANGED <<cfg, cloexec, maps, pipes, elf, rules, childFds, env, prules>>
  BY DEF CloseParents, Next1, callerVars, Parents
<1> QED
  BY <1>1, CloseTable DEF TypeOK

\* wait_for_parent_setup().
LEMMA WaitEffect ==
  ASSUME TypeOK, WaitForParentSetup
  PROVE  /\ pc = "sync2" /\ pc' = "std" /\ i' = 1
         /\ UNCHANGED <<cfg, cloexec, maps, elf, rules, childFds, env, prules>>
         /\ \A k \in Fd : table'[k] = IF k \in {pipes["sync"][0], pipes["sync"][1]} THEN Closed ELSE table[k]
         /\ \A p \in PipeNames, n \in {0, 1} : pipes'[p][n] = IF p = "sync" THEN NoFd ELSE pipes[p][n]
<1>1. /\ pc = "sync2" /\ pc' = "std" /\ i' = 1
      /\ UNCHANGED <<cfg, cloexec, maps, elf, rules, childFds, env, prules>>
      /\ table' = Close(table, {pipes["sync"][0], pipes["sync"][1]})
      /\ pipes' = [pipes EXCEPT !["sync"] = [n \in {0, 1} |-> NoFd]]
  BY DEF WaitForParentSetup, Next1, Reset, callerVars
<1>2. \A p \in PipeNames, n \in {0, 1} : pipes'[p][n] = IF p = "sync" THEN NoFd ELSE pipes[p][n]
  BY <1>1 DEF TypeOK, PipeNumbers
<1>3. \A k \in Fd : table'[k] = IF k \in {pipes["sync"][0], pipes["sync"][1]} THEN Closed ELSE table[k]
  BY <1>1, CloseTable DEF TypeOK
<1> QED
  BY <1>1, <1>2, <1>3, ZenonT(60)

\* setup_child_std_fds(), one descriptor.
LEMMA StdEffect ==
  ASSUME TypeOK, SetupChildStdFds
  PROVE  LET from == pipes[Std[i].pipe][Std[i].n]
         IN /\ pc = "std" /\ pc' = "std" /\ i \in 1 .. 3 /\ i' = i + 1
            /\ UNCHANGED <<cfg, maps, pipes, elf, rules, childFds, env, prules>>
            /\ Std[i].pipe \in StdPipes /\ Std[i].n \in {0, 1} /\ from \in Fd \cup {NoFd}
            /\ cloexec' \subseteq cloexec /\ (from \notin {NoFd, i - 1} => i - 1 \notin cloexec')
            /\ \A k \in Fd : table'[k] = IF from # NoFd /\ k = i - 1 THEN table[from] ELSE table[k]
<1> DEFINE from == pipes[Std[i].pipe][Std[i].n]
<1>1. /\ pc = "std" /\ i \in 1 .. 3 /\ i' = i + 1
      /\ UNCHANGED <<cfg, pc, maps, pipes, elf, rules, childFds, env, prules>>
  BY DEF SetupChildStdFds, TypeOK, callerVars
<1>2. Std[i].pipe \in StdPipes /\ Std[i].n \in {0, 1} /\ Std[i].pipe \in PipeNames
  BY <1>1 DEF Std, StdPipes, PipeNames
<1>3. from \in Fd \cup {NoFd}
  BY <1>2, PipesOfTypes, ZenonT(60)
<1>4. CASE from = NoFd \/ from = i - 1
  <2>1. UNCHANGED <<table, cloexec>>
    BY <1>4, ZenonT(60) DEF SetupChildStdFds
  <2> HIDE DEF from
  <2>2. \A k \in Fd : table'[k] = IF from # NoFd /\ k = i - 1 THEN table[from] ELSE table[k]
    BY <1>4, <2>1
  <2>3. cloexec' \subseteq cloexec /\ (from \notin {NoFd, i - 1} => i - 1 \notin cloexec')
    BY <1>4, <2>1, ZenonT(60)
  <2> QED
    BY <1>1, <1>2, <1>3, <2>2, <2>3, ZenonT(60) DEF from
<1>5. CASE ~(from = NoFd \/ from = i - 1)
  <2>1. table' = Dup2(table, from, i - 1) /\ cloexec' = cloexec \ {i - 1}
    BY <1>5 DEF SetupChildStdFds
  <2> HIDE DEF from
  <2>2. \A k \in Fd : table'[k] = IF from # NoFd /\ k = i - 1 THEN table[from] ELSE table[k]
    BY <1>5, <2>1 DEF Dup2, TypeOK, Tables
  <2>3. cloexec' \subseteq cloexec /\ (from \notin {NoFd, i - 1} => i - 1 \notin cloexec')
    BY <2>1
  <2> QED
    BY <1>1, <1>2, <1>3, <2>2, <2>3 DEF from
<1> QED
  BY <1>4, <1>5, ZenonT(60)

\* The numbers that CloseStdPipes closes.
StdNumbers(ps) == {ps[p][n] : p \in StdPipes, n \in {0, 1}}

\* They are the ends of the standard pipes.
LEMMA StdNumbersAre == \A ps : \A p \in StdPipes, n \in {0, 1} : ps[p][n] \in StdNumbers(ps)
BY DEF StdNumbers

\* A number that is none of them.
LEMMA NotStdNumbers ==
  ASSUME NEW ps, NEW k, \A p \in StdPipes, n \in {0, 1} : ps[p][n] # k
  PROVE  k \notin StdNumbers(ps)
BY DEF StdNumbers

\* The end of setup_child_std_fds().
LEMMA CloseStdEffect ==
  ASSUME TypeOK, CloseStdPipes
  PROVE  /\ pc = "std" /\ pc' = "enter" /\ i > 3
         /\ UNCHANGED <<cfg, cloexec, maps, elf, rules, childFds, env, prules>>
         /\ \A k \in Fd : table'[k] = IF k \in StdNumbers(pipes) THEN Closed ELSE table[k]
         /\ \A p \in PipeNames, n \in {0, 1} : pipes'[p][n] = IF p \in StdPipes THEN NoFd ELSE pipes[p][n]
<1>1. /\ pc = "std" /\ pc' = "enter" /\ i > 3
      /\ UNCHANGED <<cfg, cloexec, maps, elf, rules, childFds, env, prules>>
      /\ table' = Close(table, StdNumbers(pipes))
  BY DEF CloseStdPipes, StdNumbers, Next1, callerVars
<1>2. \A p \in PipeNames, n \in {0, 1} : pipes'[p][n] = IF p \in StdPipes THEN NoFd ELSE pipes[p][n]
  BY DEF CloseStdPipes
<1>3. \A k \in Fd : table'[k] = IF k \in StdNumbers(pipes) THEN Closed ELSE table[k]
  BY <1>1, CloseTable DEF TypeOK
<1> QED
  BY <1>1, <1>2, <1>3, ZenonT(60)

\* minijail_enter() before execve(2).
LEMMA EnterEffect ==
  ASSUME TypeOK, EnterBeforeExec, pc' # "dead"
  PROVE  LET net == IF Preload THEN NoFd ELSE cfg.netns
             rs  == IF Preload THEN NoFd ELSE Landlocked(rules)
         IN /\ pc = "enter" /\ pc' = "exec"
            /\ UNCHANGED <<cfg, cloexec, maps, pipes, elf, rules, childFds, env, prules>>
            /\ Usable(table, cfg.mountns, CallerFile(cfg.mountns))
            /\ Usable(table, net, CallerFile(net)) /\ Usable(table, rs, Ruleset)
            /\ \A k \in Fd : table'[k] = IF k \in {cfg.mountns, net, rs} THEN Closed ELSE table[k]
<1> DEFINE net == IF Preload THEN NoFd ELSE cfg.netns
           rs  == IF Preload THEN NoFd ELSE Landlocked(rules)
<1>1. /\ pc = "enter" /\ pc' = "exec"
      /\ UNCHANGED <<cfg, cloexec, maps, pipes, elf, rules, childFds, env, prules>>
      /\ Usable(table, cfg.mountns, CallerFile(cfg.mountns))
      /\ Usable(table, net, CallerFile(net)) /\ Usable(table, rs, Ruleset)
      /\ table' = Close(table, {cfg.mountns, net, rs})
  BY DEF EnterBeforeExec, Next1, Die, callerVars
<1> HIDE DEF net, rs
<1>2. \A k \in Fd : table'[k] = IF k \in {cfg.mountns, net, rs} THEN Closed ELSE table[k]
  BY <1>1, CloseTable DEF TypeOK
<1> QED
  BY <1>1, <1>2 DEF net, rs

\* What is left to close, and execve(2).
LEMMA ExecEffect ==
  ASSUME TypeOK, Exec
  PROVE  /\ pc = "exec" /\ pc' = (IF Preload THEN "library" ELSE "main") /\ cloexec' = {}
         /\ UNCHANGED <<cfg, maps, pipes, elf, rules, childFds, env, prules>>
         /\ \A k \in Fd : table'[k] = IF k \in cloexec \cup (PipesOf(pipes) \ {pipes["config"][0]})
                                      THEN Closed ELSE table[k]
<1> DEFINE S == cloexec \cup (PipesOf(pipes) \ {pipes["config"][0]})
<1>1. /\ pc = "exec" /\ pc' = (IF Preload THEN "library" ELSE "main") /\ cloexec' = {}
      /\ UNCHANGED <<cfg, maps, pipes, elf, rules, childFds, env, prules>>
      /\ table' = Close(table, S)
  BY DEF Exec, Next1, callerVars
<1> HIDE DEF S
<1>2. \A k \in Fd : table'[k] = IF k \in S THEN Closed ELSE table[k]
  BY <1>1, CloseTable DEF TypeOK
<1> QED
  BY <1>1, <1>2 DEF S

\* The preloaded library.
LEMMA LibraryEffect ==
  ASSUME TypeOK, EnterAfterExec, pc' # "dead"
  PROVE  LET t  == WithRules(table)
             rs == Landlocked(prules)
         IN /\ pc = "library" /\ pc' = "main"
            /\ UNCHANGED <<cfg, maps, pipes, elf, rules, childFds, env, prules>>
            /\ table[env] = PipeEnd("config", 0)
            /\ Usable(t, cfg.netns, CallerFile(cfg.netns)) /\ Usable(t, rs, Ruleset)
            /\ cloexec' = cloexec \cup ({RulesFd(table)} \ {NoFd})
            /\ \A k \in Fd : table'[k] = IF k \in {env, cfg.netns, rs} THEN Closed ELSE t[k]
<1> DEFINE t  == WithRules(table)
           rs == Landlocked(prules)
<1>1. /\ pc = "library" /\ pc' = "main"
      /\ UNCHANGED <<cfg, maps, pipes, elf, rules, childFds, env, prules>>
      /\ table[env] = PipeEnd("config", 0)
      /\ Usable(t, cfg.netns, CallerFile(cfg.netns)) /\ Usable(t, rs, Ruleset)
      /\ cloexec' = cloexec \cup ({RulesFd(table)} \ {NoFd})
      /\ table' = Close(t, {env, cfg.netns, rs})
  BY DEF EnterAfterExec, Next1, Die, callerVars
<1>2. t \in Tables
  BY RulesTypes
<1> HIDE DEF t, rs
<1>3. \A k \in Fd : table'[k] = IF k \in {env, cfg.netns, rs} THEN Closed ELSE t[k]
  BY <1>1, <1>2, CloseTable
<1> QED
  BY <1>1, <1>3 DEF t, rs

-----------------------------------------------------------------------------
(* The caller's descriptors. *)

\* A pipe goes to numbers that were free.
LEMMA SetupPipeHolds ==
  ASSUME TypeOK, CallerSideInv, NEW p \in PipeNames, SetupPipe(p)
  PROVE  CallerSideInv'
<1>1. /\ ppc = "shared" /\ pc = p /\ pc' = After(p) /\ UNCHANGED <<cfg, callerVars>>
  BY DEF SetupPipe
<1>2. /\ Holds(table, pipes, {}) /\ \A q \in Pending(p), n \in {0, 1} : pipes[q][n] = NoFd
  BY <1>1 DEF CallerSideInv
<1>3. /\ ppc' = "shared" /\ After(p) \in PipeNames \cup {"clone"} /\ p \in Pending(p)
      /\ Pending(After(p)) \subseteq Pending(p) \ {p}
  BY <1>1 DEF callerVars, After, Pending, PipeNames
<1>4. CASE p \notin cfg.pipes
  <2>1. UNCHANGED <<table, pipes>>
    BY <1>4 DEF SetupPipe
  <2>2. Holds(table, pipes, {})'
    BY <1>1, <1>2, <2>1 DEF Holds, PipesOf
  <2> QED
    BY <1>1, <1>2, <1>3, <2>1, <2>2 DEF CallerSideInv, CallerFds
<1>5. CASE p \in cfg.pipes
  <2>1. PICK a, b \in Fd :
          /\ a # b /\ table[a] = Closed /\ table[b] = Closed
          /\ table'[a] = PipeEnd(p, 0) /\ table'[b] = PipeEnd(p, 1)
          /\ \A k \in Fd \ {a, b} : table'[k] = table[k]
          /\ pipes'[p][0] = a /\ pipes'[p][1] = b
    BY <1>5, MakePipeTable DEF SetupPipe
  <2>2. \A q \in PipeNames \ {p} : pipes'[q] = pipes[q]
    BY <1>5, MakePipeTable DEF SetupPipe
  <2>3. \A fd \in cfg.open : table'[fd] = CallerFile(fd)
    BY <1>2, <2>1, CallTypes, FilesDiffer DEF Holds
  <2>4. \A q \in PipeNames, n \in {0, 1} : pipes'[q][n] # NoFd => table'[pipes'[q][n]] = PipeEnd(q, n)
    <3> SUFFICES ASSUME NEW q \in PipeNames, NEW n \in {0, 1}, pipes'[q][n] # NoFd
                 PROVE  table'[pipes'[q][n]] = PipeEnd(q, n)
      OBVIOUS
    <3>1. CASE q = p
      BY <2>1, <3>1, ZenonT(60)
    <3>2. CASE q # p
      BY <1>2, <2>1, <2>2, <3>2, PipesOfTypes, FilesDiffer DEF Holds
    <3> QED
      BY <3>1, <3>2
  <2>5. \A fd \in Fd \ cfg.open : table'[fd] # Closed => fd \in PipesOf(pipes')
    <3> SUFFICES ASSUME NEW fd \in Fd \ cfg.open, table'[fd] # Closed PROVE fd \in PipesOf(pipes')
      OBVIOUS
    <3>1. CASE fd \in {a, b}
      BY <2>1, <3>1 DEF PipesOf
    <3>2. CASE fd \notin {a, b}
      <4>1. fd \in PipesOf(pipes)
        BY <1>2, <2>1, <3>2 DEF Holds
      <4>2. PICK q \in PipeNames, n \in {0, 1} : fd = pipes[q][n]
        BY <4>1 DEF PipesOf
      <4>3. q # p
        BY <1>2, <1>3, <4>2, NoFdNot, ZenonT(60)
      <4> QED
        BY <2>2, <4>2, <4>3 DEF PipesOf
    <3> QED
      BY <3>1, <3>2
  <2>6. Holds(table, pipes, {})'
    BY <1>1, <2>3, <2>4, <2>5 DEF Holds
  <2>7. \A q \in Pending(After(p)), n \in {0, 1} : pipes'[q][n] = NoFd
    <3>1. \A q \in Pending(After(p)) : q \in Pending(p) /\ q \in PipeNames \ {p}
      BY <1>3 DEF Pending, After, PipeNames
    <3> QED
      BY <1>2, <2>2, <3>1
  <2> QED
    BY <1>1, <1>3, <2>6, <2>7, ZenonT(60) DEF CallerSideInv, CallerFds
<1> QED
  BY <1>4, <1>5

\* A pipe's end is none of the caller's own descriptors.
LEMMA EndsAreNotOpen ==
  ASSUME NEW t, NEW ps, NEW F, Holds(t, ps, F), NoFd \notin cfg.open
  PROVE  PipesOf(ps) \cap cfg.open = {}
BY FilesDiffer DEF Holds, PipesOf

\* The error path of the pipes, the clone, and the rest of the caller.
LEMMA CallerSideStep ==
  ASSUME TypeOK, CallerSideInv,
         \/ \E p \in PipeNames : PipeFails(p)
         \/ Clone \/ RunReturns \/ ChildStep
  PROVE  CallerSideInv'
<1>0. table \in Tables /\ ptable \in Tables /\ cfg.open \subseteq Fd /\ NoFd \notin Fd
  BY CallTypes, NoFdNot, ZenonT(60) DEF TypeOK
<1>1. ASSUME NEW p \in PipeNames, PipeFails(p) PROVE CallerSideInv'
  <2>1. /\ ppc = "shared" /\ pc' = "none" /\ ppc' = "returned" /\ UNCHANGED cfg
        /\ ptable' = Close(table, PipesOf(pipes))
    BY <1>1 DEF PipeFails
  <2>2. Holds(table, pipes, {})
    BY <2>1 DEF CallerSideInv
  <2>3. \A fd \in Fd : ptable'[fd] = IF fd \in PipesOf(pipes) THEN Closed ELSE table[fd]
    BY <1>0, <2>1, CloseTable
  <2>4. \A fd \in cfg.open : ptable'[fd] = CallerFile(fd)
    BY <1>0, <2>2, <2>3, EndsAreNotOpen DEF Holds
  <2>5. \A fd \in Fd \ cfg.open : ptable'[fd] = Closed
    BY <2>2, <2>3, ZenonT(60) DEF Holds
  <2> QED
    BY <2>1, <2>4, <2>5 DEF CallerSideInv, CallerFds, Open, PipeNames
<1>2. CASE Clone
  <2>1. /\ ppc = "shared" /\ pc' = "closefds" /\ ppc' = "forked" /\ UNCHANGED cfg
        /\ ptable' = WithRules(table) /\ ppipes' = pipes
    BY <1>2, ZenonT(60) DEF Clone
  <2>2. Holds(table, pipes, {})
    BY <2>1 DEF CallerSideInv
  <2>3. \A fd \in Fd : ptable'[fd] = IF fd = RulesFd(table) THEN Ruleset ELSE table[fd]
    BY <2>1, RulesTable
  <2>4. \A fd \in Fd : table[fd] # Closed => ptable'[fd] = table[fd]
    BY <1>0, <2>3, RulesTypes, ZenonT(60)
  <2>5. \A fd \in cfg.open : ptable'[fd] = CallerFile(fd)
    BY <1>0, <2>2, <2>4, FilesDiffer, ZenonT(60) DEF Holds
  <2>6. \A q \in PipeNames, n \in {0, 1} : pipes[q][n] # NoFd => ptable'[pipes[q][n]] = PipeEnd(q, n)
    BY <2>2, <2>4, PipesOfTypes, FilesDiffer DEF Holds
  <2>7. \A fd \in Fd \ cfg.open : ptable'[fd] # Closed => ptable'[fd] = Ruleset \/ fd \in PipesOf(pipes)
    BY <2>2, <2>3 DEF Holds
  <2>8. Holds(ptable, ppipes, {Ruleset})'
    BY <2>1, <2>5, <2>6, <2>7, ZenonT(60) DEF Holds
  <2> QED
    BY <2>1, <2>8 DEF CallerSideInv, CallerFds, PipeNames
<1>3. CASE RunReturns
  <2> DEFINE kept == {ppipes["stdin"][1], ppipes["stdout"][0], ppipes["stderr"][0]}
             gone == (PipesOf(ppipes) \ kept) \cup {cfg.mountns, cfg.netns}
             far == {PipeEnd("stdin", 1), PipeEnd("stdout", 0), PipeEnd("stderr", 0)}
  <2>1. /\ ppc = "forked" /\ ppc' = "returned" /\ UNCHANGED <<cfg, pc>> /\ ptable' = Close(ptable, gone)
    BY <1>3 DEF RunReturns, childVars
  <2>2. Holds(ptable, ppipes, {Ruleset}) /\ pc # "none"
    BY <2>1 DEF CallerSideInv
  <2>3. \A fd \in Fd : ptable'[fd] = IF fd \in gone THEN Closed ELSE ptable[fd]
    <3> HIDE DEF gone
    <3> QED
      BY <1>0, <2>1, CloseTable
  <2>4. \A fd \in cfg.open \ {cfg.mountns, cfg.netns} : ptable'[fd] = CallerFile(fd)
    <3> SUFFICES ASSUME NEW fd \in cfg.open \ {cfg.mountns, cfg.netns} PROVE ptable'[fd] = CallerFile(fd)
      OBVIOUS
    <3>1. fd \notin PipesOf(ppipes)
      BY <1>0, <2>2, EndsAreNotOpen
    <3> QED
      BY <1>0, <2>2, <2>3, <3>1 DEF Holds
  <2>5. \A fd \in Fd \ cfg.open : ptable'[fd] # Closed => ptable'[fd] \in far \cup {Ruleset}
    <3> SUFFICES ASSUME NEW fd \in Fd \ cfg.open, ptable'[fd] # Closed PROVE ptable'[fd] \in far \cup {Ruleset}
      OBVIOUS
    <3>1. fd \notin gone /\ ptable'[fd] = ptable[fd]
      BY <2>3
    <3>2. ptable[fd] = Ruleset \/ fd \in PipesOf(ppipes)
      BY <2>2, <3>1 DEF Holds
    <3>3. CASE fd \in PipesOf(ppipes)
      <4>1. fd \in kept /\ fd # NoFd
        BY <1>0, <3>1, <3>3
      <4>2. \A q \in PipeNames, n \in {0, 1} : ppipes[q][n] = fd => ptable[fd] = PipeEnd(q, n)
        BY <2>2, <4>1 DEF Holds
      <4> QED
        BY <3>1, <4>1, <4>2 DEF PipeNames
    <3> QED
      BY <3>1, <3>2, <3>3
  <2>6. pc \notin PipeNames \cup {"clone"}
    BY <2>1, ZenonT(60) DEF CallerSideInv
  <2> QED
    BY <2>1, <2>2, <2>4, <2>5, <2>6 DEF CallerSideInv, CallerFds, Open
<1>4. CASE ChildStep
  <2>1. /\ UNCHANGED <<cfg, ppc, ptable, ppipes>> /\ ppc # "shared"
        /\ pc' \notin PipeNames \cup {"clone", "none"} /\ pc # "none"
    BY <1>4, ChildFrame, ZenonT(60) DEF callerVars
  <2>2. Holds(ptable, ppipes, {Ruleset}) => Holds(ptable, ppipes, {Ruleset})'
    BY <2>1 DEF Holds
  <2> QED
    BY <2>1, <2>2 DEF CallerSideInv, CallerFds
<1> QED
  BY <1>1, <1>2, <1>3, <1>4

\* A run of minijail leaves its caller the descriptors it had: the inductive
\* form, with the caller's table at every point of minijail_run_internal().
THEOREM CallerSideInvariant == Spec => []CallerSideInv
<1>1. Init => CallerSideInv
  <2> SUFFICES ASSUME Init PROVE CallerSideInv
    OBVIOUS
  <2>1. cfg \in Run
    BY RunAssumption DEF Init
  <2>2. cfg.open \subseteq Fd
    BY <2>1 DEF Run
  <2>3. Holds(table, pipes, {})
    BY <2>2 DEF Init, Holds
  <2>4. \A p \in Pending(pc), n \in {0, 1} : pipes[p][n] = NoFd
    BY DEF Init, Pending
  <2> QED
    BY <2>3, <2>4 DEF Init, CallerSideInv, CallerFds, PipeNames
<1>2. TypeOK /\ CallerSideInv /\ [Next]_vars => CallerSideInv'
  <2> SUFFICES ASSUME TypeOK, CallerSideInv, [Next]_vars PROVE CallerSideInv'
    BY ZenonT(60)
  <2>1. CASE UNCHANGED vars
    BY <2>1, ZenonT(60) DEF vars, childVars, callerVars, CallerSideInv, CallerFds, Holds
  <2> QED
    BY <2>1, SetupPipeHolds, CallerSideStep DEF Next, Over
<1> QED
  BY <1>1, <1>2, FdTypeCorrect, PTL DEF Spec

\* A run leaves the caller the descriptors it had, the far ends of the pipes
\* it asked for and the ruleset it made, and a run that fails leaves it as it
\* was, whatever pipe(2) fails and whenever the caller goes on.
THEOREM CallerFdsTheorem == Spec => []CallerFds
<1>1. CallerSideInv => CallerFds
  BY ZenonT(60) DEF CallerSideInv
<1> QED
  BY <1>1, CallerSideInvariant, PTL

-----------------------------------------------------------------------------
(* What minijail preserves besides, and the numbers it remembers. *)

\* A step of the child that keeps the list's children and leads on from the
\* number in the environment.
LEMMA ListFrame ==
  ASSUME ListInv, ChildStep, UNCHANGED rules,
         \A k \in 1 .. Len(maps') : k > Len(cfg.maps) => maps'[k].child \in {rules, cfg.mountns, cfg.netns},
         Preload /\ pc' # "dead" => env = pipes'["config"][0] \/ env \in childFds'
  PROVE  ListInv'
<1>1. /\ UNCHANGED <<cfg, env, ppc, prules>> /\ ppc # "shared"
      /\ pc \notin {"config", "none"} /\ pc' \notin {"config", "none"}
  BY ChildFrame DEF callerVars, PipeNames
<1>2. pc # "dead"
  BY ChildFrame
<1> QED
  BY <1>1, <1>2 DEF ListInv, Preload

\* A step of the child.
LEMMA ListChild ==
  ASSUME TypeOK, CallerSideInv, RedirectInv, ListInv, ChildStep
  PROVE  ListInv'
<1>1. /\ UNCHANGED <<cfg, env>> /\ pc \notin {"config", "none"} /\ "config" \in PipeNames /\ NoFd \notin Fd
  BY ChildFrame DEF PipeNames, NoFd, Fd
<1>2. pc # "dead"
  BY ChildFrame
<1>3. /\ Preload => env # NoFd /\ (env = pipes["config"][0] \/ env \in childFds)
      /\ \A k \in 1 .. Len(maps) : k > Len(cfg.maps) => maps[k].child \in {rules, cfg.mountns, cfg.netns}
  BY <1>1, <1>2, ZenonT(60) DEF ListInv
<1>4. /\ maps \in Seq(Redirect) /\ Len(maps) \in Nat /\ cfg.maps \in Seq(Redirect)
  BY CallTypes DEF TypeOK
<1>5. CASE pc' = "dead"
  <2>1. CASE CloseOpenFds \/ GetChildFds \/ GetChildFdsDone \/ AvoidPipeConflicts \/ MoveElf
    <3>1. UNCHANGED <<maps, rules>>
      BY <1>5, <2>1, ZenonT(60) DEF CloseOpenFds, GetChildFds, GetChildFdsDone, AvoidPipeConflicts, MoveElf, Next1, Die
    <3> QED
      BY <1>3, <1>5, <3>1, ListFrame, ZenonT(60)
  <2>2. CASE RedirectFds \/ CloseParents \/ WaitForParentSetup \/ SetupChildStdFds
    <3>1. UNCHANGED <<maps, rules>>
      BY <2>2, ZenonT(60) DEF RedirectFds, CloseParents, WaitForParentSetup, SetupChildStdFds, Die
    <3> QED
      BY <1>3, <1>5, <3>1, ListFrame
  <2>3. CASE CloseStdPipes \/ EnterBeforeExec \/ Exec \/ EnterAfterExec
    <3>1. CloseStdPipes => UNCHANGED <<maps, rules>>
      BY DEF CloseStdPipes
    <3>2. EnterBeforeExec \/ Exec \/ EnterAfterExec => UNCHANGED <<maps, rules>>
      BY ZenonT(60) DEF EnterBeforeExec, Exec, EnterAfterExec, Die
    <3>3. UNCHANGED <<maps, rules>>
      BY <2>3, <3>1, <3>2, ZenonT(60)
    <3> QED
      BY <1>3, <1>5, <3>3, ListFrame
  <2> QED
    BY <2>1, <2>2, <2>3, ZenonT(60) DEF ChildStep
<1>6. CASE CloseOpenFds
  <2>1. /\ UNCHANGED <<pipes, rules, childFds>>
        /\ maps' \in Seq(Redirect) /\ Len(maps) <= Len(maps')
        /\ \A k \in 1 .. Len(maps) : maps'[k] = maps[k]
        /\ \A k \in 1 .. Len(maps') : k > Len(maps) => maps'[k].child \in {cfg.mountns, cfg.netns}
    BY <1>6, CloseFdsEffect
  <2>2. \A k \in 1 .. Len(maps') : k > Len(cfg.maps) => maps'[k].child \in {rules, cfg.mountns, cfg.netns}
    <3> SUFFICES ASSUME NEW k \in 1 .. Len(maps'), k > Len(cfg.maps)
                 PROVE  maps'[k].child \in {rules, cfg.mountns, cfg.netns}
      OBVIOUS
    <3>1. CASE k <= Len(maps)
      <4>1. k \in 1 .. Len(maps) /\ maps'[k] = maps[k]
        BY <1>4, <2>1, <3>1
      <4> QED
        BY <1>3, <4>1
    <3>2. CASE k > Len(maps)
      BY <2>1, <3>2
    <3> QED
      BY <1>4, <3>1, <3>2
  <2> QED
    BY <1>3, <2>1, <2>2, ListFrame
<1>7. CASE GetChildFds /\ pc' # "dead"
  <2>1. /\ UNCHANGED <<pipes, rules>> /\ childFds \subseteq childFds' /\ Len(maps') = Len(maps)
        /\ \A k \in 1 .. Len(maps) : maps'[k].child = maps[k].child
    BY <1>7, GetEffect
  <2>2. \A k \in 1 .. Len(maps') : k > Len(cfg.maps) => maps'[k].child \in {rules, cfg.mountns, cfg.netns}
    BY <1>3, <2>1
  <2>3. Preload => env = pipes'["config"][0] \/ env \in childFds'
    BY <1>3, <2>1
  <2> QED
    BY <2>1, <2>2, <2>3, ListFrame
<1>8. CASE AvoidPipeConflicts /\ pc' # "dead"
  <2>1. /\ UNCHANGED <<maps, rules, childFds>>
        /\ \/ UNCHANGED <<table, pipes>>
           \/ \E q \in PipeNames, m \in {0, 1}, to \in Fd :
                /\ \/ to = pipes[q][m]
                   \/ pipes[q][m] \in childFds
                /\ \A p \in PipeNames, n \in {0, 1} : pipes'[p][n] = IF p = q /\ n = m THEN to ELSE pipes[p][n]
    BY <1>8, AvoidEffect
  <2>2. pipes'["config"][0] = pipes["config"][0] \/ pipes["config"][0] \in childFds
    BY <1>1, <2>1
  <2> QED
    BY <1>3, <2>1, <2>2, ListFrame, ZenonT(60)
<1>9. CASE GetChildFdsDone \/ RedirectFds \/ CloseParents \/ SetupChildStdFds \/ Exec
  <2>1. UNCHANGED <<maps, rules, childFds, pipes>>
    BY <1>9, ZenonT(60) DEF GetChildFdsDone, RedirectFds, CloseParents, SetupChildStdFds, Exec, Die
  <2> QED
    BY <1>3, <2>1, ListFrame, ZenonT(60)
<1>10. CASE EnterBeforeExec \/ EnterAfterExec
  <2>1. UNCHANGED <<maps, rules, childFds, pipes>>
    BY <1>10, ZenonT(60) DEF EnterBeforeExec, EnterAfterExec, Die
  <2> QED
    BY <1>3, <2>1, ListFrame
<1>11. CASE MoveElf /\ pc' # "dead"
  BY <1>3, <1>11, ElfEffect, ListFrame, ZenonT(60)
<1>12. CASE WaitForParentSetup \/ CloseStdPipes
  <2>1. /\ UNCHANGED <<maps, rules, childFds>> /\ pipes'["config"][0] = pipes["config"][0]
    <3>1. "config" \notin StdPipes
      BY DEF StdPipes
    <3>2. CASE WaitForParentSetup
      BY <1>1, <3>2, WaitEffect, ZenonT(60)
    <3>3. CASE CloseStdPipes
      <4>1. /\ UNCHANGED <<maps, rules, childFds>>
            /\ \A p \in PipeNames, n \in {0, 1} : pipes'[p][n] = IF p \in StdPipes THEN NoFd ELSE pipes[p][n]
        BY <3>3, CloseStdEffect
      <4> QED
        BY <1>1, <3>1, <4>1, ZenonT(60)
    <3> QED
      BY <1>12, <3>2, <3>3, ZenonT(60)
  <2> QED
    BY <1>3, <2>1, ListFrame
<1> QED
  BY <1>5, <1>6, <1>7, <1>8, <1>9, <1>10, <1>11, <1>12 DEF ChildStep

\* A step of the caller.
LEMMA ListCaller ==
  ASSUME TypeOK, CallerSideInv, ListInv,
         \/ \E p \in PipeNames : SetupPipe(p) \/ PipeFails(p)
         \/ Clone \/ RunReturns
  PROVE  ListInv'
<1>0. NoFd \notin Fd /\ "config" \in PipeNames /\ cfg.open \subseteq Fd
  BY CallTypes, NoFdNot, ZenonT(60) DEF PipeNames
<1>1. ASSUME NEW p \in PipeNames, SetupPipe(p) PROVE ListInv'
  <2>1. /\ ppc = "shared" /\ pc = p /\ pc' = After(p) /\ UNCHANGED <<cfg, maps, rules, childFds, ppc, prules>>
    BY <1>1, ZenonT(60) DEF SetupPipe, callerVars
  <2>2. /\ maps = cfg.maps /\ rules = NoFd /\ env = pipes["config"][0]
        /\ \A fd \in cfg.open : table[fd] # Closed
    <3>1. \A fd \in cfg.open : table[fd] = CallerFile(fd)
      BY <2>1, ZenonT(60) DEF CallerSideInv, Holds
    <3> QED
      BY <2>1, <3>1, FilesDiffer, ZenonT(60) DEF ListInv
  <2>3. /\ env' = pipes'["config"][0] /\ (env' # NoFd => env' \notin cfg.open)
        /\ p = "config" /\ Preload => env' # NoFd
        /\ p # "config" => env' = env
    <3>1. CASE p \notin cfg.pipes
      <4>1. UNCHANGED <<pipes, env>>
        BY <1>1, <3>1 DEF SetupPipe
      <4> QED
        BY <2>2, <3>1, <4>1 DEF ListInv, Preload
    <3>2. CASE p \in cfg.pipes /\ p = "config"
      <4>1. \E a \in Fd : table[a] = Closed /\ pipes'["config"][0] = a /\ env' = a
        BY <1>1, <3>2, MakePipeTable, ZenonT(60) DEF SetupPipe
      <4> QED
        BY <1>0, <2>2, <3>2, <4>1
    <3>3. CASE p \in cfg.pipes /\ p # "config"
      <4>1. env' = env /\ pipes'["config"] = pipes["config"]
        BY <1>0, <1>1, <3>3, MakePipeTable, ZenonT(60) DEF SetupPipe
      <4> QED
        BY <2>2, <3>3, <4>1 DEF ListInv
    <3> QED
      BY <3>1, <3>2, <3>3
  <2>4. Preload => env' # NoFd
    BY <1>0, <2>1, <2>3, ZenonT(60) DEF ListInv, PipeNames
  <2> QED
    BY <2>1, <2>2, <2>3, <2>4 DEF ListInv, Preload
<1>2. ASSUME NEW p \in PipeNames, PipeFails(p) PROVE ListInv'
  BY <1>2 DEF PipeFails, ListInv, Preload
<1>3. CASE Clone
  <2> DEFINE r == RulesFd(table)
  <2>1. /\ ppc = "shared" /\ pc = "clone" /\ pc' = "closefds" /\ ppc' = "forked"
        /\ prules' = r /\ rules' = r /\ maps' = Preserve(maps, r) /\ UNCHANGED <<cfg, pipes, env, childFds>>
    BY <1>3, ZenonT(60) DEF Clone
  <2>2. /\ maps = cfg.maps /\ env = pipes["config"][0]
        /\ \A fd \in cfg.open : table[fd] # Closed
        /\ env # NoFd => table[env] # Closed
    <3>1. /\ \A fd \in cfg.open : table[fd] = CallerFile(fd)
          /\ \A p \in PipeNames, n \in {0, 1} : pipes[p][n] # NoFd => table[pipes[p][n]] = PipeEnd(p, n)
      BY <2>1, ZenonT(60) DEF CallerSideInv, Holds
    <3>2. maps = cfg.maps /\ env = pipes["config"][0]
      BY <2>1, ZenonT(60) DEF ListInv
    <3>3. env # NoFd => table[env] = PipeEnd("config", 0)
      BY <1>0, <3>1, <3>2
    <3>4. \A fd \in cfg.open : table[fd] # Closed
      BY <3>1, FilesDiffer
    <3>5. env # NoFd => table[env] # Closed
      BY <1>0, <3>3, FilesDiffer
    <3> QED
      BY <3>2, <3>4, <3>5, ZenonT(60)
  <2>3. r \in Fd \cup {NoFd} /\ (r # NoFd => table[r] = Closed /\ cfg.landlock)
    <3>1. r # NoFd => cfg.landlock
      BY DEF RulesFd
    <3> QED
      BY <3>1, RulesTypes
  <2> HIDE DEF r
  <2>4. r # NoFd => r \notin cfg.open /\ r # env
    BY <2>2, <2>3, ZenonT(60)
  <2>5. \A k \in 1 .. Len(maps') : k > Len(cfg.maps) => maps'[k].child = r
    BY <2>1, <2>2, <2>3, PreserveEntry DEF TypeOK
  <2> QED
    BY <2>1, <2>2, <2>3, <2>4, <2>5, ZenonT(60) DEF ListInv, Preload
<1>4. CASE RunReturns
  BY <1>4, ZenonT(60) DEF RunReturns, childVars, ListInv, Preload
<1> QED
  BY <1>1, <1>2, <1>3, <1>4

\* What is appended to the list of preserved descriptors is the ruleset's and
\* the namespaces'; the number in __MINIJAIL_FD is the configuration pipe's or
\* has become a child's; neither number was the caller's.
THEOREM ListInvariant == Spec => []ListInv
<1>1. Init => ListInv
  BY DEF Init, ListInv, Preload, PipeNames
<1>2. TypeOK /\ CallerSideInv /\ RedirectInv /\ ListInv /\ [Next]_vars => ListInv'
  <2> SUFFICES ASSUME TypeOK, CallerSideInv, RedirectInv, ListInv, [Next]_vars PROVE ListInv'
    OBVIOUS
  <2>1. CASE UNCHANGED vars
    BY <2>1 DEF vars, childVars, callerVars, ListInv, Preload
  <2> QED
    BY <2>1, ListCaller, ListChild DEF Next, Over
<1> QED
  BY <1>1, <1>2, FdTypeCorrect, CallerSideInvariant, RedirectInvariant, PTL DEF Spec

-----------------------------------------------------------------------------
(* The files behind the pipes' numbers and behind the parents'. *)

\* After the caller's part nothing but the child's points matters.
LEMMA FilesOver ==
  ASSUME pc' \in {"none", "dead", "main"}
  PROVE  FilesInv'
BY DEF FilesInv, EndsInv, NotEndsInv, StdFilesInv, Unsettled, PipeNames

\* The points up to redirect_fds().
LEMMA FilesBefore ==
  ASSUME pc' \in PipeNames \cup {"clone", "get", "avoid"}, EndsInv',
         pc' \in {"get", "avoid"} => (\A k \in 1 .. Len(maps) : table[maps[k].parent].of \in {"caller", "ruleset"})'
  PROVE  FilesInv'
BY DEF FilesInv, NotEndsInv, StdFilesInv, Unsettled, PipeNames

\* The caller's pipes and the clone.
LEMMA FilesCaller ==
  ASSUME TypeOK, CallerSideInv, CallerSideInv', ListInv, FilesInv,
         \/ \E p \in PipeNames : SetupPipe(p) \/ PipeFails(p)
         \/ Clone \/ RunReturns
  PROVE  FilesInv'
<1>1. ASSUME NEW p \in PipeNames, SetupPipe(p) PROVE FilesInv'
  <2>1. /\ pc = p /\ pc' = After(p) /\ ppc' = "shared" /\ UNCHANGED cfg
    BY <1>1 DEF SetupPipe, callerVars
  <2>2. After(p) \in PipeNames \cup {"clone"} /\ Pending(p) \subseteq Pending(After(p)) \cup {p} /\ cfg.pipes \subseteq PipeNames
    BY PendingTypes, CallPipes, ZenonT(60)
  <2>3. \A q \in PipeNames, n \in {0, 1} : pipes'[q][n] # NoFd => table'[pipes'[q][n]] = PipeEnd(q, n)
    BY <2>1, ZenonT(60) DEF CallerSideInv, Holds
  <2>4. \A q \in cfg.pipes \ Pending(p), n \in {0, 1} : pipes[q][n] # NoFd
    BY <2>1, ZenonT(60) DEF FilesInv, EndsInv
  <2>5. \A q \in cfg.pipes \ Pending(After(p)), n \in {0, 1} : pipes'[q][n] # NoFd
    <3>1. CASE p \in cfg.pipes
      <4>1. /\ \A q \in PipeNames \ {p} : pipes'[q] = pipes[q]
            /\ pipes'[p][0] \in Fd /\ pipes'[p][1] \in Fd
        BY <1>1, <3>1, MakePipeTable, ZenonT(60) DEF SetupPipe
      <4>2. NoFd \notin Fd
        BY DEF NoFd, Fd
      <4>3. \A q \in cfg.pipes \ Pending(After(p)) : q = p \/ (q \in cfg.pipes \ Pending(p) /\ q \in PipeNames \ {p})
        BY <2>2
      <4> QED
        BY <2>4, <4>1, <4>2, <4>3, ZenonT(60)
    <3>2. CASE p \notin cfg.pipes
      <4>1. pipes' = pipes
        BY <1>1, <3>2 DEF SetupPipe
      <4>2. \A q \in cfg.pipes \ Pending(After(p)) : q \in cfg.pipes \ Pending(p)
        BY <2>2, <3>2
      <4> QED
        BY <2>4, <4>1, <4>2
    <3> QED
      BY <3>1, <3>2
  <2>6. EndsInv'
    BY <2>1, <2>3, <2>5 DEF EndsInv
  <2> QED
    BY <2>1, <2>2, <2>6, FilesBefore DEF PipeNames
<1>2. ASSUME NEW p \in PipeNames, PipeFails(p) PROVE FilesInv'
  BY <1>2, FilesOver DEF PipeFails
<1>3. CASE Clone
  <2> DEFINE r == RulesFd(table)
  <2>1. /\ ppc = "shared" /\ pc = "clone" /\ pc' = "closefds" /\ ppc' = "forked" /\ UNCHANGED <<cfg, pipes>>
        /\ table' = WithRules(table) /\ ptable' = table' /\ ppipes' = pipes' /\ maps' = Preserve(maps, r)
    BY <1>3 DEF Clone
  <2>2. Holds(table, pipes, {Ruleset})'
    BY <2>1, ZenonT(60) DEF CallerSideInv, Holds
  <2>3. EndsInv'
    <3>1. Pending("clone") = {} /\ Pending("closefds") = {}
      BY ZenonT(60) DEF Pending
    <3>2. \A q \in cfg.pipes, n \in {0, 1} : pipes'[q][n] # NoFd
      BY <2>1, <3>1, ZenonT(60) DEF FilesInv, EndsInv
    <3> QED
      BY <2>1, <2>2, <3>1, <3>2, ZenonT(60) DEF EndsInv, Holds
  <2>4. \A k \in 1 .. Len(maps') : table'[maps'[k].parent].of \in {"caller", "ruleset"}
    <3> SUFFICES ASSUME NEW k \in 1 .. Len(maps') PROVE table'[maps'[k].parent].of \in {"caller", "ruleset"}
      BY ZenonT(60)
    <3>1. /\ maps = cfg.maps /\ maps \in Seq(Redirect) /\ Len(maps) \in Nat /\ Len(maps) <= MaxPreserved
          /\ r \in Fd \cup {NoFd}
      <4>1. maps = cfg.maps
        BY <2>1, ZenonT(60) DEF ListInv
      <4> QED
        BY <4>1, RulesTypes, ParentsTypes, ZenonT(60)
    <3>2. CASE k <= Len(maps)
      <4>1. maps'[k] = cfg.maps[k] /\ k \in 1 .. Len(cfg.maps)
        BY <2>1, <3>1, <3>2, PreserveTypes
      <4>2. cfg.maps[k].parent \in cfg.open
        BY <4>1, RunAssumption, ZenonT(60) DEF TypeOK, Legal
      <4> QED
        <5>1. table'[maps'[k].parent] = CallerFile(maps'[k].parent)
          BY <2>1, <2>2, <4>1, <4>2, ZenonT(60) DEF Holds
        <5> QED
          BY <5>1, FilesDiffer, ZenonT(60)
    <3>3. CASE k > Len(maps)
      <4>1. r # NoFd /\ maps'[k].parent = r
        BY <2>1, <3>1, <3>3, PreserveEntry, ZenonT(60)
      <4>2. table'[r] = Ruleset
        BY <2>1, <3>1, <4>1, RulesTable
      <4> QED
        BY <4>1, <4>2, FilesDiffer, ZenonT(60)
    <3> QED
      BY <3>1, <3>2, <3>3
  <2> QED
    BY <2>1, <2>2, <2>3, <2>4, ZenonT(60) DEF FilesInv, NotEndsInv, StdFilesInv
<1>4. CASE RunReturns
  BY <1>4, ZenonT(60) DEF RunReturns, childVars, FilesInv, EndsInv, NotEndsInv, StdFilesInv, Holds, StdTaken
<1> QED
  BY <1>1, <1>2, <1>3, <1>4

\* A relocation that overwrites nothing open keeps the pipes' and the
\* parents' files.
LEMMA FilesRelocated ==
  ASSUME TypeOK, FilesInv, pc \in Unsettled, pc' \in {"get", "avoid"}, UNCHANGED cfg,
         \A k \in Fd : table[k] # Closed => table'[k] = table[k],
         \A p \in PipeNames, n \in {0, 1} :
           \/ pipes'[p][n] = pipes[p][n]
           \/ pipes[p][n] \in Fd /\ pipes'[p][n] # NoFd /\ table'[pipes'[p][n]] = table[pipes[p][n]],
         Len(maps') = Len(maps),
         \A k \in 1 .. Len(maps) : maps'[k].parent = maps[k].parent \/ table'[maps'[k].parent] = table[maps[k].parent]
  PROVE  FilesInv'
<1>0. NoFd \notin Fd /\ Pending(pc) = {} /\ Pending(pc') = {} /\ cfg.pipes \subseteq PipeNames
  <2>1. pc' \in Unsettled
    BY DEF Unsettled
  <2> QED
    BY <2>1, PendingTypes, CallPipes, NoFdNot, ZenonT(60)
<1>1. /\ \A p \in PipeNames, n \in {0, 1} : pipes[p][n] # NoFd => table[pipes[p][n]] = PipeEnd(p, n)
      /\ \A p \in cfg.pipes, n \in {0, 1} : pipes[p][n] # NoFd
      /\ \A k \in 1 .. Len(maps) : table[maps[k].parent].of \in {"caller", "ruleset"}
  BY <1>0, ZenonT(60) DEF FilesInv, EndsInv, NotEndsInv
<1>2. \A p \in PipeNames, n \in {0, 1} : pipes'[p][n] # NoFd => table'[pipes'[p][n]] = PipeEnd(p, n)
  <2> SUFFICES ASSUME NEW p \in PipeNames, NEW n \in {0, 1}, pipes'[p][n] # NoFd
               PROVE  table'[pipes'[p][n]] = PipeEnd(p, n)
    BY ZenonT(60)
  <2>1. CASE pipes'[p][n] = pipes[p][n]
    BY <1>1, <2>1, PipesOfTypes, FilesDiffer
  <2>2. CASE pipes'[p][n] # pipes[p][n]
    BY <1>0, <1>1, <2>2
  <2> QED
    BY <2>1, <2>2
<1>3. \A p \in cfg.pipes, n \in {0, 1} : pipes'[p][n] # NoFd
  BY <1>0, <1>1, ZenonT(60)
<1>4. \A k \in 1 .. Len(maps) : table'[maps'[k].parent].of \in {"caller", "ruleset"}
  <2> SUFFICES ASSUME NEW k \in 1 .. Len(maps) PROVE table'[maps'[k].parent].of \in {"caller", "ruleset"}
    OBVIOUS
  <2>1. maps[k].parent \in Fd /\ table[maps[k].parent] # Closed
    BY <1>1, ParentsTypes, FilesDiffer
  <2> QED
    BY <1>1, <2>1, ZenonT(60)
<1>5. EndsInv'
  BY <1>0, <1>2, <1>3 DEF EndsInv
<1> QED
  BY <1>4, <1>5, FilesBefore

\* close_open_fds() and the relocations.
LEMMA FilesRelocation ==
  ASSUME TypeOK, CallerSideInv, RedirectInv, ListInv, FilesInv, pc' # "dead",
         CloseOpenFds \/ GetChildFds \/ GetChildFdsDone \/ AvoidPipeConflicts
  PROVE  FilesInv'
<1>1. CASE CloseOpenFds
  <2>1. /\ pc = "closefds" /\ pc' = "get" /\ UNCHANGED <<cfg, pipes, elf>>
        /\ maps' \in Seq(Redirect) /\ Len(maps) <= Len(maps')
        /\ \A k \in 1 .. Len(maps) : maps'[k] = maps[k]
        /\ \A k \in 1 .. Len(maps') : k > Len(maps) =>
             /\ maps'[k].parent = maps'[k].child /\ maps'[k].child \in {cfg.mountns, cfg.netns} \ {NoFd}
        /\ \A k \in PipesOf(pipes) \cup Parents' : k \in Fd => table'[k] = table[k]
    BY <1>1, CloseFdsEffect
  <2>2. /\ \A p \in PipeNames, n \in {0, 1} : pipes[p][n] # NoFd => table[pipes[p][n]] = PipeEnd(p, n)
        /\ \A p \in cfg.pipes, n \in {0, 1} : pipes[p][n] # NoFd
        /\ \A k \in 1 .. Len(maps) : table[maps[k].parent].of \in {"caller", "ruleset"}
        /\ \A fd \in cfg.open : table[fd] = CallerFile(fd)
    BY <2>1, ZenonT(60) DEF FilesInv, EndsInv, NotEndsInv, Unsettled, Pending, Holds
  <2>3. \A p \in PipeNames, n \in {0, 1} : pipes[p][n] # NoFd => table'[pipes[p][n]] = PipeEnd(p, n)
    <3>1. \A p \in PipeNames, n \in {0, 1} : pipes[p][n] \in PipesOf(pipes)
      BY DEF PipesOf
    <3> QED
      BY <2>1, <2>2, <3>1, PipesOfTypes
  <2>4. \A k \in 1 .. Len(maps') : table'[maps'[k].parent].of \in {"caller", "ruleset"}
    <3> SUFFICES ASSUME NEW k \in 1 .. Len(maps') PROVE table'[maps'[k].parent].of \in {"caller", "ruleset"}
      OBVIOUS
    <3>1. maps'[k].parent \in Fd
      <4>1. maps'[k] \in Redirect
        BY <2>1
      <4> QED
        BY <4>1 DEF Redirect
    <3>2. table'[maps'[k].parent] = table[maps'[k].parent]
      <4>1. maps'[k].parent \in Parents'
        BY DEF Parents
      <4> QED
        BY <2>1, <3>1, <4>1
    <3>3. CASE k <= Len(maps)
      <4>1. k \in 1 .. Len(maps)
        BY <3>3, ParentsTypes
      <4> QED
        BY <2>1, <2>2, <3>2, <4>1
    <3>4. CASE k > Len(maps)
      <4>1. maps'[k].parent \in cfg.open
        BY <2>1, <3>4, RunAssumption, ZenonT(60) DEF TypeOK, Legal
      <4> QED
        <5>1. table'[maps'[k].parent] = CallerFile(maps'[k].parent)
          BY <2>2, <3>2, <4>1, ZenonT(60)
        <5> QED
          BY <5>1, FilesDiffer, ZenonT(60)
    <3>5. k \in Nat /\ Len(maps) \in Nat
      BY DEF TypeOK
    <3>6. k <= Len(maps) \/ k > Len(maps)
      BY <3>5
    <3> QED
      BY <3>3, <3>4, <3>6
  <2>5. EndsInv'
    BY <2>1, <2>2, <2>3, ZenonT(60) DEF EndsInv, Pending
  <2> QED
    BY <2>1, <2>4, <2>5, FilesBefore, ZenonT(60)
<1>2. CASE GetChildFds
  <2>1. pc = "get" /\ pc' = "get" /\ i \in 1 .. Len(maps) /\ maps[i].parent \in Fd /\ UNCHANGED <<cfg, pipes>>
    BY <1>2, GetEffect, ZenonT(60)
  <2>2. PICK to \in Fd :
          /\ to = maps[i].parent \/ table[to] = Closed
          /\ \A k \in Fd : table'[k] = IF k = to THEN table[maps[i].parent] ELSE table[k]
          /\ Len(maps') = Len(maps)
          /\ \A k \in 1 .. Len(maps) : maps'[k].parent = IF k = i THEN to ELSE maps[k].parent
    BY <1>2, GetEffect
  <2>3. \A k \in Fd : table[k] # Closed => table'[k] = table[k]
    BY <2>2
  <2>4. \A k \in 1 .. Len(maps) : maps'[k].parent = maps[k].parent \/ table'[maps'[k].parent] = table[maps[k].parent]
    BY <2>2
  <2> QED
    BY <2>1, <2>2, <2>3, <2>4, FilesRelocated, ZenonT(60) DEF Unsettled
<1>3. CASE GetChildFdsDone
  BY <1>3, FilesRelocated DEF GetChildFdsDone, Next1, Unsettled
<1>4. CASE AvoidPipeConflicts
  <2>1. /\ pc = "avoid" /\ pc' = "avoid" /\ UNCHANGED <<cfg, maps>>
        /\ \/ UNCHANGED <<table, pipes>>
           \/ \E q \in PipeNames, m \in {0, 1}, to \in Fd :
                /\ pipes[q][m] \in Fd
                /\ to = pipes[q][m] \/ table[to] = Closed
                /\ \A k \in Fd : table'[k] = IF k = to THEN table[pipes[q][m]] ELSE table[k]
                /\ \A p \in PipeNames, n \in {0, 1} : pipes'[p][n] = IF p = q /\ n = m THEN to ELSE pipes[p][n]
    BY <1>4, AvoidEffect
  <2>2. CASE UNCHANGED <<table, pipes>>
    BY <2>1, <2>2, FilesRelocated, ZenonT(60) DEF Unsettled
  <2>3. CASE ~UNCHANGED <<table, pipes>>
    <3>1. PICK q \in PipeNames, m \in {0, 1}, to \in Fd :
            /\ pipes[q][m] \in Fd
            /\ to = pipes[q][m] \/ table[to] = Closed
            /\ \A k \in Fd : table'[k] = IF k = to THEN table[pipes[q][m]] ELSE table[k]
            /\ \A p \in PipeNames, n \in {0, 1} : pipes'[p][n] = IF p = q /\ n = m THEN to ELSE pipes[p][n]
      BY <2>1, <2>3
    <3>2. \A k \in Fd : table[k] # Closed => table'[k] = table[k]
      BY <3>1
    <3>3. NoFd \notin Fd /\ table'[to] = table[pipes[q][m]]
      BY <3>1 DEF NoFd, Fd
    <3>4. \A p \in PipeNames, n \in {0, 1} :
            \/ pipes'[p][n] = pipes[p][n]
            \/ pipes[p][n] \in Fd /\ pipes'[p][n] # NoFd /\ table'[pipes'[p][n]] = table[pipes[p][n]]
      BY <3>1, <3>3, ZenonT(60)
    <3> QED
      BY <2>1, <3>2, <3>4, FilesRelocated, ZenonT(60) DEF Unsettled
  <2> QED
    BY <2>2, <2>3, ZenonT(60)
<1> QED
  BY <1>1, <1>2, <1>3, <1>4

\* The points of redirect_fds() and the wait for the parent.
LEMMA FilesBetween ==
  ASSUME pc' \in {"dup", "sync2"}, EndsInv',
         pc' = "dup" => (\A k \in 1 .. Len(maps) : maps[k].parent \notin PipesOf(pipes))'
  PROVE  FilesInv'
BY DEF FilesInv, NotEndsInv, StdFilesInv, Unsettled

\* The pipes' ends after a step that leaves them alone.
LEMMA EndsLeft ==
  ASSUME TypeOK, FilesInv, pc \in {"avoid", "dup"}, pc' \in {"dup", "sync2"}, UNCHANGED <<cfg, pipes>>,
         \A k \in Fd \cap PipesOf(pipes) : table[k] # Closed => table'[k] = table[k]
  PROVE  EndsInv'
<1>1. /\ \A p \in PipeNames, n \in {0, 1} : pipes[p][n] # NoFd => table[pipes[p][n]] = PipeEnd(p, n)
      /\ \A p \in cfg.pipes, n \in {0, 1} : pipes[p][n] # NoFd
  BY DEF FilesInv, EndsInv, Unsettled, Pending
<1>2. \A p \in PipeNames, n \in {0, 1} : pipes[p][n] \in PipesOf(pipes)
  BY AmongPipes, ZenonT(60)
<1>3. \A p \in PipeNames, n \in {0, 1} : pipes[p][n] # NoFd => table'[pipes[p][n]] = PipeEnd(p, n)
  BY <1>1, <1>2, PipesOfTypes, FilesDiffer
<1> QED
  BY <1>1, <1>3 DEF EndsInv, Pending

\* redirect_fds().
LEMMA FilesRedirection ==
  ASSUME TypeOK, RedirectInv, FilesInv, pc' # "dead", MoveElf \/ RedirectFds \/ CloseParents
  PROVE  FilesInv'
<1>1. CASE MoveElf
  <2>1. /\ pc = "avoid" /\ pc' = "dup" /\ UNCHANGED <<cfg, maps, pipes>>
        /\ \A k \in Fd : table[k] # Closed => table'[k] = table[k]
    BY <1>1, ElfEffect
  <2>2. \A k \in 1 .. Len(maps) : maps[k].parent \notin PipesOf(pipes)
    <3> SUFFICES ASSUME NEW k \in 1 .. Len(maps), NEW p \in PipeNames, NEW n \in {0, 1}, maps[k].parent = pipes[p][n]
                 PROVE  FALSE
      BY DEF PipesOf
    <3>1. maps[k].parent # NoFd
      BY ParentsTypes DEF NoFd, Fd
    <3>2. table[maps[k].parent] = PipeEnd(p, n)
      BY <2>1, <3>1, ZenonT(60) DEF FilesInv, EndsInv, Unsettled
    <3>3. table[maps[k].parent].of \in {"caller", "ruleset"}
      BY <2>1 DEF FilesInv, NotEndsInv, Unsettled
    <3>4. p \in {"caller", "ruleset"}
      BY <3>2, <3>3, FilesDiffer
    <3> QED
      BY <3>4 DEF PipeNames
  <2>3. EndsInv'
    BY <2>1, EndsLeft
  <2> QED
    BY <2>1, <2>2, <2>3, FilesBetween
<1>2. CASE RedirectFds
  <2>1. /\ pc = "dup" /\ pc' = "dup" /\ UNCHANGED <<cfg, maps, pipes, childFds>> /\ i \in 1 .. Len(maps)
        /\ \A k \in Fd : k # maps[i].child => table'[k] = table[k]
    BY <1>2, DupEffect
  <2>2. maps[i].child \in childFds
    BY <2>1 DEF RedirectInv, OrderInv, Relocated
  <2>3. maps[i].child \notin PipesOf(pipes)
    <3>1. \A p \in PipeNames, n \in {0, 1} : pipes[p][n] # maps[i].child
      BY <2>1, <2>2, UserChildren, ZenonT(60) DEF Settled
    <3> QED
      BY <3>1 DEF PipesOf
  <2>4. EndsInv'
    BY <2>1, <2>3, EndsLeft, ZenonT(60)
  <2>5. \A k \in 1 .. Len(maps) : maps[k].parent \notin PipesOf(pipes)
    BY <2>1 DEF FilesInv, NotEndsInv
  <2> QED
    BY <2>1, <2>4, <2>5, FilesBetween
<1>3. CASE CloseParents
  <2>1. /\ pc = "dup" /\ pc' = "sync2" /\ UNCHANGED <<cfg, pipes>>
        /\ \A k \in Fd : k \notin Parents => table'[k] = table[k]
    BY <1>3, CloseParentsEffect
  <2>2. \A k \in PipesOf(pipes) : k \notin Parents
    BY <2>1 DEF FilesInv, NotEndsInv, Parents
  <2>3. EndsInv'
    BY <2>1, <2>2, EndsLeft
  <2> QED
    BY <2>1, <2>3, FilesBetween
<1> QED
  BY <1>1, <1>2, <1>3, ZenonT(60)

\* The standard pipes.
LEMMA FilesStd ==
  ASSUME TypeOK, RedirectInv, FilesInv, WaitForParentSetup \/ SetupChildStdFds \/ CloseStdPipes
  PROVE  FilesInv'
<1>0. StdPipes \subseteq PipeNames \ {"sync"} /\ NoFd \notin Fd
  BY DEF StdPipes, PipeNames, NoFd, Fd
<1>1. CASE WaitForParentSetup
  <2>1. /\ pc = "sync2" /\ pc' = "std" /\ i' = 1 /\ UNCHANGED cfg
        /\ \A k \in Fd : k \notin {pipes["sync"][0], pipes["sync"][1]} => table'[k] = table[k]
        /\ \A p \in StdPipes, n \in {0, 1} : pipes'[p][n] = pipes[p][n]
    BY <1>0, <1>1, WaitEffect
  <2>2. /\ \A p \in PipeNames, n \in {0, 1} : pipes[p][n] # NoFd => table[pipes[p][n]] = PipeEnd(p, n)
        /\ \A p \in cfg.pipes, n \in {0, 1} : pipes[p][n] # NoFd
    BY <2>1 DEF FilesInv, EndsInv, Pending
  <2>3. \A p \in cfg.pipes \cap StdPipes, n \in {0, 1} :
          pipes'[p][n] # NoFd /\ table'[pipes'[p][n]].of \in StdPipes
    <3> SUFFICES ASSUME NEW p \in cfg.pipes \cap StdPipes, NEW n \in {0, 1}
                 PROVE  pipes[p][n] # NoFd /\ table'[pipes[p][n]].of \in StdPipes
      BY <2>1
    <3>1. pipes[p][n] \in Fd /\ table[pipes[p][n]] = PipeEnd(p, n) /\ pipes[p][n] # NoFd
      BY <1>0, <2>2, PipesOfTypes
    <3>2. \A m \in {0, 1} : pipes["sync"][m] # pipes[p][n]
      <4> SUFFICES ASSUME NEW m \in {0, 1}, pipes["sync"][m] = pipes[p][n] PROVE FALSE
        OBVIOUS
      <4>1. table[pipes[p][n]] = PipeEnd("sync", m)
        BY <2>2, <3>1 DEF PipeNames
      <4>2. p = "sync"
        BY <3>1, <4>1 DEF PipeEnd
      <4> QED
        BY <1>0, <4>2
    <3>3. table'[pipes[p][n]] = PipeEnd(p, n)
      BY <2>1, <3>1, <3>2
    <3> QED
      BY <1>0, <3>1, <3>3, FilesDiffer, ZenonT(60)
  <2>4. StdFilesInv'
    BY <2>1, <2>3 DEF StdFilesInv
  <2> QED
    BY <2>1, <2>4, ZenonT(60) DEF FilesInv, EndsInv, NotEndsInv, Unsettled, PipeNames
<1>2. CASE SetupChildStdFds
  <2> DEFINE from == pipes[Std[i].pipe][Std[i].n]
  <2>1. /\ pc = "std" /\ pc' = "std" /\ i \in 1 .. 3 /\ i' = i + 1 /\ UNCHANGED <<cfg, pipes>>
        /\ Std[i].pipe \in StdPipes /\ Std[i].n \in {0, 1} /\ from \in Fd \cup {NoFd}
        /\ \A k \in Fd : table'[k] = IF from # NoFd /\ k = i - 1 THEN table[from] ELSE table[k]
    BY <1>2, StdEffect, ZenonT(60)
  <2>2. /\ \A p \in cfg.pipes \cap StdPipes, n \in {0, 1} : pipes[p][n] # NoFd /\ table[pipes[p][n]].of \in StdPipes
        /\ \A k \in 1 .. 3 : k < i /\ Std[k].pipe \in cfg.pipes /\ k - 1 \in Fd => table[k - 1].of \in StdPipes
    BY <2>1, ZenonT(60) DEF FilesInv, StdFilesInv
  <2>3. IF Std[i].pipe \in cfg.pipes THEN from \in Fd /\ table[from].of \in StdPipes ELSE from = NoFd
    <3>1. CASE Std[i].pipe \in cfg.pipes
      BY <2>1, <2>2, <3>1, ZenonT(60)
    <3>2. CASE Std[i].pipe \notin cfg.pipes
      BY <1>0, <2>1, <3>2, ZenonT(60) DEF RedirectInv, PipesInv
    <3> QED
      BY <3>1, <3>2, ZenonT(60)
  <2> HIDE DEF from
  <2>4. \A p \in cfg.pipes \cap StdPipes, n \in {0, 1} : pipes[p][n] # NoFd /\ table'[pipes[p][n]].of \in StdPipes
    <3>1. \A p \in cfg.pipes \cap StdPipes, n \in {0, 1} : pipes[p][n] \in Fd
      BY <1>0, <2>2, PipesOfTypes
    <3> QED
      BY <2>1, <2>2, <2>3, <3>1, ZenonT(60)
  <2>5. \A k \in 1 .. 3 : k < i + 1 /\ Std[k].pipe \in cfg.pipes /\ k - 1 \in Fd => table'[k - 1].of \in StdPipes
    <3> SUFFICES ASSUME NEW k \in 1 .. 3, k < i + 1, Std[k].pipe \in cfg.pipes, k - 1 \in Fd
                 PROVE  table'[k - 1].of \in StdPipes
      OBVIOUS
    <3>1. CASE k = i
      BY <1>0, <2>1, <2>3, <3>1, ZenonT(60)
    <3>2. CASE k # i
      <4>1. k < i /\ k - 1 # i - 1
        BY <2>1, <3>2
      <4> QED
        BY <2>1, <2>2, <4>1
    <3> QED
      BY <3>1, <3>2
  <2>6. StdFilesInv'
    BY <2>1, <2>4, <2>5 DEF StdFilesInv
  <2> QED
    BY <2>1, <2>6, ZenonT(60) DEF FilesInv, EndsInv, NotEndsInv, Unsettled, PipeNames
<1>3. CASE CloseStdPipes
  <2>1. /\ pc = "std" /\ pc' = "enter" /\ i > 3 /\ UNCHANGED cfg
        /\ \A k \in Fd : table'[k] \in {Closed, table[k]}
    BY <1>3, CloseStdEffect, ZenonT(60)
  <2>2. \A k \in 1 .. 3 : Std[k].pipe \in cfg.pipes /\ k - 1 \in Fd => table[k - 1].of \in StdPipes
    BY <2>1 DEF FilesInv, StdFilesInv, TypeOK
  <2>3. \A fd \in StdTaken \cap Fd : table'[fd].of \in StdPipes \cup {"none"}
    BY <2>1, <2>2, FilesDiffer DEF StdTaken
  <2>4. StdFilesInv'
    BY <2>1, <2>3 DEF StdFilesInv, StdTaken
  <2> QED
    BY <2>1, <2>4, ZenonT(60) DEF FilesInv, EndsInv, NotEndsInv, Unsettled, PipeNames
<1> QED
  BY <1>1, <1>2, <1>3

\* minijail_enter() and execve(2) only close.
LEMMA FilesEnter ==
  ASSUME TypeOK, FilesInv, EnterBeforeExec \/ Exec \/ EnterAfterExec
  PROVE  FilesInv'
<1>1. CASE pc' \in {"dead", "main"}
  BY <1>1, FilesOver
<1>2. CASE pc' \notin {"dead", "main"}
  <2>1. /\ pc \in {"enter", "exec"} /\ pc' \in {"exec", "library"} /\ UNCHANGED cfg
        /\ \A k \in Fd : table'[k] \in {Closed, table[k]}
    <3>1. CASE EnterBeforeExec
      BY <1>2, <3>1, EnterEffect
    <3>2. CASE Exec
      BY <1>2, <3>2, ExecEffect, ZenonT(60)
    <3>3. CASE EnterAfterExec
      BY <1>2, <3>3, LibraryEffect, ZenonT(60)
    <3> QED
      BY <3>1, <3>2, <3>3, ZenonT(60)
  <2>2. \A fd \in StdTaken \cap Fd : table[fd].of \in StdPipes \cup {"none"}
    BY <2>1 DEF FilesInv, StdFilesInv
  <2>3. \A fd \in StdTaken \cap Fd : table'[fd].of \in StdPipes \cup {"none"}
    BY <2>1, <2>2, FilesDiffer, ZenonT(60)
  <2>4. StdFilesInv'
    BY <2>1, <2>3 DEF StdFilesInv, StdTaken
  <2> QED
    BY <2>1, <2>4, ZenonT(60) DEF FilesInv, EndsInv, NotEndsInv, Unsettled, PipeNames
<1> QED
  BY <1>1, <1>2

\* Until setup_child_std_fds() every number minijail remembers for a pipe
\* leads to that pipe's end, through close_open_fds(), the relocations and the
\* redirection; from then on only a standard pipe's file is at its number.
THEOREM FilesInvariant == Spec => []FilesInv
<1>1. Init => FilesInv
  <2> SUFFICES ASSUME Init PROVE FilesInv
    OBVIOUS
  <2>1. cfg \in Run /\ pc = "config"
    BY RunAssumption, ZenonT(60) DEF Init
  <2>2. EndsInv
    <3>1. cfg.pipes \ Pending(pc) = {}
      BY <2>1 DEF Run, Pending
    <3>2. \A p \in PipeNames, n \in {0, 1} : pipes[p][n] = NoFd
      BY DEF Init
    <3> QED
      BY <3>1, <3>2 DEF EndsInv
  <2> QED
    BY <2>1, <2>2, ZenonT(60) DEF FilesInv, NotEndsInv, StdFilesInv, Unsettled
<1>2. /\ TypeOK /\ CallerSideInv /\ RedirectInv /\ ListInv /\ FilesInv
      /\ CallerSideInv' /\ [Next]_vars
      => FilesInv'
  <2> SUFFICES ASSUME TypeOK, CallerSideInv, RedirectInv, ListInv, FilesInv, CallerSideInv', [Next]_vars
               PROVE  FilesInv'
    OBVIOUS
  <2>1. CASE UNCHANGED vars
    BY <2>1, ZenonT(60) DEF vars, childVars, FilesInv, EndsInv, NotEndsInv, StdFilesInv, Holds, StdTaken
  <2>2. CASE ChildStep
    BY <2>2, FilesOver, FilesRelocation, FilesRedirection, FilesStd, FilesEnter DEF ChildStep
  <2> QED
    BY <2>1, <2>2, FilesCaller DEF Next, Over
<1> QED
  BY <1>1, <1>2, FdTypeCorrect, CallerSideInvariant, RedirectInvariant, ListInvariant, PTL DEF Spec
=============================================================================

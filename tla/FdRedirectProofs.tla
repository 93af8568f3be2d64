-------------------------- MODULE FdRedirectProofs --------------------------
(***************************************************************************)
(* For every size of the descriptor table, every limit on the preserved    *)
(* descriptors and every set of calls: what the system calls and the       *)
(* helpers of FdRedirect do to a table; its type invariant; and the        *)
(* invariant of the redirection, from which minijail_preserve_fd() keeps   *)
(* its promise.  The pipes, the clone, close_open_fds() and the relocations*)
(* keep the preserved descriptors' files, no relocated number is a child's,*)
(* and redirect_fds() overwrites nothing that is still needed.             *)
(***************************************************************************)
EXTENDS FdRedirect, WellFoundedInduction, TLAPS

\* The standard descriptors are counted from one.
LEMMA StdIndex == \A k \in Nat \ {0} : k <= 3 => k \in 1 .. 3
OBVIOUS

\* What each of them takes is an end of a pipe.
LEMMA StdEnds == \A k \in 1 .. 3 : Std[k].pipe \in PipeNames /\ Std[k].n \in {0, 1}
BY DEF Std, PipeNames

\* The number that stands for no descriptor is none.
LEMMA NumberOrNone == \A k \in Fd : k # NoFd
BY DEF NoFd, Fd

\* A set of natural numbers that is not empty has a smallest element.
LEMMA LeastElement ==
  ASSUME NEW T, T \subseteq Nat, T # {}
  PROVE  \E x \in T : \A y \in T : x <= y
<1> DEFINE R == OpToRel(<, Nat)
<1>1. IsWellFoundedOn(R, Nat)
  BY NatLessThanWellFounded, ZenonT(60)
<1>2. PICK x \in T : \A y \in T : ~(<<y, x>> \in R)
  <2> HIDE DEF R
  <2> QED
    BY <1>1, WFMin, ZenonT(60)
<1>3. \A y \in T : ~(y < x)
  BY <1>2, ZenonT(60) DEF OpToRel
<1> QED
  BY <1>3

\* The kernel's choice of a descriptor is one that is free.
LEMMA LowestFree ==
  ASSUME NEW t \in Tables, \E fd \in Fd : t[fd] = Closed
  PROVE  Lowest(t) \in Fd /\ t[Lowest(t)] = Closed
<1> DEFINE T == {fd \in Fd : t[fd] = Closed}
<1>1. FdSetSize \in Nat
  BY RunAssumption
<1>2. T \subseteq Nat /\ T # {}
  BY <1>1 DEF Fd
<1>3. PICK x \in T : \A y \in T : x <= y
  BY <1>2, LeastElement, ZenonT(60)
<1>4. \E fd \in Fd : t[fd] = Closed /\ \A k \in Fd : t[k] = Closed => fd <= k
  BY <1>3
<1> QED
  BY <1>4 DEF Lowest

\* The search of ensure_no_fd_conflict() finds a number that is neither open
\* nor a child's, the highest, or nothing.
LEMMA UnusedFree ==
  ASSUME NEW t \in Tables
  PROVE  \/ Unused(t) = NoFd
         \/ /\ Unused(t) \in Fd /\ t[Unused(t)] = Closed /\ Unused(t) \notin childFds
            /\ \A k \in Fd : t[k] = Closed /\ k \notin childFds => k <= Unused(t)
<1> DEFINE free == {fd \in Fd : t[fd] = Closed /\ fd \notin childFds}
           T == {FdSetSize - 1 - fd : fd \in free}
<1>1. FdSetSize \in Nat
  BY RunAssumption
<1>2. CASE free = {}
  BY <1>2 DEF Unused
<1>3. CASE free # {}
  <2>1. T \subseteq Nat /\ T # {}
    BY <1>1, <1>3 DEF Fd
  <2>2. PICK x \in T : \A y \in T : x <= y
    BY <2>1, LeastElement, ZenonT(60)
  <2>3. PICK fd \in free : x = FdSetSize - 1 - fd
    BY <2>2
  <2>4. \A k \in free : k <= fd
    <3> SUFFICES ASSUME NEW k \in free PROVE k <= fd
      OBVIOUS
    <3>1. FdSetSize - 1 - k \in T
      OBVIOUS
    <3>2. FdSetSize - 1 - fd <= FdSetSize - 1 - k
      BY <2>2, <2>3, <3>1
    <3> QED
      BY <1>1, <3>2 DEF Fd
  <2>5. Unused(t) = CHOOSE fd_1 \in free : \A k \in free : k <= fd_1
    BY <1>3 DEF Unused
  <2> QED
    BY <2>4, <2>5
<1> QED
  BY <1>2, <1>3

\* Where ensure_no_fd_conflict() leaves a descriptor: where it is, if it
\* conflicts with no child's; else at a free number.
LEMMA ConflictFree ==
  ASSUME TypeOK, NEW child \in Fd \cup {NoFd}, NEW fd \in Fd
  PROVE  LET to == Conflict(table, child, fd)
         IN \/ to = NoFd
            \/ to = fd /\ fd \notin childFds
            \/ /\ to \in Fd /\ fd \in childFds /\ table[to] = Closed
               /\ to = child \/ (to \notin childFds /\ to = Unused(table))
BY UnusedFree DEF Conflict, TypeOK, NoFd, Fd

\* What close(2) of a set of numbers does to a table.
LEMMA CloseTable ==
  ASSUME NEW t \in Tables, NEW S
  PROVE  /\ Close(t, S) \in Tables
         /\ \A fd \in Fd : Close(t, S)[fd] = IF fd \in S THEN Closed ELSE t[fd]
BY DEF Close, Tables, Files

\* What is not closed stays as it was.
LEMMA CloseOthers ==
  ASSUME NEW t \in Tables, NEW S, NEW fd \in Fd, fd \notin S
  PROVE  Close(t, S)[fd] = t[fd]
BY CloseTable

\* A number that is no pipe's.
LEMMA NotPipes ==
  ASSUME NEW ps, NEW k, \A p \in PipeNames, n \in {0, 1} : ps[p][n] # k
  PROVE  k \notin PipesOf(ps)
BY DEF PipesOf

\* setup_child_std_fds() closes nothing but the standard pipes.
LEMMA CloseStdKeeps ==
  ASSUME TypeOK, CloseStdPipes
  PROVE  /\ cloexec' = cloexec
         /\ \A k \in Fd : (\A p \in StdPipes, n \in {0, 1} : pipes[p][n] # k) => table'[k] = table[k]
<1> DEFINE S == {pipes[p][n] : p \in StdPipes, n \in {0, 1}}
<1>1. table' = Close(table, S) /\ cloexec' = cloexec
  BY DEF CloseStdPipes
<1>2. \A k \in Fd : (\A p \in StdPipes, n \in {0, 1} : pipes[p][n] # k) => k \notin S
  OBVIOUS
<1> HIDE DEF S
<1>3. \A k \in Fd : k \notin S => table'[k] = table[k]
  BY <1>1, CloseTable DEF TypeOK
<1> QED
  BY <1>1, <1>2, <1>3, ZenonT(60)

\* What dup2(2) does to a table.
LEMMA Dup2Table ==
  ASSUME NEW t \in Tables, NEW a \in Fd, NEW b \in Fd
  PROVE  /\ Dup2(t, a, b) \in Tables
         /\ \A fd \in Fd : Dup2(t, a, b)[fd] = IF fd = b THEN t[a] ELSE t[fd]
BY DEF Dup2, Tables

\* A descriptor that is moved is dup2(2)ed to a free number.
LEMMA MovedTable ==
  ASSUME TypeOK, NEW fd \in Fd, NEW to \in Fd, Moved(fd, to)
  PROVE  /\ table' \in Tables /\ cloexec' \subseteq Fd
         /\ \A k \in Fd : table'[k] = IF k = to THEN table[fd] ELSE table[k]
         /\ cloexec' \subseteq cloexec
<1>0. table \in Tables /\ cloexec \subseteq Fd
  BY DEF TypeOK
<1>1. cloexec' = cloexec \/ cloexec' = cloexec \ {to}
  BY ZenonT(60) DEF Moved
<1>2. cloexec' \subseteq Fd /\ cloexec' \subseteq cloexec
  BY <1>0, <1>1, ZenonT(60)
<1>3. CASE to = fd
  <2>1. table' = table
    BY <1>3 DEF Moved
  <2> QED
    BY <1>0, <1>2, <1>3, <2>1 DEF Tables
<1>4. CASE to # fd
  <2>1. table' = Dup2(table, fd, to)
    BY <1>4 DEF Moved
  <2>2. /\ Dup2(table, fd, to) \in Tables
        /\ \A k \in Fd : Dup2(table, fd, to)[k] = IF k = to THEN table[fd] ELSE table[k]
    BY <1>0, Dup2Table
  <2> QED
    BY <1>2, <2>1, <2>2, ZenonT(60)
<1> QED
  BY <1>3, <1>4

\* A pipe takes two free numbers and leaves the rest of the table alone.
LEMMA MakePipeTable ==
  ASSUME TypeOK, NEW p \in PipeNames, MakePipe(p)
  PROVE  /\ table' \in Tables
         /\ pipes' \in PipeNumbers
         /\ env' \in Fd \cup {NoFd} /\ cloexec' \subseteq Fd
         /\ \A k \in Fd : table[k] # Closed => table'[k] = table[k]
         /\ \A q \in PipeNames \ {p} : pipes'[q] = pipes[q]
         /\ \E a, b \in Fd :
              /\ a # b /\ table[a] = Closed /\ table[b] = Closed
              /\ table'[a] = PipeEnd(p, 0) /\ table'[b] = PipeEnd(p, 1)
              /\ \A k \in Fd \ {a, b} : table'[k] = table[k]
              /\ pipes'[p][0] = a /\ pipes'[p][1] = b
              /\ env' = IF p = "config" THEN a ELSE env
<1> DEFINE r == Lowest(table)
           t1 == [table EXCEPT ![r] = PipeEnd(p, 0)]
           w == Lowest(t1)
           t2 == [t1 EXCEPT ![w] = PipeEnd(p, 1)]
<1>1. PICK a, b \in Fd : a # b /\ table[a] = Closed /\ table[b] = Closed
  BY DEF MakePipe
<1>2. table \in Tables
  BY DEF TypeOK
<1>3. r \in Fd /\ table[r] = Closed
  BY <1>1, <1>2, LowestFree
<1>4. PipeEnd(p, 0) \in Files /\ PipeEnd(p, 1) \in Files
  BY DEF Files
<1>5. t1 \in Tables
  BY <1>2, <1>3, <1>4 DEF Tables
<1>6. \E fd \in Fd : t1[fd] = Closed
  <2>1. CASE a = r
    BY <1>1, <1>2, <1>3, <2>1 DEF Tables
  <2>2. CASE a # r
    BY <1>1, <1>2, <1>3, <2>2 DEF Tables
  <2> QED
    BY <2>1, <2>2
<1>7. w \in Fd /\ t1[w] = Closed
  BY <1>5, <1>6, LowestFree, ZenonT(60)
<1>8. PipeEnd(p, 0) # Closed
  BY DEF PipeEnd, Closed, PipeNames
<1>9. w # r
  BY <1>2, <1>3, <1>7, <1>8 DEF Tables
<1>10. table' = t2 /\ env' = (IF p = "config" THEN r ELSE env) /\ cloexec' = cloexec \ {r, w}
       /\ pipes' = [pipes EXCEPT ![p] = [n \in {0, 1} |-> IF n = 0 THEN r ELSE w]]
  BY DEF MakePipe
<1> HIDE DEF r, w
<1>11. /\ t2 \in Tables /\ \A k \in Fd : table[k] # Closed => t2[k] = table[k]
       /\ table[w] = Closed /\ t2[r] = PipeEnd(p, 0) /\ t2[w] = PipeEnd(p, 1)
       /\ \A k \in Fd \ {r, w} : t2[k] = table[k]
  <2>1. \A k \in Fd \ {r, w} : t2[k] = table[k]
    BY <1>2 DEF Tables
  <2>2. table[w] = Closed
    BY <1>2, <1>3, <1>7, <1>9 DEF Tables
  <2>3. t2 \in Tables
    BY <1>4, <1>5, <1>7 DEF Tables
  <2>4. t2[r] = PipeEnd(p, 0) /\ t2[w] = PipeEnd(p, 1)
    BY <1>2, <1>3, <1>5, <1>7, <1>9 DEF Tables
  <2> QED
    BY <1>3, <2>1, <2>2, <2>3, <2>4, ZenonT(60)
<1>12. /\ pipes' \in PipeNumbers /\ \A q \in PipeNames \ {p} : pipes'[q] = pipes[q]
       /\ pipes'[p][0] = r /\ pipes'[p][1] = w
  BY <1>3, <1>7, <1>10 DEF TypeOK, PipeNumbers
<1>13. env' \in Fd \cup {NoFd} /\ cloexec' \subseteq Fd
  BY <1>3, <1>10 DEF TypeOK
<1> HIDE DEF t2
<1> QED
  BY <1>3, <1>7, <1>9, <1>10, <1>11, <1>12, <1>13, ZenonT(60)

\* What is known of a call.
LEMMA CallTypes ==
  ASSUME TypeOK
  PROVE  /\ FdSetSize \in Nat /\ MaxPreserved \in Nat
         /\ cfg.open \subseteq Fd /\ cfg.cloexec \subseteq Fd
         /\ cfg.maps \in Seq(Redirect) /\ Len(cfg.maps) <= MaxPreserved
         /\ cfg.elf \in Fd \cup {NoFd} /\ cfg.mountns \in Fd \cup {NoFd} /\ cfg.netns \in Fd \cup {NoFd}
BY RunAssumption DEF TypeOK, Run, Legal

\* minijail_preserve_fd() adds at most one entry, at the end.
LEMMA PreserveTypes ==
  ASSUME NEW ms \in Seq(Redirect), Len(ms) <= MaxPreserved, NEW fd \in Fd \cup {NoFd}
  PROVE  LET new == Preserve(ms, fd)
         IN /\ new \in Seq(Redirect) /\ Len(new) <= MaxPreserved /\ Len(ms) <= Len(new)
            /\ \A k \in 1 .. Len(ms) : new[k] = ms[k]
<1>1. CASE fd = NoFd \/ Len(ms) >= MaxPreserved
  BY <1>1 DEF Preserve
<1>2. CASE fd # NoFd /\ Len(ms) < MaxPreserved
  <2> DEFINE m == [parent |-> fd, child |-> fd]
  <2>1. m \in Redirect
    BY <1>2 DEF Redirect
  <2>2. Preserve(ms, fd) = Append(ms, m)
    BY <1>2, RunAssumption DEF Preserve
  <2> HIDE DEF m
  <2> QED
    BY <1>2, <2>1, <2>2, RunAssumption
<1> QED
  BY <1>1, <1>2, RunAssumption

\* The two namespaces' descriptors are preserved one after the other.
LEMMA NamespacesTypes ==
  ASSUME TypeOK
  PROVE  LET new == Preserve(Preserve(maps, cfg.mountns), cfg.netns)
         IN /\ new \in Seq(Redirect) /\ Len(new) <= MaxPreserved /\ Len(maps) <= Len(new)
            /\ \A k \in 1 .. Len(maps) : new[k] = maps[k]
<1> DEFINE one == Preserve(maps, cfg.mountns)
           two == Preserve(one, cfg.netns)
<1>1. /\ one \in Seq(Redirect) /\ Len(one) <= MaxPreserved /\ Len(maps) <= Len(one)
      /\ \A k \in 1 .. Len(maps) : one[k] = maps[k]
  BY PreserveTypes, CallTypes, ZenonT(60) DEF TypeOK
<1> HIDE DEF one
<1>2. /\ two \in Seq(Redirect) /\ Len(two) <= MaxPreserved /\ Len(one) <= Len(two)
      /\ \A k \in 1 .. Len(one) : two[k] = one[k]
  BY <1>1, PreserveTypes, CallTypes, ZenonT(60)
<1> HIDE DEF two
<1>3. /\ two \in Seq(Redirect) /\ Len(two) <= MaxPreserved /\ Len(maps) <= Len(two)
      /\ \A k \in 1 .. Len(maps) : two[k] = maps[k]
  BY <1>1, <1>2 DEF TypeOK
<1> QED
  BY <1>3 DEF one, two

\* The ruleset gets a number of its own, or none.
LEMMA RulesTypes ==
  ASSUME TypeOK
  PROVE  /\ RulesFd(table) \in Fd \cup {NoFd}
         /\ RulesFd(table) # NoFd => table[RulesFd(table)] = Closed
         /\ WithRules(table) \in Tables
         /\ \A k \in Fd : k # RulesFd(table) => WithRules(table)[k] = table[k]
<1>1. table \in Tables
  BY DEF TypeOK
<1>2. /\ RulesFd(table) \in Fd \cup {NoFd}
      /\ RulesFd(table) # NoFd => table[RulesFd(table)] = Closed
  BY <1>1, LowestFree DEF RulesFd
<1>3. Ruleset \in Files
  BY DEF Files
<1> QED
  BY <1>1, <1>2, <1>3 DEF WithRules, Tables

\* The numbers a process has for its pipes.
LEMMA PipesOfTypes ==
  ASSUME TypeOK
  PROVE  /\ \A p \in PipeNames, n \in {0, 1} : pipes[p][n] \in Fd \cup {NoFd}
         /\ \A p \in PipeNames : Reset(p) \in PipeNumbers
BY DEF TypeOK, PipeNumbers, Reset

\* The ends of the pipes, in the order of avoid_pipe_conflicts().
LEMMA EndsTypes ==
  /\ Len(Ends) = 10 /\ \A k \in 1 .. 10 : Ends[k].pipe \in PipeNames /\ Ends[k].n \in {0, 1}
  /\ \A p \in PipeNames, n \in {0, 1} : \E k \in 1 .. 10 : Ends[k].pipe = p /\ Ends[k].n = n
<1>1. Len(Ends) = 10
  BY DEF Ends
<1>2. \A k \in 1 .. 10 : Ends[k].pipe \in PipeNames /\ Ends[k].n \in {0, 1}
  BY DEF Ends, PipeNames
<1>3. \A p \in PipeNames, n \in {0, 1} : \E k \in 1 .. 10 : Ends[k].pipe = p /\ Ends[k].n = n
  BY DEF Ends, PipeNames
<1> QED
  BY <1>1, <1>2, <1>3

\* The caller's side and the clone.
LEMMA CallerTypes ==
  ASSUME TypeOK,
         \/ \E p \in PipeNames : SetupPipe(p) \/ PipeFails(p)
         \/ Clone \/ RunReturns
  PROVE  TypeOK'
<1>1. ASSUME NEW p \in PipeNames, SetupPipe(p) PROVE TypeOK'
  <2>1. After(p) \in Points
    BY DEF After, Points, PipeNames
  <2>2. CASE p \in cfg.pipes
    BY <1>1, <2>1, <2>2, MakePipeTable DEF SetupPipe, TypeOK, callerVars
  <2>3. CASE p \notin cfg.pipes
    BY <1>1, <2>1, <2>3 DEF SetupPipe, TypeOK, callerVars
  <2> QED
    BY <2>2, <2>3
<1>2. ASSUME NEW p \in PipeNames, PipeFails(p) PROVE TypeOK'
  <2>1. ptable' \in Tables
    BY <1>2, CloseTable DEF PipeFails, TypeOK
  <2> QED
    BY <1>2, <2>1 DEF PipeFails, TypeOK, Points
<1>3. CASE Clone
  <2>1. maps' \in Seq(Redirect) /\ Len(maps') <= MaxPreserved
    BY <1>3, PreserveTypes, RulesTypes DEF Clone, TypeOK
  <2>2. cloexec' \subseteq Fd
    BY <1>3, RulesTypes DEF Clone, TypeOK
  <2> QED
    BY <1>3, <2>1, <2>2, RulesTypes DEF Clone, TypeOK, Points
<1>4. CASE RunReturns
  <2>1. ptable' \in Tables
    BY <1>4, CloseTable DEF RunReturns, TypeOK
  <2> QED
    BY <1>4, <2>1 DEF RunReturns, TypeOK, childVars
<1> QED
  BY <1>1, <1>2, <1>3, <1>4

\* The child, up to redirect_fds().
LEMMA RelocationTypes ==
  ASSUME TypeOK,
         CloseOpenFds \/ GetChildFds \/ GetChildFdsDone \/ AvoidPipeConflicts \/ MoveElf
  PROVE  TypeOK'
<1> USE DEF callerVars
<1>1. CASE CloseOpenFds
  <2>1. table' \in Tables /\ cloexec' \subseteq Fd
    BY <1>1, CloseTable DEF CloseOpenFds, TypeOK
  <2>2. maps' \in Seq(Redirect) /\ Len(maps') <= MaxPreserved
    BY <1>1, NamespacesTypes DEF CloseOpenFds, TypeOK
  <2> QED
    BY <1>1, <2>1, <2>2 DEF CloseOpenFds, TypeOK, Next1, Points
<1>2. CASE GetChildFds
  <2> DEFINE m == maps[i]
             to == Conflict(table, m.child, m.parent)
  <2>1. m \in Redirect /\ i \in 1 .. Len(maps)
    BY <1>2 DEF GetChildFds, TypeOK
  <2>2. to \in Fd \cup {NoFd}
    BY <2>1, ConflictFree DEF Redirect
  <2>3. CASE m.child \in childFds \/ to = NoFd
    BY <1>2, <2>3 DEF GetChildFds, TypeOK, Die, Points
  <2>4. CASE ~(m.child \in childFds \/ to = NoFd)
    <3>1. /\ Moved(m.parent, to) /\ maps' = [maps EXCEPT ![i].parent = to]
          /\ childFds' = childFds \cup {m.child} /\ i' = i + 1
          /\ UNCHANGED <<pc, pipes, elf, rules, cfg, env, callerVars>>
      BY <1>2, <2>4 DEF GetChildFds
    <3> HIDE DEF to
    <3>2. table' \in Tables /\ cloexec' \subseteq Fd
      BY <2>1, <2>2, <2>4, <3>1, MovedTable DEF Redirect
    <3>3. maps' \in Seq(Redirect) /\ Len(maps') = Len(maps)
      BY <2>1, <2>2, <2>4, <3>1 DEF Redirect, TypeOK
    <3> QED
      BY <2>1, <3>1, <3>2, <3>3 DEF Redirect, TypeOK
  <2> QED
    BY <2>3, <2>4
<1>3. CASE GetChildFdsDone
  BY <1>3 DEF GetChildFdsDone, TypeOK, Next1, Points
<1>4. CASE AvoidPipeConflicts
  <2> DEFINE e == Ends[i]
             fd == pipes[e.pipe][e.n]
             to == Conflict(table, NoFd, fd)
  <2>0. i \in 1 .. 10
    <3>1. i <= Len(Ends) /\ i \in Nat \ {0}
      BY <1>4, ZenonT(60) DEF AvoidPipeConflicts, TypeOK
    <3> QED
      BY <3>1, EndsTypes
  <2>1. e.pipe \in PipeNames /\ e.n \in {0, 1}
    BY <2>0, EndsTypes
  <2>2. fd \in Fd \cup {NoFd}
    BY <2>1, PipesOfTypes
  <2>3. CASE fd # NoFd /\ to = NoFd
    BY <1>4, <2>3 DEF AvoidPipeConflicts, TypeOK, Die, Points
  <2>4. CASE fd = NoFd
    BY <1>4, <2>4 DEF AvoidPipeConflicts, TypeOK
  <2>5. CASE fd # NoFd /\ to # NoFd
    <3>1. /\ Moved(fd, to) /\ pipes' = [pipes EXCEPT ![e.pipe][e.n] = to] /\ i' = i + 1
          /\ UNCHANGED <<pc, maps, elf, rules, childFds, cfg, env, callerVars>>
      BY <1>4, <2>5, ZenonT(60) DEF AvoidPipeConflicts
    <3>2. to \in Fd
      BY <2>2, <2>5, ConflictFree
    <3> HIDE DEF to, fd, e
    <3>3. table' \in Tables /\ cloexec' \subseteq Fd
      BY <2>2, <2>5, <3>1, <3>2, MovedTable
    <3>4. pipes' \in PipeNumbers
      BY <2>1, <3>1, <3>2 DEF TypeOK, PipeNumbers
    <3> QED
      BY <3>1, <3>3, <3>4, SMTT(60) DEF TypeOK
  <2> QED
    BY <2>3, <2>4, <2>5
<1>5. CASE MoveElf
  <2> DEFINE to == Conflict(table, NoFd, elf)
  <2>1. CASE elf # NoFd /\ to = NoFd
    BY <1>5, <2>1 DEF MoveElf, TypeOK, Die, Points
  <2>2. CASE elf = NoFd
    BY <1>5, <2>2 DEF MoveElf, TypeOK, Next1, Points
  <2>3. CASE elf # NoFd /\ to # NoFd
    <3>1. /\ Moved(elf, to) /\ elf' = to /\ pc' = "dup" /\ i' = 1
          /\ UNCHANGED <<maps, pipes, rules, childFds, cfg, env, callerVars>>
      BY <1>5, <2>3 DEF MoveElf, Next1
    <3>2. elf \in Fd /\ to \in Fd
      BY <2>3, ConflictFree, ZenonT(60) DEF TypeOK
    <3> HIDE DEF to
    <3>3. table' \in Tables /\ cloexec' \subseteq Fd
      BY <3>1, <3>2, MovedTable
    <3> QED
      BY <3>1, <3>2, <3>3 DEF TypeOK, Points
  <2> QED
    BY <2>1, <2>2, <2>3
<1> QED
  BY <1>1, <1>2, <1>3, <1>4, <1>5

\* The child from redirect_fds() to main().
LEMMA RedirectionTypes ==
  ASSUME TypeOK,
         \/ RedirectFds \/ CloseParents \/ WaitForParentSetup \/ SetupChildStdFds \/ CloseStdPipes
         \/ EnterBeforeExec \/ Exec \/ EnterAfterExec
  PROVE  TypeOK'
<1> USE DEF callerVars
<1>0. table \in Tables
  BY DEF TypeOK
<1>1. CASE RedirectFds
  <2> DEFINE m == maps[i]
  <2>0. i <= Len(maps) /\ i \in Nat \ {0} /\ maps \in Seq(Redirect)
    BY <1>1, ZenonT(60) DEF RedirectFds, TypeOK
  <2>1. m.parent \in Fd /\ m.child \in Fd
    <3>1. m \in Redirect
      BY <2>0
    <3> HIDE DEF m
    <3> QED
      BY <3>1 DEF Redirect
  <2>2. Dup2(table, m.parent, m.child) \in Tables
    BY <1>0, <2>1, Dup2Table
  <2>3. CASE table[m.parent] = Closed /\ m.parent # m.child
    BY <1>1, <2>3 DEF RedirectFds, TypeOK, Die, Points
  <2>4. CASE ~(table[m.parent] = Closed /\ m.parent # m.child)
    BY <1>1, <2>2, <2>4 DEF RedirectFds, TypeOK
  <2> QED
    BY <2>3, <2>4
<1>2. CASE CloseParents
  BY <1>0, <1>2, CloseTable DEF CloseParents, TypeOK, Next1, Points
<1>3. CASE WaitForParentSetup
  <2>1. Reset("sync") \in PipeNumbers
    BY PipesOfTypes DEF PipeNames
  <2> QED
    BY <1>0, <1>3, <2>1, CloseTable DEF WaitForParentSetup, TypeOK, Next1, Points
<1>4. CASE SetupChildStdFds
  <2> DEFINE from == pipes[Std[i].pipe][Std[i].n]
  <2>1. i \in 1 .. 3
    BY <1>4 DEF SetupChildStdFds, TypeOK
  <2>2. Std[i].pipe \in PipeNames /\ Std[i].n \in {0, 1}
    BY <2>1 DEF Std, PipeNames
  <2>3. from \in Fd \cup {NoFd}
    BY <2>2, PipesOfTypes
  <2>4. /\ UNCHANGED <<cfg, pc, maps, pipes, elf, rules, childFds, env, callerVars>>
        /\ i' = i + 1
    BY <1>4 DEF SetupChildStdFds
  <2>5. table' \in Tables /\ cloexec' \subseteq Fd
    <3>1. CASE from = NoFd \/ from = i - 1
      BY <1>4, <3>1 DEF SetupChildStdFds, TypeOK
    <3>2. CASE ~(from = NoFd \/ from = i - 1)
      <4>1. table' = Dup2(table, from, i - 1) /\ cloexec' = cloexec \ {i - 1}
        BY <1>4, <3>2, ZenonT(60) DEF SetupChildStdFds
      <4>2. table' \in Tables
        BY <1>0, <2>3, <3>2, <4>1, ZenonT(60) DEF Dup2, Tables
      <4> QED
        BY <4>1, <4>2, ZenonT(60) DEF TypeOK
    <3> QED
      BY <3>1, <3>2, ZenonT(60)
  <2> QED
    BY <2>4, <2>5 DEF TypeOK
<1>5. CASE CloseStdPipes
  <2>1. pipes' \in PipeNumbers
    BY <1>5, ZenonT(60) DEF CloseStdPipes, TypeOK, PipeNumbers
  <2> QED
    BY <1>0, <1>5, <2>1, CloseTable DEF CloseStdPipes, TypeOK, Next1, Points
<1>6. CASE EnterBeforeExec
  BY <1>0, <1>6, CloseTable DEF EnterBeforeExec, TypeOK, Next1, Die, Points
<1>7. CASE Exec
  BY <1>0, <1>7, CloseTable DEF Exec, TypeOK, Next1, Points
<1>8. CASE EnterAfterExec
  <2>1. CASE pc' = "dead"
    BY <1>8, <2>1 DEF EnterAfterExec, TypeOK, Next1, Die, Points
  <2>2. CASE pc' # "dead"
    <3>1. /\ table' = Close(WithRules(table), {env, cfg.netns, Landlocked(prules)})
          /\ cloexec' = cloexec \cup ({RulesFd(table)} \ {NoFd}) /\ pc' = "main" /\ i' = 1
          /\ UNCHANGED <<cfg, maps, pipes, elf, rules, childFds, env, callerVars>>
      BY <1>8, <2>2, ZenonT(60) DEF EnterAfterExec, Die, Next1
    <3>2. table' \in Tables /\ cloexec' \subseteq Fd
      BY <3>1, RulesTypes, CloseTable DEF TypeOK
    <3> QED
      BY <3>1, <3>2, SMTT(60) DEF TypeOK, Points
  <2> QED
    BY <2>1, <2>2, ZenonT(60)
<1> QED
  BY <1>1, <1>2, <1>3, <1>4, <1>5, <1>6, <1>7, <1>8

\* Every number that the caller and the child handle is a descriptor of the
\* table or NoFd, and j->preserved_fds stays within MAX_PRESERVED_FDS:
\* ensure_no_fd_conflict() never leaves the table in its search.
THEOREM FdTypeCorrect == Spec => []TypeOK
<1>1. Init => TypeOK
  <2> SUFFICES ASSUME Init PROVE TypeOK
    OBVIOUS
  <2>1. cfg \in Run /\ Legal(cfg) /\ Len(cfg.maps) <= MaxPreserved
    BY RunAssumption DEF Init, Legal
  <2>2. table \in Tables
    BY DEF Init, Tables, Files
  <2>3. pipes \in PipeNumbers
    BY DEF Init, PipeNumbers
  <2> QED
    BY <2>1, <2>2, <2>3 DEF Init, TypeOK, Run, Points, PipeNames
<1>2. TypeOK /\ [Next]_vars => TypeOK'
  <2> SUFFICES ASSUME TypeOK, [Next]_vars PROVE TypeOK'
    OBVIOUS
  <2>1. CASE UNCHANGED vars
    BY <2>1 DEF vars, childVars, callerVars, TypeOK
  <2>2. CASE Over
    BY <2>1, <2>2, ZenonT(60) DEF Over
  <2> QED
    BY <2>1, <2>2, CallerTypes, RelocationTypes, RedirectionTypes DEF Next, ChildStep
<1> QED
  BY <1>1, <1>2, PTL DEF Spec

-----------------------------------------------------------------------------
(* The invariant up to redirect_fds(). *)

\* The caller's preserved descriptors in the child's list, and the files they
\* stand for.
LEMMA UserFacts ==
  ASSUME TypeOK, MapsInv
  PROVE  \A k \in User :
           /\ k \in 1 .. Len(maps) /\ maps[k].parent \in Fd /\ maps[k].child \in Fd
           /\ Wanted(k) \notin {Closed, Ruleset} /\ \A p \in PipeNames, n \in {0, 1} : Wanted(k) # PipeEnd(p, n)
<1> SUFFICES ASSUME NEW k \in User
             PROVE  /\ k \in 1 .. Len(maps) /\ maps[k].parent \in Fd /\ maps[k].child \in Fd
                    /\ Wanted(k) \notin {Closed, Ruleset}
                    /\ \A p \in PipeNames, n \in {0, 1} : Wanted(k) # PipeEnd(p, n)
  BY ZenonT(60)
<1>1. k \in 1 .. Len(maps)
  BY CallTypes DEF MapsInv, User, TypeOK
<1>2. maps[k] \in Redirect
  BY <1>1 DEF TypeOK
<1>3. maps[k].parent \in Fd /\ maps[k].child \in Fd
  BY <1>2 DEF Redirect
<1>4. Wanted(k) \notin {Closed, Ruleset}
  BY DEF Wanted, CallerFile, Closed, Ruleset
<1>5. \A p \in PipeNames, n \in {0, 1} : Wanted(k) # PipeEnd(p, n)
  BY DEF Wanted, CallerFile, PipeEnd, PipeNames
<1> QED
  BY <1>1, <1>3, <1>4, <1>5, ZenonT(60)

\* A step that leaves the child's state alone.
LEMMA FrameInv ==
  ASSUME RedirectInv, UNCHANGED <<cfg, childVars>>
  PROVE  RedirectInv'
<1> USE DEF childVars, Wanted, User
<1>1. MapsInv' /\ ParentsInv'
  BY DEF RedirectInv, MapsInv, ParentsInv
<1>2. OrderInv' /\ PipesInv'
  BY ZenonT(60) DEF RedirectInv, OrderInv, PipesInv
<1>3. ChildrenInv'
  BY DEF RedirectInv, ChildrenInv, StdTaken
<1> QED
  BY <1>1, <1>2, <1>3 DEF RedirectInv

\* A step to a point where nothing is claimed but the list and the pipes.
LEMMA DieInv ==
  ASSUME RedirectInv, pc' \in {"none", "dead"}, UNCHANGED <<cfg, maps, pipes>>
  PROVE  RedirectInv'
<1>1. pc' \notin Made \cup {"get", "avoid"} \cup Relocated \cup Settled \cup Entered
  BY DEF Made, Relocated, Settled, Entered, PipeNames
<1>2. MapsInv'
  BY DEF RedirectInv, MapsInv, User
<1>3. PipesInv'
  BY <1>1 DEF RedirectInv, PipesInv, Settled
<1>4. ParentsInv' /\ OrderInv'
  BY <1>1 DEF ParentsInv, OrderInv, Settled
<1>5. ChildrenInv'
  BY <1>1 DEF ChildrenInv, Settled
<1> QED
  BY <1>2, <1>3, <1>4, <1>5 DEF RedirectInv

\* Before the relocation only the list, the parents' files and the pipes that
\* were asked for matter.
LEMMA MadeInv ==
  ASSUME RedirectInv, pc' \in Made, childFds' = {}, MapsInv',
         (\A k \in User : table[maps[k].parent] = Wanted(k))',
         (\A p \in PipeNames \ cfg.pipes, n \in {0, 1} : pipes[p][n] = NoFd)'
  PROVE  RedirectInv'
<1>1. pc' \notin {"get", "avoid"} \cup Relocated \cup Settled \cup Entered
  BY DEF Made, Relocated, Settled, Entered, PipeNames
<1>2. PipesInv'
  BY <1>1 DEF PipesInv, Settled
<1>3. ParentsInv'
  BY <1>1 DEF ParentsInv, Settled
<1>4. OrderInv'
  BY <1>1 DEF OrderInv
<1>5. ChildrenInv'
  BY <1>1 DEF ChildrenInv, Settled, Entered
<1> QED
  BY <1>2, <1>3, <1>4, <1>5 DEF RedirectInv

\* The pipes and the clone: what is open keeps its number.
LEMMA CallerInv ==
  ASSUME TypeOK, RedirectInv,
         \/ \E p \in PipeNames : SetupPipe(p) \/ PipeFails(p)
         \/ Clone \/ RunReturns
  PROVE  RedirectInv'
<1>1. MapsInv
  BY DEF RedirectInv
<1>2. ASSUME NEW p \in PipeNames, SetupPipe(p) PROVE RedirectInv'
  <2>1. pc = p /\ pc' = After(p) /\ UNCHANGED <<cfg, maps, childFds>>
    BY <1>2 DEF SetupPipe
  <2>2. pc \in Made /\ pc' \in Made
    BY <2>1 DEF Made, PipeNames, After
  <2>3. \A k \in Fd : table[k] # Closed => table'[k] = table[k]
    BY <1>2, MakePipeTable DEF SetupPipe
  <2>4. \A q \in PipeNames \ cfg.pipes : pipes'[q] = pipes[q]
    BY <1>2, MakePipeTable DEF SetupPipe
  <2>5. \A k \in User : table'[maps[k].parent] = Wanted(k)
    BY <1>1, <2>2, <2>3, UserFacts DEF RedirectInv, ParentsInv
  <2>6. (\A k \in User : table[maps[k].parent] = Wanted(k))'
    BY <2>1, <2>5, ZenonT(60) DEF User, Wanted
  <2>7. (\A q \in PipeNames \ cfg.pipes, n \in {0, 1} : pipes[q][n] = NoFd)'
    BY <2>1, <2>4, ZenonT(60) DEF RedirectInv, PipesInv
  <2>8. MapsInv' /\ childFds' = {}
    BY <2>1, <2>2 DEF RedirectInv, MapsInv, OrderInv, User
  <2> QED
    BY <2>2, <2>6, <2>7, <2>8, MadeInv
<1>3. ASSUME NEW p \in PipeNames, PipeFails(p) PROVE RedirectInv'
  BY <1>3, DieInv, ZenonT(60) DEF PipeFails
<1>4. CASE Clone
  <2> DEFINE r == RulesFd(table)
  <2>1. /\ pc = "clone" /\ pc' = "closefds" /\ UNCHANGED <<cfg, pipes, childFds>>
        /\ maps' = Preserve(maps, r) /\ table' = WithRules(table)
    BY <1>4 DEF Clone
  <2>2. pc \in Made /\ pc' \in Made
    BY <2>1 DEF Made
  <2>3. \A k \in 1 .. Len(maps) : maps'[k] = maps[k]
    BY <2>1, PreserveTypes, RulesTypes, ZenonT(60) DEF TypeOK
  <2>4. Len(maps) <= Len(maps') /\ Len(maps) \in Nat /\ Len(maps') \in Nat
    <3>1. maps' \in Seq(Redirect) /\ Len(maps) <= Len(maps')
      BY <2>1, PreserveTypes, RulesTypes DEF TypeOK
    <3> QED
      BY <3>1 DEF TypeOK
  <2>5. \A k \in User : table[maps[k].parent] = Wanted(k)
    BY <2>2, ZenonT(60) DEF RedirectInv, ParentsInv
  <2>6. \A k \in User : table'[maps[k].parent] = Wanted(k)
    <3> SUFFICES ASSUME NEW k \in User PROVE table'[maps[k].parent] = Wanted(k)
      BY ZenonT(60)
    <3>1. maps[k].parent \in Fd /\ table[maps[k].parent] # Closed
      BY <1>1, <2>5, UserFacts, ZenonT(60)
    <3>2. maps[k].parent # r
      BY <3>1, RulesTypes, NumberOrNone, ZenonT(60)
    <3> QED
      BY <2>1, <2>5, <3>1, <3>2, RulesTypes
  <2>7. (\A k \in User : table[maps[k].parent] = Wanted(k))'
    BY <1>1, <2>1, <2>3, <2>6, UserFacts, ZenonT(60) DEF User, Wanted
  <2>8. MapsInv'
    <3>1. Len(cfg.maps) <= Len(maps')
      BY <1>1, <2>4, CallTypes DEF MapsInv
    <3> QED
      BY <1>1, <2>1, <2>3, <3>1, UserFacts DEF MapsInv, User
  <2>9. childFds' = {} /\ (\A q \in PipeNames \ cfg.pipes, n \in {0, 1} : pipes[q][n] = NoFd)'
    BY <2>1, <2>2, ZenonT(60) DEF RedirectInv, OrderInv, PipesInv
  <2> QED
    BY <2>2, <2>7, <2>8, <2>9, MadeInv
<1>5. CASE RunReturns
  BY <1>5, FrameInv DEF RunReturns
<1> QED
  BY <1>2, <1>3, <1>4, <1>5

\* close_open_fds(): the preserved descriptors are among the inheritable ones.
LEMMA CloseOpenFdsInv ==
  ASSUME TypeOK, RedirectInv, CloseOpenFds
  PROVE  RedirectInv'
<1> DEFINE ms == Preserve(Preserve(maps, cfg.mountns), cfg.netns)
<1>1. /\ pc = "closefds" /\ pc' = "get" /\ i' = 1 /\ UNCHANGED <<cfg, pipes, childFds>>
      /\ maps' = maps \/ maps' = ms
  BY DEF CloseOpenFds, Next1
<1>2. MapsInv /\ childFds = {} /\ \A k \in User : table[maps[k].parent] = Wanted(k)
  BY <1>1 DEF RedirectInv, ParentsInv, OrderInv, Made
<1>3. /\ maps' \in Seq(Redirect) /\ Len(maps) <= Len(maps')
      /\ \A k \in 1 .. Len(maps) : maps'[k] = maps[k]
  BY <1>1, NamespacesTypes DEF TypeOK
<1>4. \A k \in 1 .. Len(maps) : table'[maps[k].parent] = table[maps[k].parent]
  <2>1. CASE ~cfg.closefds
    BY <2>1 DEF CloseOpenFds
  <2>2. CASE cfg.closefds
    <3> DEFINE inheritable == Inheritable(maps')
    <3>1. table' = Close(table, Fd \ inheritable)
      BY <2>2 DEF CloseOpenFds
    <3>2. \A k \in 1 .. Len(maps) : maps[k].parent \in inheritable
      BY <1>3 DEF TypeOK, Inheritable
    <3> HIDE DEF inheritable
    <3>3. \A k \in 1 .. Len(maps) : maps[k] \in Redirect
      BY DEF TypeOK
    <3>4. \A k \in 1 .. Len(maps) : maps[k].parent \in Fd
      BY <3>3 DEF Redirect
    <3> QED
      BY <3>1, <3>2, <3>4, CloseTable DEF TypeOK
  <2> QED
    BY <2>1, <2>2
<1>5. \A k \in User : table'[maps'[k].parent] = Wanted(k) /\ maps'[k].child = cfg.maps[k].child
  BY <1>2, <1>3, <1>4, UserFacts, ZenonT(60) DEF MapsInv
<1>6. MapsInv'
  BY <1>1, <1>2, <1>3, <1>5, CallTypes DEF MapsInv, User, TypeOK
<1>7. ParentsInv'
  BY <1>1, <1>5 DEF ParentsInv, User, Wanted
<1>8. OrderInv'
  BY <1>1, <1>2, <1>3 DEF OrderInv, Made, PipeNames, Relocated
<1>9. PipesInv'
  BY <1>1 DEF RedirectInv, PipesInv, Settled
<1>10. ChildrenInv'
  BY <1>1 DEF ChildrenInv, Entered
<1> QED
  BY <1>6, <1>7, <1>8, <1>9, <1>10, ZenonT(60) DEF RedirectInv

\* ensure_no_fd_conflict() overwrites nothing that is open.
LEMMA MovedKeeps ==
  ASSUME TypeOK, NEW child \in Fd \cup {NoFd}, NEW fd \in Fd,
         NEW to, to = Conflict(table, child, fd), to # NoFd, Moved(fd, to)
  PROVE  /\ to \in Fd /\ (to = child \/ to \notin childFds) /\ table'[to] = table[fd]
         /\ \A k \in Fd : table[k] # Closed => table'[k] = table[k]
<1>1. \/ to = fd /\ fd \notin childFds
      \/ to \in Fd /\ table[to] = Closed /\ (to = child \/ to \notin childFds)
  BY ConflictFree
<1>2. to \in Fd
  BY <1>1
<1>3. \A k \in Fd : table'[k] = IF k = to THEN table[fd] ELSE table[k]
  BY <1>2, MovedTable
<1> QED
  BY <1>1, <1>2, <1>3

\* get_child_fds(): a parent's number is never one of the child numbers seen
\* so far, and moving it overwrites nothing.
LEMMA GetChildFdsInv ==
  ASSUME TypeOK, RedirectInv, GetChildFds
  PROVE  RedirectInv'
<1> DEFINE m == maps[i]
           to == Conflict(table, m.child, m.parent)
<1>1. pc = "get" /\ i <= Len(maps) /\ UNCHANGED cfg
  BY DEF GetChildFds
<1>2. i \in 1 .. Len(maps) /\ Len(maps) \in Nat
  BY <1>1 DEF TypeOK
<1>3. m \in Redirect
  BY <1>2 DEF TypeOK
<1>4. m.parent \in Fd /\ m.child \in Fd
  BY <1>3 DEF Redirect
<1>5. CASE m.child \in childFds \/ to = NoFd
  BY <1>5, DieInv DEF GetChildFds, Die
<1>6. CASE ~(m.child \in childFds \/ to = NoFd)
  <2>1. /\ Moved(m.parent, to) /\ maps' = [maps EXCEPT ![i].parent = to]
        /\ childFds' = childFds \cup {m.child} /\ i' = i + 1 /\ UNCHANGED <<pc, pipes>>
    BY <1>6 DEF GetChildFds
  <2>2. /\ to \in Fd /\ (to = m.child \/ to \notin childFds) /\ table'[to] = table[m.parent]
        /\ \A k \in Fd : table[k] # Closed => table'[k] = table[k]
    BY <1>4, <1>6, <2>1, MovedKeeps
  <2> HIDE DEF to
  <2>3. /\ Len(maps') = Len(maps)
        /\ \A k \in 1 .. Len(maps) : maps'[k].child = maps[k].child
        /\ \A k \in 1 .. Len(maps) : maps'[k].parent = IF k = i THEN to ELSE maps[k].parent
    <3>1. maps[i] \in [parent : Fd, child : Fd]
      BY <1>3 DEF Redirect
    <3>2. Len(maps') = Len(maps) /\ maps'[i] = [maps[i] EXCEPT !.parent = to]
          /\ \A k \in 1 .. Len(maps) : k # i => maps'[k] = maps[k]
      <4> DEFINE new == [maps[i] EXCEPT !.parent = to]
      <4>1. maps' = [maps EXCEPT ![i] = new] /\ maps \in Seq(Redirect) /\ new \in Redirect
        BY <1>3, <2>1, <2>2 DEF TypeOK, Redirect
      <4> HIDE DEF new
      <4>2. Len(maps') = Len(maps) /\ maps'[i] = new
            /\ \A k \in 1 .. Len(maps) : k # i => maps'[k] = maps[k]
        BY <1>2, <4>1
      <4> QED
        BY <4>2 DEF new
    <3>3. maps'[i].child = maps[i].child /\ maps'[i].parent = to
      BY <1>2, <3>1, <3>2
    <3> QED
      BY <3>2, <3>3, ZenonT(60)
  <2>4. MapsInv /\ \A k \in User : table[maps[k].parent] = Wanted(k)
    BY <1>1 DEF RedirectInv, ParentsInv
  <2>5. MapsInv'
    BY <1>1, <2>3, <2>4, UserFacts DEF MapsInv, User
  <2>6. \A k \in User : table'[maps'[k].parent] = Wanted(k)
    <3> SUFFICES ASSUME NEW k \in User PROVE table'[maps'[k].parent] = Wanted(k)
      OBVIOUS
    <3>1. k \in 1 .. Len(maps) /\ maps[k].parent \in Fd /\ Wanted(k) # Closed
      BY <2>4, UserFacts
    <3>2. CASE k = i
      BY <2>2, <2>3, <2>4, <3>1, <3>2
    <3>3. CASE k # i
      BY <2>2, <2>3, <2>4, <3>1, <3>3
    <3> QED
      BY <3>2, <3>3
  <2>7. ParentsInv'
    BY <1>1, <2>1, <2>6 DEF ParentsInv, User, Wanted
  <2>8. OrderInv'
    <3>1. /\ childFds = {maps[a].child : a \in 1 .. i - 1}
          /\ \A a, b \in 1 .. i - 1 : a < b => maps[a].child \notin {maps[b].child, maps[b].parent}
      BY <1>1 DEF RedirectInv, OrderInv
    <3>2. childFds' = {maps'[a].child : a \in 1 .. i' - 1}
      BY <1>2, <2>1, <2>3, <3>1
    <3>3. \A a \in 1 .. i - 1 : maps[a].child \notin {m.child, to}
      BY <1>6, <2>2, <3>1
    <3>4. \A a, b \in 1 .. i : a < b => maps'[a].child \notin {maps'[b].child, maps'[b].parent}
      <4> SUFFICES ASSUME NEW a \in 1 .. i, NEW b \in 1 .. i, a < b
                   PROVE  maps'[a].child \notin {maps'[b].child, maps'[b].parent}
        OBVIOUS
      <4>1. a \in 1 .. i - 1 /\ a \in 1 .. Len(maps) /\ b \in 1 .. Len(maps)
        BY <1>2
      <4>2. CASE b = i
        BY <2>3, <3>3, <4>1, <4>2
      <4>3. CASE b # i
        <5>1. b \in 1 .. i - 1
          BY <1>2, <4>3
        <5>2. maps[a].child \notin {maps[b].child, maps[b].parent}
          BY <3>1, <4>1, <5>1
        <5> QED
          BY <2>3, <4>1, <4>3, <5>2
      <4> QED
        BY <4>2, <4>3
    <3>5. i' <= Len(maps') + 1 /\ i' - 1 = i
      BY <1>2, <2>1, <2>3
    <3> QED
      BY <1>1, <2>1, <3>2, <3>4, <3>5 DEF OrderInv, Made, PipeNames, Relocated
  <2>9. PipesInv'
    BY <1>1, <2>1 DEF RedirectInv, PipesInv, Settled
  <2>10. ChildrenInv'
    BY <1>1, <2>1 DEF ChildrenInv, Entered
  <2> QED
    BY <2>5, <2>7, <2>8, <2>9, <2>10 DEF RedirectInv
<1> QED
  BY <1>5, <1>6

\* After get_child_fds() the child numbers and their order are fixed.
LEMMA OrderKept ==
  ASSUME RedirectInv, pc \in Relocated, pc' \in Relocated, UNCHANGED <<cfg, maps, childFds>>
  PROVE  MapsInv' /\ OrderInv'
<1>1. pc' \notin Made /\ pc' # "get"
  BY DEF Relocated, Made, PipeNames
<1>2. MapsInv'
  BY DEF RedirectInv, MapsInv, User
<1>3. OrderInv'
  BY <1>1 DEF RedirectInv, OrderInv
<1> QED
  BY <1>2, <1>3

\* The end of the loop of get_child_fds().
LEMMA GetChildFdsDoneInv ==
  ASSUME TypeOK, RedirectInv, GetChildFdsDone
  PROVE  RedirectInv'
<1>1. /\ pc = "get" /\ i > Len(maps) /\ pc' = "avoid" /\ i' = 1
      /\ UNCHANGED <<cfg, table, maps, pipes, childFds>>
  BY DEF GetChildFdsDone, Next1
<1>2. MapsInv'
  BY <1>1, ZenonT(60) DEF RedirectInv, MapsInv, User
<1>3. ParentsInv'
  BY <1>1 DEF RedirectInv, ParentsInv, User, Wanted
<1>4. OrderInv'
  <2>1. i - 1 = Len(maps)
    BY <1>1 DEF RedirectInv, OrderInv, TypeOK
  <2>2. /\ childFds = {maps[a].child : a \in 1 .. i - 1}
        /\ \A a, b \in 1 .. i - 1 : a < b => maps[a].child \notin {maps[b].child, maps[b].parent}
    BY <1>1 DEF RedirectInv, OrderInv
  <2> QED
    BY <1>1, <2>1, <2>2 DEF OrderInv, Made, PipeNames
<1>5. PipesInv'
  BY <1>1 DEF RedirectInv, PipesInv, Settled, TypeOK
<1>6. ChildrenInv'
  BY <1>1 DEF ChildrenInv, Entered
<1> QED
  BY <1>2, <1>3, <1>4, <1>5, <1>6 DEF RedirectInv

\* avoid_pipe_conflicts(): an end that is moved goes to a number that is no
\* child's and was not open.
LEMMA AvoidPipeConflictsInv ==
  ASSUME TypeOK, RedirectInv, AvoidPipeConflicts
  PROVE  RedirectInv'
<1> DEFINE e == Ends[i]
           fd == pipes[e.pipe][e.n]
           to == Conflict(table, NoFd, fd)
<1>1. pc = "avoid" /\ UNCHANGED cfg
  BY DEF AvoidPipeConflicts
<1>2. i \in 1 .. 10
  <2>1. i <= Len(Ends) /\ i \in Nat \ {0}
    BY ZenonT(60) DEF AvoidPipeConflicts, TypeOK
  <2> QED
    BY <2>1, EndsTypes
<1>3. e.pipe \in PipeNames /\ e.n \in {0, 1}
  BY <1>2, EndsTypes
<1>4. fd \in Fd \cup {NoFd}
  BY <1>3, PipesOfTypes
<1>5. MapsInv /\ \A k \in User : table[maps[k].parent] = Wanted(k)
  BY <1>1 DEF RedirectInv, ParentsInv
<1>6. CASE fd # NoFd /\ to = NoFd
  <2>1. pc' = "dead" /\ UNCHANGED <<cfg, maps, pipes>>
    BY <1>1, <1>6 DEF AvoidPipeConflicts, Die
  <2> QED
    BY <2>1, DieInv
<1>7. CASE ~(fd # NoFd /\ to = NoFd)
  <2>1. i' = i + 1 /\ UNCHANGED <<pc, maps, childFds>>
    BY <1>7, ZenonT(60) DEF AvoidPipeConflicts
  <2>2. /\ \A k \in Fd : table[k] # Closed => table'[k] = table[k]
        /\ \A p \in PipeNames, n \in {0, 1} :
             \/ pipes'[p][n] = pipes[p][n] /\ (p = e.pipe /\ n = e.n => pipes[p][n] = NoFd)
             \/ pipes[p][n] # NoFd /\ pipes'[p][n] \notin childFds
    <3>1. CASE fd = NoFd
      <4>1. UNCHANGED <<table, pipes>>
        BY <1>7, <3>1, ZenonT(60) DEF AvoidPipeConflicts
      <4> QED
        BY <3>1, <4>1
    <3>2. CASE fd # NoFd
      <4>1. Moved(fd, to) /\ pipes' = [pipes EXCEPT ![e.pipe][e.n] = to]
        BY <1>7, <3>2, ZenonT(60) DEF AvoidPipeConflicts
      <4>2. fd \in Fd /\ NoFd \notin Fd
        BY <1>4, <3>2, NumberOrNone, ZenonT(60)
      <4>3. /\ to \in Fd /\ (to = NoFd \/ to \notin childFds)
            /\ \A k \in Fd : table[k] # Closed => table'[k] = table[k]
        <5>1. to = Conflict(table, NoFd, fd) /\ to # NoFd
          BY <1>7, <3>2
        <5> HIDE DEF to, fd
        <5>2. NoFd \in Fd \cup {NoFd}
          OBVIOUS
        <5> QED
          BY <4>1, <4>2, <5>1, <5>2, MovedKeeps, ZenonT(60)
      <4> HIDE DEF to
      <4>4. \A p \in PipeNames, n \in {0, 1} :
              pipes'[p][n] = IF p = e.pipe /\ n = e.n THEN to ELSE pipes[p][n]
        <5> HIDE DEF e
        <5> QED
          BY <1>3, <4>1, ZenonT(60) DEF TypeOK, PipeNumbers
      <4> QED
        BY <3>2, <4>2, <4>3, <4>4, ZenonT(60)
    <3> QED
      BY <3>1, <3>2, ZenonT(60)
  <2>3. ParentsInv'
    <3>1. \A k \in User : table'[maps[k].parent] = Wanted(k)
      BY <1>5, <2>2, UserFacts, ZenonT(60)
    <3> QED
      BY <1>1, <2>1, <3>1, ZenonT(60) DEF ParentsInv, User, Wanted
  <2>4. PipesInv'
    <3>1. NoFd \notin childFds
      BY DEF TypeOK, NoFd, Fd
    <3>2. \A p \in PipeNames \ cfg.pipes, n \in {0, 1} : pipes[p][n] = NoFd
      BY DEF RedirectInv, PipesInv
    <3>3. \A p \in PipeNames \ cfg.pipes, n \in {0, 1} : pipes'[p][n] = NoFd
      BY <2>2, <3>2, ZenonT(60)
    <3>4. \A k \in 1 .. 10 : k < i => pipes[Ends[k].pipe][Ends[k].n] \notin childFds
      BY <1>1, EndsTypes DEF RedirectInv, PipesInv
    <3>5. \A k \in 1 .. 10 : k < i + 1 => pipes'[Ends[k].pipe][Ends[k].n] \notin childFds
      <4> SUFFICES ASSUME NEW k \in 1 .. 10, k < i + 1
                   PROVE  pipes'[Ends[k].pipe][Ends[k].n] \notin childFds
        OBVIOUS
      <4>1. Ends[k].pipe \in PipeNames /\ Ends[k].n \in {0, 1}
        BY EndsTypes
      <4>2. CASE k = i
        BY <2>2, <3>1, <4>1, <4>2
      <4>3. CASE k # i
        <5>1. pipes[Ends[k].pipe][Ends[k].n] \notin childFds
          BY <1>2, <3>4, <4>3
        <5> QED
          BY <2>2, <4>1, <5>1
      <4> QED
        BY <4>2, <4>3
    <3>6. pc' \notin Settled
      BY <1>1, <2>1 DEF Settled
    <3> QED
      BY <1>1, <2>1, <3>3, <3>5, <3>6, EndsTypes DEF PipesInv
  <2>5. ChildrenInv'
    BY <1>1, <2>1 DEF ChildrenInv, Entered
  <2>6. MapsInv' /\ OrderInv'
    BY <1>1, <2>1, OrderKept DEF Relocated
  <2> QED
    BY <2>3, <2>4, <2>5, <2>6, ZenonT(60) DEF RedirectInv
<1> QED
  BY <1>6, <1>7, ZenonT(60)

\* The program's descriptor is moved to a number that was not open.
LEMMA MoveElfInv ==
  ASSUME TypeOK, RedirectInv, MoveElf
  PROVE  RedirectInv'
<1> DEFINE to == Conflict(table, NoFd, elf)
<1>1. pc = "avoid" /\ UNCHANGED cfg /\ i > Len(Ends)
  BY DEF MoveElf
<1>2. MapsInv /\ \A k \in User : table[maps[k].parent] = Wanted(k)
  BY <1>1 DEF RedirectInv, ParentsInv
<1>3. CASE elf # NoFd /\ to = NoFd
  BY <1>1, <1>3, DieInv DEF MoveElf, Die
<1>4. CASE ~(elf # NoFd /\ to = NoFd)
  <2>1. pc' = "dup" /\ i' = 1 /\ UNCHANGED <<maps, childFds, pipes>>
    BY <1>4 DEF MoveElf, Next1
  <2>2. \A k \in Fd : table[k] # Closed => table'[k] = table[k]
    <3>1. CASE elf = NoFd
      BY <1>4, <3>1 DEF MoveElf
    <3>2. CASE elf # NoFd
      <4>1. Moved(elf, to) /\ elf \in Fd
        BY <1>4, <3>2, ZenonT(60) DEF MoveElf, TypeOK
      <4> QED
        BY <1>4, <3>2, <4>1, MovedKeeps, ZenonT(60)
    <3> QED
      BY <3>1, <3>2
  <2>3. ParentsInv'
    <3>1. \A k \in User : table'[maps[k].parent] = Wanted(k)
      BY <1>2, <2>2, UserFacts
    <3> QED
      BY <1>1, <2>1, <3>1, ZenonT(60) DEF ParentsInv, User, Wanted, Made, PipeNames
  <2>4. PipesInv'
    <3>1. \A k \in 1 .. 10 : pipes[Ends[k].pipe][Ends[k].n] \notin childFds
      BY <1>1, EndsTypes, SMTT(60) DEF RedirectInv, PipesInv, TypeOK
    <3>2. \A p \in PipeNames, n \in {0, 1} : pipes[p][n] \notin childFds
      BY <3>1, EndsTypes
    <3>3. \A p \in PipeNames \ cfg.pipes, n \in {0, 1} : pipes[p][n] = NoFd
      BY DEF RedirectInv, PipesInv
    <3> QED
      BY <1>1, <2>1, <3>2, <3>3, ZenonT(60) DEF PipesInv
  <2>5. ChildrenInv'
    BY <1>1, <2>1 DEF ChildrenInv, Entered, User, TypeOK
  <2>6. MapsInv' /\ OrderInv'
    BY <1>1, <2>1, OrderKept DEF Relocated
  <2> QED
    BY <2>3, <2>4, <2>5, <2>6, ZenonT(60) DEF RedirectInv
<1> QED
  BY <1>3, <1>4

-----------------------------------------------------------------------------
(* From redirect_fds() to main(). *)


\* After the first loop of redirect_fds() only the child numbers matter.
LEMMA SettledInv ==
  ASSUME TypeOK, RedirectInv, pc \in Settled, pc' \in Settled \ {"dup"},
         UNCHANGED <<cfg, maps, childFds>>,
         \A p \in PipeNames, n \in {0, 1} : pipes'[p][n] \in {pipes[p][n], NoFd},
         ChildrenInv'
  PROVE  RedirectInv'
<1>1. MapsInv' /\ OrderInv'
  BY OrderKept DEF Settled, Relocated
<1>2. ParentsInv'
  BY DEF ParentsInv, Settled, Made, PipeNames
<1>3. NoFd \notin childFds
  BY DEF TypeOK, NoFd, Fd
<1>4. PipesInv'
  <2>1. pc' # "avoid"
    BY ZenonT(60) DEF Settled
  <2>2. \A p \in PipeNames, n \in {0, 1} : pipes[p][n] \notin childFds
    BY DEF RedirectInv, PipesInv
  <2>3. \A p \in PipeNames, n \in {0, 1} : pipes'[p][n] \notin childFds
    BY <1>3, <2>2
  <2>4. \A p \in PipeNames \ cfg.pipes, n \in {0, 1} : pipes'[p][n] = NoFd
    BY DEF RedirectInv, PipesInv
  <2> QED
    BY <2>1, <2>3, <2>4 DEF PipesInv
<1> QED
  BY <1>1, <1>2, <1>4 DEF RedirectInv

\* The child numbers the caller asked for are children of the fd_set.
LEMMA UserChildren ==
  ASSUME TypeOK, RedirectInv, pc \in Settled
  PROVE  /\ \A k \in User : maps[k].child \in childFds /\ maps[k].child \in Fd
         /\ \A p \in PipeNames, n \in {0, 1} : pipes[p][n] \notin childFds
<1>1. MapsInv /\ childFds = {maps[a].child : a \in 1 .. Len(maps)}
  BY DEF RedirectInv, OrderInv, Settled, Relocated
<1>2. \A p \in PipeNames, n \in {0, 1} : pipes[p][n] \notin childFds
  BY DEF RedirectInv, PipesInv
<1> QED
  BY <1>1, <1>2, UserFacts

\* redirect_fds(), first loop: the number that is overwritten is no parent's
\* that is still needed, and no child's that is already in place.
LEMMA RedirectFdsInv ==
  ASSUME TypeOK, RedirectInv, RedirectFds
  PROVE  RedirectInv'
<1> DEFINE m == maps[i]
<1>1. pc = "dup" /\ i <= Len(maps) /\ UNCHANGED cfg
  BY DEF RedirectFds
<1>2. i \in 1 .. Len(maps) /\ Len(maps) \in Nat
  BY <1>1 DEF TypeOK
<1>3. m.parent \in Fd /\ m.child \in Fd
  <2>1. m \in Redirect
    BY <1>2 DEF TypeOK
  <2> HIDE DEF m
  <2> QED
    BY <2>1 DEF Redirect
<1>4. CASE table[m.parent] = Closed /\ m.parent # m.child
  BY <1>1, <1>4, DieInv DEF RedirectFds, Die
<1>5. CASE ~(table[m.parent] = Closed /\ m.parent # m.child)
  <2>1. /\ table' = IF m.parent = m.child THEN table ELSE Dup2(table, m.parent, m.child)
        /\ cloexec' = cloexec \ {m.child}
        /\ i' = i + 1 /\ UNCHANGED <<pc, maps, pipes, childFds>>
    BY <1>5 DEF RedirectFds
  <2>2. \A k \in Fd : table'[k] = IF k = m.child THEN table[m.parent] ELSE table[k]
    <3>1. CASE m.parent = m.child
      BY <2>1, <3>1
    <3>2. CASE m.parent # m.child
      <4>1. table' = Dup2(table, m.parent, m.child)
        BY <2>1, <3>2
      <4>2. table \in Tables
        BY DEF TypeOK
      <4> HIDE DEF m
      <4>3. \A k \in Fd : Dup2(table, m.parent, m.child)[k] = IF k = m.child THEN table[m.parent] ELSE table[k]
        BY <1>3, <4>2, Dup2Table, ZenonT(60)
      <4> QED
        BY <4>1, <4>3, ZenonT(60)
    <3> QED
      BY <3>1, <3>2
  <2>3. MapsInv /\ \A a, b \in 1 .. Len(maps) : a < b => maps[a].child \notin {maps[b].child, maps[b].parent}
    BY <1>1 DEF RedirectInv, OrderInv, Relocated
  <2>4. \A k \in User : k >= i => table[maps[k].parent] = Wanted(k)
    BY <1>1, ZenonT(60) DEF RedirectInv, ParentsInv
  <2>5. \A k \in User : k < i => table[maps[k].child] = Wanted(k) /\ maps[k].child \notin cloexec
    BY <1>1 DEF RedirectInv, ChildrenInv
  <2>6. \A k \in User : k >= i + 1 => table'[maps[k].parent] = Wanted(k)
    <3> SUFFICES ASSUME NEW k \in User, k >= i + 1 PROVE table'[maps[k].parent] = Wanted(k)
      OBVIOUS
    <3>1. k \in 1 .. Len(maps) /\ maps[k].parent \in Fd
      BY <2>3, UserFacts
    <3>2. i < k /\ k >= i
      BY <1>2, <3>1
    <3>3. m.child # maps[k].parent
      BY <1>2, <2>3, <3>1, <3>2
    <3> QED
      BY <2>2, <2>4, <3>1, <3>2, <3>3, ZenonT(60)
  <2>7. \A k \in User : k < i + 1 => table'[maps[k].child] = Wanted(k) /\ maps[k].child \notin cloexec'
    <3> SUFFICES ASSUME NEW k \in User, k < i + 1
                 PROVE  table'[maps[k].child] = Wanted(k) /\ maps[k].child \notin cloexec'
      OBVIOUS
    <3>1. k \in 1 .. Len(maps) /\ maps[k].child \in Fd
      BY <2>3, UserFacts
    <3>2. CASE k = i
      <4>1. table'[maps[k].child] = table[m.parent]
        BY <2>2, <3>1, <3>2
      <4>2. table[m.parent] = Wanted(k)
        BY <1>2, <2>4, <3>2
      <4> QED
        BY <2>1, <3>2, <4>1, <4>2
    <3>3. CASE k # i
      <4>1. k < i
        BY <1>2, <3>1, <3>3
      <4>2. maps[k].child # m.child
        BY <1>2, <2>3, <3>1, <4>1, ZenonT(60)
      <4> QED
        BY <2>1, <2>2, <2>5, <3>1, <4>1, <4>2
    <3> QED
      BY <3>2, <3>3
  <2>8. ParentsInv'
    BY <1>1, <2>1, <2>6, ZenonT(60) DEF ParentsInv, User, Wanted, Made, PipeNames
  <2>9. ChildrenInv'
    BY <1>1, <2>1, <2>7, ZenonT(60) DEF ChildrenInv, User, Wanted, Entered
  <2>10. MapsInv' /\ OrderInv'
    BY <1>1, <2>1, OrderKept, ZenonT(60) DEF Relocated
  <2>11. PipesInv'
    BY <1>1, <2>1 DEF RedirectInv, PipesInv
  <2> QED
    BY <2>8, <2>9, <2>10, <2>11 DEF RedirectInv
<1> QED
  BY <1>4, <1>5

\* redirect_fds(), second loop: no child number is closed.
LEMMA CloseParentsInv ==
  ASSUME TypeOK, RedirectInv, CloseParents
  PROVE  RedirectInv'
<1>1. /\ pc = "dup" /\ i > Len(maps) /\ pc' = "sync2" /\ UNCHANGED <<cfg, cloexec, maps, pipes, childFds>>
      /\ table' = Close(table, {maps[k].parent : k \in 1 .. Len(maps)} \ childFds)
  BY DEF CloseParents, Next1
<1>2. pc \in Settled /\ pc' \in Settled \ {"dup"}
  BY <1>1 DEF Settled
<1>3. \A k \in User : table[maps[k].child] = Wanted(k) /\ maps[k].child \notin cloexec
  <2>1. \A k \in User : k < i
    BY <1>1, UserFacts DEF RedirectInv, TypeOK
  <2> QED
    BY <1>1, <2>1, ZenonT(60) DEF RedirectInv, ChildrenInv
<1>4. \A k \in childFds : table'[k] = table[k]
  <2>1. \A k \in childFds : k \in Fd /\ k \notin {maps[a].parent : a \in 1 .. Len(maps)} \ childFds
    BY DEF TypeOK
  <2> QED
    BY <1>1, <2>1, CloseTable DEF TypeOK
<1>5. \A k \in User : table'[maps[k].child] = Wanted(k)
  BY <1>2, <1>3, <1>4, UserChildren, ZenonT(60)
<1>6. ChildrenInv'
  BY <1>1, <1>3, <1>5 DEF ChildrenInv, User, Wanted, Entered
<1>7. \A p \in PipeNames, n \in {0, 1} : pipes'[p][n] \in {pipes[p][n], NoFd}
  BY <1>1, ZenonT(60)
<1> QED
  BY <1>1, <1>2, <1>6, <1>7, SettledInv

\* wait_for_parent_setup(): the synchronisation pipe is none of the children.
LEMMA WaitForParentSetupInv ==
  ASSUME TypeOK, RedirectInv, WaitForParentSetup
  PROVE  RedirectInv'
<1>1. /\ pc = "sync2" /\ pc' = "std" /\ UNCHANGED <<cfg, cloexec, maps, childFds>>
      /\ table' = Close(table, {pipes["sync"][0], pipes["sync"][1]}) /\ pipes' = Reset("sync")
  BY DEF WaitForParentSetup, Next1
<1>2. pc \in Settled /\ pc' \in Settled \ {"dup"}
  BY <1>1, ZenonT(60) DEF Settled
<1>3. \A k \in User : table[maps[k].child] = Wanted(k) /\ maps[k].child \notin cloexec
  BY <1>1 DEF RedirectInv, ChildrenInv
<1>4. \A k \in childFds : k \in Fd /\ k \notin {pipes["sync"][0], pipes["sync"][1]}
  BY <1>2, UserChildren DEF TypeOK, PipeNames
<1>5. \A k \in childFds : table'[k] = table[k]
  BY <1>1, <1>4, CloseOthers, ZenonT(60) DEF TypeOK
<1>6. \A k \in User : table'[maps[k].child] = Wanted(k)
  BY <1>2, <1>3, <1>5, UserChildren
<1>7. ChildrenInv'
  BY <1>1, <1>3, <1>6, ZenonT(60) DEF ChildrenInv, User, Wanted, Entered
<1>8. \A p \in PipeNames, n \in {0, 1} : pipes'[p][n] \in {pipes[p][n], NoFd}
  BY <1>1, ZenonT(60) DEF Reset, TypeOK, PipeNumbers, PipeNames
<1> QED
  BY <1>1, <1>2, <1>7, <1>8, SettledInv

\* setup_child_std_fds(): only numbers of standard pipes are overwritten, and
\* only ends of pipes are closed.
LEMMA StdInv ==
  ASSUME TypeOK, RedirectInv, SetupChildStdFds \/ CloseStdPipes
  PROVE  RedirectInv'
<1>1. pc = "std" /\ pc' \in {"std", "enter"} /\ UNCHANGED <<cfg, maps, childFds>>
  BY DEF SetupChildStdFds, CloseStdPipes, Next1
<1>2. pc \in Settled /\ pc' \in Settled \ {"dup"}
  BY <1>1, ZenonT(60) DEF Settled
<1>3. \A k \in User : maps[k].child \notin StdTaken =>
         table[maps[k].child] = Wanted(k) /\ maps[k].child \notin cloexec
  BY <1>1 DEF RedirectInv, ChildrenInv
<1>4. /\ cloexec' \subseteq cloexec
      /\ \A k \in childFds \ StdTaken : table'[k] = table[k]
  <2>1. CASE SetupChildStdFds
    <3> DEFINE from == pipes[Std[i].pipe][Std[i].n]
    <3>1. i \in 1 .. 3
      BY <2>1, StdIndex, ZenonT(60) DEF SetupChildStdFds, TypeOK
    <3>2. CASE from = NoFd \/ from = i - 1
      <4>1. UNCHANGED <<table, cloexec>>
        BY <2>1, <3>2, ZenonT(60) DEF SetupChildStdFds
      <4> QED
        BY <4>1, ZenonT(60)
    <3>3. CASE ~(from = NoFd \/ from = i - 1)
      <4>1. table' = Dup2(table, from, i - 1) /\ cloexec' = cloexec \ {i - 1}
        BY <2>1, <3>3, ZenonT(60) DEF SetupChildStdFds
      <4>2. Std[i].pipe \in PipeNames /\ Std[i].n \in {0, 1}
        BY <3>1, StdEnds, ZenonT(60)
      <4>3. Std[i].pipe \in cfg.pipes
        BY <3>3, <4>2, ZenonT(60) DEF RedirectInv, PipesInv
      <4>4. i - 1 \in StdTaken
        BY <3>1, <4>3, ZenonT(60) DEF StdTaken
      <4>5. \A k \in Fd : k # i - 1 => table'[k] = table[k]
        BY <4>1 DEF Dup2, TypeOK, Tables
      <4>6. \A k \in childFds \ StdTaken : k \in Fd /\ k # i - 1
        BY <4>4, ZenonT(60) DEF TypeOK
      <4> QED
        BY <4>1, <4>5, <4>6, ZenonT(60)
    <3> QED
      BY <3>2, <3>3, ZenonT(60)
  <2>2. CASE CloseStdPipes
    <3>1. \A k \in childFds : k \in Fd /\ \A p \in StdPipes, n \in {0, 1} : pipes[p][n] # k
      <4>1. StdPipes \subseteq PipeNames /\ childFds \subseteq Fd
        BY ZenonT(60) DEF StdPipes, PipeNames, TypeOK
      <4> QED
        BY <1>2, <4>1, UserChildren, ZenonT(60)
    <3> QED
      BY <2>2, <3>1, CloseStdKeeps, ZenonT(60)
  <2> QED
    BY <2>1, <2>2
<1>5. \A k \in User : maps[k].child \notin StdTaken =>
         table'[maps[k].child] = Wanted(k) /\ maps[k].child \notin cloexec'
  BY <1>2, <1>3, <1>4, UserChildren, ZenonT(60)
<1>6. ChildrenInv'
  BY <1>1, <1>5 DEF ChildrenInv, User, Wanted, Entered, StdTaken
<1>7. \A p \in PipeNames, n \in {0, 1} : pipes'[p][n] \in {pipes[p][n], NoFd}
  BY DEF SetupChildStdFds, CloseStdPipes
<1> QED
  BY <1>1, <1>2, <1>6, <1>7, SettledInv

\* minijail_enter(), execve(2) and the preloaded library close what is a
\* namespace's, the ruleset, the configuration pipe or FD_CLOEXEC.
LEMMA EnterInv ==
  ASSUME TypeOK, RedirectInv, EnterBeforeExec \/ Exec \/ EnterAfterExec
  PROVE  RedirectInv'
<1> DEFINE Used == StdTaken \cup {cfg.mountns, cfg.netns}
<1>1. /\ pc \in {"enter", "exec", "library"} /\ pc' \in Entered \cup {"dead"}
      /\ UNCHANGED <<cfg, maps, pipes, childFds>>
  BY ZenonT(60) DEF EnterBeforeExec, Exec, EnterAfterExec, Next1, Die, Entered
<1>2. pc \in Settled
  BY <1>1, ZenonT(60) DEF Settled
<1>3. \A k \in User : maps[k].child \notin Used =>
         table[maps[k].child] = Wanted(k) /\ maps[k].child \notin cloexec
  BY <1>1 DEF RedirectInv, ChildrenInv, Entered
<1>4. CASE pc' = "dead"
  BY <1>1, <1>4, DieInv
<1>5. CASE pc' # "dead"
  <2>0. pc' \in Settled \ {"dup"}
    BY <1>1, <1>5 DEF Entered, Settled
  <2>1. \A k \in User : maps[k].child \notin Used =>
           table'[maps[k].child] = Wanted(k) /\ maps[k].child \notin cloexec'
    <3> SUFFICES ASSUME NEW k \in User, maps[k].child \notin Used
                 PROVE  table'[maps[k].child] = Wanted(k) /\ maps[k].child \notin cloexec'
      OBVIOUS
    <3> DEFINE c == maps[k].child
    <3>1. c \in childFds /\ c \in Fd /\ table[c] = Wanted(k) /\ c \notin cloexec
      BY <1>2, <1>3, UserChildren
    <3>2. Wanted(k) # Ruleset /\ Wanted(k) # PipeEnd("config", 0)
      BY UserFacts DEF RedirectInv, PipeNames
    <3>3. c # NoFd
      BY <3>1 DEF NoFd, Fd
    <3>4. table \in Tables
      BY DEF TypeOK
    <3> HIDE DEF c
    <3> SUFFICES table'[c] = Wanted(k) /\ c \notin cloexec'
      BY ZenonT(60) DEF c
    <3>5. CASE EnterBeforeExec
      <4> DEFINE net == IF Preload THEN NoFd ELSE cfg.netns
                 rs == IF Preload THEN NoFd ELSE Landlocked(rules)
      <4>1. table' = Close(table, {cfg.mountns, net, rs}) /\ cloexec' = cloexec /\ Usable(table, rs, Ruleset)
        BY <1>5, <3>5, ZenonT(60) DEF EnterBeforeExec, Die
      <4>2. c \notin {cfg.mountns, net}
        BY <3>3 DEF c
      <4>3. c # rs
        BY <3>1, <3>2, <3>3, <4>1, ZenonT(60) DEF Usable
      <4> DEFINE S == {cfg.mountns, net, rs}
      <4>4. c \notin S /\ table' = Close(table, S)
        BY <4>1, <4>2, <4>3, ZenonT(60)
      <4> HIDE DEF S
      <4>5. table'[c] = table[c]
        BY <3>1, <3>4, <4>4, CloseTable
      <4> QED
        BY <3>1, <4>1, <4>5
    <3>6. CASE Exec
      <4>1. table' = Close(table, cloexec \cup (PipesOf(pipes) \ {pipes["config"][0]})) /\ cloexec' = {}
        BY <3>6, ZenonT(60) DEF Exec
      <4>2. c \notin PipesOf(pipes)
        <5>1. \A p \in PipeNames, n \in {0, 1} : pipes[p][n] # c
          BY <1>2, <3>1, UserChildren, ZenonT(60)
        <5> QED
          BY <5>1, NotPipes, ZenonT(60)
      <4> DEFINE S == cloexec \cup (PipesOf(pipes) \ {pipes["config"][0]})
      <4>3. c \notin S /\ table' = Close(table, S)
        BY <3>1, <4>1, <4>2, ZenonT(60)
      <4> HIDE DEF S
      <4>4. table'[c] = table[c]
        BY <3>1, <3>4, <4>3, CloseTable
      <4> QED
        BY <3>1, <4>1, <4>4
    <3>7. CASE EnterAfterExec
      <4> DEFINE rs == Landlocked(prules)
                 t == WithRules(table)
      <4>1. /\ table' = Close(t, {env, cfg.netns, rs})
            /\ cloexec' = cloexec \cup ({RulesFd(table)} \ {NoFd})
            /\ table[env] = PipeEnd("config", 0) /\ Usable(t, rs, Ruleset)
        BY <1>5, <3>7, ZenonT(60) DEF EnterAfterExec, Die
      <4>2. c # cfg.netns /\ c # env
        <5>1. c # cfg.netns
          BY ZenonT(60) DEF c
        <5>2. c # env
          BY <3>1, <3>2, <4>1, ZenonT(60)
        <5> QED
          BY <5>1, <5>2
      <4>3. c # RulesFd(table) /\ Wanted(k) # Closed
        BY <3>1, <3>3, UserFacts, RulesTypes, ZenonT(60) DEF RedirectInv
      <4>4. t \in Tables /\ t[c] = Wanted(k)
        BY <3>1, <4>3, RulesTypes, ZenonT(60)
      <4> HIDE DEF t
      <4>5. c # rs
        BY <3>2, <3>3, <4>1, <4>4 DEF Usable
      <4> DEFINE S == {env, cfg.netns, rs}
      <4>6. c \notin S /\ table' = Close(t, S)
        BY <4>1, <4>2, <4>5, ZenonT(60)
      <4> HIDE DEF S
      <4>7. table'[c] = t[c]
        BY <3>1, <4>4, <4>6, CloseOthers, ZenonT(60)
      <4> QED
        BY <3>1, <4>1, <4>3, <4>4, <4>7
    <3> QED
      BY <3>5, <3>6, <3>7
  <2>2. ChildrenInv'
    BY <1>1, <1>5, <2>1, ZenonT(60) DEF ChildrenInv, User, Wanted, Entered, StdTaken
  <2>3. \A p \in PipeNames, n \in {0, 1} : pipes'[p][n] \in {pipes[p][n], NoFd}
    BY <1>1
  <2> QED
    BY <1>1, <1>2, <2>0, <2>2, <2>3, SettledInv
<1> QED
  BY <1>4, <1>5

\* The invariant of the redirection holds in every run: the argument that
\* ensure_no_fd_conflict(), get_child_fds(), avoid_pipe_conflicts() and
\* redirect_fds() together overwrite no descriptor that is still needed.
THEOREM RedirectInvariant == Spec => []RedirectInv
<1>1. Init => RedirectInv
  <2> SUFFICES ASSUME Init PROVE RedirectInv
    OBVIOUS
  <2>1. cfg \in Run /\ \A k \in 1 .. Len(cfg.maps) : cfg.maps[k].parent \in cfg.open
    BY RunAssumption DEF Init, Legal
  <2>2. pc \in Made /\ pc \notin {"get", "avoid"} \cup Relocated \cup Settled \cup Entered
    BY DEF Init, Made, PipeNames, Relocated, Settled, Entered
  <2>3. MapsInv
    <3>1. maps = cfg.maps /\ Len(cfg.maps) \in Nat
      BY <2>1 DEF Init, Run
    <3> QED
      BY <3>1 DEF MapsInv
  <2>4. \A k \in User : table[maps[k].parent] = Wanted(k)
    <3> SUFFICES ASSUME NEW k \in User PROVE table[cfg.maps[k].parent] = Wanted(k)
      BY DEF Init
    <3>1. cfg.maps[k].parent \in cfg.open /\ cfg.open \subseteq Fd
      BY <2>1 DEF User, Run
    <3> QED
      BY <3>1 DEF Init, Wanted
  <2>5. ParentsInv
    BY <2>2, <2>4, ZenonT(60) DEF ParentsInv, Settled
  <2>6. OrderInv
    BY <2>2 DEF OrderInv, Init
  <2>7. PipesInv
    BY <2>2, ZenonT(60) DEF PipesInv, Init
  <2>8. ChildrenInv
    BY <2>2 DEF ChildrenInv, Settled, Entered
  <2> QED
    BY <2>3, <2>5, <2>6, <2>7, <2>8, ZenonT(60) DEF RedirectInv
<1>2. TypeOK /\ RedirectInv /\ [Next]_vars => RedirectInv'
  <2> SUFFICES ASSUME TypeOK, RedirectInv, [Next]_vars PROVE RedirectInv'
    OBVIOUS
  <2>1. CASE UNCHANGED vars
    BY <2>1, FrameInv DEF vars
  <2>2. CASE Over
    BY <2>1, <2>2 DEF Over
  <2>3. CASE ChildStep
    BY <2>3, CloseOpenFdsInv, GetChildFdsInv, GetChildFdsDoneInv, AvoidPipeConflictsInv, MoveElfInv,
       RedirectFdsInv, CloseParentsInv, WaitForParentSetupInv, StdInv, EnterInv DEF ChildStep
  <2> QED
    BY <2>1, <2>2, <2>3, CallerInv DEF Next
<1> QED
  BY <1>1, <1>2, FdTypeCorrect, PTL DEF Spec

\* minijail_preserve_fd() keeps its promise, for every number of descriptors,
\* every order and every overlap: the program finds the caller's file behind
\* the child number.
THEOREM PreservedFdsTheorem == Spec => []PreservedFdsDelivered
<1>1. RedirectInv => PreservedFdsDelivered
  <2> SUFFICES ASSUME RedirectInv, pc = "main", NEW k \in User,
                      cfg.maps[k].child \notin StdTaken \cup {cfg.mountns, cfg.netns}
               PROVE  table[cfg.maps[k].child] = CallerFile(cfg.maps[k].parent)
    BY DEF PreservedFdsDelivered, User
  <2>1. maps[k].child = cfg.maps[k].child
    BY DEF RedirectInv, MapsInv
  <2> QED
    BY <2>1 DEF RedirectInv, ChildrenInv, Entered, Wanted
<1> QED
  BY <1>1, RedirectInvariant, PTL
=============================================================================

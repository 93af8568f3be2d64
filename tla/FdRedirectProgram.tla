------------------------- MODULE FdRedirectProgram --------------------------
(***************************************************************************)
(* For every size of the descriptor table, every limit on the preserved    *)
(* descriptors and every set of calls: where the ruleset is when the       *)
(* Landlock domain is entered, what else the program finds open, and what  *)
(* its descriptors 0, 1 and 2 are.                                         *)
(***************************************************************************)
EXTENDS FdRedirectFiles

-----------------------------------------------------------------------------
(* Room in the table. *)

\* A list of n entries leaves out one of m > n numbers.
Missed(f, n, m) == \E y \in 0 .. m - 1 : \A k \in 1 .. n : f[k] # y
LEMMA Pigeonhole == \A n \in Nat : \A m \in Nat : n < m => \A f : Missed(f, n, m)
<1> DEFINE P(n) == \A m \in Nat : n < m => \A f : Missed(f, n, m)
           T == {n \in Nat : ~P(n)}
<1> SUFFICES ASSUME T # {} PROVE FALSE
  OBVIOUS
<1>1. PICK n \in T : \A y \in T : n <= y
  <2>1. T \subseteq Nat
    OBVIOUS
  <2> HIDE DEF T
  <2> QED
    BY <2>1, LeastElement, ZenonT(60)
<1>2. n \in Nat /\ ~P(n)
  BY <1>1
<1>3. PICK m \in Nat : n < m /\ \E f : ~Missed(f, n, m)
  BY <1>2
<1>f. PICK f : ~Missed(f, n, m)
  BY <1>3
<1>4. \A y \in 0 .. m - 1 : \E k \in 1 .. n : f[k] = y
  BY <1>f DEF Missed
<1>5. n # 0
  <2> SUFFICES ASSUME n = 0 PROVE FALSE
    OBVIOUS
  <2>1. 0 \in 0 .. m - 1 /\ 1 .. n = {}
    BY <1>3
  <2> QED
    BY <1>4, <2>1
<1>6. n - 1 \in Nat /\ m - 1 \in Nat /\ n - 1 < m - 1
  BY <1>2, <1>3, <1>5
<1>7. P(n - 1)
  <2> SUFFICES ASSUME ~P(n - 1) PROVE FALSE
    OBVIOUS
  <2> HIDE DEF P
  <2>1. n - 1 \in T
    BY <1>6
  <2>2. n <= n - 1
    BY <1>1, <2>1
  <2> QED
    BY <1>2, <2>2
<1> DEFINE g == [k \in 1 .. n - 1 |-> IF f[k] = m - 1 THEN f[n] ELSE f[k]]
<1>8. Missed(g, n - 1, m - 1)
  BY <1>6, <1>7
<1>9. PICK y \in 0 .. (m - 1) - 1 : \A k \in 1 .. n - 1 : g[k] # y
  BY <1>8 DEF Missed
<1>10. y \in 0 .. m - 1 /\ y # m - 1 /\ m - 1 \in 0 .. m - 1
  BY <1>3, <1>6
<1>11. PICK a \in 1 .. n : f[a] = y
  BY <1>4, <1>10
<1>12. PICK b \in 1 .. n : f[b] = m - 1
  BY <1>4, <1>10
<1>13. CASE a # n
  <2>1. a \in 1 .. n - 1
    BY <1>2, <1>13
  <2>2. g[a] = y
    BY <1>10, <1>11, <2>1
  <2> QED
    BY <1>9, <2>1, <2>2
<1>14. CASE a = n
  <2>1. b # n
    BY <1>10, <1>11, <1>12, <1>14
  <2>2. b \in 1 .. n - 1
    BY <1>2, <2>1
  <2>3. g[b] = y
    BY <1>11, <1>12, <1>14, <2>2
  <2> QED
    BY <1>9, <2>2, <2>3
<1> QED
  BY <1>13, <1>14

\* While avoid_pipe_conflicts() runs after close_open_fds(), a number above 2
\* is free: there are ten pipe ends, the program's descriptor, at most
\* MAX_PRESERVED_FDS parents and as many children.
LEMMA RoomAboveStd ==
  ASSUME TypeOK, RedirectInv, StrayInv, Room, cfg.closefds, pc = "avoid"
  PROVE  \E k \in Fd : k > 2 /\ table[k] = Closed /\ k \notin childFds
<1> DEFINE N == Len(maps)
           f == [k \in 1 .. 14 + N + N |->
                   IF k <= 10 THEN pipes[Ends[k].pipe][Ends[k].n]
                   ELSE IF k <= 10 + N THEN maps[k - 10].parent
                   ELSE IF k <= 10 + N + N THEN maps[k - 10 - N].child
                   ELSE IF k = 11 + N + N THEN elf
                   ELSE k - 12 - N - N]
           Listed(y) == \E k \in 1 .. 14 + N + N : f[k] = y
<1>1. FdSetSize \in Nat /\ MaxPreserved \in Nat /\ N \in Nat /\ N <= MaxPreserved
  BY RunAssumption DEF TypeOK
<1>2. childFds = {maps[k].child : k \in 1 .. N} /\ Parents = {maps[k].parent : k \in 1 .. N}
  BY ZenonT(60) DEF RedirectInv, OrderInv, Relocated, Parents
<1> HIDE DEF N
<1>3. \A y \in PipesOf(pipes) : Listed(y)
  <2>1. \A k \in 1 .. 10 : k \in 1 .. 14 + N + N /\ f[k] = pipes[Ends[k].pipe][Ends[k].n]
    <3>1. \A k \in 1 .. 10 : k \in 1 .. 14 + N + N /\ k <= 10
      BY <1>1
    <3> QED
      BY <3>1, ZenonT(60)
  <2> HIDE DEF f
  <2>2. \A p \in PipeNames, n \in {0, 1} : \E k \in 1 .. 10 : f[k] = pipes[p][n]
    BY <2>1, EndsTypes
  <2> SUFFICES ASSUME NEW y \in PipesOf(pipes) PROVE Listed(y)
    OBVIOUS
  <2>3. PICK p \in PipeNames, n \in {0, 1} : pipes[p][n] = y
    BY NotPipes, ZenonT(60)
  <2> QED
    BY <2>1, <2>2, <2>3, ZenonT(60)
<1>4. \A y \in Parents : Listed(y)
  <2>1. \A k \in 1 .. N : k + 10 \in 1 .. 14 + N + N /\ f[k + 10] = maps[k].parent
    BY <1>1
  <2> HIDE DEF f
  <2> QED
    BY <1>2, <2>1
<1>5. \A y \in childFds : Listed(y)
  <2>1. \A k \in 1 .. N : k + 10 + N \in 1 .. 14 + N + N /\ f[k + 10 + N] = maps[k].child
    BY <1>1
  <2> HIDE DEF f
  <2> QED
    BY <1>2, <2>1
<1>6. Listed(elf)
  <2>1. 11 + N + N \in 1 .. 14 + N + N /\ f[11 + N + N] = elf
    BY <1>1
  <2> HIDE DEF f
  <2> QED
    BY <2>1
<1>7. \A y \in 0 .. 2 : Listed(y)
  <2>1. \A y \in 0 .. 2 : y + 12 + N + N \in 1 .. 14 + N + N /\ f[y + 12 + N + N] = y
    BY <1>1
  <2> HIDE DEF f
  <2> QED
    BY <2>1, ZenonT(60)
<1> HIDE DEF f
<1>8. PICK y \in 0 .. FdSetSize - 1 : \A k \in 1 .. 14 + N + N : f[k] # y
  <2>1. 14 + N + N \in Nat /\ 14 + N + N < FdSetSize
    BY <1>1 DEF Room
  <2>2. Missed(f, 14 + N + N, FdSetSize)
    BY <1>1, <2>1, Pigeonhole
  <2> QED
    BY <2>2 DEF Missed
<1>9. ~Listed(y)
  BY <1>8
<1> HIDE DEF Listed
<1>10. y \in Fd /\ y > 2
  BY <1>1, <1>7, <1>8, <1>9 DEF Fd
<1>11. y \notin PipesOf(pipes) \cup Parents \cup {elf} \cup childFds
  BY <1>3, <1>4, <1>5, <1>6, <1>9, ZenonT(60)
<1>12. Open(table) \subseteq PipesOf(pipes) \cup Parents \cup {elf} \cup childFds
  BY DEF StrayInv
<1>13. table[y] = Closed
  BY <1>10, <1>11, <1>12 DEF Open
<1> QED
  BY <1>10, <1>11, <1>13, ZenonT(60)

-----------------------------------------------------------------------------
(* The ruleset. *)

\* The ruleset's entry of the list.
LEMMA OfRulesType ==
  ASSUME TypeOK
  PROVE  OfRules \in Nat \ {0} /\ Len(maps) \in Nat
BY CallTypes DEF OfRules, TypeOK

\* The relocations: the entry is there, and behind its parent the ruleset.
LEMMA RulesBefore ==
  ASSUME TypeOK', UNCHANGED <<cfg, rules>>, pc' \in Unsettled \/ (pc' = "dup" /\ i' = 1),
         Len(cfg.maps) < MaxPreserved /\ rules # NoFd =>
           OfRules <= Len(maps') /\ maps'[OfRules].child = rules /\ table'[maps'[OfRules].parent] = Ruleset
  PROVE  RulesInv'
<1>1. OfRules' = OfRules
  BY DEF OfRules
<1>2. OfRules \in Nat \ {0}
  <2>1. cfg' \in Run
    BY DEF TypeOK
  <2>2. cfg'.maps \in Seq(Redirect)
    BY <2>1 DEF Run
  <2> QED
    BY <2>2 DEF OfRules
<1>3. pc' \notin {"sync2", "std", "enter", "exec", "library"} /\ ~(pc' = "dup" /\ OfRules < i')
  BY <1>2 DEF Unsettled
<1> QED
  BY <1>1, <1>3 DEF RulesInv

\* From redirect_fds() on, the ruleset is behind its own number.
LEMMA RulesAfter ==
  ASSUME UNCHANGED <<cfg, maps, rules>>, RulesInv, pc \in Relocated,
         pc' \in {"sync2", "std", "enter", "exec", "library"},
         (/\ Len(cfg.maps) < MaxPreserved /\ rules # NoFd
          /\ pc' \in {"std", "enter", "exec", "library"} => StdTaken \subseteq cfg.open
          /\ pc' = "exec" => Preload)
         => table'[rules] = Ruleset /\ rules \notin cloexec'
  PROVE  RulesInv'
<1>1. OfRules' = OfRules /\ StdTaken' = StdTaken /\ Preload' = Preload
  BY DEF OfRules, StdTaken, Preload
<1>2. Len(cfg.maps) < MaxPreserved /\ rules # NoFd => OfRules <= Len(maps) /\ maps[OfRules].child = rules
  BY DEF RulesInv
<1> QED
  BY <1>1, <1>2 DEF RulesInv, Unsettled

\* The caller's side: the ruleset is preserved as soon as it is made.
LEMMA RulesCaller ==
  ASSUME TypeOK, TypeOK', CallerSideInv, ListInv, RulesInv,
         \/ \E p \in PipeNames : SetupPipe(p) \/ PipeFails(p)
         \/ Clone \/ RunReturns
  PROVE  RulesInv'
<1>1. ASSUME NEW p \in PipeNames, SetupPipe(p) \/ PipeFails(p) PROVE RulesInv'
  <2>1. rules' = NoFd
    BY <1>1 DEF SetupPipe, PipeFails, ListInv
  <2> QED
    BY <2>1 DEF RulesInv
<1>2. CASE Clone
  <2> DEFINE r == RulesFd(table)
  <2>1. /\ ppc = "shared" /\ pc' = "closefds" /\ UNCHANGED cfg
        /\ table' = WithRules(table) /\ rules' = r /\ maps' = Preserve(maps, r)
    BY <1>2, ZenonT(60) DEF Clone
  <2>2. /\ maps = cfg.maps /\ maps \in Seq(Redirect) /\ Len(maps) \in Nat /\ Len(maps) <= MaxPreserved
        /\ r \in Fd \cup {NoFd}
    BY <2>1, RulesTypes DEF ListInv, TypeOK
  <2>3. ASSUME Len(cfg.maps) < MaxPreserved, r # NoFd
        PROVE  OfRules <= Len(maps') /\ maps'[OfRules].child = r /\ table'[maps'[OfRules].parent] = Ruleset
    <3>1. Len(maps') = Len(maps) + 1 /\ \A k \in 1 .. Len(maps') : k > Len(maps) =>
            maps'[k].parent = r /\ maps'[k].child = r
      BY <2>1, <2>2, <2>3, PreserveEntry
    <3>2. OfRules = Len(maps) + 1
      BY <2>2 DEF OfRules
    <3>3. table'[r] = Ruleset
      BY <2>1, <2>2, <2>3, RulesTable
    <3> QED
      BY <2>2, <3>1, <3>2, <3>3
  <2>4. OfRules' = OfRules
    BY <2>1 DEF OfRules
  <2> QED
    BY <2>1, <2>3, <2>4 DEF RulesInv, Unsettled
<1>3. CASE RunReturns
  BY <1>3 DEF RunReturns, childVars, RulesInv, OfRules, StdTaken, Preload
<1> QED
  BY <1>1, <1>2, <1>3

\* close_open_fds() and the relocations.
LEMMA RulesRelocation ==
  ASSUME TypeOK, TypeOK', RulesInv, pc' # "dead",
         CloseOpenFds \/ GetChildFds \/ GetChildFdsDone \/ AvoidPipeConflicts \/ MoveElf
  PROVE  RulesInv'
<1>0. OfRules \in Nat \ {0} /\ Len(maps) \in Nat /\ Ruleset # Closed
  BY OfRulesType, FilesDiffer, ZenonT(60)
<1>1. pc \in Unsettled /\ UNCHANGED <<cfg, rules>>
  BY DEF CloseOpenFds, GetChildFds, GetChildFdsDone, AvoidPipeConflicts, MoveElf, Unsettled, Die
<1>2. pc' \in Unsettled \/ (pc' = "dup" /\ i' = 1)
  BY CloseFdsEffect, GetEffect, AvoidEffect, ElfEffect DEF GetChildFdsDone, Next1, Unsettled
<1> SUFFICES ASSUME Len(cfg.maps) < MaxPreserved, rules # NoFd
             PROVE  OfRules <= Len(maps') /\ maps'[OfRules].child = rules /\ table'[maps'[OfRules].parent] = Ruleset
  BY <1>1, <1>2, RulesBefore
<1>3. /\ OfRules <= Len(maps) /\ maps[OfRules].child = rules /\ table[maps[OfRules].parent] = Ruleset
      /\ OfRules \in 1 .. Len(maps)
  BY <1>0, <1>1 DEF RulesInv, Unsettled, Relocated
<1>4. maps[OfRules].parent \in Fd
  BY <1>3, ParentsTypes
<1>5. CASE CloseOpenFds
  <2>1. /\ Len(maps) <= Len(maps') /\ maps' \in Seq(Redirect) /\ \A k \in 1 .. Len(maps) : maps'[k] = maps[k]
        /\ \A k \in Parents' : k \in Fd => table'[k] = table[k]
    BY <1>5, CloseFdsEffect
  <2>2. OfRules \in 1 .. Len(maps') /\ maps'[OfRules] = maps[OfRules]
    BY <1>3, <2>1
  <2>3. maps[OfRules].parent \in Parents'
    BY <2>2 DEF Parents
  <2> QED
    BY <1>3, <1>4, <2>1, <2>2, <2>3
<1>6. CASE GetChildFds
  <2>1. i \in 1 .. Len(maps) /\ maps[i].parent \in Fd
    BY <1>6, GetEffect
  <2>2. PICK to \in Fd :
          /\ to = maps[i].parent \/ table[to] = Closed
          /\ \A k \in Fd : table'[k] = IF k = to THEN table[maps[i].parent] ELSE table[k]
          /\ Len(maps') = Len(maps)
          /\ \A k \in 1 .. Len(maps) :
               maps'[k].child = maps[k].child /\ maps'[k].parent = IF k = i THEN to ELSE maps[k].parent
    BY <1>6, GetEffect
  <2> QED
    BY <1>0, <1>3, <1>4, <2>1, <2>2
<1>7. CASE GetChildFdsDone
  BY <1>3, <1>7 DEF GetChildFdsDone
<1>8. CASE AvoidPipeConflicts
  <2>1. UNCHANGED maps /\ \A k \in Fd : table[k] # Closed => table'[k] = table[k]
    BY <1>8, AvoidEffect
  <2> QED
    BY <1>0, <1>3, <1>4, <2>1
<1>9. CASE MoveElf
  <2>1. UNCHANGED maps /\ \A k \in Fd : table[k] # Closed => table'[k] = table[k]
    BY <1>9, ElfEffect
  <2> QED
    BY <1>0, <1>3, <1>4, <2>1
<1> QED
  BY <1>5, <1>6, <1>7, <1>8, <1>9

\* redirect_fds(), first loop.
LEMMA RulesDup ==
  ASSUME TypeOK, RedirectInv, RulesInv, pc' # "dead", RedirectFds
  PROVE  RulesInv'
<1>0. OfRules \in Nat \ {0} /\ Len(maps) \in Nat /\ Ruleset # Closed
  BY OfRulesType, FilesDiffer
<1>1. /\ pc = "dup" /\ pc' = "dup" /\ i \in 1 .. Len(maps) /\ i' = i + 1
      /\ UNCHANGED <<cfg, maps, rules>> /\ cloexec' = cloexec \ {maps[i].child}
      /\ \A k \in Fd : table'[k] = IF k = maps[i].child THEN table[maps[i].parent] ELSE table[k]
  BY DupEffect
<1>2. OfRules' = OfRules
  BY <1>1 DEF OfRules
<1>3. \A a, b \in 1 .. Len(maps) : a < b => maps[a].child \notin {maps[b].child, maps[b].parent}
  BY <1>1 DEF RedirectInv, OrderInv, Relocated
<1>4. ASSUME Len(cfg.maps) < MaxPreserved, rules # NoFd
      PROVE  /\ OfRules <= Len(maps) /\ maps[OfRules].child = rules
             /\ OfRules >= i + 1 => table'[maps[OfRules].parent] = Ruleset
             /\ OfRules < i + 1 => table'[rules] = Ruleset /\ rules \notin cloexec'
  <2>1. /\ OfRules <= Len(maps) /\ maps[OfRules].child = rules
        /\ OfRules >= i => table[maps[OfRules].parent] = Ruleset
        /\ OfRules < i => table[rules] = Ruleset /\ rules \notin cloexec
    BY <1>1, <1>4 DEF RulesInv, Relocated
  <2>2. OfRules \in 1 .. Len(maps) /\ maps[OfRules].parent \in Fd /\ rules \in Fd
    BY <1>0, <2>1, ParentsTypes
  <2>3. CASE OfRules > i
    <3>1. maps[i].child # maps[OfRules].parent
      BY <1>1, <1>3, <2>2, <2>3
    <3> QED
      BY <1>0, <1>1, <2>1, <2>2, <2>3, <3>1
  <2>4. CASE OfRules = i
    BY <1>1, <2>1, <2>2, <2>4
  <2>5. CASE OfRules < i
    <3>1. rules # maps[i].child
      BY <1>1, <1>3, <2>1, <2>2, <2>5
    <3> QED
      BY <1>0, <1>1, <2>1, <2>2, <2>5, <3>1
  <2> QED
    BY <1>0, <1>1, <2>3, <2>4, <2>5
<1> QED
  BY <1>1, <1>2, <1>4 DEF RulesInv, Unsettled

\* From the second loop of redirect_fds() to execve(2) nothing that is closed
\* or overwritten is the ruleset, unless a standard pipe takes its number.
LEMMA RulesRest ==
  ASSUME TypeOK, RedirectInv, ListInv, RulesInv,
         pc' \notin {"dead", "main"},
         \/ CloseParents \/ WaitForParentSetup \/ SetupChildStdFds \/ CloseStdPipes
         \/ EnterBeforeExec \/ Exec \/ EnterAfterExec
  PROVE  RulesInv'
<1>1. /\ pc \in Settled /\ pc' \in {"sync2", "std", "enter", "exec", "library"}
      /\ UNCHANGED <<cfg, maps, rules>>
  <2>1. CASE CloseParents
    BY <2>1, CloseParentsEffect DEF Settled
  <2>2. CASE WaitForParentSetup
    BY <2>2, WaitEffect, ZenonT(60) DEF Settled
  <2>3. CASE SetupChildStdFds
    BY <2>3, StdEffect DEF Settled
  <2>4. CASE CloseStdPipes
    BY <2>4, CloseStdEffect, ZenonT(60) DEF Settled
  <2>5. CASE EnterBeforeExec
    BY <2>5, EnterEffect DEF Settled
  <2>6. CASE Exec
    BY <2>6, ExecEffect DEF Settled
  <2>7. CASE EnterAfterExec
    BY <2>7, LibraryEffect DEF Settled
  <2> QED
    BY <2>1, <2>2, <2>3, <2>4, <2>5, <2>6, <2>7, ZenonT(60)
<1>2. /\ pc \in {"std", "enter", "exec"} => pc' \in {"std", "enter", "exec", "library"}
      /\ pc = "exec" => pc' = "library" /\ Preload
  <2>1. CASE CloseParents
    BY <2>1, CloseParentsEffect
  <2>2. CASE WaitForParentSetup
    BY <2>2, WaitEffect, ZenonT(60)
  <2>3. CASE SetupChildStdFds
    BY <2>3, StdEffect
  <2>4. CASE CloseStdPipes
    BY <2>4, CloseStdEffect, ZenonT(60)
  <2>5. CASE EnterBeforeExec
    BY <2>5, EnterEffect
  <2>6. CASE Exec
    BY <2>6, ExecEffect
  <2>7. CASE EnterAfterExec
    BY <2>7, LibraryEffect
  <2> QED
    BY <2>1, <2>2, <2>3, <2>4, <2>5, <2>6, <2>7, ZenonT(60)
<1> SUFFICES ASSUME Len(cfg.maps) < MaxPreserved, rules # NoFd,
                    pc' \in {"std", "enter", "exec", "library"} => StdTaken \subseteq cfg.open,
                    pc' = "exec" => Preload
             PROVE  table'[rules] = Ruleset /\ rules \notin cloexec'
  BY <1>1, RulesAfter DEF Settled, Relocated
<1>3. /\ OfRules \in 1 .. Len(maps) /\ maps[OfRules].child = rules
  BY <1>1, OfRulesType DEF RulesInv, Settled, Relocated
<1>4. /\ rules \in childFds /\ rules \in Fd /\ rules \notin cfg.open
      /\ \A p \in PipeNames, n \in {0, 1} : pipes[p][n] # rules
  <2>1. rules \in childFds /\ rules \in Fd
    BY <1>1, <1>3 DEF RedirectInv, OrderInv, Settled, Relocated, TypeOK
  <2>2. \A p \in PipeNames, n \in {0, 1} : pipes[p][n] # rules
    BY <1>1, <2>1, UserChildren, ZenonT(60)
  <2> QED
    BY <2>1, <2>2, ZenonT(60) DEF ListInv
<1>5. CASE CloseParents
  <2>1. /\ pc = "dup" /\ i > Len(maps) /\ cloexec' = cloexec
        /\ \A k \in Fd : k \in childFds => table'[k] = table[k]
    BY <1>5, CloseParentsEffect
  <2>2. OfRules < i
    <3>1. i \in Nat \ {0} /\ Len(maps) \in Nat
      BY ParentsTypes, ZenonT(60)
    <3> QED
      BY <1>3, <2>1, <3>1
  <2> QED
    BY <1>4, <2>1, <2>2, ZenonT(60) DEF RulesInv
<1>6. CASE WaitForParentSetup
  <2>1. /\ pc = "sync2" /\ cloexec' = cloexec
        /\ \A k \in Fd : k \notin {pipes["sync"][0], pipes["sync"][1]} => table'[k] = table[k]
    BY <1>6, WaitEffect
  <2>2. rules \notin {pipes["sync"][0], pipes["sync"][1]}
    BY <1>4 DEF PipeNames
  <2> QED
    BY <1>4, <2>1, <2>2 DEF RulesInv
<1>7. CloseParents \/ WaitForParentSetup \/ (table[rules] = Ruleset /\ rules \notin cloexec)
  <2>1. CASE SetupChildStdFds \/ CloseStdPipes \/ EnterBeforeExec
    <3>1. pc \in {"std", "enter"} /\ pc' \in {"std", "enter", "exec"}
      BY <2>1, StdEffect, CloseStdEffect, EnterEffect, ZenonT(60)
    <3> QED
      BY <3>1, ZenonT(60) DEF RulesInv
  <2>2. CASE Exec
    <3>1. pc = "exec" /\ pc' = "library" /\ Preload
      BY <1>2, <2>2, ExecEffect
    <3> QED
      BY <3>1 DEF RulesInv
  <2>3. CASE EnterAfterExec
    BY <2>3, LibraryEffect
  <2> QED
    BY <2>1, <2>2, <2>3
<1>8. CASE SetupChildStdFds
  <2> DEFINE from == pipes[Std[i].pipe][Std[i].n]
  <2>1. /\ pc' = "std" /\ i \in 1 .. 3 /\ cloexec' \subseteq cloexec
        /\ Std[i].pipe \in StdPipes /\ Std[i].n \in {0, 1}
        /\ \A k \in Fd : table'[k] = IF from # NoFd /\ k = i - 1 THEN table[from] ELSE table[k]
    BY <1>8, StdEffect, ZenonT(60)
  <2>2. from # NoFd => i - 1 \in StdTaken
    <3>1. from # NoFd => Std[i].pipe \in cfg.pipes
      BY <2>1 DEF RedirectInv, PipesInv, StdPipes, PipeNames
    <3> QED
      BY <2>1, <3>1, ZenonT(60) DEF StdTaken
  <2> HIDE DEF from
  <2>3. ~(from # NoFd /\ rules = i - 1)
    BY <1>4, <2>1, <2>2
  <2>4. CloseParents \/ WaitForParentSetup => pc' = "sync2" \/ pc = "sync2"
    BY CloseParentsEffect, WaitEffect, ZenonT(60)
  <2>5. table[rules] = Ruleset /\ rules \notin cloexec
    BY <1>7, <1>8, <2>1, <2>4, StdEffect, ZenonT(60)
  <2> QED
    BY <1>4, <2>1, <2>3, <2>5, ZenonT(60)
<1>9. CASE CloseStdPipes
  <2> DEFINE S == StdNumbers(pipes)
  <2>1. /\ pc = "std" /\ pc' = "enter" /\ cloexec' = cloexec
        /\ \A k \in Fd : table'[k] = IF k \in S THEN Closed ELSE table[k]
    BY <1>9, CloseStdEffect, ZenonT(60)
  <2>2. rules \notin S
    <3>1. \A p \in StdPipes, n \in {0, 1} : pipes[p][n] # rules
      BY <1>4, ZenonT(60) DEF StdPipes, PipeNames
    <3> QED
      BY <3>1, NotStdNumbers, ZenonT(60)
  <2> HIDE DEF S
  <2>3. table[rules] = Ruleset /\ rules \notin cloexec
    BY <2>1 DEF RulesInv
  <2> QED
    BY <1>4, <2>1, <2>2, <2>3, ZenonT(60)
<1>10. CASE EnterBeforeExec
  <2>1. /\ pc = "enter" /\ pc' = "exec" /\ cloexec' = cloexec
        /\ Preload => \A k \in Fd : table'[k] = IF k \in {cfg.mountns, NoFd} THEN Closed ELSE table[k]
    BY <1>10, EnterEffect, ZenonT(60)
  <2>2. rules # cfg.mountns
    BY <1>4, RunAssumption, ZenonT(60) DEF TypeOK, Legal
  <2>3. table[rules] = Ruleset /\ rules \notin cloexec
    BY <2>1 DEF RulesInv
  <2> QED
    BY <1>4, <2>1, <2>2, <2>3
<1>11. CASE Exec
  <2> DEFINE S == PipesOf(pipes) \ {pipes["config"][0]}
  <2>1. /\ pc = "exec" /\ pc' = "library" /\ Preload /\ cloexec' = {}
        /\ \A k \in Fd : table'[k] = IF k \in cloexec \cup S THEN Closed ELSE table[k]
    BY <1>2, <1>11, ExecEffect
  <2>2. rules \notin S
    BY <1>4 DEF PipesOf
  <2> HIDE DEF S
  <2>3. table[rules] = Ruleset /\ rules \notin cloexec
    BY <2>1 DEF RulesInv
  <2> QED
    BY <1>4, <2>1, <2>2, <2>3
<1>12. CASE EnterAfterExec
  BY <1>12, LibraryEffect
<1> QED
  BY <1>5, <1>6, <1>8, <1>9, <1>10, <1>11, <1>12

\* The ruleset goes through close_open_fds(), the relocations, the redirection
\* and FD_CLOEXEC like a descriptor of the caller's.
THEOREM RulesInvariant == Spec => []RulesInv
<1>1. Init => RulesInv
  BY DEF Init, RulesInv
<1>2. TypeOK /\ TypeOK' /\ CallerSideInv /\ RedirectInv /\ ListInv /\ RulesInv /\ [Next]_vars => RulesInv'
  <2> SUFFICES ASSUME TypeOK, TypeOK', CallerSideInv, RedirectInv, ListInv, RulesInv, [Next]_vars
               PROVE  RulesInv'
    OBVIOUS
  <2>1. CASE UNCHANGED vars
    BY <2>1 DEF vars, childVars, RulesInv, OfRules, StdTaken, Preload
  <2>2. CASE pc' \in {"dead", "main"} /\ ChildStep
    <3>1. CASE pc' = "dead"
      BY <3>1, ZenonT(60) DEF RulesInv, Relocated, Unsettled
    <3>2. CASE pc' = "main"
      <4>1. Exec \/ EnterAfterExec
        BY <2>2, <3>2, ChildFrame, ZenonT(60)
      <4>2. pc \in Relocated /\ UNCHANGED <<cfg, maps, rules>>
        BY <3>2, <4>1, ExecEffect, LibraryEffect DEF Relocated
      <4> QED
        BY <3>2, <4>2 DEF RulesInv, Unsettled, OfRules
    <3> QED
      BY <2>2, <3>1, <3>2, ZenonT(60)
  <2>3. CASE pc' \notin {"dead", "main"} /\ ChildStep
    BY <2>3, RulesRelocation, RulesDup, RulesRest DEF ChildStep
  <2> QED
    BY <2>1, <2>2, <2>3, RulesCaller DEF Next, Over
<1> QED
  BY <1>1, <1>2, FdTypeCorrect, CallerSideInvariant, RedirectInvariant, ListInvariant, PTL DEF Spec

\* The code that enters the Landlock domain finds the ruleset behind the number
\* it remembers, before execve(2) and in the preloaded library, for every
\* number and order of preserved descriptors that leaves room for one more.
THEOREM RulesetTheorem == Spec => []RulesetReachable
<1>1. RulesInv /\ ListInv => RulesetReachable
  BY DEF RulesInv, ListInv, RulesetReachable, Relocated
<1> QED
  BY <1>1, RulesInvariant, ListInvariant, PTL

-----------------------------------------------------------------------------
(* What is open after close_open_fds(). *)

\* What may be open at a point up to execve(2), and what must not be.
LEMMA StrayAt ==
  ASSUME pc' \in {"get", "avoid", "dup", "sync2", "std", "enter"},
         cfg'.closefds => \A k \in Fd : table'[k] # Closed =>
           \/ k \in PipesOf(pipes') \cup {elf'} \cup childFds'
           \/ pc' \in {"get", "avoid", "dup"} /\ k \in Parents'
           \/ pc' \in {"std", "enter"} /\ k \in StdTaken'
  PROVE  StrayInv'
<1>1. cfg'.closefds => \A k \in Open(table') :
         \/ k \in PipesOf(pipes') \cup {elf'} \cup childFds'
         \/ pc' \in {"get", "avoid", "dup"} /\ k \in Parents'
         \/ pc' \in {"std", "enter"} /\ k \in StdTaken'
  BY DEF Open
<1> QED
  BY <1>1 DEF StrayInv, NoStrayFds

\* Before close_open_fds() and after a failure nothing is claimed.
LEMMA StrayNot ==
  ASSUME pc' \in PipeNames \cup {"clone", "closefds", "none", "dead"}
  PROVE  StrayInv'
BY DEF StrayInv, NoStrayFds, PipeNames

\* The relocations leave behind only numbers that are children's.
LEMMA StrayRelocation ==
  ASSUME TypeOK, RedirectInv, StrayInv, pc' # "dead",
         CloseOpenFds \/ GetChildFds \/ GetChildFdsDone \/ AvoidPipeConflicts \/ MoveElf
  PROVE  StrayInv'
<1>1. CASE CloseOpenFds
  <2>1. /\ pc' = "get" /\ UNCHANGED <<cfg, pipes, elf>>
        /\ cfg.closefds => \A k \in Fd : table'[k] # Closed => k \in PipesOf(pipes) \cup Parents' \cup {elf}
    BY <1>1, CloseFdsEffect
  <2> QED
    BY <2>1, StrayAt, ZenonT(60)
<1>2. CASE GetChildFds
  <2>1. /\ pc = "get" /\ pc' = "get" /\ i \in 1 .. Len(maps) /\ maps[i].parent \in Fd
        /\ childFds' = childFds \cup {maps[i].child} /\ UNCHANGED <<cfg, pipes, elf>>
    BY <1>2, GetEffect, ZenonT(60)
  <2>2. PICK to \in Fd :
          /\ to = maps[i].parent \/ maps[i].parent \in childFds
          /\ \A k \in Fd : table'[k] = IF k = to THEN table[maps[i].parent] ELSE table[k]
          /\ Len(maps') = Len(maps)
          /\ \A k \in 1 .. Len(maps) : maps'[k].parent = IF k = i THEN to ELSE maps[k].parent
    BY <1>2, GetEffect
  <2>3. to \in Parents' /\ \A k \in Parents : k \in Parents' \/ k = to \/ k \in childFds
    <3>1. \A k \in 1 .. Len(maps) : maps'[k].parent \in Parents'
      BY <2>2 DEF Parents
    <3>2. \A k \in 1 .. Len(maps) : maps[k].parent \in Parents' \/ maps[k].parent = to \/ maps[k].parent \in childFds
      BY <2>2, <3>1
    <3> QED
      BY <2>1, <2>2, <3>1, <3>2, ZenonT(60) DEF Parents
  <2>4. ASSUME cfg.closefds, NEW k \in Fd, table'[k] # Closed
        PROVE  k \in PipesOf(pipes') \cup {elf'} \cup childFds' \/ k \in Parents'
    <3>1. CASE k = to
      BY <2>3, <3>1, ZenonT(60)
    <3>2. CASE k # to
      <4>1. k \in Open(table)
        BY <2>2, <2>4, <3>2, ZenonT(60) DEF Open
      <4>2. k \in PipesOf(pipes) \cup Parents \cup {elf} \cup childFds
        BY <2>1, <2>4, <4>1 DEF StrayInv
      <4> QED
        BY <2>1, <2>3, <3>2, <4>2, ZenonT(60)
    <3> QED
      BY <3>1, <3>2
  <2> QED
    BY <2>1, <2>4, StrayAt, ZenonT(60)
<1>3. CASE GetChildFdsDone
  <2>1. pc = "get" /\ pc' = "avoid" /\ UNCHANGED <<cfg, table, maps, pipes, elf, childFds>>
    BY <1>3 DEF GetChildFdsDone, Next1
  <2>2. cfg.closefds => \A k \in Fd : table[k] # Closed => k \in PipesOf(pipes) \cup Parents \cup {elf} \cup childFds
    BY <2>1 DEF StrayInv, Open
  <2>3. Parents' = Parents
    BY <2>1 DEF Parents
  <2> QED
    BY <2>1, <2>2, <2>3, StrayAt
<1>4. CASE AvoidPipeConflicts
  <2>1. /\ pc = "avoid" /\ pc' = "avoid" /\ UNCHANGED <<cfg, maps, elf, childFds>>
        /\ \/ UNCHANGED <<table, pipes>>
           \/ \E q \in PipeNames, m \in {0, 1}, to \in Fd :
                /\ to = pipes[q][m] \/ pipes[q][m] \in childFds
                /\ \A k \in Fd : table'[k] = IF k = to THEN table[pipes[q][m]] ELSE table[k]
                /\ \A p \in PipeNames, n \in {0, 1} : pipes'[p][n] = IF p = q /\ n = m THEN to ELSE pipes[p][n]
    BY <1>4, AvoidEffect
  <2>2. cfg.closefds => \A k \in Fd : table[k] # Closed => k \in PipesOf(pipes) \cup Parents \cup {elf} \cup childFds
    BY <2>1, ZenonT(60) DEF StrayInv, Open
  <2>3. Parents' = Parents
    BY <2>1 DEF Parents
  <2>4. CASE UNCHANGED <<table, pipes>>
    BY <2>1, <2>2, <2>3, <2>4, StrayAt, ZenonT(60)
  <2>5. CASE ~UNCHANGED <<table, pipes>>
    <3>1. PICK q \in PipeNames, m \in {0, 1}, to \in Fd :
            /\ to = pipes[q][m] \/ pipes[q][m] \in childFds
            /\ \A k \in Fd : table'[k] = IF k = to THEN table[pipes[q][m]] ELSE table[k]
            /\ \A p \in PipeNames, n \in {0, 1} : pipes'[p][n] = IF p = q /\ n = m THEN to ELSE pipes[p][n]
      BY <2>1, <2>5
    <3>2. \A p \in PipeNames, n \in {0, 1} : pipes'[p][n] \in PipesOf(pipes')
      BY DEF PipesOf
    <3>3. to \in PipesOf(pipes')
      BY <3>1, <3>2, ZenonT(60)
    <3>4. \A k \in PipesOf(pipes) : k \in PipesOf(pipes') \/ k = to \/ k \in childFds
      <4>1. \A p \in PipeNames, n \in {0, 1} :
              pipes[p][n] \in PipesOf(pipes') \/ pipes[p][n] = to \/ pipes[p][n] \in childFds
        BY <3>1, <3>2, ZenonT(60)
      <4> QED
        BY <4>1 DEF PipesOf
    <3>5. cfg.closefds => \A k \in Fd : table'[k] # Closed =>
            k \in PipesOf(pipes') \cup {elf'} \cup childFds' \/ k \in Parents'
      BY <2>1, <2>2, <2>3, <3>1, <3>3, <3>4, ZenonT(60)
    <3> QED
      BY <2>1, <3>5, StrayAt, ZenonT(60)
  <2> QED
    BY <2>4, <2>5, ZenonT(60)
<1>5. CASE MoveElf
  <2>1. /\ pc = "avoid" /\ pc' = "dup" /\ UNCHANGED <<cfg, maps, pipes, childFds>>
        /\ \/ UNCHANGED <<table, elf>>
           \/ \E to \in Fd :
                /\ elf \in childFds /\ elf' = to
                /\ \A k \in Fd : table'[k] = IF k = to THEN table[elf] ELSE table[k]
    BY <1>5, ElfEffect
  <2>2. cfg.closefds => \A k \in Fd : table[k] # Closed => k \in PipesOf(pipes) \cup Parents \cup {elf} \cup childFds
    BY <2>1 DEF StrayInv, Open
  <2>3. Parents' = Parents
    BY <2>1 DEF Parents
  <2>4. cfg.closefds => \A k \in Fd : table'[k] # Closed =>
          k \in PipesOf(pipes') \cup {elf'} \cup childFds' \/ k \in Parents'
    BY <2>1, <2>2, <2>3, ZenonT(60)
  <2> QED
    BY <2>1, <2>4, StrayAt
<1> QED
  BY <1>1, <1>2, <1>3, <1>4, <1>5

\* The redirection, the wait for the parent and the standard pipes.
LEMMA StrayRedirection ==
  ASSUME TypeOK, RedirectInv, StrayInv, pc' # "dead",
         RedirectFds \/ CloseParents \/ WaitForParentSetup \/ SetupChildStdFds \/ CloseStdPipes
  PROVE  StrayInv'
<1>1. CASE RedirectFds
  <2>1. /\ pc = "dup" /\ pc' = "dup" /\ i \in 1 .. Len(maps) /\ UNCHANGED <<cfg, maps, pipes, elf, childFds>>
        /\ \A k \in Fd : k # maps[i].child => table'[k] = table[k]
    BY <1>1, DupEffect
  <2>2. cfg.closefds => \A k \in Fd : table[k] # Closed => k \in PipesOf(pipes) \cup Parents \cup {elf} \cup childFds
    BY <2>1, ZenonT(60) DEF StrayInv, Open
  <2>3. Parents' = Parents /\ maps[i].child \in childFds
    BY <2>1 DEF Parents, RedirectInv, OrderInv, Relocated
  <2>4. cfg.closefds => \A k \in Fd : table'[k] # Closed =>
          k \in PipesOf(pipes') \cup {elf'} \cup childFds' \/ k \in Parents'
    BY <2>1, <2>2, <2>3
  <2> QED
    BY <2>1, <2>4, StrayAt, ZenonT(60)
<1>2. CASE CloseParents
  <2>1. /\ pc = "dup" /\ pc' = "sync2" /\ UNCHANGED <<cfg, pipes, elf, childFds>>
        /\ \A k \in Fd : table'[k] = IF k \in Parents \ childFds THEN Closed ELSE table[k]
    BY <1>2, CloseParentsEffect
  <2>2. cfg.closefds => \A k \in Fd : table[k] # Closed => k \in PipesOf(pipes) \cup Parents \cup {elf} \cup childFds
    BY <2>1, ZenonT(60) DEF StrayInv, Open
  <2>3. cfg.closefds => \A k \in Fd : table'[k] # Closed => k \in PipesOf(pipes') \cup {elf'} \cup childFds'
    BY <2>1, <2>2
  <2> QED
    BY <2>1, <2>3, StrayAt
<1>3. CASE WaitForParentSetup
  <2>1. /\ pc = "sync2" /\ pc' = "std" /\ UNCHANGED <<cfg, elf, childFds>>
        /\ \A k \in Fd : table'[k] = IF k \in {pipes["sync"][0], pipes["sync"][1]} THEN Closed ELSE table[k]
        /\ \A p \in PipeNames, n \in {0, 1} : pipes'[p][n] = IF p = "sync" THEN NoFd ELSE pipes[p][n]
    BY <1>3, WaitEffect, ZenonT(60)
  <2>2. cfg.closefds => \A k \in Fd : table[k] # Closed => k \in PipesOf(pipes) \cup {elf} \cup childFds
    BY <2>1 DEF StrayInv, Open
  <2>3. \A k \in PipesOf(pipes) : k \in {pipes["sync"][0], pipes["sync"][1]} \/ k \in PipesOf(pipes')
    <3>1. \A p \in PipeNames, n \in {0, 1} : p # "sync" => pipes[p][n] \in PipesOf(pipes')
      BY <2>1 DEF PipesOf
    <3> SUFFICES ASSUME NEW k, k \notin {pipes["sync"][0], pipes["sync"][1]}, k \notin PipesOf(pipes')
                 PROVE  k \notin PipesOf(pipes)
      BY ZenonT(60)
    <3>2. \A p \in PipeNames, n \in {0, 1} : pipes[p][n] # k
      BY <3>1, ZenonT(60)
    <3> QED
      BY <3>2, NotPipes, ZenonT(60)
  <2>4. cfg.closefds => \A k \in Fd : table'[k] # Closed => k \in PipesOf(pipes') \cup {elf'} \cup childFds'
    BY <2>1, <2>2, <2>3
  <2> QED
    BY <2>1, <2>4, StrayAt, ZenonT(60)
<1>4. CASE SetupChildStdFds
  <2> DEFINE from == pipes[Std[i].pipe][Std[i].n]
  <2>1. /\ pc = "std" /\ pc' = "std" /\ i \in 1 .. 3 /\ UNCHANGED <<cfg, pipes, elf, childFds>>
        /\ Std[i].pipe \in StdPipes /\ Std[i].n \in {0, 1}
        /\ \A k \in Fd : table'[k] = IF from # NoFd /\ k = i - 1 THEN table[from] ELSE table[k]
    BY <1>4, StdEffect, ZenonT(60)
  <2>2. from # NoFd => i - 1 \in StdTaken
    <3>1. from # NoFd => Std[i].pipe \in cfg.pipes
      BY <2>1, ZenonT(60) DEF RedirectInv, PipesInv, StdPipes, PipeNames
    <3> QED
      BY <2>1, <3>1 DEF StdTaken
  <2> HIDE DEF from
  <2>3. cfg.closefds => \A k \in Fd : table[k] # Closed => k \in PipesOf(pipes) \cup {elf} \cup childFds \cup StdTaken
    BY <2>1 DEF StrayInv, Open
  <2>4. StdTaken' = StdTaken
    BY <2>1 DEF StdTaken
  <2>5. cfg.closefds => \A k \in Fd : table'[k] # Closed =>
          k \in PipesOf(pipes') \cup {elf'} \cup childFds' \/ k \in StdTaken'
    BY <2>1, <2>2, <2>3, <2>4
  <2> QED
    BY <2>1, <2>5, StrayAt, ZenonT(60)
<1>5. CASE CloseStdPipes
  <2> DEFINE S == StdNumbers(pipes)
  <2>1. /\ pc = "std" /\ pc' = "enter" /\ UNCHANGED <<cfg, elf, childFds>>
        /\ \A k \in Fd : table'[k] = IF k \in S THEN Closed ELSE table[k]
        /\ \A p \in PipeNames, n \in {0, 1} : pipes'[p][n] = IF p \in StdPipes THEN NoFd ELSE pipes[p][n]
    BY <1>5, CloseStdEffect, ZenonT(60)
  <2>2. cfg.closefds => \A k \in Fd : table[k] # Closed => k \in PipesOf(pipes) \cup {elf} \cup childFds \cup StdTaken
    BY <2>1 DEF StrayInv, Open
  <2>3. \A k \in PipesOf(pipes) : k \in S \/ k \in PipesOf(pipes')
    <3>1. \A p \in PipeNames, n \in {0, 1} : p \notin StdPipes => pipes[p][n] \in PipesOf(pipes')
      BY <2>1 DEF PipesOf
    <3>2. \A p \in StdPipes, n \in {0, 1} : pipes[p][n] \in S
      BY StdNumbersAre, ZenonT(60)
    <3> HIDE DEF S
    <3> SUFFICES ASSUME NEW k, k \notin S, k \notin PipesOf(pipes') PROVE k \notin PipesOf(pipes)
      BY ZenonT(60)
    <3>3. \A p \in PipeNames, n \in {0, 1} : pipes[p][n] # k
      BY <3>1, <3>2
    <3> QED
      BY <3>3, NotPipes, ZenonT(60)
  <2> HIDE DEF S
  <2>4. StdTaken' = StdTaken
    BY <2>1 DEF StdTaken
  <2>5. cfg.closefds => \A k \in Fd : table'[k] # Closed =>
          k \in PipesOf(pipes') \cup {elf'} \cup childFds' \/ k \in StdTaken'
    BY <2>1, <2>2, <2>3, <2>4, ZenonT(60)
  <2> QED
    BY <2>1, <2>5, StrayAt, ZenonT(60)
<1> QED
  BY <1>1, <1>2, <1>3, <1>4, <1>5

\* The child numbers are the caller's, the ruleset's or a namespace's.
LEMMA ChildrenOf ==
  ASSUME TypeOK, RedirectInv, ListInv, pc \in Settled, NEW fd \in childFds
  PROVE  \/ \E k \in User : fd = maps[k].child /\ fd = cfg.maps[k].child
         \/ fd \in {rules, cfg.mountns, cfg.netns}
<1>1. PICK k \in 1 .. Len(maps) : fd = maps[k].child
  BY DEF RedirectInv, OrderInv, Settled, Relocated
<1>2. CASE k <= Len(cfg.maps)
  <2>1. k \in User
    BY <1>2, CallTypes DEF User
  <2> QED
    BY <1>1, <2>1 DEF RedirectInv, MapsInv
<1>3. CASE k > Len(cfg.maps)
  BY <1>1, <1>3 DEF ListInv
<1> QED
  BY <1>2, <1>3, CallTypes

\* minijail_enter() and execve(2) without a preloaded library.
LEMMA StrayEnter ==
  ASSUME TypeOK, RedirectInv, ListInv, StrayInv, pc' # "dead", EnterBeforeExec \/ Exec
  PROVE  StrayInv'
<1>0. NoFd \notin Fd
  BY NoFdNot, ZenonT(60)
<1>1. CASE EnterBeforeExec
  <2> DEFINE net == IF Preload THEN NoFd ELSE cfg.netns
             rs  == IF Preload THEN NoFd ELSE Landlocked(rules)
  <2>1. /\ pc = "enter" /\ pc' = "exec" /\ UNCHANGED <<cfg, pipes, elf, rules, childFds>>
        /\ \A k \in Fd : table'[k] = IF k \in {cfg.mountns, net, rs} THEN Closed ELSE table[k]
    BY <1>1, EnterEffect, ZenonT(60)
  <2>2. ~Preload => net = cfg.netns /\ (rules # NoFd => rs = rules)
    BY DEF ListInv, Landlocked
  <2> HIDE DEF net, rs
  <2>3. cfg.closefds => \A k \in Fd : table[k] # Closed => k \in PipesOf(pipes) \cup {elf} \cup childFds \cup StdTaken
    BY <2>1 DEF StrayInv, Open
  <2>4. StdTaken' = StdTaken /\ Preload' = Preload
    BY <2>1 DEF StdTaken, Preload
  <2>5. cfg.closefds => Open(table') \subseteq PipesOf(pipes) \cup {elf} \cup childFds \cup StdTaken
    BY <2>1, <2>3 DEF Open
  <2>6. cfg.mountns \notin Open(table') /\ (~Preload => cfg.netns \notin Open(table') /\ rules \notin Open(table'))
    BY <1>0, <2>1, <2>2 DEF Open
  <2>7. Open(table') \cap ({cfg.mountns} \cup IF Preload THEN {} ELSE {cfg.netns, rules}) = {}
    BY <2>6
  <2> QED
    BY <2>1, <2>4, <2>5, <2>7, ZenonT(60) DEF StrayInv, NoStrayFds
<1>2. CASE Exec
  <2> DEFINE S == PipesOf(pipes) \ {pipes["config"][0]}
  <2>1. /\ pc = "exec" /\ pc' = (IF Preload THEN "library" ELSE "main") /\ UNCHANGED <<cfg, pipes, elf, rules, childFds, maps>>
        /\ \A k \in Fd : table'[k] = IF k \in cloexec \cup S THEN Closed ELSE table[k]
    BY <1>2, ExecEffect
  <2>2. StdTaken' = StdTaken /\ Preload' = Preload
    BY <2>1 DEF StdTaken, Preload
  <2>3. cfg.closefds => Open(table') \subseteq {pipes["config"][0], elf} \cup childFds \cup StdTaken
    <3>1. cfg.closefds => \A k \in Fd : table[k] # Closed => k \in PipesOf(pipes) \cup {elf} \cup childFds \cup StdTaken
      BY <2>1 DEF StrayInv, Open
    <3>2. \A k \in PipesOf(pipes) : k \in S \/ k = pipes["config"][0]
      OBVIOUS
    <3> HIDE DEF S
    <3> QED
      BY <2>1, <3>1, <3>2, ZenonT(60) DEF Open
  <2> HIDE DEF S
  <2>4. cfg.closefds => Open(table') \cap ({cfg.mountns} \cup IF Preload THEN {} ELSE {cfg.netns, rules}) = {}
    <3>1. Open(table') \subseteq Open(table)
      BY <2>1, ZenonT(60) DEF Open
    <3> QED
      BY <2>1, <3>1 DEF StrayInv
  <2>5. CASE Preload
    BY <2>1, <2>2, <2>3, <2>4, <2>5, ZenonT(60) DEF StrayInv, NoStrayFds
  <2>6. CASE ~Preload
    <3>1. pipes["config"][0] = NoFd
      BY <2>6, ZenonT(60) DEF RedirectInv, PipesInv, Preload, PipeNames
    <3> SUFFICES ASSUME cfg.closefds, NEW k \in Open(table')
                 PROVE  k \in {cfg.maps[a].child : a \in User} \cup StdTaken \cup {elf}
      BY <2>1, <2>2, <2>6 DEF StrayInv, NoStrayFds, User
    <3>2. k \in {elf} \cup childFds \cup StdTaken
      BY <1>0, <2>3, <3>1, ZenonT(60) DEF Open
    <3>3. k \notin {cfg.mountns, cfg.netns, rules}
      BY <2>4, <2>6
    <3>4. pc \in Settled
      BY <2>1 DEF Settled
    <3> QED
      BY <3>2, <3>3, <3>4, ChildrenOf
  <2> QED
    BY <2>5, <2>6
<1> QED
  BY <1>1, <1>2

\* The number in the environment is still the configuration pipe's when the
\* library has read the jail from it.
LEMMA EnvIsConfig ==
  ASSUME TypeOK, RedirectInv, ListInv, FilesInv, pc = "library", Preload, table[env] = PipeEnd("config", 0)
  PROVE  env = pipes["config"][0]
<1> SUFFICES ASSUME env \in childFds PROVE FALSE
  BY ZenonT(60) DEF ListInv
<1>1. env # NoFd /\ env \notin cfg.open /\ env # rules /\ env \in Fd
  BY DEF ListInv, TypeOK
<1>2. env \notin {cfg.mountns, cfg.netns}
  BY <1>1, RunAssumption, ZenonT(60) DEF TypeOK, Legal
<1>3. PICK k \in User : env = maps[k].child
  BY <1>1, <1>2, ChildrenOf DEF Settled
<1>4. env \notin StdTaken
  <2> SUFFICES ASSUME env \in StdTaken PROVE FALSE
    OBVIOUS
  <2>1. table[env].of \in StdPipes \cup {"none"}
    BY <1>1 DEF FilesInv, StdFilesInv
  <2>2. table[env].of = "config"
    BY FilesDiffer, ZenonT(60) DEF PipeNames
  <2> QED
    BY <2>1, <2>2 DEF StdPipes
<1>5. table[env] = Wanted(k)
  BY <1>2, <1>3, <1>4, ZenonT(60) DEF RedirectInv, ChildrenInv, Entered
<1> QED
  BY <1>5, UserFacts DEF RedirectInv, PipeNames

\* The preloaded library closes what is left.
LEMMA StrayLibrary ==
  ASSUME TypeOK, RedirectInv, ListInv, FilesInv, StrayInv, pc' # "dead", EnterAfterExec, Preload
  PROVE  StrayInv'
<1> DEFINE rs == Landlocked(prules)
<1>0. NoFd \notin Fd
  BY NoFdNot, ZenonT(60)
<1>1. /\ pc = "library" /\ pc' = "main" /\ UNCHANGED <<cfg, maps, pipes, elf, rules, childFds>>
      /\ table[env] = PipeEnd("config", 0)
      /\ \A k \in Fd : table'[k] = IF k \in {env, cfg.netns, rs} THEN Closed ELSE WithRules(table)[k]
  BY LibraryEffect
<1>2. rules # NoFd => rs = rules
  BY DEF ListInv, Landlocked
<1> HIDE DEF rs
<1>3. env = pipes["config"][0]
  BY <1>1, EnvIsConfig
<1>4. StdTaken' = StdTaken /\ Preload' = Preload
  BY <1>1, ZenonT(60) DEF StdTaken, Preload
<1> SUFFICES ASSUME cfg.closefds, NEW k \in Open(table'), table'[k] # Ruleset
             PROVE  k \in {cfg.maps[a].child : a \in User} \cup StdTaken \cup {elf}
  BY <1>1, <1>4 DEF StrayInv, NoStrayFds, User, Open
<1>5. k \in Fd /\ table'[k] # Closed
  BY ZenonT(60) DEF Open
<1>6. k \notin {env, cfg.netns, rs} /\ table'[k] = WithRules(table)[k]
  BY <1>1, <1>5
<1>7. k # RulesFd(table) /\ table'[k] = table[k]
  BY <1>5, <1>6, RulesTable
<1>8. k \in Open(table)
  BY <1>5, <1>7, ZenonT(60) DEF Open
<1>9. k \in {pipes["config"][0], elf} \cup childFds \cup StdTaken /\ k # cfg.mountns
  BY <1>1, <1>8, ZenonT(60) DEF StrayInv
<1>10. k \in {elf} \cup childFds \cup StdTaken /\ k \notin {cfg.mountns, cfg.netns, rules}
  BY <1>0, <1>2, <1>3, <1>5, <1>6, <1>9, ZenonT(60)
<1>11. pc \in Settled
  BY <1>1 DEF Settled
<1> QED
  BY <1>10, <1>11, ChildrenOf

\* Only a run that preloads the library gets to the library's code.
LEMMA LibraryPreloaded == Spec => [](pc = "library" => Preload)
<1>1. Init => (pc = "library" => Preload)
  BY DEF Init
<1>2. TypeOK /\ (pc = "library" => Preload) /\ [Next]_vars => (pc = "library" => Preload)'
  <2> SUFFICES ASSUME TypeOK, pc = "library" => Preload, [Next]_vars, pc' = "library"
               PROVE  Preload'
    OBVIOUS
  <2>1. CASE pc = "library" /\ UNCHANGED cfg
    BY <2>1 DEF Preload
  <2>2. CASE Exec
    BY <2>2 DEF Exec, Next1, Preload
  <2>3. CASE CloseOpenFds \/ GetChildFds \/ GetChildFdsDone \/ AvoidPipeConflicts \/ MoveElf
    BY <2>3, ZenonT(60) DEF Next1, Die, CloseOpenFds, GetChildFds, GetChildFdsDone, AvoidPipeConflicts, MoveElf
  <2>4. CASE RedirectFds \/ CloseParents \/ WaitForParentSetup \/ SetupChildStdFds \/ CloseStdPipes
    BY <2>4 DEF Next1, Die, RedirectFds, CloseParents, WaitForParentSetup, SetupChildStdFds, CloseStdPipes
  <2>5. CASE EnterBeforeExec \/ EnterAfterExec
    BY <2>5, ZenonT(60) DEF Next1, Die, EnterBeforeExec, EnterAfterExec
  <2>6. CASE Clone \/ RunReturns \/ Over \/ UNCHANGED vars
    BY <2>1, <2>6, ZenonT(60) DEF Clone, RunReturns, Over, vars, childVars
  <2>7. ASSUME NEW p \in PipeNames, SetupPipe(p) \/ PipeFails(p) PROVE FALSE
    BY <2>7 DEF SetupPipe, PipeFails, After, PipeNames
  <2> QED
    BY <2>2, <2>3, <2>4, <2>5, <2>6, <2>7, ZenonT(60) DEF Next, ChildStep
<1> QED
  BY <1>1, <1>2, FdTypeCorrect, PTL DEF Spec

\* With minijail_close_open_fds(), every number that is open at some point is
\* of a pipe, of a preserved descriptor, of the program, or is 0, 1 or 2.
THEOREM StrayInvariant == Spec => []StrayInv
<1>1. Init => StrayInv
  BY ZenonT(60) DEF Init, StrayInv, NoStrayFds
<1>2. /\ TypeOK /\ RedirectInv /\ ListInv /\ FilesInv /\ (pc = "library" => Preload)
      /\ StrayInv /\ [Next]_vars
      => StrayInv'
  <2> SUFFICES ASSUME TypeOK, RedirectInv, ListInv, FilesInv, pc = "library" => Preload, StrayInv, [Next]_vars
               PROVE  StrayInv'
    OBVIOUS
  <2>1. CASE UNCHANGED <<cfg, childVars>>
    <3>1. Parents' = Parents /\ StdTaken' = StdTaken /\ Preload' = Preload
      BY <2>1, ZenonT(60) DEF childVars, Parents, StdTaken, Preload
    <3> QED
      BY <2>1, <3>1, ZenonT(60) DEF childVars, StrayInv, NoStrayFds
  <2>2. CASE pc' = "dead"
    BY <2>2, StrayNot
  <2>3. CASE ChildStep /\ pc' # "dead"
    <3>1. CASE EnterAfterExec
      BY <2>3, <3>1, StrayLibrary, ZenonT(60) DEF EnterAfterExec
    <3> QED
      BY <2>3, <3>1, StrayRelocation, StrayRedirection, StrayEnter DEF ChildStep
  <2>4. ASSUME NEW p \in PipeNames, SetupPipe(p) \/ PipeFails(p) PROVE StrayInv'
    <3>1. pc' \in PipeNames \cup {"clone", "none"}
      BY <2>4, PendingTypes, ZenonT(60) DEF SetupPipe, PipeFails
    <3> QED
      BY <3>1, StrayNot, ZenonT(60)
  <2>5. CASE Clone
    BY <2>5, StrayNot DEF Clone
  <2> QED
    BY <2>1, <2>2, <2>3, <2>4, <2>5, ZenonT(60) DEF Next, RunReturns, Over, vars
<1> QED
  BY <1>1, <1>2, FdTypeCorrect, RedirectInvariant, ListInvariant, FilesInvariant, LibraryPreloaded, PTL DEF Spec

\* After minijail_close_open_fds(), the program starts with the descriptors
\* that were preserved for it, its standard pipes and its own, and no other
\* but a ruleset that the preloaded library leaves open.
THEOREM NoStrayTheorem == Spec => []NoStrayFds
<1>1. StrayInv => NoStrayFds
  BY DEF StrayInv, NoStrayFds
<1> QED
  BY <1>1, StrayInvariant, PTL

-----------------------------------------------------------------------------
(* The standard pipes. *)

\* The numbers 0, 1 and 2 are those of the caller's three descriptors, until
\* close_open_fds(), and no pipe's.
LEMMA StdCaller ==
  ASSUME TypeOK, CallerSideInv, StdPipesInv,
         \/ \E p \in PipeNames : SetupPipe(p) \/ PipeFails(p)
         \/ Clone \/ RunReturns
  PROVE  StdPipesInv'
<1> SUFFICES ASSUME ({0, 1, 2} \subseteq cfg.open)' PROVE StdPipesInv'
  BY ZenonT(60) DEF StdPipesInv
<1>0. UNCHANGED cfg
  BY ZenonT(60) DEF SetupPipe, PipeFails, Clone, RunReturns
<1>1. {0, 1, 2} \subseteq cfg.open /\ {0, 1, 2} \subseteq Fd
  BY <1>0, CallTypes
<1>2. \A p \in PipeNames, n \in {0, 1} : pipes[p][n] \notin {0, 1, 2}
  BY <1>1, ZenonT(60) DEF StdPipesInv
<1>3. ppc = "shared" => \A fd \in {0, 1, 2} : table[fd] # Closed
  BY <1>1, FilesDiffer DEF CallerSideInv, Holds
<1>4. ASSUME NEW p \in PipeNames, SetupPipe(p) PROVE StdPipesInv'
  <2>1. ppc = "shared" /\ pc' \in PipeNames \cup {"clone"}
    BY <1>4 DEF SetupPipe, After, PipeNames
  <2>2. \A q \in PipeNames, n \in {0, 1} : pipes'[q][n] \notin {0, 1, 2}
    <3>1. CASE p \notin cfg.pipes
      BY <1>2, <1>4, <3>1 DEF SetupPipe
    <3>2. CASE p \in cfg.pipes
      <4>1. MakePipe(p)
        BY <1>4, <3>2, ZenonT(60) DEF SetupPipe
      <4>2. PICK a, b \in Fd : /\ table[a] = Closed /\ table[b] = Closed
                               /\ pipes'[p][0] = a /\ pipes'[p][1] = b
        BY <4>1, MakePipeTable, ZenonT(60)
      <4>3. \A q \in PipeNames \ {p} : pipes'[q] = pipes[q]
        BY <4>1, MakePipeTable
      <4>4. a \notin {0, 1, 2} /\ b \notin {0, 1, 2}
        BY <1>3, <2>1, <4>2
      <4> QED
        BY <1>2, <4>2, <4>3, <4>4, ZenonT(60)
    <3> QED
      BY <3>1, <3>2, ZenonT(60)
  <2> QED
    BY <2>1, <2>2, ZenonT(60) DEF StdPipesInv, PipeNames
<1>5. ASSUME NEW p \in PipeNames, PipeFails(p) PROVE StdPipesInv'
  BY <1>2, <1>5, ZenonT(60) DEF PipeFails, StdPipesInv
<1>6. CASE Clone
  <2>1. ppc = "shared" /\ pc' = "closefds" /\ UNCHANGED pipes /\ table' = WithRules(table)
    BY <1>6, ZenonT(60) DEF Clone
  <2>2. \A fd \in {0, 1, 2} : table'[fd] # Closed
    BY <1>1, <1>3, <2>1, RulesTable, FilesDiffer, ZenonT(60)
  <2> QED
    BY <1>2, <2>1, <2>2, ZenonT(60) DEF StdPipesInv
<1>7. CASE RunReturns
  BY <1>0, <1>7, ZenonT(60) DEF RunReturns, childVars, StdPipesInv
<1> QED
  BY <1>4, <1>5, <1>6, <1>7

\* The relocations move nothing to 0, 1 or 2 but a descriptor that is to be
\* there: these are open, or there is a higher number.
LEMMA StdRelocation ==
  ASSUME TypeOK, RedirectInv, StrayInv, Room, StdPipesInv, pc' # "dead",
         \/ CloseOpenFds \/ GetChildFds \/ GetChildFdsDone \/ AvoidPipeConflicts \/ MoveElf
         \/ RedirectFds \/ CloseParents
  PROVE  StdPipesInv'
<1>0. UNCHANGED cfg
  BY DEF CloseOpenFds, GetChildFds, GetChildFdsDone, AvoidPipeConflicts, MoveElf, RedirectFds, CloseParents
<1> SUFFICES ASSUME {0, 1, 2} \subseteq cfg.open PROVE StdPipesInv'
  BY <1>0, ZenonT(60) DEF StdPipesInv
<1>1. {0, 1, 2} \subseteq Fd
  BY CallTypes, ZenonT(60)
<1>2. /\ \A p \in PipeNames, n \in {0, 1} : pipes[p][n] \notin {0, 1, 2}
      /\ pc = "closefds" \/ (pc \in {"get", "avoid"} /\ ~cfg.closefds) => \A fd \in {0, 1, 2} : table[fd] # Closed
  BY DEF StdPipesInv
<1>3. CASE CloseOpenFds
  <2>1. pc = "closefds" /\ pc' = "get" /\ UNCHANGED pipes /\ (~cfg.closefds => \A k \in Fd : table'[k] = table[k])
    BY <1>3, CloseFdsEffect
  <2> QED
    BY <1>0, <1>1, <1>2, <2>1, ZenonT(60) DEF StdPipesInv
<1>4. CASE GetChildFds
  <2>1. pc = "get" /\ pc' = "get" /\ UNCHANGED pipes
    BY <1>4, GetEffect, ZenonT(60)
  <2>2. PICK to \in Fd :
          /\ to = maps[i].parent \/ table[to] = Closed
          /\ \A k \in Fd : table'[k] = IF k = to THEN table[maps[i].parent] ELSE table[k]
    BY <1>4, GetEffect
  <2>3. ~cfg.closefds => \A fd \in {0, 1, 2} : table'[fd] # Closed
    BY <1>1, <1>2, <2>1, <2>2, ZenonT(60)
  <2> QED
    BY <1>0, <1>2, <2>1, <2>3, ZenonT(60) DEF StdPipesInv
<1>5. CASE GetChildFdsDone
  <2>1. pc = "get" /\ pc' = "avoid" /\ UNCHANGED <<table, pipes>>
    BY <1>5, ZenonT(60) DEF GetChildFdsDone, Next1
  <2> QED
    BY <1>0, <1>2, <2>1 DEF StdPipesInv
<1>6. CASE AvoidPipeConflicts
  <2>1. pc = "avoid" /\ pc' = "avoid"
    BY <1>6, AvoidEffect, ZenonT(60)
  <2>2. CASE UNCHANGED <<table, pipes>>
    BY <1>0, <1>2, <2>1, <2>2, ZenonT(60) DEF StdPipesInv
  <2>3. CASE ~UNCHANGED <<table, pipes>>
    <3>1. PICK q \in PipeNames, m \in {0, 1}, to \in Fd :
            /\ \/ to = pipes[q][m]
               \/ pipes[q][m] \in childFds /\ table[to] = Closed /\ to = Unused(table)
            /\ \A k \in Fd : table'[k] = IF k = to THEN table[pipes[q][m]] ELSE table[k]
            /\ \A p \in PipeNames, n \in {0, 1} : pipes'[p][n] = IF p = q /\ n = m THEN to ELSE pipes[p][n]
      BY <1>6, <2>3, AvoidEffect, ZenonT(60)
    <3>2. to \notin {0, 1, 2}
      <4>1. CASE to = pipes[q][m]
        BY <1>2, <4>1
      <4>2. CASE ~cfg.closefds /\ table[to] = Closed
        BY <1>2, <2>1, <4>2
      <4>3. CASE cfg.closefds /\ to = Unused(table)
        <5>1. PICK k \in Fd : k > 2 /\ table[k] = Closed /\ k \notin childFds
          BY <2>1, <4>3, RoomAboveStd
        <5>2. to # NoFd
          BY NoFdNot, ZenonT(60)
        <5>3. k <= to
          BY <4>3, <5>1, <5>2, UnusedFree, ZenonT(60) DEF TypeOK
        <5> QED
          BY <5>1, <5>3, AboveStd, ZenonT(60)
      <4> QED
        BY <3>1, <4>1, <4>2, <4>3
    <3>3. \A p \in PipeNames, n \in {0, 1} : pipes'[p][n] \notin {0, 1, 2}
      BY <1>2, <3>1, <3>2, ZenonT(60)
    <3>4. ~cfg.closefds => \A fd \in {0, 1, 2} : table'[fd] # Closed
      BY <1>1, <1>2, <2>1, <3>1, <3>2
    <3> QED
      BY <1>0, <2>1, <3>3, <3>4, ZenonT(60) DEF StdPipesInv
  <2> QED
    BY <2>2, <2>3, ZenonT(60)
<1>7. CASE MoveElf \/ RedirectFds \/ CloseParents
  <2>1. UNCHANGED pipes /\ pc' \in {"dup", "sync2"}
    BY <1>7, ElfEffect, DupEffect, CloseParentsEffect, ZenonT(60)
  <2> QED
    BY <1>2, <2>1, ZenonT(60) DEF StdPipesInv
<1> QED
  BY <1>3, <1>4, <1>5, <1>6, <1>7, ZenonT(60)

\* The entries of setup_child_std_fds().
LEMMA StdTypes == \A k \in 1 .. 3 : Std[k].pipe \in StdPipes /\ Std[k].n \in {0, 1} /\ k - 1 \in {0, 1, 2}
BY DEF Std, StdPipes

\* setup_child_std_fds() puts each end in its place.
LEMMA StdPlaced ==
  ASSUME TypeOK, RedirectInv, FilesInv, StdPipesInv, WaitForParentSetup \/ SetupChildStdFds \/ CloseStdPipes
  PROVE  StdPipesInv'
<1>0. UNCHANGED cfg /\ StdPipes \subseteq PipeNames \ {"sync"} /\ NoFd \notin Fd
  BY DEF WaitForParentSetup, SetupChildStdFds, CloseStdPipes, StdPipes, PipeNames, NoFd, Fd
<1> SUFFICES ASSUME {0, 1, 2} \subseteq cfg.open PROVE StdPipesInv'
  BY <1>0, ZenonT(60) DEF StdPipesInv
<1>1. {0, 1, 2} \subseteq Fd /\ NoFd \notin {0, 1, 2}
  BY CallTypes, NoFdNot, ZenonT(60)
<1>2. \A p \in PipeNames, n \in {0, 1} : pipes[p][n] \notin {0, 1, 2}
  BY DEF StdPipesInv
<1>3. CASE WaitForParentSetup
  <2>1. /\ pc = "sync2" /\ pc' = "std" /\ i' = 1
        /\ \A k \in Fd : k \notin {pipes["sync"][0], pipes["sync"][1]} => table'[k] = table[k]
        /\ \A p \in PipeNames, n \in {0, 1} : pipes'[p][n] = IF p = "sync" THEN NoFd ELSE pipes[p][n]
    BY <1>3, WaitEffect
  <2>2. /\ \A p \in PipeNames, n \in {0, 1} : pipes[p][n] # NoFd => table[pipes[p][n]] = PipeEnd(p, n)
        /\ \A p \in cfg.pipes, n \in {0, 1} : pipes[p][n] # NoFd
    BY <2>1 DEF FilesInv, EndsInv, Pending
  <2>3. ASSUME NEW p \in cfg.pipes \cap StdPipes, NEW n \in {0, 1}
        PROVE  table'[pipes'[p][n]] = PipeEnd(p, n)
    <3>1. pipes[p][n] \in Fd /\ table[pipes[p][n]] = PipeEnd(p, n) /\ pipes'[p][n] = pipes[p][n]
      BY <1>0, <2>1, <2>2, PipesOfTypes, ZenonT(60)
    <3>2. \A m \in {0, 1} : pipes["sync"][m] # pipes[p][n]
      <4> SUFFICES ASSUME NEW m \in {0, 1}, pipes["sync"][m] = pipes[p][n] PROVE FALSE
        BY ZenonT(60)
      <4>1. table[pipes[p][n]] = PipeEnd("sync", m)
        BY <1>0, <2>2, <3>1, ZenonT(60) DEF PipeNames
      <4>2. p = "sync"
        BY <3>1, <4>1 DEF PipeEnd
      <4> QED
        BY <1>0, <4>2
    <3> QED
      BY <2>1, <3>1, <3>2, ZenonT(60)
  <2>4. \A p \in PipeNames, n \in {0, 1} : pipes'[p][n] \notin {0, 1, 2}
    BY <1>1, <1>2, <2>1
  <2>5. \A k \in 1 .. 3 : Std[k].pipe \in cfg.pipes =>
          k >= i' /\ table'[pipes'[Std[k].pipe][Std[k].n]] = PipeEnd(Std[k].pipe, Std[k].n)
    <3> SUFFICES ASSUME NEW k \in 1 .. 3, Std[k].pipe \in cfg.pipes
                 PROVE  k >= i' /\ table'[pipes'[Std[k].pipe][Std[k].n]] = PipeEnd(Std[k].pipe, Std[k].n)
      OBVIOUS
    <3>1. k >= i'
      BY <2>1
    <3>2. Std[k].pipe \in cfg.pipes \cap StdPipes /\ Std[k].n \in {0, 1}
      BY StdTypes, ZenonT(60)
    <3> QED
      BY <2>3, <3>1, <3>2, ZenonT(60)
  <2> QED
    BY <1>0, <2>1, <2>4, <2>5, ZenonT(60) DEF StdPipesInv
<1>4. CASE SetupChildStdFds
  <2> DEFINE from == pipes[Std[i].pipe][Std[i].n]
             End(k) == PipeEnd(Std[k].pipe, Std[k].n)
  <2>1. /\ pc = "std" /\ pc' = "std" /\ i \in 1 .. 3 /\ i' = i + 1 /\ UNCHANGED pipes
        /\ Std[i].pipe \in StdPipes /\ Std[i].n \in {0, 1} /\ from \in Fd \cup {NoFd}
        /\ cloexec' \subseteq cloexec /\ (from \notin {NoFd, i - 1} => i - 1 \notin cloexec')
        /\ \A k \in Fd : table'[k] = IF from # NoFd /\ k = i - 1 THEN table[from] ELSE table[k]
    BY <1>4, StdEffect, ZenonT(60)
  <2>2. /\ from \notin {0, 1, 2} /\ (Std[i].pipe \in cfg.pipes => from # NoFd)
    BY <1>0, <1>2, <2>1, ZenonT(60) DEF FilesInv, StdFilesInv
  <2> SUFFICES ASSUME NEW k \in 1 .. 3, Std[k].pipe \in cfg.pipes
               PROVE  IF k >= i + 1
                      THEN table'[pipes[Std[k].pipe][Std[k].n]] = End(k)
                      ELSE table'[k - 1] = End(k) /\ k - 1 \notin cloexec'
    BY <1>0, <1>2, <2>1, ZenonT(60) DEF StdPipesInv
  <2>3. IF k >= i THEN table[pipes[Std[k].pipe][Std[k].n]] = End(k)
                  ELSE table[k - 1] = End(k) /\ k - 1 \notin cloexec
    BY <1>0, <2>1, ZenonT(60) DEF StdPipesInv
  <2>4. k - 1 \in Fd /\ k - 1 \in {0, 1, 2}
    BY <1>1
  <2>5. CASE k > i
    <3>1. pipes[Std[k].pipe][Std[k].n] \in Fd
      BY <1>0, <2>1, PipesOfTypes, StdTypes, ZenonT(60) DEF FilesInv, StdFilesInv
    <3>2. pipes[Std[k].pipe][Std[k].n] # i - 1
      BY <1>0, <1>2, <2>1, StdTypes, ZenonT(60)
    <3>3. k >= i /\ k >= i + 1
      BY <2>1, <2>5
    <3>4. table'[pipes[Std[k].pipe][Std[k].n]] = table[pipes[Std[k].pipe][Std[k].n]]
      BY <2>1, <3>1, <3>2, ZenonT(60)
    <3> QED
      BY <2>3, <3>3, <3>4, ZenonT(60)
  <2>6. CASE k = i
    <3>0. k >= i
      BY <2>1, <2>6
    <3>1. from # NoFd /\ table[from] = End(k)
      <4>1. table[pipes[Std[k].pipe][Std[k].n]] = End(k)
        BY <2>3, <3>0
      <4>2. from # NoFd
        BY <2>2, <2>6, ZenonT(60)
      <4> QED
        BY <2>6, <4>1, <4>2, ZenonT(60)
    <3>2. from \notin {NoFd, i - 1}
      BY <2>2, <2>4, <2>6, <3>1, ZenonT(60)
    <3>3. ~(k >= i + 1)
      BY <2>1, <2>6
    <3> HIDE DEF from, End
    <3>4. table'[k - 1] = table[from] /\ k - 1 \notin cloexec'
      BY <2>1, <2>4, <2>6, <3>1, <3>2, ZenonT(60)
    <3> QED
      BY <3>1, <3>3, <3>4, ZenonT(60)
  <2>7. CASE k < i
    <3>1. ~(k >= i) /\ ~(k >= i + 1) /\ k - 1 # i - 1
      BY <2>1, <2>7
    <3> HIDE DEF from, End
    <3>2. table[k - 1] = End(k) /\ k - 1 \notin cloexec
      BY <2>3, <3>1, ZenonT(60)
    <3>3. table'[k - 1] = table[k - 1] /\ k - 1 \notin cloexec'
      BY <2>1, <2>4, <3>1, <3>2, ZenonT(60)
    <3> QED
      BY <3>1, <3>2, <3>3, ZenonT(60)
  <2>8. k > i \/ k = i \/ k < i
    BY <2>1
  <2> QED
    BY <2>5, <2>6, <2>7, <2>8, ZenonT(60)
<1>5. CASE CloseStdPipes
  <2>1. /\ pc = "std" /\ pc' = "enter" /\ i > 3
        /\ \A p \in PipeNames, n \in {0, 1} : pipes'[p][n] = IF p \in StdPipes THEN NoFd ELSE pipes[p][n]
    BY <1>5, CloseStdEffect, ZenonT(60)
  <2>2. \A fd \in {0, 1, 2} : \A p \in StdPipes, n \in {0, 1} : pipes[p][n] # fd
    BY <1>0, <1>2, ZenonT(60)
  <2>3. cloexec' = cloexec /\ \A fd \in {0, 1, 2} : table'[fd] = table[fd]
    BY <1>1, <1>5, <2>2, CloseStdKeeps, ZenonT(60)
  <2>4. \A k \in 1 .. 3 : Std[k].pipe \in cfg.pipes =>
          table[k - 1] = PipeEnd(Std[k].pipe, Std[k].n) /\ k - 1 \notin cloexec
    <3>1. \A k \in 1 .. 3 : ~(k >= i)
      BY <2>1 DEF TypeOK
    <3> QED
      BY <1>0, <2>1, <3>1, ZenonT(60) DEF StdPipesInv
  <2>5. \A p \in PipeNames, n \in {0, 1} : pipes'[p][n] \notin {0, 1, 2}
    BY <1>1, <1>2, <2>1
  <2> QED
    BY <1>0, <2>1, <2>3, <2>4, <2>5, StdTypes, ZenonT(60) DEF StdPipesInv
<1> QED
  BY <1>3, <1>4, <1>5, ZenonT(60)

\* Nothing that minijail_enter(), execve(2) and the library close or make is a
\* standard descriptor.
LEMMA StdKept ==
  ASSUME TypeOK, StdPipesInv, pc' # "dead", EnterBeforeExec \/ Exec \/ EnterAfterExec
  PROVE  StdPipesInv'
<1>0. UNCHANGED <<cfg, pipes>> /\ pc \in {"enter", "exec", "library"} /\ pc' \in {"exec", "library", "main"}
  BY EnterEffect, ExecEffect, LibraryEffect, ZenonT(60)
<1> SUFFICES ASSUME {0, 1, 2} \subseteq cfg.open PROVE StdPipesInv'
  BY <1>0, ZenonT(60) DEF StdPipesInv
<1>1. {0, 1, 2} \subseteq Fd /\ StdPipes \subseteq PipeNames \ {"config"}
  BY CallTypes, ZenonT(60) DEF StdPipes, PipeNames
<1>2. \A p \in PipeNames, n \in {0, 1} : pipes[p][n] \notin {0, 1, 2}
  BY DEF StdPipesInv
<1> SUFFICES ASSUME NEW k \in 1 .. 3, Std[k].pipe \in cfg.pipes
             PROVE  table'[k - 1] = PipeEnd(Std[k].pipe, Std[k].n) /\ k - 1 \notin cloexec'
  BY <1>0, <1>2, ZenonT(60) DEF StdPipesInv
<1> DEFINE fd == k - 1
           file == PipeEnd(Std[k].pipe, Std[k].n)
<1>3. fd \in Fd /\ fd \in {0, 1, 2} /\ table[fd] = file /\ fd \notin cloexec
  <2>1. fd \in {0, 1, 2}
    OBVIOUS
  <2> QED
    BY <1>0, <1>1, <2>1, ZenonT(60) DEF StdPipesInv
<1>4. /\ file \notin {Closed, Ruleset} /\ file # PipeEnd("config", 0)
      /\ \A n : file # CallerFile(n)
  <2>1. Std[k].pipe \in PipeNames \ {"config"}
    BY <1>1, StdTypes, ZenonT(60)
  <2>2. file.of # "config"
    BY <2>1, FilesDiffer
  <2>3. PipeEnd("config", 0).of = "config"
    BY FilesDiffer DEF PipeNames
  <2> QED
    BY <2>1, <2>2, <2>3, FilesDiffer
<1>5. fd # NoFd
  BY <1>3 DEF Fd, NoFd
<1> HIDE DEF fd, file
<1> SUFFICES table'[fd] = file /\ fd \notin cloexec'
  BY DEF fd, file
<1>6. CASE EnterBeforeExec
  <2> DEFINE net == IF Preload THEN NoFd ELSE cfg.netns
             rs  == IF Preload THEN NoFd ELSE Landlocked(rules)
  <2>1. /\ UNCHANGED cloexec
        /\ Usable(table, cfg.mountns, CallerFile(cfg.mountns))
        /\ Usable(table, net, CallerFile(net)) /\ Usable(table, rs, Ruleset)
        /\ \A n \in Fd : table'[n] = IF n \in {cfg.mountns, net, rs} THEN Closed ELSE table[n]
    BY <1>6, EnterEffect, ZenonT(60)
  <2> HIDE DEF net, rs
  <2>2. fd \notin {cfg.mountns, net, rs}
    BY <1>3, <1>4, <1>5, <2>1 DEF Usable
  <2> QED
    BY <1>3, <2>1, <2>2
<1>7. CASE Exec
  <2> DEFINE S == PipesOf(pipes) \ {pipes["config"][0]}
  <2>1. cloexec' = {} /\ \A n \in Fd : table'[n] = IF n \in cloexec \cup S THEN Closed ELSE table[n]
    BY <1>7, ExecEffect
  <2>2. fd \notin S
    BY <1>2, <1>3, NotPipes, ZenonT(60)
  <2> HIDE DEF S
  <2> QED
    BY <1>3, <2>1, <2>2, ZenonT(60)
<1>8. CASE EnterAfterExec
  <2> DEFINE rs == Landlocked(prules)
             t  == WithRules(table)
  <2>1. /\ table[env] = PipeEnd("config", 0)
        /\ Usable(t, cfg.netns, CallerFile(cfg.netns)) /\ Usable(t, rs, Ruleset)
        /\ cloexec' = cloexec \cup ({RulesFd(table)} \ {NoFd})
        /\ \A n \in Fd : table'[n] = IF n \in {env, cfg.netns, rs} THEN Closed ELSE t[n]
    BY <1>8, LibraryEffect, ZenonT(60)
  <2>2. fd # RulesFd(table)
    BY <1>3, <1>4, <1>5, RulesTypes, ZenonT(60)
  <2>3. t[fd] = file
    BY <1>3, <2>2, RulesTable, ZenonT(60)
  <2> HIDE DEF rs, t
  <2>4. fd \notin {env, cfg.netns, rs}
    BY <1>3, <1>4, <1>5, <2>1, <2>3 DEF Usable
  <2> QED
    BY <1>3, <2>1, <2>2, <2>3, <2>4
<1> QED
  BY <1>6, <1>7, <1>8

\* With the caller's three standard descriptors open and room in the table, the
\* standard pipes come out behind 0, 1 and 2.
THEOREM StdPipesInvariant == Room => (Spec => []StdPipesInv)
<1> SUFFICES ASSUME Room PROVE Spec => []StdPipesInv
  BY ZenonT(60)
<1>1. Init => StdPipesInv
  BY DEF Init, StdPipesInv, NoFd
<1>2. /\ TypeOK /\ CallerSideInv /\ RedirectInv /\ FilesInv /\ StrayInv
      /\ StdPipesInv /\ [Next]_vars
      => StdPipesInv'
  <2> SUFFICES ASSUME TypeOK, CallerSideInv, RedirectInv, FilesInv, StrayInv, StdPipesInv, [Next]_vars
               PROVE  StdPipesInv'
    OBVIOUS
  <2>1. CASE UNCHANGED vars
    BY <2>1, ZenonT(60) DEF vars, childVars, StdPipesInv
  <2>2. CASE ChildStep /\ pc' # "dead"
    BY <2>2, StdRelocation, StdPlaced, StdKept DEF ChildStep
  <2>3. CASE ChildStep /\ pc' = "dead"
    <3>1. UNCHANGED cfg
      BY <2>3, ChildFrame, ZenonT(60)
    <3>2. CASE CloseOpenFds \/ GetChildFds \/ GetChildFdsDone \/ AvoidPipeConflicts \/ MoveElf
      <4>1. UNCHANGED pipes
        BY <2>3, <3>2, ZenonT(60) DEF Next1, Die, CloseOpenFds, GetChildFds, GetChildFdsDone, AvoidPipeConflicts, MoveElf
      <4> QED
        BY <2>3, <3>1, <4>1, ZenonT(60) DEF StdPipesInv
    <3>3. CASE RedirectFds \/ CloseParents \/ WaitForParentSetup \/ SetupChildStdFds \/ CloseStdPipes
      <4>1. ~CloseStdPipes
        BY <2>3, CloseStdEffect, ZenonT(60)
      <4>2. UNCHANGED pipes
        BY <2>3, <3>3, <4>1, ZenonT(60) DEF Next1, Die, RedirectFds, CloseParents, WaitForParentSetup, SetupChildStdFds
      <4> QED
        BY <2>3, <3>1, <4>2, ZenonT(60) DEF StdPipesInv
    <3>4. CASE EnterBeforeExec \/ Exec \/ EnterAfterExec
      <4>1. UNCHANGED pipes
        BY <2>3, <3>4, ZenonT(60) DEF Next1, Die, EnterBeforeExec, Exec, EnterAfterExec
      <4> QED
        BY <2>3, <3>1, <4>1, ZenonT(60) DEF StdPipesInv
    <3> QED
      BY <2>3, <3>2, <3>3, <3>4 DEF ChildStep
  <2> QED
    BY <2>1, <2>2, <2>3, StdCaller DEF Next, Over
<1> QED
  BY <1>1, <1>2, FdTypeCorrect, CallerSideInvariant, RedirectInvariant, FilesInvariant, StrayInvariant, PTL DEF Spec

\* libminijail.h on minijail_run_pid_pipes(): the program's descriptors 0, 1
\* and 2 are the ends of the pipes whose other ends the caller got, whatever
\* was preserved and however the descriptors were moved, if the caller's own
\* three were open and the table has the room that FD_SETSIZE gives it.
THEOREM StdPipesTheorem == Room => (Spec => []StdPipesConnected)
<1> SUFFICES ASSUME Room PROVE Spec => []StdPipesConnected
  OBVIOUS
<1>1. StdPipesInv => StdPipesConnected
  BY ZenonT(60) DEF StdPipesInv, StdPipesConnected
<1> QED
  BY <1>1, StdPipesInvariant, PTL
=============================================================================

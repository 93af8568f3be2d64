-------------------------- MODULE MinijailRunProofs --------------------------
(***************************************************************************)
(* Type correctness of MinijailRun and its safety properties, for every    *)
(* set of jails, every pipe capacity and every size limit: how the steps   *)
(* of the calling process and those of the jailed processes preserve the   *)
(* types and the inductive invariant, and what follows from it; what the   *)
(* init of a jail reports and outlives; and that every run is a life of a  *)
(* jail as JailLifecycle has it.                                           *)
(***************************************************************************)
EXTENDS MinijailRunLifecycle, TLAPS

\* What is left in the pipe when the header or the body is read of its b items,
\* s having been sent of a body of z after the header.
LEMMA Taken ==
  ASSUME NEW b \in Nat, NEW s \in Nat, b <= s + 1
  PROVE  /\ b > 0 => b # 0 /\ b - 1 <= s /\ b - 1 <= s + 1
         /\ \A z \in Nat \ {0} : b >= z /\ b <= s /\ s <= z => b > 0 /\ b # 0 /\ s = z /\ b - z <= s /\ b - z <= s + 1
OBVIOUS

\* The number of times a parent-side task is needed is a natural number.
LEMMA NeedNat == ASSUME NEW c \in Configs, NEW t \in Tasks PROVE Need(c, t) \in Nat
BY ConfigAssumption DEF Config, Tasks, Need, One

\* Wait statuses and the codes made of them are natural numbers.
LEMMA StatusNat ==
  /\ \A n \in Nat : Exited(n) \in Nat
  /\ \A st \in Nat : WaitResult(st) \in Int
BY SMT DEF Exited, WaitResult, WIFEXITED, WEXITSTATUS, WTERMSIG, SIGSYS,
           MINIJAIL_ERR_JAIL, MINIJAIL_ERR_SIG_BASE

\* A death keeps the processes, the pipes and their contents well typed.
LEMMA DieType ==
  ASSUME TypeOK, NEW p \in Procs, NEW st \in Nat, Die(p, st)
  PROVE  /\ pc' \in [Procs -> ChildPoints]
         /\ status' \in [Procs -> Nat]
         /\ applied' \in [Procs -> SUBSET Stages]
         /\ syncW' \subseteq Holders /\ confW' \subseteq Holders /\ confR' \subseteq Holders
         /\ buf' \in Nat /\ sent' \in Nat
BY DEF TypeOK, Die, CloseFds, AfterDeath, ChildPoints, Gone, SIGKILL

\* The statuses a setup step can end with are natural numbers.
LEMMA FailureNat == ASSUME NEW l, NEW st \in FailureStatus(l) PROVE st \in Nat
BY DEF FailureStatus, On, Exited, SIGABRT, MINIJAIL_ERR_MOUNT, MINIJAIL_ERR_NO_ACCESS,
       MINIJAIL_ERR_NO_COMMAND, MINIJAIL_ERR_PRELOAD

-----------------------------------------------------------------------------
(* Type correctness, one lemma per part of the next-state relation. *)

\* The calls that start a run keep the types.
LEMMA RunType == TypeOK /\ Run => TypeOK'
<1> SUFFICES ASSUME TypeOK, Run PROVE TypeOK'
  OBVIOUS
<1>1. CASE RunFails \/ RunDies
  BY <1>1 DEF RunFails, RunDies, TypeOK, CallerPoints, procVars, syncVars, confVars, initVars
<1>2. CASE CloneChild
  <2>1. {"caller", "child"} \subseteq Holders /\ {} \subseteq Holders
    BY DEF Holders, Procs
  <2>2. ppc' \in CallerPoints /\ pc' \in [Procs -> ChildPoints]
    BY <1>2, ZenonT(60) DEF CloneChild, TypeOK, CallerPoints, ChildPoints, Tasks
  <2> QED
    BY <1>2, <2>1, <2>2 DEF CloneChild, TypeOK, initVars
<1> QED
  BY <1>1, <1>2 DEF Run

\* One task of the parent-side setup keeps the types.
LEMMA TaskType ==
  ASSUME TypeOK, NEW t \in Tasks, NEW f \in BOOLEAN, NEW n \in CallerPoints, ParentTask(t, f, n)
  PROVE  TypeOK'
BY DEF TypeOK, ParentTask, CallerPoints, procVars, syncVars, confVars, initVars

\* The parent-side setup keeps the types.
LEMMA ParentSetupType == TypeOK /\ ParentSetup => TypeOK'
<1> SUFFICES ASSUME TypeOK, ParentSetup PROVE TypeOK'
  OBVIOUS
<1> \A t \in Tasks : t \in CallerPoints
  BY DEF CallerPoints
<1>1. CASE \/ InstallSignalHandlers \/ WritePidFileOrDie \/ AddToCgroupsOrDie
           \/ SetRlimitsOrDie \/ WriteUidMapOrDie \/ DenySetgroupsOrDie \/ WriteGidMapOrDie
  BY <1>1, TaskType, ZenonT(60) DEF InstallSignalHandlers, WritePidFileOrDie, AddToCgroupsOrDie,
     SetRlimitsOrDie, WriteUidMapOrDie, DenySetgroupsOrDie, WriteGidMapOrDie, Tasks, CallerPoints
<1>2. CASE KillChildAndDie
  <2>1. CASE Alive("child")
    <3>1. Die("child", SIGKILL)
      BY <1>2, <2>1 DEF KillChildAndDie, KillChild
    <3> QED
      BY <1>2, <3>1, DieType DEF KillChildAndDie, TypeOK, Procs, SIGKILL, CallerPoints, initVars
  <2>2. CASE ~Alive("child")
    BY <1>2, <2>2 DEF KillChildAndDie, KillChild, TypeOK, CallerPoints, procVars, syncVars,
       confVars, initVars
  <2> QED
    BY <2>1, <2>2
<1>3. CASE Abort
  BY <1>3 DEF Abort, TypeOK, CloseFds, CallerPoints, procVars, initVars
<1>4. CASE ParentSetupComplete
  BY <1>4 DEF ParentSetupComplete, TypeOK, CallerPoints, procVars, confVars, initVars
<1> QED
  BY <1>1, <1>2, <1>3, <1>4 DEF ParentSetup

\* Sending the jail keeps the types.
LEMMA SendJailType == TypeOK /\ SendJail => TypeOK'
<1> SUFFICES ASSUME TypeOK, SendJail PROVE TypeOK'
  OBVIOUS
<1> cfg.size \in Nat /\ PipeCap \in Nat
  BY ConfigAssumption, SizeAssumption DEF TypeOK, Config
<1>1. CASE BlockSigpipe
  BY <1>1 DEF BlockSigpipe, TypeOK, CallerPoints, procVars, syncVars, initVars
<1>2. CASE WriteHeader
  <2>1. ppc' \in CallerPoints /\ sigpipe' \in {"default", "blocked", "pending", "fatal"}
    BY <1>2 DEF WriteHeader, BrokenPipe, TypeOK, CallerPoints
  <2>2. failed' \in BOOLEAN
    BY <1>2, ZenonT(60) DEF WriteHeader, BrokenPipe, TypeOK
  <2>3. buf' \in Nat /\ sent' \in Nat
    BY <1>2 DEF WriteHeader, BrokenPipe, TypeOK
  <2> QED
    BY <1>2, <2>1, <2>2, <2>3 DEF WriteHeader, TypeOK, procVars, syncVars, initVars
<1>3. CASE WriteBody
  <2>1. ppc' \in CallerPoints /\ sigpipe' \in {"default", "blocked", "pending", "fatal"}
    BY <1>3 DEF WriteBody, BrokenPipe, TypeOK, CallerPoints
  <2>2. failed' \in BOOLEAN
    BY <1>3, ZenonT(60) DEF WriteBody, BrokenPipe, TypeOK
  <2>3. buf' \in Nat /\ sent' \in Nat
    BY <1>3 DEF WriteBody, BrokenPipe, Minimum, TypeOK
  <2> QED
    BY <1>3, <2>1, <2>2, <2>3 DEF WriteBody, TypeOK, procVars, syncVars, initVars
<1>4. CASE CloseConfigPipe
  BY <1>4 DEF CloseConfigPipe, TypeOK, CallerPoints, procVars, syncVars, initVars
<1>5. CASE DrainSigpipe
  BY <1>5 DEF DrainSigpipe, TypeOK, CallerPoints, procVars, syncVars, confVars, initVars
<1>6. CASE RestoreMask
  <2>1. CASE failed /\ Alive("child")
    <3>1. Die("child", SIGKILL)
      BY <1>6, <2>1 DEF RestoreMask, KillChild
    <3> QED
      BY <1>6, <3>1, DieType DEF RestoreMask, TypeOK, Procs, SIGKILL, CallerPoints, initVars
  <2>2. CASE ~(failed /\ Alive("child"))
    BY <1>6, <2>2 DEF RestoreMask, KillChild, TypeOK, CallerPoints, procVars, syncVars,
       confVars, initVars
  <2> QED
    BY <2>1, <2>2
<1> QED
  BY <1>1, <1>2, <1>3, <1>4, <1>5, <1>6 DEF SendJail

\* The calls on a running jail, and the caller's death, keep the types.
LEMMA CallType ==
  TypeOK /\ (Call \/ WaitReturns \/ ForwardSignal \/ CallerCrash) => TypeOK'
<1> SUFFICES ASSUME TypeOK, Call \/ WaitReturns \/ ForwardSignal \/ CallerCrash PROVE TypeOK'
  OBVIOUS
<1>1. CASE MinijailWait
  BY <1>1 DEF MinijailWait, TypeOK, CallerPoints, ECHILD, procVars, syncVars, confVars, initVars
<1>2. CASE MinijailKill
  <2>1. term' \in BOOLEAN
    BY <1>2, ZenonT(60) DEF MinijailKill, SendTerm, TypeOK
  <2>2. ppc' \in CallerPoints /\ reply' \in Int
    BY <1>2 DEF MinijailKill, TypeOK, CallerPoints, ECHILD, ESRCH
  <2> QED
    BY <1>2, <2>1, <2>2 DEF MinijailKill, TypeOK, procVars, syncVars, confVars, initVars
<1>3. CASE WaitReturns
  <2>1. reply' \in Int
    BY <1>3, StatusNat DEF WaitReturns, TypeOK, ECHILD, Procs
  <2> QED
    BY <1>3, <2>1 DEF WaitReturns, TypeOK, CallerPoints, ChildPoints, Gone, syncVars, confVars, initVars
<1>4. CASE ForwardSignal
  BY <1>4 DEF ForwardSignal, SendTerm, TypeOK, callerVars, procVars, syncVars, confVars, initVars
<1>5. CASE CallerCrash
  BY <1>5 DEF CallerCrash, CloseFds, TypeOK, CallerPoints, procVars, initVars
<1> QED
  BY <1>1, <1>2, <1>3, <1>4, <1>5 DEF Call

\* A death that leaves the caller's side alone keeps the types.
LEMMA DeathType ==
  ASSUME TypeOK, NEW p \in Procs, NEW st \in Nat, Die(p, st), UNCHANGED callerSide
  PROVE  TypeOK'
BY DieType DEF TypeOK, callerSide, callerVars, initVars

\* The child's own setup keeps the types.
LEMMA ChildSetupType == TypeOK /\ ChildSetup => TypeOK'
<1> SUFFICES ASSUME TypeOK, ChildSetup PROVE TypeOK'
  OBVIOUS
<1> USE DEF callerSide, callerVars, initVars
<1>1. CASE ChildFds
  BY <1>1, ZenonT(60) DEF ChildFds, Step, TypeOK, ChildPoints, syncVars, confVars
<1>2. CASE CloseSyncPipe \/ WaitForParentSetup \/ SetupChildStdFds
  BY <1>2 DEF CloseSyncPipe, WaitForParentSetup, SetupChildStdFds, Step, TypeOK, ChildPoints,
     syncVars, confVars
<1>3. CASE EnterUserNamespace
  <2>1. CASE MapsWritten
    BY <1>3, <2>1 DEF EnterUserNamespace, Step, TypeOK, ChildPoints, syncVars, confVars
  <2>2. CASE ~MapsWritten
    BY <1>3, <2>2, DeathType DEF EnterUserNamespace, SIGABRT, Procs
  <2> QED
    BY <2>1, <2>2
<1>4. CASE EnterBeforeExec
  BY <1>4, ZenonT(60) DEF EnterBeforeExec, Step, TypeOK, ChildPoints, Stages, syncVars, confVars
<1>5. CASE ForkInit
  <2>1. "prog" \in Holders /\ "prog" \in Procs /\ "child" \in Procs
    BY DEF Holders, Procs
  <2> QED
    BY <1>5, <2>1 DEF ForkInit, TypeOK, ChildPoints, syncVars
<1> QED
  BY <1>1, <1>2, <1>3, <1>4, <1>5 DEF ChildSetup

\* Running the program, with or without the preloaded library, keeps the types.
LEMMA ProgramSetupType == ASSUME TypeOK, NEW p \in Procs, ProgramSetup(p) PROVE TypeOK'
<1> USE DEF callerSide, callerVars, initVars
<1>1. CASE RunHooks(p) \/ Exec(p)
  BY <1>1 DEF RunHooks, Exec, Step, TypeOK, ChildPoints, syncVars, confVars
<1>2. CASE ReadSize(p)
  <2>1. CASE Die(p, SIGABRT)
    BY <1>2, <2>1, DeathType DEF ReadSize, SIGABRT
  <2>2. CASE ~Die(p, SIGABRT)
    BY <1>2, <2>2 DEF ReadSize, Step, TypeOK, ChildPoints, syncVars
  <2> QED
    BY <2>1, <2>2
<1>3. CASE ReadBody(p)
  <2>1. CASE Die(p, SIGABRT)
    BY <1>3, <2>1, DeathType DEF ReadBody, SIGABRT
  <2>2. CASE ~Die(p, SIGABRT)
    <3> cfg.size \in Nat
      BY ConfigAssumption DEF TypeOK, Config
    <3> QED
      BY <1>3, <2>2 DEF ReadBody, Step, TypeOK, ChildPoints, syncVars
  <2> QED
    BY <2>1, <2>2
<1>4. CASE EnterAfterExec(p)
  BY <1>4 DEF EnterAfterExec, Step, TypeOK, ChildPoints, Stages, syncVars, confVars
<1> QED
  BY <1>1, <1>2, <1>3, <1>4 DEF ProgramSetup

\* init() keeps the types.
LEMMA InitLoopType == TypeOK /\ InitLoop => TypeOK'
<1> SUFFICES ASSUME TypeOK, InitLoop PROVE TypeOK'
  OBVIOUS
<1>1. CASE InitFreeRunState
  BY <1>1, ZenonT(60) DEF InitFreeRunState, Step, TypeOK, ChildPoints, syncVars, callerSide, callerVars, initVars
<1>2. CASE InitInstallHandler \/ InitStore
  BY <1>2, ZenonT(60) DEF InitInstallHandler, InitStore, Step, TypeOK, ChildPoints, syncVars, confVars, callerVars
<1>3. CASE InitExit
  <2>1. WEXITSTATUS(exitstatus) \in Nat
    BY DEF TypeOK, WEXITSTATUS
  <2>2. Exited(IF WIFEXITED(exitstatus) THEN WEXITSTATUS(exitstatus) ELSE MINIJAIL_ERR_INIT) \in Nat
    BY <2>1, StatusNat DEF MINIJAIL_ERR_INIT
  <2> QED
    BY <1>3, <2>2, DeathType DEF InitExit, Procs
<1>4. CASE \E q \in {"prog", "desc"} : InitWait(q)
  BY <1>4 DEF InitWait, TypeOK, ChildPoints, Gone, Procs, syncVars, confVars, callerVars
<1> QED
  BY <1>1, <1>2, <1>3, <1>4 DEF InitLoop

\* The delivery of SIGTERM keeps the types.
LEMMA DeliverTermType == TypeOK /\ DeliverTerm => TypeOK'
<1> SUFFICES ASSUME TypeOK, DeliverTerm PROVE TypeOK'
  OBVIOUS
<1>1. CASE ~handler /\ pc["child"] = "main" /\ cfg.catch
  BY <1>1, ZenonT(60) DEF DeliverTerm, TypeOK, callerVars, procVars, syncVars, confVars, initVars
<1>2. CASE ~(~handler /\ pc["child"] = "main" /\ cfg.catch)
  <2>1. Exited(exitstatus) \in Nat /\ SIGTERM \in Nat
    BY StatusNat DEF TypeOK, SIGTERM
  <2>2. Die("child", IF handler THEN Exited(exitstatus) ELSE SIGTERM) /\ UNCHANGED callerSide
    BY <1>2, ZenonT(60) DEF DeliverTerm, callerSide
  <2> QED
    BY <2>1, <2>2, DeathType DEF Procs
<1> QED
  BY <1>1, <1>2

\* The end of a setup step, and the program's own steps, keep the types.
LEMMA ProgramType ==
  ASSUME TypeOK, NEW p \in Procs, SetupFails(p) \/ Program(p)
  PROVE  TypeOK'
<1>1. CASE SetupFails(p)
  <2>1. PICK st \in FailureStatus(pc[p]) : Die(p, st)
    BY <1>1 DEF SetupFails
  <2>2. st \in Nat
    BY FailureNat
  <2> QED
    BY <1>1, <2>1, <2>2, DeathType DEF SetupFails
<1>2. CASE ProgramForks(p)
  BY <1>2 DEF ProgramForks, TypeOK, ChildPoints, Procs, syncVars, confVars, callerSide, callerVars,
     initVars
<1>3. CASE ProgramEnds(p)
  <2>1. \A st \in {Exited(n) : n \in ExitCodes} \cup Signals : st \in Nat
    <3>1. ExitCodes \subseteq Nat /\ Signals \subseteq Nat
      BY StatusAssumption
    <3> QED
      BY <3>1, StatusNat, ZenonT(60)
  <2> QED
    BY <1>3, <2>1, DeathType DEF ProgramEnds
<1> QED
  BY <1>1, <1>2, <1>3 DEF Program

\* Every step of minijail_run_internal(), of init(), of the preloaded library
\* and of the confined program keeps every variable within its type.
THEOREM TypeCorrect == Spec => []TypeOK
<1>1. Init => TypeOK
  <2> SUFFICES ASSUME Init PROVE TypeOK
    OBVIOUS
  <2>1. ppc \in CallerPoints /\ "none" \in ChildPoints /\ lastPid \in Procs
    BY DEF Init, CallerPoints, ChildPoints, Gone, Procs
  <2>2. handler \in BOOLEAN /\ failed \in BOOLEAN /\ term \in BOOLEAN
    BY ZenonT(60) DEF Init
  <2> QED
    BY <2>1, <2>2 DEF Init, TypeOK
<1>2. TypeOK /\ [Next]_vars => TypeOK'
  <2> SUFFICES ASSUME TypeOK, [Next]_vars PROVE TypeOK'
    OBVIOUS
  <2>1. CASE Run
    BY <2>1, RunType
  <2>2. CASE ParentSetup
    BY <2>2, ParentSetupType
  <2>3. CASE SendJail
    BY <2>3, SendJailType
  <2>4. CASE Call \/ WaitReturns \/ ForwardSignal \/ CallerCrash
    BY <2>4, CallType
  <2>5. CASE ChildSetup
    BY <2>5, ChildSetupType
  <2>6. CASE InitLoop \/ DeliverTerm
    BY <2>6, InitLoopType, DeliverTermType
  <2>7. CASE \E p \in {"child", "prog"} : ProgramSetup(p)
    BY <2>7, ProgramSetupType DEF Procs
  <2>8. CASE \E p \in Procs : SetupFails(p) \/ Program(p)
    BY <2>8, ProgramType
  <2>9. CASE UNCHANGED vars
    BY <2>9 DEF vars, TypeOK, callerVars, procVars, syncVars, confVars, initVars
  <2> QED
    BY <2>1, <2>2, <2>3, <2>4, <2>5, <2>6, <2>7, <2>8, <2>9 DEF Next, Over
<1> QED
  BY <1>1, <1>2, PTL DEF Spec

-----------------------------------------------------------------------------
(* The inductive invariant. *)

\* Only a jail whose child waits on the synchronisation pipe has tasks.
LEMMA NeedSync ==
  ASSUME NEW c \in Configs, NEW t \in Tasks, Need(c, t) > 0
  PROVE  SyncChild(c)
BY ConfigAssumption DEF Config, Tasks, Need, One, SyncChild

\* What a death changes.
LEMMA DieEffect ==
  ASSUME TypeOK, NEW p \in Procs, NEW st, Die(p, st), Alive(p)
  PROVE  /\ \A q \in Procs : pc'[q] = pc[q] \/ (pc[q] # "none" /\ pc'[q] \in {"zombie", "reaped"})
         /\ pc'[p] \in {"zombie", "reaped"}
         /\ p = "child" /\ cfg.pids => \A q \in Procs : pc'[q] \in Gone
         /\ p # "child" => \A q \in Procs \ {p} : pc'[q] = pc[q]
         /\ "caller" \in syncW' <=> "caller" \in syncW
         /\ UNCHANGED <<applied, buf, sent>>
BY DEF TypeOK, Die, AfterDeath, CloseFds, Victims, Jailed, Alive, Gone, Procs

\* A death that leaves the caller alone preserves the invariant.
LEMMA DieInv ==
  ASSUME TypeOK, SetupInv, NEW p \in Procs, NEW st, Die(p, st), Alive(p),
         UNCHANGED <<cfg, ppc, done, failed, sigpipe>>
  PROVE  SetupInv'
<1> USE DieEffect
<1>1. ShapeInv'
  BY DEF SetupInv, ShapeInv, Alive, Gone, Procs, InitPoints, TypeOK
<1>2. StageInv'
  BY DEF SetupInv, StageInv, InitPoints, ReaderPoints
<1>3. TaskInv'
  BY DEF SetupInv, TaskInv, Procs
<1>4. SyncInv'
  BY DEF SetupInv, SyncInv, Procs, Gone
<1>5. PipeInv'
  BY DEF SetupInv, PipeInv, Unsent, ParentSetupDone, Procs
<1>6. DeathInv'
  BY DEF SetupInv, DeathInv, Alive, Gone
<1>7. SigpipeInv'
  BY DEF SetupInv, SigpipeInv
<1> QED
  BY <1>1, <1>2, <1>3, <1>4, <1>5, <1>6, <1>7 DEF SetupInv

\* The start of a run establishes the invariant.
LEMMA RunInv == ASSUME TypeOK, SetupInv, Run PROVE SetupInv'
<1>1. CASE RunFails \/ RunDies
  <2> USE <1>1 DEF RunFails, RunDies, SetupInv, procVars, syncVars, confVars
  <2>1. ShapeInv' /\ StageInv' /\ TaskInv'
    BY DEF ShapeInv, StageInv, TaskInv, Alive, Tasks, Procs
  <2>2. SyncInv' /\ SigpipeInv'
    BY DEF SyncInv, SigpipeInv, Tasks
  <2>3. DeathInv'
    BY DEF DeathInv, ShapeInv, Alive, Tasks, Procs
  <2>4. PipeInv'
    BY DEF PipeInv, Unsent, ParentSetupDone, Tasks
  <2> QED
    BY <2>1, <2>2, <2>3, <2>4, ZenonT(60)
<1>2. CASE CloneChild
  <2> USE <1>2 DEF CloneChild, SetupInv
  <2>1. pc' = [q \in Procs |-> IF q = "child" THEN "fds" ELSE "none"]
    BY ZenonT(60) DEF ShapeInv, TypeOK, Procs
  <2>2. ShapeInv' /\ StageInv'
    BY <2>1 DEF ShapeInv, StageInv, Alive, Gone, Procs, InitPoints, ReaderPoints
  <2>3. TaskInv' /\ SyncInv' /\ DeathInv' /\ SigpipeInv'
    BY <2>1 DEF TaskInv, SyncInv, DeathInv, SigpipeInv, Gone, Procs, Early, Tasks, Sent, PastSetgroups,
       PastUidMap, PastRlimits, PastCgroups, PastPidFile, PastForward
  <2>4. PipeInv'
    BY <2>1 DEF PipeInv, Unsent, ParentSetupDone, Procs, Tasks
  <2> QED
    BY <2>2, <2>3, <2>4
<1> QED
  BY <1>1, <1>2 DEF Run

\* What a step of task t, followed by point n, does to the tasks.
TaskFacts(t, n) ==
  /\ \A u \in Tasks : /\ done'[u] <= Need(cfg', u)
                      /\ done[u] = Need(cfg, u) => done'[u] = Need(cfg', u)
  /\ ppc = t /\ ppc' \in {t, n, "kill"} /\ pc' = pc
  /\ ppc' = n => t = n \/ done'[t] = Need(cfg', t)

\* A task of the parent-side setup preserves what does not depend on its
\* place in the order.
LEMMA TaskInvStep ==
  ASSUME TypeOK, SetupInv, NEW t \in Tasks, NEW f \in BOOLEAN,
         NEW n \in Tasks \cup {"complete"}, ParentTask(t, f, n)
  PROVE  /\ ShapeInv' /\ StageInv' /\ SyncInv' /\ PipeInv' /\ DeathInv' /\ SigpipeInv'
         /\ TaskFacts(t, n)
<1> USE DEF ParentTask, SetupInv, procVars, syncVars, confVars
<1>1. ppc \in Tasks /\ ppc' \in Tasks \cup {"complete", "kill"}
  BY DEF Tasks
<1>2. ppc' = "kill" => SyncChild(cfg')
  <2> SUFFICES ASSUME ppc' = "kill" PROVE SyncChild(cfg)
    OBVIOUS
  <2>1. done[t] < Need(cfg, t)
    BY DEF Tasks
  <2>2. Need(cfg, t) > 0
    BY <2>1, NeedNat DEF TypeOK
  <2> QED
    BY <2>2, NeedSync DEF TypeOK
<1>3. ShapeInv' /\ StageInv'
  BY <1>1 DEF ShapeInv, StageInv, Alive, Tasks, ReaderPoints, InitPoints
<1>4. SyncInv'
  BY <1>1, <1>2 DEF SyncInv, Tasks
<1>5. PipeInv'
  <2>1. ParentSetupDone => done' = done
    BY DEF ParentSetupDone, TypeOK
  <2> QED
    BY <1>1, <2>1 DEF PipeInv, Unsent, Tasks, ParentSetupDone
<1>6. DeathInv' /\ SigpipeInv'
  BY <1>1 DEF DeathInv, SigpipeInv, Tasks
<1>7. \A u \in Tasks : /\ done'[u] <= Need(cfg', u)
                       /\ done[u] = Need(cfg, u) => done'[u] = Need(cfg', u)
  BY NeedNat DEF TaskInv, TypeOK
<1>8. ppc' = n => t = n \/ done'[t] = Need(cfg', t)
  BY DEF Tasks
<1> QED
  BY <1>3, <1>4, <1>5, <1>6, <1>7, <1>8 DEF TaskFacts

\* The parent-side setup preserves the invariant.
LEMMA ParentSetupInv == ASSUME TypeOK, SetupInv, ParentSetup PROVE SetupInv'
<1> USE DEF Sent, PastSetgroups, PastUidMap, PastRlimits, PastCgroups, PastPidFile, PastForward
<1>1. CASE InstallSignalHandlers
  <2>1. ParentTask("forward", FALSE, "pid_file")
    BY <1>1, ZenonT(60) DEF InstallSignalHandlers
  <2>2. /\ ShapeInv' /\ StageInv' /\ SyncInv' /\ PipeInv' /\ DeathInv' /\ SigpipeInv'
        /\ TaskFacts("forward", "pid_file")
    BY <2>1, TaskInvStep, ZenonT(60) DEF Tasks
  <2> QED
    BY <2>1, <2>2 DEF TaskFacts, SetupInv, TaskInv, Tasks
<1>2. CASE WritePidFileOrDie
  <2>1. ParentTask("pid_file", TRUE, "cgroups")
    BY <1>2, ZenonT(60) DEF WritePidFileOrDie
  <2>2. /\ ShapeInv' /\ StageInv' /\ SyncInv' /\ PipeInv' /\ DeathInv' /\ SigpipeInv'
        /\ TaskFacts("pid_file", "cgroups")
    BY <2>1, TaskInvStep, ZenonT(60) DEF Tasks
  <2> QED
    BY <2>1, <2>2 DEF TaskFacts, SetupInv, TaskInv, Tasks
<1>3. CASE AddToCgroupsOrDie
  <2>1. ParentTask("cgroups", TRUE, "rlimits")
    BY <1>3, ZenonT(60) DEF AddToCgroupsOrDie
  <2>2. /\ ShapeInv' /\ StageInv' /\ SyncInv' /\ PipeInv' /\ DeathInv' /\ SigpipeInv'
        /\ TaskFacts("cgroups", "rlimits")
    BY <2>1, TaskInvStep, ZenonT(60) DEF Tasks
  <2> QED
    BY <2>1, <2>2 DEF TaskFacts, SetupInv, TaskInv, Tasks
<1>4. CASE SetRlimitsOrDie
  <2>1. ParentTask("rlimits", TRUE, "uid_map")
    BY <1>4, ZenonT(60) DEF SetRlimitsOrDie
  <2>2. /\ ShapeInv' /\ StageInv' /\ SyncInv' /\ PipeInv' /\ DeathInv' /\ SigpipeInv'
        /\ TaskFacts("rlimits", "uid_map")
    BY <2>1, TaskInvStep, ZenonT(60) DEF Tasks
  <2> QED
    BY <2>1, <2>2 DEF TaskFacts, SetupInv, TaskInv, Tasks
<1>5. CASE WriteUidMapOrDie
  <2>1. ParentTask("uid_map", TRUE, "setgroups")
    BY <1>5, ZenonT(60) DEF WriteUidMapOrDie
  <2>2. /\ ShapeInv' /\ StageInv' /\ SyncInv' /\ PipeInv' /\ DeathInv' /\ SigpipeInv'
        /\ TaskFacts("uid_map", "setgroups")
    BY <2>1, TaskInvStep, ZenonT(60) DEF Tasks
  <2> QED
    BY <2>1, <2>2 DEF TaskFacts, SetupInv, TaskInv, Tasks
<1>6. CASE DenySetgroupsOrDie
  <2>1. ParentTask("setgroups", TRUE, "gid_map")
    BY <1>6, ZenonT(60) DEF DenySetgroupsOrDie
  <2>2. /\ ShapeInv' /\ StageInv' /\ SyncInv' /\ PipeInv' /\ DeathInv' /\ SigpipeInv'
        /\ TaskFacts("setgroups", "gid_map")
    BY <2>1, TaskInvStep, ZenonT(60) DEF Tasks
  <2> QED
    BY <2>1, <2>2 DEF TaskFacts, SetupInv, TaskInv, Tasks
<1>7. CASE WriteGidMapOrDie
  <2>1. ParentTask("gid_map", TRUE, "complete")
    BY <1>7, ZenonT(60) DEF WriteGidMapOrDie
  <2>2. /\ ShapeInv' /\ StageInv' /\ SyncInv' /\ PipeInv' /\ DeathInv' /\ SigpipeInv'
        /\ TaskFacts("gid_map", "complete")
    BY <2>1, TaskInvStep, ZenonT(60) DEF Tasks
  <2> QED
    BY <2>1, <2>2 DEF TaskFacts, SetupInv, TaskInv, Tasks
<1>8. CASE KillChildAndDie
  <2>1. SyncChild(cfg) /\ "caller" \in syncW /\ ppc = "kill" /\ ppc' = "abort"
    BY <1>8 DEF KillChildAndDie, SetupInv, SyncInv
  <2>2. pc["child"] \in Gone \cup Early /\ pc["prog"] = "none" /\ pc["desc"] = "none"
    BY <2>1 DEF SetupInv, SyncInv
  <2>3. /\ \A q \in Procs : pc'[q] \in Gone /\ (pc'[q] = "none" <=> pc[q] = "none")
        /\ UNCHANGED <<cfg, done, failed, sigpipe, applied, buf, sent>>
    <3>1. CASE Alive("child")
      <4>1. Die("child", SIGKILL)
        BY <1>8, <3>1 DEF KillChildAndDie, KillChild
      <4> QED
        BY <1>8, <2>2, <3>1, <4>1, DieEffect DEF KillChildAndDie, Procs, Gone
    <3>2. CASE ~Alive("child")
      BY <1>8, <2>2, <3>2, ZenonT(60) DEF KillChildAndDie, KillChild, Alive, Procs, Gone, procVars, syncVars, confVars
    <3> QED
      BY <3>1, <3>2
  <2>4. ShapeInv' /\ StageInv' /\ TaskInv'
    BY <2>1, <2>2, <2>3 DEF SetupInv, ShapeInv, StageInv, TaskInv, Alive, Gone, Procs, Tasks, InitPoints,
       ReaderPoints, TypeOK
  <2>5. SyncInv'
    BY <2>1, <2>2, <2>3, ZenonT(60) DEF SetupInv, SyncInv, Gone, Procs, Tasks
  <2>6. PipeInv' /\ DeathInv' /\ SigpipeInv'
    BY <2>1, <2>2, <2>3 DEF SetupInv, PipeInv, Unsent, DeathInv, SigpipeInv, Alive, Gone, Procs, ParentSetupDone, Tasks
  <2> QED
    BY <2>4, <2>5, <2>6 DEF SetupInv
<1>9. CASE Abort
  <2> USE <1>9 DEF Abort, CloseFds, SetupInv, procVars, syncVars, confVars
  <2>1. ShapeInv' /\ StageInv' /\ TaskInv'
    BY DEF ShapeInv, StageInv, TaskInv, Alive, Tasks, Procs
  <2>2. SyncInv' /\ SigpipeInv'
    BY DEF SyncInv, SigpipeInv, Tasks
  <2>3. DeathInv'
    BY ZenonT(60) DEF DeathInv, ShapeInv, Alive, Tasks, Procs
  <2>4. PipeInv'
    BY DEF PipeInv, Unsent, ParentSetupDone, Tasks
  <2> QED
    BY <2>1, <2>2, <2>3, <2>4, ZenonT(60)
<1>10. CASE ParentSetupComplete
  <2> USE <1>10 DEF ParentSetupComplete, SetupInv, procVars, syncVars, confVars
  <2>1. ShapeInv' /\ StageInv' /\ TaskInv'
    BY DEF ShapeInv, StageInv, TaskInv, Alive, Tasks, Procs
  <2>2. SyncInv' /\ SigpipeInv'
    BY DEF SyncInv, SigpipeInv, Tasks
  <2>3. DeathInv'
    <3>1. ~failed
      BY ZenonT(60) DEF PipeInv
    <3> QED
      BY <3>1 DEF DeathInv
  <2>4. PipeInv'
    BY DEF PipeInv, Unsent, ParentSetupDone, Tasks
  <2> QED
    BY <2>1, <2>2, <2>3, <2>4, ZenonT(60)
<1> QED
  BY <1>1, <1>2, <1>3, <1>4, <1>5, <1>6, <1>7, <1>8, <1>9, <1>10 DEF ParentSetup

\* Sending the jail preserves the invariant.
LEMMA SendJailInv == ASSUME TypeOK, SetupInv, SendJail PROVE SetupInv'
<1> cfg.size \in Nat \ {0} /\ PipeCap \in Nat
  BY ConfigAssumption, SizeAssumption DEF TypeOK, Config
<1> USE DEF Sent, PastSetgroups, PastUidMap, PastRlimits, PastCgroups, PastPidFile, PastForward
<1>1. CASE BlockSigpipe
  <2> USE <1>1 DEF BlockSigpipe, SetupInv, procVars, syncVars, confVars
  <2>1. ShapeInv' /\ StageInv' /\ TaskInv'
    BY ZenonT(60) DEF ShapeInv, StageInv, TaskInv, Alive, Tasks, Procs
  <2>2. SyncInv' /\ SigpipeInv'
    BY DEF SyncInv, SigpipeInv, Tasks
  <2>3. DeathInv'
    BY ZenonT(60) DEF DeathInv, ShapeInv, Alive, Tasks, Procs
  <2>4. PipeInv'
    BY DEF PipeInv, Unsent, ParentSetupDone, Tasks
  <2> QED
    BY <2>1, <2>2, <2>3, <2>4, ZenonT(60)
<1>2. CASE WriteHeader
  <2> USE <1>2 DEF WriteHeader, BrokenPipe, SetupInv, procVars, syncVars
  <2>1. ShapeInv' /\ StageInv' /\ TaskInv'
    BY DEF ShapeInv, StageInv, TaskInv, Alive, Tasks
  <2>2. SyncInv' /\ DeathInv' /\ SigpipeInv'
    BY ZenonT(60) DEF SyncInv, DeathInv, SigpipeInv, Alive, Tasks
  <2>3. PipeInv'
    BY DEF PipeInv, Unsent, ShapeInv, TaskInv, ParentSetupDone, Tasks, Minimum, TypeOK, Procs, Gone, ReaderPoints
  <2> QED
    BY <2>1, <2>2, <2>3, ZenonT(60)
<1>3. CASE WriteBody
  <2> USE <1>3 DEF WriteBody, BrokenPipe, SetupInv, procVars, syncVars
  <2>1. ShapeInv' /\ StageInv' /\ TaskInv'
    BY ZenonT(60) DEF ShapeInv, StageInv, TaskInv, Alive, Tasks
  <2>2. SyncInv' /\ DeathInv' /\ SigpipeInv'
    BY DEF SyncInv, DeathInv, SigpipeInv, Alive, Tasks
  <2>3. PipeInv'
    <3>1. CASE BrokenPipe
      BY <3>1, ZenonT(60) DEF PipeInv, Unsent, ParentSetupDone, Tasks
    <3>2. CASE ~BrokenPipe
      <4>1. PICK n \in Nat : /\ n > 0 /\ n <= cfg.size - sent
                             /\ buf' = buf + n /\ sent' = sent + n
                             /\ ppc' = IF sent' = cfg.size THEN "closew" ELSE "body"
                             /\ UNCHANGED failed
        BY <3>2 DEF Minimum, TypeOK
      <4>2. ParentSetupDone /\ ParentSetupDone'
        BY DEF ShapeInv, TaskInv, ParentSetupDone, Tasks
      <4> QED
        BY <4>1, <4>2 DEF PipeInv, Unsent, TypeOK, Tasks
    <3> QED
      BY <3>1, <3>2, ZenonT(60)
  <2> QED
    BY <2>1, <2>2, <2>3, ZenonT(60)
<1>4. CASE CloseConfigPipe
  <2> USE <1>4 DEF CloseConfigPipe, SetupInv, procVars, syncVars, confVars
  <2>1. ShapeInv' /\ StageInv' /\ TaskInv'
    BY ZenonT(60) DEF ShapeInv, StageInv, TaskInv, Alive, Tasks, Procs
  <2>2. SyncInv' /\ SigpipeInv'
    BY DEF SyncInv, SigpipeInv, Tasks
  <2>3. DeathInv'
    BY DEF DeathInv, ShapeInv, Alive, Tasks, Procs
  <2>4. PipeInv'
    BY DEF PipeInv, Unsent, ParentSetupDone, Tasks
  <2> QED
    BY <2>1, <2>2, <2>3, <2>4, ZenonT(60)
<1>5. CASE DrainSigpipe
  <2> USE <1>5 DEF DrainSigpipe, SetupInv, procVars, syncVars, confVars
  <2>1. ShapeInv' /\ StageInv' /\ TaskInv' /\ SyncInv'
    BY ZenonT(60) DEF ShapeInv, StageInv, TaskInv, SyncInv, Alive, Tasks
  <2>2. DeathInv' /\ SigpipeInv'
    BY DEF DeathInv, SigpipeInv, Alive, Tasks
  <2>3. PipeInv'
    BY DEF PipeInv, Unsent, ParentSetupDone, Tasks
  <2> QED
    BY <2>1, <2>2, <2>3, ZenonT(60)
<1>6. CASE RestoreMask
  <2>1. /\ \/ pc' = pc /\ ~(failed /\ Alive("child"))
           \/ failed /\ Alive("child") /\ Die("child", SIGKILL)
        /\ UNCHANGED <<cfg, done, failed, applied, buf, sent>>
        /\ ppc = "restore" /\ ppc' = "idle"
        /\ "caller" \in syncW' <=> "caller" \in syncW
    BY <1>6, DieEffect DEF RestoreMask, KillChild, procVars, syncVars, confVars, Procs
  <2>2. /\ \A q \in Procs : pc'[q] = pc[q] \/ (pc[q] # "none" /\ pc'[q] \in {"zombie", "reaped"})
        /\ pc'["child"] # pc["child"] /\ cfg.pids => \A q \in Procs : pc'[q] \in Gone
        /\ failed => pc'["child"] \in Gone
    BY <2>1, DieEffect DEF Alive, Gone, Procs
  <2>3. ShapeInv'
    BY <2>1, <2>2, ZenonT(60) DEF SetupInv, ShapeInv, Alive, Gone, Procs, InitPoints, ReaderPoints
  <2>4. StageInv' /\ TaskInv' /\ SyncInv'
    BY <2>1, <2>2, ZenonT(60) DEF SetupInv, StageInv, TaskInv, SyncInv, Gone, Procs, InitPoints, ReaderPoints, Tasks
  <2>5. PipeInv'
    BY <2>1, <2>2 DEF SetupInv, PipeInv, Unsent, ParentSetupDone, Procs, Tasks
  <2>6. DeathInv'
    <3>1. failed => \A q \in Procs : ~Alive(q)'
      <4> SUFFICES ASSUME failed PROVE \A q \in Procs : ~Alive(q)'
        OBVIOUS
      <4>1. pc["desc"] = "none" /\ pc'["desc"] = "none" /\ pc'["child"] \in Gone
        BY <2>2 DEF SetupInv, PipeInv, Procs
      <4>2. pc'["prog"] \in Gone
        BY <2>1, <2>2, <2>3, <4>1 DEF ShapeInv, Alive, Gone, Procs, InitPoints
      <4> QED
        BY <4>1, <4>2 DEF Alive, Gone, Procs
    <3> QED
      BY <2>1, <3>1 DEF DeathInv
  <2>7. SigpipeInv'
    BY <1>6, <2>1 DEF RestoreMask, SetupInv, SigpipeInv
  <2> QED
    BY <2>3, <2>4, <2>5, <2>6, <2>7 DEF SetupInv
<1> QED
  BY <1>1, <1>2, <1>3, <1>4, <1>5, <1>6 DEF SendJail

\* A step that changes none of the variables of the invariant preserves it.
LEMMA StutterInv ==
  ASSUME SetupInv, UNCHANGED <<cfg, ppc, done, failed, sigpipe, pc, applied, syncW, buf, sent>>
  PROVE  SetupInv'
<1>1. ShapeInv' /\ StageInv'
  BY ZenonT(60) DEF SetupInv, ShapeInv, StageInv, Alive
<1>2. TaskInv' /\ SyncInv'
  BY ZenonT(60) DEF SetupInv, TaskInv, SyncInv, Alive
<1>3. PipeInv'
  BY ZenonT(60) DEF SetupInv, PipeInv, ParentSetupDone
<1>4. DeathInv' /\ SigpipeInv'
  BY ZenonT(60) DEF SetupInv, DeathInv, SigpipeInv, Alive
<1> QED
  BY <1>1, <1>2, <1>3, <1>4, ZenonT(60) DEF SetupInv

\* The calls on a running jail, and the caller's death, preserve the invariant.
LEMMA CallInv ==
  ASSUME TypeOK, SetupInv, Call \/ WaitReturns \/ ForwardSignal \/ CallerCrash
  PROVE  SetupInv'
<1> USE DEF Sent, PastSetgroups, PastUidMap, PastRlimits, PastCgroups, PastPidFile, PastForward
<1>1. CASE MinijailWait \/ MinijailKill
  <2>1. /\ ppc = "idle"
        /\ ppc' = "idle" \/ (ppc' \in {"waiting", "killing"} /\ pc["child"] # "none")
        /\ UNCHANGED <<cfg, done, failed, sigpipe, pc, applied, syncW, buf, sent>>
    BY <1>1, ZenonT(60) DEF MinijailWait, MinijailKill, procVars, syncVars, confVars
  <2>2. ShapeInv' /\ StageInv' /\ TaskInv'
    BY <2>1, ZenonT(60) DEF SetupInv, ShapeInv, StageInv, TaskInv, Alive
  <2>3. SyncInv' /\ DeathInv' /\ SigpipeInv'
    BY <2>1, ZenonT(60) DEF SetupInv, SyncInv, DeathInv, SigpipeInv, Alive, Tasks
  <2>4. PipeInv'
    BY <2>1 DEF SetupInv, PipeInv, Unsent, ParentSetupDone, Tasks
  <2> QED
    BY <2>2, <2>3, <2>4 DEF SetupInv
<1>2. CASE WaitReturns
  <2>1. /\ pc["child"] \in {"zombie", "reaped"} /\ pc'["child"] = "reaped"
        /\ \A q \in {"prog", "desc"} : pc'[q] = pc[q]
        /\ ppc \in {"waiting", "killing"} /\ ppc' = "idle"
        /\ UNCHANGED <<cfg, done, failed, sigpipe, applied, syncW, buf, sent>>
    BY <1>2, ZenonT(60) DEF WaitReturns, TypeOK, Procs, syncVars, confVars
  <2>2. ShapeInv'
    BY <2>1, ZenonT(60) DEF SetupInv, ShapeInv, Alive, Gone, Procs, InitPoints, ReaderPoints
  <2>3. StageInv'
    BY <2>1, ZenonT(60) DEF SetupInv, StageInv, Alive, Gone, Procs, InitPoints, ReaderPoints
  <2>4. TaskInv' /\ SyncInv' /\ DeathInv' /\ SigpipeInv'
    BY <2>1, ZenonT(60) DEF SetupInv, TaskInv, SyncInv, DeathInv, SigpipeInv, Alive, Gone, Procs, Tasks
  <2>5. PipeInv'
    BY <2>1 DEF SetupInv, PipeInv, Unsent, ParentSetupDone, Procs, Tasks
  <2> QED
    BY <2>2, <2>3, <2>4, <2>5 DEF SetupInv
<1>3. CASE ForwardSignal
  BY <1>3, StutterInv DEF ForwardSignal, callerVars, procVars, syncVars, confVars
<1>4. CASE CallerCrash
  <2>1. /\ ppc' = "crashed" /\ "caller" \notin syncW'
        /\ UNCHANGED <<cfg, done, failed, sigpipe, pc, applied, buf, sent>>
    BY <1>4, ZenonT(60) DEF CallerCrash, CloseFds, procVars
  <2>2. ShapeInv' /\ StageInv' /\ TaskInv'
    BY <2>1, ZenonT(60) DEF SetupInv, ShapeInv, StageInv, TaskInv, Alive
  <2>3. SyncInv' /\ DeathInv' /\ SigpipeInv'
    BY <2>1, ZenonT(60) DEF SetupInv, SyncInv, DeathInv, SigpipeInv, Tasks
  <2>4. PipeInv'
    BY <2>1 DEF SetupInv, PipeInv, Unsent, ParentSetupDone, Tasks
  <2> QED
    BY <2>2, <2>3, <2>4 DEF SetupInv
<1> QED
  BY <1>1, <1>2, <1>3, <1>4 DEF Call

-----------------------------------------------------------------------------
(* The steps of the jailed processes. *)

\* The child, or the process its init forked, goes on to point m: what the
\* new point needs for the invariant.
MoveFacts(p, m) ==
  /\ pc' = [pc EXCEPT ![p] = m]
  /\ UNCHANGED <<cfg, ppc, done, failed, sigpipe>>
  /\ "caller" \in syncW' <=> "caller" \in syncW
  /\ p = "child" => /\ pc["prog"] # "none" => m \in InitPoints
                    /\ m = "fork" => cfg.pids
                    /\ SyncChild(cfg) /\ "caller" \in syncW => m \in Early
  /\ p = "prog" => m \in ReaderPoints \cup {"hooks", "exec", "main"}
  /\ \A q \in Procs \ {p} : applied'[q] = applied[q]
  /\ m \in InitPoints \cup {"fork", "hooks", "exec"} =>
       applied'[p] = IF cfg.preload THEN {"early"} ELSE Stages
  /\ m \in ReaderPoints => cfg.preload /\ applied'[p] = {"early"}
  /\ m = "main" => applied'[p] = Stages

\* Such a move preserves everything but the part about the configuration pipe.
LEMMA MoveInv ==
  ASSUME TypeOK, SetupInv, NEW p \in {"child", "prog"}, NEW m \in ChildPoints \ Gone,
         Alive(p), MoveFacts(p, m)
  PROVE  ShapeInv' /\ StageInv' /\ TaskInv' /\ SyncInv' /\ DeathInv' /\ SigpipeInv'
<1>1. /\ \A q \in Procs : pc'[q] = IF q = p THEN m ELSE pc[q]
      /\ \A q \in Procs : pc'[q] \in Gone <=> pc[q] \in Gone
      /\ \A q \in Procs : pc'[q] = "none" <=> pc[q] = "none"
  BY ZenonT(60) DEF MoveFacts, TypeOK, Alive, Gone, Procs
<1>2. ShapeInv'
  BY <1>1, ZenonT(60) DEF MoveFacts, SetupInv, ShapeInv, Alive, Gone, Procs, InitPoints, ReaderPoints
<1>3. StageInv'
  <2>1. ASSUME NEW q \in Procs, q # p
        PROVE  pc'[q] = pc[q] /\ applied'[q] = applied[q]
    BY <1>1, <2>1, ZenonT(60) DEF MoveFacts
  <2>2. p \in Procs /\ pc'[p] = m
    BY <1>1, ZenonT(60) DEF Procs
  <2>3. UNCHANGED cfg
    BY ZenonT(60) DEF MoveFacts
  <2>4. /\ m \in InitPoints \cup {"fork", "hooks", "exec"} =>
             applied'[p] = IF cfg.preload THEN {"early"} ELSE Stages
        /\ m \in ReaderPoints => cfg.preload /\ applied'[p] = {"early"}
        /\ m = "main" => applied'[p] = Stages
    BY ZenonT(60) DEF MoveFacts
  <2> QED
    BY <2>1, <2>2, <2>3, <2>4, ZenonT(60) DEF SetupInv, StageInv
<1>4. TaskInv' /\ SigpipeInv'
  BY <1>1, ZenonT(60) DEF MoveFacts, SetupInv, TaskInv, SigpipeInv, Procs
<1>5. SyncInv'
  BY <1>1 DEF MoveFacts, SetupInv, SyncInv, Alive, Gone, Procs
<1>6. DeathInv'
  BY <1>1, ZenonT(60) DEF MoveFacts, SetupInv, DeathInv, Alive
<1> QED
  BY <1>2, <1>3, <1>4, <1>5, <1>6, ZenonT(60)

\* A move that leaves the configuration pipe alone preserves that part too,
\* unless it is one of the points at which the jail has been received.
LEMMA QuietMoveInv ==
  ASSUME TypeOK, SetupInv, NEW p \in {"child", "prog"}, NEW m \in ChildPoints \ Gone,
         Alive(p), MoveFacts(p, m), UNCHANGED <<buf, sent>>,
         m \notin {"readbody", "enter2"}, m = "main" => ~cfg.preload
  PROVE  SetupInv'
<1>1. PipeInv'
  BY ZenonT(60) DEF MoveFacts, SetupInv, PipeInv, ParentSetupDone, TypeOK, Procs
<1> QED
  BY <1>1, MoveInv, ZenonT(60) DEF SetupInv

\* The child's own setup preserves the invariant.
LEMMA ChildSetupInv == ASSUME TypeOK, SetupInv, ChildSetup PROVE SetupInv'
<1> USE DEF callerSide, callerVars, syncVars, confVars, Step
<1> DEFINE Point(m) == m \in ChildPoints \ Gone /\ Alive("child") /\ MoveFacts("child", m) /\ UNCHANGED <<buf, sent>>
<1>0. pc["child"] \in {"fds", "sync", "syncread", "userns", "std", "enter", "fork"} =>
        Alive("child") /\ pc["prog"] = "none"
  BY DEF SetupInv, ShapeInv, Alive, Gone, InitPoints
<1>1. CASE ChildFds
  <2>1. Point("sync") \/ (Point("userns") /\ ~SyncChild(cfg))
    BY <1>0, <1>1, ZenonT(60) DEF ChildFds, MoveFacts, ChildPoints, Gone, InitPoints, ReaderPoints, Early
  <2> QED
    BY <2>1, QuietMoveInv, ZenonT(60)
<1>2. CASE CloseSyncPipe
  <2>1. Point("syncread")
    BY <1>0, <1>2 DEF CloseSyncPipe, MoveFacts, ChildPoints, Gone, InitPoints, ReaderPoints, Early
  <2> QED
    BY <2>1, QuietMoveInv
<1>3. CASE WaitForParentSetup
  <2>1. Point("userns")
    BY <1>0, <1>3 DEF WaitForParentSetup, MoveFacts, ChildPoints, Gone, InitPoints, ReaderPoints
  <2> QED
    BY <2>1, QuietMoveInv, ZenonT(60)
<1>4. pc["child"] \in {"userns", "std", "enter"} => ~(SyncChild(cfg) /\ "caller" \in syncW)
  BY DEF SetupInv, SyncInv, Gone, Early
<1>5. CASE EnterUserNamespace
  <2>1. CASE MapsWritten
    <3>1. Point("std")
      BY <1>0, <1>4, <1>5, <2>1 DEF EnterUserNamespace, MoveFacts, ChildPoints, Gone, InitPoints, ReaderPoints
    <3> QED
      BY <3>1, QuietMoveInv, ZenonT(60)
  <2>2. CASE ~MapsWritten
    BY <1>5, <2>2, DieInv DEF EnterUserNamespace, Alive, Gone, Procs
  <2> QED
    BY <2>1, <2>2
<1>6. CASE SetupChildStdFds
  <2>1. Point("enter")
    BY <1>0, <1>4, <1>6 DEF SetupChildStdFds, MoveFacts, ChildPoints, Gone, InitPoints, ReaderPoints
  <2> QED
    BY <2>1, QuietMoveInv, ZenonT(60)
<1>7. CASE EnterBeforeExec
  <2>1. Point("fork") \/ Point("hooks")
    BY <1>0, <1>4, <1>7, ZenonT(60) DEF EnterBeforeExec, MoveFacts, ChildPoints, Gone, InitPoints, ReaderPoints,
       Procs, TypeOK
  <2> QED
    BY <2>1, QuietMoveInv, ZenonT(60)
<1>8. CASE ForkInit
  <2>1. /\ pc["child"] = "fork" /\ pc["prog"] = "none" /\ cfg.pids
        /\ \A q \in Procs : pc'[q] = IF q = "child" THEN "free" ELSE IF q = "prog" THEN "hooks" ELSE pc[q]
        /\ \A q \in Procs : applied'[q] = IF q = "prog" THEN applied["child"] ELSE applied[q]
        /\ UNCHANGED <<cfg, ppc, done, failed, sigpipe, syncW, buf, sent>>
    BY <1>0, <1>8 DEF ForkInit, TypeOK, Procs, SetupInv, ShapeInv
  <2>2. ~(SyncChild(cfg) /\ "caller" \in syncW) /\ ppc \notin {"abort", "dead"}
    BY <2>1, ZenonT(60) DEF SetupInv, SyncInv, DeathInv, Alive, Gone, Early, Procs
  <2>3. ShapeInv' /\ StageInv'
    BY <2>1, ZenonT(60) DEF SetupInv, ShapeInv, StageInv, Alive, Gone, Procs, InitPoints, ReaderPoints
  <2>4. TaskInv' /\ SyncInv' /\ DeathInv' /\ SigpipeInv'
    BY <2>1, <2>2, ZenonT(60) DEF SetupInv, TaskInv, SyncInv, DeathInv, SigpipeInv, Alive, Gone, Procs
  <2>5. PipeInv'
    BY <2>1, ZenonT(60) DEF SetupInv, PipeInv, ParentSetupDone, Procs
  <2> QED
    BY <2>3, <2>4, <2>5, ZenonT(60) DEF SetupInv
<1> QED
  BY <1>1, <1>2, <1>3, <1>5, <1>6, <1>7, <1>8 DEF ChildSetup

\* Executing the program, and what the preloaded library does before the
\* program's main(), preserves the invariant.
LEMMA ProgramSetupInv ==
  ASSUME TypeOK, SetupInv, NEW p \in {"child", "prog"}, ProgramSetup(p)
  PROVE  SetupInv'
<1> USE DEF callerSide, callerVars, syncVars, confVars, Step
<1> DEFINE Point(m) == m \in ChildPoints \ Gone /\ Alive(p) /\ MoveFacts(p, m)
<1> p \in Procs
  BY DEF Procs
<1>0. pc[p] \in ReaderPoints \cup {"hooks", "exec"} =>
        /\ Alive(p) /\ ~Refused(cfg)
        /\ p = "child" => pc["prog"] = "none"
        /\ ~(SyncChild(cfg) /\ "caller" \in syncW)
  BY DEF SetupInv, ShapeInv, SyncInv, Alive, Gone, Early, InitPoints, ReaderPoints
<1>1. CASE RunHooks(p)
  <2>1. Point("exec") \/ (Point("main") /\ ~cfg.preload)
    BY <1>0, <1>1, ZenonT(60) DEF RunHooks, MoveFacts, ChildPoints, Gone, InitPoints, ReaderPoints, SetupInv, StageInv,
       Refused
  <2> QED
    BY <1>1, <2>1, QuietMoveInv, ZenonT(60) DEF RunHooks
<1>2. CASE Exec(p)
  <2>1. Point("readsize") \/ (Point("main") /\ ~cfg.preload)
    BY <1>0, <1>2, ZenonT(60) DEF Exec, MoveFacts, ChildPoints, Gone, InitPoints, ReaderPoints, SetupInv, StageInv
  <2> QED
    BY <1>2, <2>1, QuietMoveInv DEF Exec
<1>3. CASE ReadSize(p)
  <2>1. CASE Die(p, SIGABRT)
    BY <1>3, <2>1, DieInv DEF ReadSize, Alive, Gone
  <2>2. CASE ~Die(p, SIGABRT)
    <3>1. buf > 0 /\ buf' = buf - 1 /\ UNCHANGED sent /\ pc[p] = "readsize"
      BY <1>3, <2>2, ZenonT(60) DEF ReadSize
    <3>2. Point("readbody")
      BY <1>0, <1>3, <2>2 DEF ReadSize, MoveFacts, ChildPoints, Gone, InitPoints, ReaderPoints, SetupInv,
         StageInv
    <3>3. /\ buf \in Nat /\ sent \in Nat /\ buf <= sent + 1
          /\ ppc \in Unsent => buf = 0
          /\ ParentSetupDone
      BY <3>1, ZenonT(60) DEF SetupInv, PipeInv, TypeOK
    <3>4. ppc \notin Unsent /\ buf' <= sent /\ buf' <= sent + 1
      BY <3>1, <3>3, Taken, ZenonT(60)
    <3>5. pc'[p] = "readbody" /\ \A q \in Procs \ {p} : pc'[q] = pc[q]
      BY <3>2, ZenonT(60) DEF MoveFacts, TypeOK
    <3>6. PipeInv'
      BY <3>1, <3>2, <3>3, <3>4, <3>5, ZenonT(60) DEF MoveFacts, SetupInv, PipeInv, ParentSetupDone, Procs
    <3> QED
      BY <3>2, <3>6, MoveInv, ZenonT(60) DEF SetupInv
  <2> QED
    BY <2>1, <2>2
<1>4. CASE ReadBody(p)
  <2>1. CASE Die(p, SIGABRT)
    BY <1>4, <2>1, DieInv DEF ReadBody, Alive, Gone
  <2>2. CASE ~Die(p, SIGABRT)
    <3>1. buf >= cfg.size /\ buf' = buf - cfg.size /\ UNCHANGED sent /\ pc[p] = "readbody"
      BY <1>4, <2>2, ZenonT(60) DEF ReadBody
    <3>2. Point("enter2")
      BY <1>0, <1>4, <2>2 DEF ReadBody, MoveFacts, ChildPoints, Gone, InitPoints, ReaderPoints, SetupInv,
         StageInv
    <3>3. cfg.size \in Nat \ {0}
      BY ConfigAssumption, ZenonT(60) DEF TypeOK, Config
    <3>4. /\ buf \in Nat /\ sent \in Nat /\ buf <= sent + 1
          /\ sent <= cfg.size /\ buf <= sent
          /\ ppc \notin Unsent /\ ParentSetupDone
      BY <3>1, ZenonT(60) DEF SetupInv, PipeInv, TypeOK
    <3>5. sent = cfg.size /\ buf' <= sent /\ buf' <= sent + 1
      BY <3>1, <3>3, <3>4, Taken, ZenonT(60)
    <3>6. pc'[p] = "enter2" /\ \A q \in Procs \ {p} : pc'[q] = pc[q]
      BY <3>2, ZenonT(60) DEF MoveFacts, TypeOK
    <3>7. PipeInv'
      BY <3>1, <3>2, <3>4, <3>5, <3>6, ZenonT(60) DEF MoveFacts, SetupInv, PipeInv, ParentSetupDone, Procs
    <3> QED
      BY <3>2, <3>7, MoveInv, ZenonT(60) DEF SetupInv
  <2> QED
    BY <2>1, <2>2
<1>5. CASE EnterAfterExec(p)
  <2>1. Point("main") /\ UNCHANGED <<buf, sent>> /\ pc[p] = "enter2"
    BY <1>0, <1>5 DEF EnterAfterExec, MoveFacts, ChildPoints, Gone, InitPoints, ReaderPoints, SetupInv,
       StageInv, Stages, TypeOK
  <2>2. PipeInv'
    BY <2>1, ZenonT(60) DEF MoveFacts, SetupInv, PipeInv, ParentSetupDone, TypeOK, Procs
  <2> QED
    BY <2>1, <2>2, MoveInv, ZenonT(60) DEF SetupInv
<1> QED
  BY <1>1, <1>2, <1>3, <1>4, <1>5 DEF ProgramSetup

\* init() and the delivery of SIGTERM preserve the invariant.
LEMMA InitLoopInv == ASSUME TypeOK, SetupInv, InitLoop \/ DeliverTerm PROVE SetupInv'
<1> USE DEF callerVars, syncVars, confVars, Step
<1> DEFINE Point(m) == m \in ChildPoints \ Gone /\ Alive("child") /\ MoveFacts("child", m) /\ UNCHANGED <<buf, sent>>
<1>0. pc["child"] \in InitPoints => Alive("child") /\ ~(SyncChild(cfg) /\ "caller" \in syncW)
  BY DEF SetupInv, SyncInv, Alive, Gone, Early, InitPoints
<1>1. CASE InitFreeRunState
  <2>1. Point("signal")
    BY <1>0, <1>1 DEF InitFreeRunState, callerSide, MoveFacts, ChildPoints, Gone, InitPoints, ReaderPoints,
       SetupInv, StageInv, Procs
  <2> QED
    BY <2>1, QuietMoveInv, ZenonT(60)
<1>2. CASE InitInstallHandler \/ InitStore
  <2>1. Point("wait")
    BY <1>0, <1>2 DEF InitInstallHandler, InitStore, MoveFacts, ChildPoints, Gone, InitPoints, ReaderPoints,
       SetupInv, StageInv, Procs
  <2> QED
    BY <2>1, QuietMoveInv, ZenonT(60)
<1>3. CASE InitExit
  BY <1>3, DieInv DEF InitExit, callerSide, Alive, Gone, Procs
<1>4. CASE \E q \in {"prog", "desc"} : InitWait(q)
  <2>1. PICK q \in {"prog", "desc"} : InitWait(q)
    BY <1>4
  <2>2. /\ pc["child"] = "wait" /\ pc[q] = "zombie"
        /\ \A r \in Procs : pc'[r] = IF r = "child" THEN "store" ELSE IF r = q THEN "reaped" ELSE pc[r]
        /\ UNCHANGED <<cfg, ppc, done, failed, sigpipe, applied, syncW, buf, sent>>
    BY <2>1, ZenonT(60) DEF InitWait, Reapable, TypeOK, Procs
  <2>3. ShapeInv' /\ StageInv'
    BY <2>2, ZenonT(60) DEF SetupInv, ShapeInv, StageInv, Alive, Gone, Procs, InitPoints, ReaderPoints
  <2>4. TaskInv' /\ SyncInv' /\ DeathInv' /\ SigpipeInv'
    BY <1>0, <2>2, ZenonT(60) DEF SetupInv, TaskInv, SyncInv, DeathInv, SigpipeInv, Alive, Gone, Procs, InitPoints
  <2>5. PipeInv'
    BY <2>2 DEF SetupInv, PipeInv, ParentSetupDone, Procs
  <2> QED
    BY <2>3, <2>4, <2>5 DEF SetupInv
<1>5. CASE DeliverTerm
  <2>1. CASE ~handler /\ pc["child"] = "main" /\ cfg.catch
    BY <1>5, <2>1, StutterInv DEF DeliverTerm, procVars
  <2>2. CASE ~(~handler /\ pc["child"] = "main" /\ cfg.catch)
    BY <1>5, <2>2, DieInv, ZenonT(60) DEF DeliverTerm, Procs
  <2> QED
    BY <2>1, <2>2
<1> QED
  BY <1>1, <1>2, <1>3, <1>4, <1>5 DEF InitLoop

\* A setup step that fails, and the program's own steps, preserve the invariant.
LEMMA ProgramInv ==
  ASSUME TypeOK, SetupInv, NEW p \in Procs, SetupFails(p) \/ Program(p)
  PROVE  SetupInv'
<1> USE DEF callerSide, callerVars, syncVars, confVars
<1>1. CASE SetupFails(p)
  <2>1. Alive(p)
    BY <1>1 DEF SetupFails, FailureStatus, On, Alive, Gone
  <2> QED
    BY <1>1, <2>1, DieInv DEF SetupFails
<1>2. CASE ProgramForks(p)
  <2>1. /\ p \in {"child", "prog"} /\ pc[p] = "main" /\ pc["desc"] = "none"
        /\ \A r \in Procs : pc'[r] = IF r = "desc" THEN "main" ELSE pc[r]
        /\ \A r \in Procs : applied'[r] = IF r = "desc" THEN applied[p] ELSE applied[r]
        /\ UNCHANGED <<cfg, ppc, done, failed, sigpipe, syncW, buf, sent>>
    BY <1>2, ZenonT(60) DEF ProgramForks, TypeOK, Procs
  <2>2. ShapeInv' /\ StageInv'
    BY <2>1, ZenonT(60) DEF SetupInv, ShapeInv, StageInv, Alive, Gone, Procs, InitPoints, ReaderPoints
  <2>3. TaskInv' /\ SyncInv' /\ DeathInv' /\ SigpipeInv'
    BY <2>1, ZenonT(60) DEF SetupInv, TaskInv, SyncInv, DeathInv, SigpipeInv, Alive, Gone, Procs, Early
  <2>4. PipeInv'
    BY <2>1, ZenonT(60) DEF SetupInv, PipeInv, ParentSetupDone, Procs
  <2> QED
    BY <2>2, <2>3, <2>4 DEF SetupInv
<1>3. CASE ProgramEnds(p)
  BY <1>3, DieInv DEF ProgramEnds, Alive, Gone
<1> QED
  BY <1>1, <1>2, <1>3 DEF Program

\* SetupInv holds in every reachable state of a run.
THEOREM SetupInvariant == Spec => []SetupInv
<1>1. Init => SetupInv
  <2> SUFFICES ASSUME Init PROVE SetupInv
    OBVIOUS
  <2>1. cfg \in Configs /\ cfg.size \in Nat
    BY ConfigAssumption DEF Init, Config
  <2>2. ShapeInv /\ StageInv /\ SyncInv
    BY DEF Init, ShapeInv, StageInv, SyncInv, Alive, Gone, Procs, Tasks, InitPoints, ReaderPoints
  <2>3. TaskInv
    <3>1. \A t \in Tasks : 0 <= Need(cfg, t)
      BY <2>1, NeedNat
    <3> QED
      BY <3>1 DEF Init, TaskInv, Procs
  <2>4. PipeInv /\ DeathInv /\ SigpipeInv
    BY <2>1 DEF Init, PipeInv, DeathInv, SigpipeInv, Procs
  <2> QED
    BY <2>2, <2>3, <2>4 DEF SetupInv
<1>2. TypeOK /\ SetupInv /\ [Next]_vars => SetupInv'
  <2> SUFFICES ASSUME TypeOK, SetupInv, [Next]_vars PROVE SetupInv'
    OBVIOUS
  <2>1. CASE Run
    BY <2>1, RunInv
  <2>2. CASE ParentSetup
    BY <2>2, ParentSetupInv
  <2>3. CASE SendJail
    BY <2>3, SendJailInv
  <2>4. CASE Call \/ WaitReturns \/ ForwardSignal \/ CallerCrash
    BY <2>4, CallInv
  <2>5. CASE ChildSetup
    BY <2>5, ChildSetupInv
  <2>6. CASE InitLoop \/ DeliverTerm
    BY <2>6, InitLoopInv
  <2>7. CASE \E p \in {"child", "prog"} : ProgramSetup(p)
    BY <2>7, ProgramSetupInv
  <2>8. CASE \E p \in Procs : SetupFails(p) \/ Program(p)
    BY <2>8, ProgramInv
  <2>9. CASE UNCHANGED vars
    BY <2>9, StutterInv DEF vars, callerVars, procVars, syncVars, confVars
  <2> QED
    BY <2>1, <2>2, <2>3, <2>4, <2>5, <2>6, <2>7, <2>8, <2>9 DEF Next, Over
<1> QED
  BY <1>1, <1>2, TypeCorrect, PTL DEF Spec

\* A jail without tasks for the parent has its parent-side setup done.
LEMMA NoTasks == ASSUME TypeOK, TaskInv, ~SyncChild(cfg) PROVE ParentSetupDone
<1> SUFFICES ASSUME NEW t \in Tasks PROVE done[t] = Need(cfg, t)
  BY DEF ParentSetupDone
<1>1. ~(Need(cfg, t) > 0) /\ Need(cfg, t) \in Nat
  BY NeedSync, NeedNat DEF TypeOK
<1> QED
  BY <1>1 DEF TaskInv, TypeOK

\* No process of the jail runs the program's own code before both halves of
\* minijail_enter() and the whole parent-side setup are in force; when a
\* library is preloaded this holds even if the caller is killed.
THEOREM ConfinedTheorem == Spec => []Confined
<1>1. TypeOK /\ SetupInv => Confined
  <2> SUFFICES ASSUME TypeOK, SetupInv, NEW p \in Procs, pc[p] = "main"
               PROVE  /\ applied[p] = Stages
                      /\ (cfg.preload \/ ppc # "crashed") => ParentSetupDone
    BY DEF Confined
  <2>1. applied[p] = Stages
    BY DEF SetupInv, StageInv
  <2>2. CASE cfg.preload
    BY <2>1, <2>2 DEF SetupInv, PipeInv
  <2>3. CASE ~cfg.preload /\ ppc # "crashed" /\ SyncChild(cfg)
    <3>1. "caller" \notin syncW
      BY <2>3 DEF SetupInv, SyncInv, Procs, Gone, Early
    <3>2. ppc \notin {"start", "abort", "dead"}
      BY DEF SetupInv, ShapeInv, DeathInv, Alive, Gone
    <3>3. ppc \in Sent
      BY <2>3, <3>1, <3>2 DEF SetupInv, SyncInv, TypeOK, CallerPoints, Sent
    <3>4. pc["child"] # "none"
      BY ZenonT(60) DEF SetupInv, ShapeInv
    <3>5. ParentSetupDone
      BY <3>3, <3>4 DEF SetupInv, TaskInv, ParentSetupDone, Tasks, Sent, PastSetgroups, PastUidMap,
         PastRlimits, PastCgroups, PastPidFile, PastForward
    <3> QED
      BY <2>1, <3>5
  <2>4. CASE ~cfg.preload /\ ~SyncChild(cfg)
    BY <2>1, <2>4, NoTasks DEF SetupInv
  <2> QED
    BY <2>1, <2>2, <2>3, <2>4
<1> QED
  BY <1>1, TypeCorrect, SetupInvariant, PTL

\* kill_child_and_die() leaves no process of the jail alive, and neither does
\* a run that is refused.
THEOREM FailedSetupTheorem == Spec => []FailedSetupLeavesNothing
<1>1. SetupInv => FailedSetupLeavesNothing
  BY DEF SetupInv, DeathInv, FailedSetupLeavesNothing
<1> QED
  BY <1>1, SetupInvariant, PTL

\* A jail that minijail_to_fd() could not deliver never runs its program and
\* is dead when minijail_run_internal() returns.
THEOREM UndeliveredTheorem == Spec => []UndeliveredJailNeverRuns
<1>1. TypeOK /\ SetupInv => UndeliveredJailNeverRuns
  <2> SUFFICES ASSUME TypeOK, SetupInv, failed, NEW p \in Procs
               PROVE  /\ pc[p] # "main"
                      /\ ppc \in {"idle", "waiting", "killing"} => ~Alive(p)
    BY DEF UndeliveredJailNeverRuns
  <2>1. cfg.size \in Nat /\ sent \in Nat
    BY ConfigAssumption DEF TypeOK, Config
  <2>2. cfg.preload /\ sent < cfg.size
    BY DEF SetupInv, PipeInv
  <2>3. pc[p] # "main"
    BY <2>1, <2>2 DEF SetupInv, PipeInv
  <2> QED
    BY <2>3 DEF SetupInv, DeathInv
<1> QED
  BY <1>1, TypeCorrect, SetupInvariant, PTL

\* SIGPIPE never reaches the caller, and its mask is restored on return.
THEOREM SigpipeTheorem == Spec => []SigpipeContained
<1>1. SetupInv => SigpipeContained
  BY DEF SetupInv, SigpipeInv, SigpipeContained
<1> QED
  BY <1>1, SetupInvariant, PTL

-----------------------------------------------------------------------------

(* What init reports. *)

\* A status of the form that wait(2) gives.
WellFormed(st) == st \in Nat /\ (WIFEXITED(st) => st = Exited(WEXITSTATUS(st)))

\* Exit codes and signals make such statuses, and no signal looks like an exit.
LEMMA StatusForm ==
  /\ \A n \in Nat : WellFormed(Exited(n))
  /\ \A n \in Signals \cup {SIGABRT, SIGKILL, SIGTERM} : WellFormed(n) /\ ~WIFEXITED(n)
BY StatusAssumption DEF WellFormed, Exited, WIFEXITED, WEXITSTATUS, SIGABRT, SIGKILL, SIGTERM

\* The failures of the setup have such statuses.
LEMMA FailureForm == ASSUME NEW l, NEW st \in FailureStatus(l) PROVE WellFormed(st)
BY StatusForm DEF FailureStatus, On, MINIJAIL_ERR_MOUNT, MINIJAIL_ERR_NO_ACCESS, MINIJAIL_ERR_NO_COMMAND,
   MINIJAIL_ERR_PRELOAD

\* What a death does to the statuses.
LEMMA DieStatus ==
  ASSUME TypeOK, NEW p \in Procs, NEW st, Die(p, st), Alive(p)
  PROVE  /\ status'[p] = st
         /\ \A q \in Procs \ {p} : status'[q] = status[q] \/ (Alive(q) /\ p = "child" /\ status'[q] = SIGKILL)
BY ZenonT(60) DEF TypeOK, Die, Victims, Alive, Gone, Procs

\* A death preserves InitInv, if that of an init that was not signalled reports the
\* program.
LEMMA DieInitInv ==
  ASSUME TypeOK, SetupInv, InitInv, NEW p \in Procs, NEW st, WellFormed(st), Die(p, st), Alive(p),
         UNCHANGED <<cfg, term, initVars>>,
         p = "child" /\ handler /\ ~term /\ WIFEXITED(st) =>
           /\ pc["prog"] = "reaped"
           /\ st = IF WIFEXITED(status["prog"]) THEN status["prog"] ELSE Exited(MINIJAIL_ERR_INIT)
  PROVE  InitInv'
<1> USE DEF initVars
<1>0. p \in {"child", "prog", "desc"}
  BY DEF Procs
<1>a. pc' = [q \in Procs |-> IF q = p THEN AfterDeath(p) ELSE IF q \in Victims(p) THEN "reaped" ELSE pc[q]]
  BY DEF Die
<1>b. p # "child" => Victims(p) = {p}
  BY ZenonT(60) DEF Victims
<1>1. /\ pc["child"] \in InitPoints /\ p = "prog" => pc'["prog"] = "zombie"
      /\ p = "child" => pc'["child"] = "zombie"
      /\ p # "child" => pc'["child"] = pc["child"] /\ status'["child"] = status["child"]
      /\ p = "desc" => pc'["prog"] = pc["prog"] /\ status'["prog"] = status["prog"]
  <2>1. pc["child"] \in InitPoints => AfterDeath(p) = "zombie"
    BY DEF AfterDeath, InitInv
  <2>2. p = "child" => AfterDeath(p) = "zombie"
    BY ZenonT(60) DEF AfterDeath
  <2>3. p # "child" => status'["child"] = status["child"] /\ (p = "desc" => status'["prog"] = status["prog"])
    BY <1>0, DieStatus DEF Procs
  <2>4. p # "child" => pc'["child"] = pc["child"] /\ (p = "desc" => pc'["prog"] = pc["prog"])
    BY <1>0, <1>a, <1>b, ZenonT(60) DEF Procs
  <2> QED
    BY <1>0, <1>a, <2>1, <2>2, <2>3, <2>4, ZenonT(60) DEF Procs
<1>2. \A q \in Procs : WIFEXITED(status'[q]) => status'[q] = Exited(WEXITSTATUS(status'[q]))
  BY DieStatus, StatusForm, ZenonT(60) DEF WellFormed, InitInv, Procs
<1>3. InitReportsProgram'
  <2> SUFFICES ASSUME handler, ~term, ~Alive("child")', WIFEXITED(status'["child"])
               PROVE  status'["child"] = IF WIFEXITED(status'["prog"]) THEN status'["prog"]
                                         ELSE Exited(MINIJAIL_ERR_INIT)
    BY ZenonT(60) DEF InitReportsProgram
  <2>1. CASE p = "child"
    <3>1. st = (IF WIFEXITED(status["prog"]) THEN status["prog"] ELSE Exited(MINIJAIL_ERR_INIT))
          /\ pc["prog"] = "reaped" /\ status'["child"] = st
      BY <2>1, DieStatus, ZenonT(60)
    <3>2. status'["prog"] = status["prog"]
      BY <2>1, <3>1, DieStatus, ZenonT(60) DEF Alive, Gone, Procs
    <3> QED
      BY <3>1, <3>2, ZenonT(60)
  <2>2. CASE p = "desc"
    BY <1>1, <2>2, ZenonT(60) DEF InitInv, InitReportsProgram, Alive
  <2>3. CASE p = "prog"
    BY <1>1, <2>3, ZenonT(60) DEF SetupInv, ShapeInv, Alive, Gone, InitPoints
  <2> QED
    BY <1>0, <2>1, <2>2, <2>3, ZenonT(60)
<1>4. /\ (handler => pc["child"] \in {"wait", "store", "zombie", "reaped"})'
      /\ (pc["child"] \in InitPoints \cup {"fork"} => cfg.init /\ cfg.exec)'
      /\ (pc["child"] \in InitPoints => pc["prog"] # "none")'
      /\ (pc["child"] \in {"free", "signal"} => pc["prog"] # "reaped")'
  BY <1>0, <1>1, ZenonT(60) DEF InitInv, InitPoints
<1>5. /\ (pc["child"] = "store" /\ lastPid = "prog" => pc["prog"] = "reaped" /\ lastStatus = status["prog"])'
      /\ (pc["prog"] = "reaped" /\ (pc["child"] = "wait" \/ (pc["child"] = "store" /\ lastPid # "prog")) =>
            exitstatus = status["prog"])'
  BY <1>0, <1>1, ZenonT(60) DEF InitInv, InitPoints, Alive, Gone
<1> QED
  BY <1>2, <1>3, <1>4, <1>5, ZenonT(60) DEF InitInv

\* A step that changes no status and nothing of init's, and moves the child or the
\* program on without passing init's part of the code, preserves InitInv.
LEMMA MoveInitInv ==
  ASSUME TypeOK, InitInv, UNCHANGED <<cfg, status, initVars>>, handler /\ term => term',
         \A q \in {"child", "prog"} :
           pc'[q] = pc[q] \/ (pc[q] # "none" /\ Alive(q) /\ Alive(q)') \/ (pc[q] = "none" /\ ~handler /\ Alive(q)')
             \/ (pc[q] = "zombie" /\ pc'[q] = "reaped" /\ q = "child"),
         pc'["child"] = pc["child"] \/ pc'["child"] \notin InitPoints \cup {"fork", "wait", "store"}
           \/ (pc'["child"] = "fork" /\ cfg.init /\ cfg.exec)
           \/ (pc["child"] = "free" /\ pc'["child"] = "signal"),
         handler => pc'["child"] = pc["child"] \/ pc'["child"] = "reaped"
  PROVE  InitInv'
<1> USE DEF initVars
<1>1. InitReportsProgram'
  BY ZenonT(60) DEF InitInv, InitReportsProgram, Alive, Gone
<1>2. /\ (handler => pc["child"] \in {"wait", "store", "zombie", "reaped"})'
      /\ (pc["child"] \in InitPoints \cup {"fork"} => cfg.init /\ cfg.exec)'
      /\ (pc["child"] \in InitPoints => pc["prog"] # "none")'
      /\ (pc["child"] \in {"free", "signal"} => pc["prog"] # "reaped")'
  BY ZenonT(60) DEF InitInv, InitPoints, Alive, Gone
<1>3. \A q \in Procs : WIFEXITED(status'[q]) => status'[q] = Exited(WEXITSTATUS(status'[q]))
  BY ZenonT(60) DEF InitInv
<1>4. /\ (pc["child"] = "store" /\ lastPid = "prog" => pc["prog"] = "reaped" /\ lastStatus = status["prog"])'
      /\ (pc["prog"] = "reaped" /\ (pc["child"] = "wait" \/ (pc["child"] = "store" /\ lastPid # "prog")) =>
            exitstatus = status["prog"])'
  BY DEF InitInv, InitPoints, Alive, Gone
<1> QED
  BY <1>1, <1>2, <1>3, <1>4, ZenonT(60) DEF InitInv

\* The caller's steps, its calls and its death preserve InitInv.
LEMMA CallerInitInv ==
  ASSUME TypeOK, SetupInv, InitInv,
         Run \/ ParentSetup \/ SendJail \/ Call \/ WaitReturns \/ ForwardSignal \/ CallerCrash
  PROVE  InitInv'
<1> DEFINE Quiet == UNCHANGED <<cfg, pc, status, initVars>> /\ (term => term')
<1> DEFINE Kills == KillChild /\ UNCHANGED <<cfg, term, initVars>>
<1>1. Quiet => InitInv'
  BY MoveInitInv
<1>2. Kills => InitInv'
  <2>1. CASE Alive("child")
    BY <2>1, DieInitInv, StatusForm DEF KillChild, Procs
  <2>2. CASE ~Alive("child")
    BY <1>1, <2>2 DEF KillChild, procVars
  <2> QED
    BY <2>1, <2>2
<1>3. CASE CloneChild
  <2>1. /\ pc["child"] = "none" /\ ~handler
        /\ \A q \in Procs : pc'[q] = IF q = "child" THEN "fds" ELSE pc[q]
        /\ UNCHANGED <<cfg, status, initVars, term>>
    BY <1>3, ZenonT(60) DEF CloneChild, TypeOK, Procs, SetupInv, ShapeInv, InitInv
  <2> QED
    BY <2>1, MoveInitInv, ZenonT(60) DEF Alive, Gone, Procs, InitPoints, initVars
<1>4. CASE WaitReturns
  <2>1. /\ pc["child"] \in {"zombie", "reaped"}
        /\ \A q \in Procs : pc'[q] = IF q = "child" THEN "reaped" ELSE pc[q]
        /\ UNCHANGED <<cfg, status, initVars, term>>
    BY <1>4 DEF WaitReturns, TypeOK, Procs
  <2> QED
    BY <2>1, MoveInitInv, ZenonT(60) DEF Alive, Gone, Procs, InitPoints, initVars
<1>5. CASE RunFails \/ RunDies
  BY <1>1, <1>5 DEF RunFails, RunDies, procVars
<1>6. CASE ParentSetup
  <2>1. ASSUME NEW t, NEW may, NEW next, ParentTask(t, may, next) PROVE InitInv'
    BY <1>1, <2>1 DEF ParentTask, procVars
  <2>2. CASE KillChildAndDie
    BY <1>2, <2>2 DEF KillChildAndDie
  <2>3. CASE Abort \/ ParentSetupComplete
    BY <1>1, <2>3 DEF Abort, ParentSetupComplete, procVars
  <2> QED
    BY <1>6, <2>1, <2>2, <2>3, ZenonT(60) DEF ParentSetup, InstallSignalHandlers, WritePidFileOrDie,
       AddToCgroupsOrDie, SetRlimitsOrDie, WriteUidMapOrDie, DenySetgroupsOrDie, WriteGidMapOrDie
<1>7. CASE SendJail
  <2>1. Quiet \/ Kills
    BY <1>7, ZenonT(60) DEF SendJail, BlockSigpipe, WriteHeader, WriteBody, BrokenPipe, CloseConfigPipe, DrainSigpipe,
       RestoreMask, procVars
  <2> QED
    BY <1>1, <1>2, <2>1, ZenonT(60)
<1>8. CASE Call \/ ForwardSignal \/ CallerCrash
  <2>1. UNCHANGED <<cfg, pc, status, initVars>>
    BY <1>8, ZenonT(60) DEF Call, MinijailWait, MinijailKill, ForwardSignal, CallerCrash, procVars
  <2>2. term => term'
    BY <1>8, ZenonT(60) DEF Call, MinijailWait, MinijailKill, SendTerm, ForwardSignal, CallerCrash
  <2> QED
    BY <1>1, <2>1, <2>2
<1> QED
  BY <1>3, <1>4, <1>5, <1>6, <1>7, <1>8, ZenonT(60) DEF Run

\* The steps of the child and the program outside init() preserve InitInv.
LEMMA JailedInitInv ==
  ASSUME TypeOK, SetupInv, InitInv,
         \/ ChildSetup
         \/ \E p \in {"child", "prog"} : ProgramSetup(p)
         \/ \E p \in Procs : SetupFails(p) \/ Program(p)
  PROVE  InitInv'
<1> USE DEF callerSide, Step
<1> DEFINE Moves(p, m) ==
      /\ Alive(p) /\ m \notin Gone \cup InitPoints
      /\ p = "child" => pc[p] \notin InitPoints /\ (m = "fork" => cfg.init /\ cfg.exec)
      /\ \A q \in Procs : pc'[q] = IF q = p THEN m ELSE pc[q]
      /\ UNCHANGED <<cfg, status, initVars, term>>
<1> DEFINE Dies(p) ==
      /\ Alive(p) /\ (p = "child" => pc[p] \notin InitPoints)
      /\ \E st : WellFormed(st) /\ Die(p, st)
      /\ UNCHANGED <<cfg, initVars, term>>
<1>1. ASSUME NEW p \in {"child", "prog"}, NEW m, Moves(p, m) PROVE InitInv'
  <2>1. p = "child" => ~handler
    BY <1>1 DEF InitInv, InitPoints, Alive, Gone
  <2> QED
    BY <1>1, <2>1, MoveInitInv, ZenonT(60) DEF Alive, Gone, Procs, InitPoints, initVars
<1>2. ASSUME NEW p \in Procs, Dies(p) PROVE InitInv'
  <2>1. p = "child" => ~handler
    BY <1>2 DEF InitInv, InitPoints, Alive, Gone
  <2> QED
    BY <1>2, <2>1, DieInitInv, ZenonT(60)
<1>3. CASE ChildSetup
  <2>1. CASE ForkInit
    <3>1. /\ pc["child"] = "fork" /\ pc["prog"] = "none"
          /\ \A q \in Procs : pc'[q] = IF q = "child" THEN "free" ELSE IF q = "prog" THEN "hooks" ELSE pc[q]
          /\ UNCHANGED <<cfg, status, initVars, term>>
      BY <2>1, ZenonT(60) DEF ForkInit, TypeOK, Procs, SetupInv, ShapeInv, InitPoints
    <3>2. ~handler /\ cfg.init /\ cfg.exec
      BY <3>1 DEF InitInv
    <3> QED
      BY <3>1, <3>2, ZenonT(60) DEF InitInv, InitReportsProgram, InitPoints, Procs, initVars
  <2>2. CASE EnterUserNamespace /\ ~MapsWritten
    <3>1. Dies("child")
      BY <2>2, StatusForm, ZenonT(60) DEF EnterUserNamespace, Alive, Gone, InitPoints
    <3> QED
      BY <1>2, <3>1 DEF Procs
  <2>3. CASE EnterUserNamespace /\ MapsWritten
    <3>1. Moves("child", "std")
      BY <2>3, ZenonT(60) DEF EnterUserNamespace, TypeOK, Alive, Gone, InitPoints
    <3> QED
      BY <1>1, <3>1
  <2>4. CASE ChildFds \/ CloseSyncPipe \/ WaitForParentSetup \/ SetupChildStdFds \/ EnterBeforeExec
    <3>1. \E m \in {"sync", "userns", "syncread", "enter", "fork", "hooks"} : Moves("child", m)
      BY <2>4 DEF ChildFds, CloseSyncPipe, WaitForParentSetup, SetupChildStdFds, EnterBeforeExec, TypeOK,
         Alive, Gone, InitPoints
    <3> QED
      BY <1>1, <3>1, ZenonT(60)
  <2> QED
    BY <1>3, <2>1, <2>2, <2>3, <2>4, ZenonT(60) DEF ChildSetup
<1>4. CASE \E p \in {"child", "prog"} : ProgramSetup(p)
  <2>1. PICK p \in {"child", "prog"} : ProgramSetup(p)
    BY <1>4, ZenonT(60)
  <2>2. pc[p] \in {"hooks", "exec", "readsize", "readbody", "enter2"} /\ p \in Procs
    BY <2>1, ZenonT(60) DEF ProgramSetup, RunHooks, Exec, ReadSize, ReadBody, EnterAfterExec, Procs
  <2>3. CASE Die(p, SIGABRT)
    <3>1. Dies(p)
      BY <2>1, <2>2, <2>3, StatusForm, ZenonT(60) DEF ProgramSetup, RunHooks, Exec, ReadSize, ReadBody, EnterAfterExec,
         Alive, Gone, InitPoints
    <3> QED
      BY <1>2, <2>2, <3>1, ZenonT(60)
  <2>4. CASE ~Die(p, SIGABRT)
    <3>1. PICK m \in {"exec", "main", "readsize", "readbody", "enter2"} : pc' = [pc EXCEPT ![p] = m]
      BY <2>1, <2>4, ZenonT(60) DEF ProgramSetup, RunHooks, Exec, ReadSize, ReadBody, EnterAfterExec
    <3>2. UNCHANGED <<cfg, status, initVars, term>>
      BY <2>1, <2>4, ZenonT(60) DEF ProgramSetup, RunHooks, Exec, ReadSize, ReadBody, EnterAfterExec
    <3>3. Moves(p, m)
      BY <2>2, <3>1, <3>2 DEF TypeOK, Alive, Gone, InitPoints
    <3> QED
      BY <1>1, <3>3, ZenonT(60)
  <2> QED
    BY <2>3, <2>4
<1>5. CASE \E p \in Procs : SetupFails(p) \/ Program(p)
  <2>1. PICK p \in Procs : SetupFails(p) \/ Program(p)
    BY <1>5
  <2>2. CASE SetupFails(p)
    <3>1. PICK st \in FailureStatus(pc[p]) : Die(p, st)
      BY <2>2, ZenonT(60) DEF SetupFails
    <3>2. Alive(p) /\ pc[p] \notin InitPoints
      BY <3>1 DEF FailureStatus, On, Alive, Gone, InitPoints
    <3>3. Dies(p)
      BY <2>2, <3>1, <3>2, FailureForm DEF SetupFails
    <3> QED
      BY <1>2, <3>3
  <2>3. CASE ProgramEnds(p)
    <3>1. PICK st \in {Exited(n) : n \in ExitCodes} \cup Signals : Die(p, st)
      BY <2>3 DEF ProgramEnds
    <3>2. WellFormed(st)
      <4>1. CASE st \in Signals
        BY <4>1, StatusForm
      <4>2. CASE st \notin Signals
        <5>1. PICK n \in ExitCodes : st = Exited(n)
          BY <3>1, <4>2
        <5>2. n \in Nat
          BY StatusAssumption
        <5> QED
          BY <5>1, <5>2, StatusForm
      <4> QED
        BY <4>1, <4>2
    <3>3. Dies(p)
      BY <2>3, <3>1, <3>2 DEF ProgramEnds, Alive, Gone, InitPoints
    <3> QED
      BY <1>2, <3>3
  <2>4. CASE ProgramForks(p)
    <3>1. pc'["child"] = pc["child"] /\ pc'["prog"] = pc["prog"] /\ UNCHANGED <<cfg, status, initVars, term>>
      BY <2>4 DEF ProgramForks, TypeOK, Procs
    <3> QED
      BY <3>1, MoveInitInv, ZenonT(60)
  <2> QED
    BY <2>1, <2>2, <2>3, <2>4 DEF Program
<1> QED
  BY <1>3, <1>4, <1>5, ZenonT(60)

\* init() and the delivery of SIGTERM preserve InitInv.
LEMMA InitLoopInitInv == ASSUME TypeOK, SetupInv, InitInv, InitLoop \/ DeliverTerm PROVE InitInv'
<1> USE DEF callerSide, Step
<1>1. CASE InitFreeRunState
  <2>1. /\ pc["child"] = "free" /\ \A q \in Procs : pc'[q] = IF q = "child" THEN "signal" ELSE pc[q]
        /\ UNCHANGED <<cfg, status, initVars, term>>
    BY <1>1, ZenonT(60) DEF InitFreeRunState, TypeOK
  <2>2. ~handler
    BY <2>1, ZenonT(60) DEF InitInv
  <2> QED
    BY <2>1, <2>2, MoveInitInv DEF Alive, Gone, Procs, InitPoints, initVars
<1>2. CASE InitInstallHandler
  <2>1. /\ pc["child"] = "signal" /\ \A q \in Procs : pc'[q] = IF q = "child" THEN "wait" ELSE pc[q]
        /\ UNCHANGED <<cfg, status, exitstatus, lastPid, lastStatus, term>>
    BY <1>2, ZenonT(60) DEF InitInstallHandler, TypeOK
  <2> QED
    BY <2>1 DEF InitInv, InitReportsProgram, Alive, Gone, Procs, InitPoints
<1>3. CASE InitStore
  <2>1. /\ pc["child"] = "store" /\ \A q \in Procs : pc'[q] = IF q = "child" THEN "wait" ELSE pc[q]
        /\ exitstatus' = IF lastPid = "prog" THEN lastStatus ELSE exitstatus
        /\ UNCHANGED <<cfg, status, handler, lastPid, lastStatus, term>>
    BY <1>3, ZenonT(60) DEF InitStore, TypeOK
  <2> QED
    BY <2>1, ZenonT(60) DEF InitInv, InitReportsProgram, Alive, Gone, Procs, InitPoints
<1>4. CASE \E q \in {"prog", "desc"} : InitWait(q)
  <2>1. PICK q \in {"prog", "desc"} : InitWait(q)
    BY <1>4, ZenonT(60)
  <2>2. /\ pc["child"] = "wait" /\ pc[q] = "zombie" /\ lastPid' = q /\ lastStatus' = status[q]
        /\ \A r \in Procs : pc'[r] = IF r = "child" THEN "store" ELSE IF r = q THEN "reaped" ELSE pc[r]
        /\ UNCHANGED <<cfg, status, handler, exitstatus, term>>
    BY <2>1 DEF InitWait, Reapable, TypeOK, Procs
  <2> QED
    BY <2>2 DEF InitInv, InitReportsProgram, Alive, Gone, Procs, InitPoints
<1>5. CASE InitExit
  <2>1. /\ pc["child"] = "wait" /\ pc["prog"] = "reaped" /\ exitstatus = status["prog"]
        /\ UNCHANGED <<cfg, term, initVars>>
    BY <1>5 DEF InitExit, NoChildren, InitInv, InitPoints
  <2> DEFINE code == IF WIFEXITED(exitstatus) THEN WEXITSTATUS(exitstatus) ELSE MINIJAIL_ERR_INIT
  <2>2. code \in Nat
    BY DEF TypeOK, WEXITSTATUS, MINIJAIL_ERR_INIT
  <2>3. WellFormed(Exited(code))
    BY <2>2, StatusForm
  <2>4. Exited(code) = IF WIFEXITED(status["prog"]) THEN status["prog"] ELSE Exited(MINIJAIL_ERR_INIT)
    BY <2>1 DEF InitInv, Procs
  <2>5. Die("child", Exited(code)) /\ Alive("child") /\ "child" \in Procs
    BY <1>5, <2>1 DEF InitExit, Alive, Gone, Procs
  <2> HIDE DEF code
  <2> QED
    BY <2>1, <2>3, <2>4, <2>5, DieInitInv, ZenonT(60)
<1>6. CASE DeliverTerm
  <2>1. CASE ~handler /\ pc["child"] = "main" /\ cfg.catch
    BY <1>6, <2>1, MoveInitInv DEF DeliverTerm, procVars
  <2>2. CASE ~(~handler /\ pc["child"] = "main" /\ cfg.catch)
    <3> DEFINE st == IF handler THEN Exited(exitstatus) ELSE SIGTERM
    <3>1. WellFormed(st)
      BY StatusForm DEF TypeOK
    <3>2. Die("child", st) /\ Alive("child") /\ "child" \in Procs /\ term /\ UNCHANGED <<cfg, term, initVars>>
      BY <1>6, <2>2, ZenonT(60) DEF DeliverTerm, Procs
    <3> HIDE DEF st
    <3> QED
      BY <3>1, <3>2, DieInitInv
  <2> QED
    BY <2>1, <2>2, ZenonT(60)
<1> QED
  BY <1>1, <1>2, <1>3, <1>4, <1>5, <1>6, ZenonT(60) DEF InitLoop

\* InitInv holds in every reachable state of a run.
THEOREM InitInvariant == Spec => []InitInv
<1>1. Init => InitInv
  BY DEF Init, InitInv, InitReportsProgram, InitPoints, Procs, Alive, Gone, Exited, WEXITSTATUS
<1>2. TypeOK /\ SetupInv /\ InitInv /\ [Next]_vars => InitInv'
  <2> SUFFICES ASSUME TypeOK, SetupInv, InitInv, [Next]_vars PROVE InitInv'
    BY ZenonT(60)
  <2>1. CASE UNCHANGED vars
    BY <2>1, MoveInitInv, ZenonT(60) DEF vars, procVars
  <2> QED
    BY <2>1, CallerInitInv, JailedInitInv, InitLoopInitInv DEF Next, Over
<1> QED
  BY <1>1, <1>2, TypeCorrect, SetupInvariant, PTL DEF Spec

\* An init() that was not told to stop exits with the program's own code, or with
\* MINIJAIL_ERR_INIT when the program was killed, whatever other processes it
\* reaped and in whichever order.
THEOREM InitReportsTheorem == Spec => []InitReportsProgram
<1>1. InitInv => InitReportsProgram
  BY DEF InitInv
<1> QED
  BY <1>1, InitInvariant, PTL

\* Of all steps only wait(2) running out of children ends an init() that is
\* neither signalled nor killed.
LEMMA OnlyInitExit ==
  ASSUME TypeOK, InitInv, Next, handler, ~term, Alive("child"), ~Alive("child")',
         status'["child"] # SIGKILL
  PROVE  NoChildren
<1>0. pc["child"] \in {"wait", "store"} /\ pc'["child"] \in Gone
  BY DEF InitInv, Alive, Gone
<1>1. pc' # pc
  BY DEF Alive
<1>2. ASSUME KillChild PROVE FALSE
  BY <1>2, DieStatus, ZenonT(60) DEF KillChild, Procs
<1>3. ~(Run \/ Call \/ WaitReturns \/ ForwardSignal \/ CallerCrash \/ Over)
  BY <1>0, <1>1, ZenonT(60) DEF Run, RunFails, RunDies, CloneChild, Call, MinijailWait, MinijailKill, WaitReturns,
     ForwardSignal, CallerCrash, Over, TypeOK, Procs, Gone, vars, procVars
<1>4. ~ParentSetup
  <2>1. ASSUME NEW t, NEW may, NEW next, ParentTask(t, may, next) PROVE FALSE
    BY <1>1, <2>1 DEF ParentTask, procVars
  <2>2. ~KillChildAndDie
    BY <1>2 DEF KillChildAndDie
  <2>3. ~Abort /\ ~ParentSetupComplete
    BY <1>1, ZenonT(60) DEF Abort, ParentSetupComplete, procVars
  <2> QED
    BY <2>1, <2>2, <2>3, ZenonT(60) DEF ParentSetup, InstallSignalHandlers, WritePidFileOrDie,
       AddToCgroupsOrDie, SetRlimitsOrDie, WriteUidMapOrDie, DenySetgroupsOrDie, WriteGidMapOrDie
<1>5. ~SendJail
  BY <1>1, <1>2, ZenonT(60) DEF SendJail, BlockSigpipe, WriteHeader, WriteBody, CloseConfigPipe, DrainSigpipe,
     RestoreMask, procVars
<1>6. ~ChildSetup
  BY <1>0 DEF ChildSetup, ChildFds, CloseSyncPipe, WaitForParentSetup, EnterUserNamespace,
     SetupChildStdFds, EnterBeforeExec, ForkInit, Step
<1>7. ASSUME NEW p \in {"child", "prog"}, ProgramSetup(p) PROVE FALSE
  <2>1. p = "prog" /\ Alive(p) /\ p \in Procs
    BY <1>0, <1>7 DEF ProgramSetup, RunHooks, Exec, ReadSize, ReadBody, EnterAfterExec, Step, Alive, Gone,
       Procs
  <2>2. \/ Die(p, SIGABRT)
        \/ \E m : pc' = [pc EXCEPT ![p] = m]
    BY <1>7, ZenonT(60) DEF ProgramSetup, RunHooks, Exec, ReadSize, ReadBody, EnterAfterExec, Step
  <2>3. pc'["child"] = pc["child"]
    BY <2>1, <2>2, DieEffect, ZenonT(60) DEF TypeOK, Procs
  <2> QED
    BY <2>3, ZenonT(60) DEF Alive
<1>8. ASSUME NEW p \in Procs, SetupFails(p) \/ Program(p) PROVE FALSE
  <2>1. CASE ProgramForks(p)
    BY <1>0, <2>1 DEF ProgramForks, TypeOK, Procs, Gone
  <2>2. CASE SetupFails(p) \/ ProgramEnds(p)
    <3>1. p # "child" /\ Alive(p)
      BY <1>0, <2>2 DEF SetupFails, FailureStatus, On, ProgramEnds, Alive, Gone
    <3>2. PICK st : Die(p, st)
      BY <2>2, ZenonT(60) DEF SetupFails, ProgramEnds
    <3>3. pc'["child"] = pc["child"]
      BY <3>1, <3>2, DieEffect DEF Procs
    <3> QED
      BY <3>3, ZenonT(60) DEF Alive
  <2> QED
    BY <1>8, <2>1, <2>2, ZenonT(60) DEF Program
<1>9. ~DeliverTerm
  BY DEF DeliverTerm
<1>10. CASE InitLoop
  <2>1. CASE InitExit
    BY <2>1 DEF InitExit
  <2>2. ~InitFreeRunState /\ ~InitInstallHandler
    BY <1>0 DEF InitFreeRunState, InitInstallHandler, Step
  <2>3. ~InitStore
    BY <1>0, ZenonT(60) DEF InitStore, Step, TypeOK, Procs, Gone
  <2>4. ASSUME NEW q \in {"prog", "desc"}, InitWait(q) PROVE FALSE
    BY <1>0, <2>4 DEF InitWait, TypeOK, Procs, Gone
  <2> QED
    BY <1>10, <2>1, <2>2, <2>3, <2>4 DEF InitLoop
<1> QED
  BY <1>3, <1>4, <1>5, <1>6, <1>7, <1>8, <1>9, <1>10, ZenonT(60) DEF Next

\* An init() that nobody signals or kills outlives every process of its namespace.
THEOREM InitOutlivesTheorem == Spec => InitOutlivesJail
<1> DEFINE Outlives == handler /\ ~term /\ Alive("child") /\ ~Alive("child")' /\ status["child"]' # SIGKILL
                         => ~Alive("prog") /\ ~Alive("desc")
<1>1. TypeOK /\ InitInv /\ [Next]_vars => [Outlives]_vars
  BY OnlyInitExit DEF NoChildren, Alive, Gone
<1> QED
  BY <1>1, TypeCorrect, InitInvariant, PTL DEF Spec, InitOutlivesJail

-----------------------------------------------------------------------------
(* The life of the jail. *)

\* PhaseOf, one case at a time.
PhaseFacts ==
  /\ ppc = "crashed" => PhaseOf = "orphaned"
  /\ ppc # "crashed" /\ pc["child"] = "none" => PhaseOf = "absent"
  /\ ppc # "crashed" /\ pc["child"] = "reaped" => PhaseOf = "reaped"
  /\ ppc # "crashed" /\ pc["child"] = "zombie" => PhaseOf = "over"
  /\ ppc # "crashed" /\ Alive("child") =>
       /\ (\E p \in Procs : pc[p] = "main") => PhaseOf = "running"
       /\ (\A p \in Procs : pc[p] # "main") /\ pc["prog"] \in {"zombie", "reaped"} => PhaseOf = "ending"
       /\ (\A p \in Procs : pc[p] # "main") /\ pc["prog"] \notin {"zombie", "reaped"} => PhaseOf = "setup"

\* PhaseOf is what its cases say, before a step and after it.
LEMMA PhaseCases == PhaseFacts /\ PhaseFacts'
<1>1. PhaseFacts
  BY ZenonT(60) DEF PhaseFacts, PhaseOf, Alive, Gone
<1>2. PhaseFacts'
  BY DEF PhaseFacts, PhaseOf, Alive, Gone
<1> QED
  BY <1>1, <1>2, ZenonT(60)

\* What a step of the jailed processes leaves alone.
Keeps == /\ UNCHANGED <<cfg, done, reply>>
         /\ ppc' = "crashed" <=> ppc = "crashed"

AbstractStep == [Lifecycle!Next]_(Lifecycle!vars)

\* Two states that agree on the processes and the parent-side setup are in the
\* same phase, with the same protections in force.
LEMMA QuietStep ==
  ASSUME OriginInv, Keeps, UNCHANGED <<pc, applied>>
  PROVE  OriginInv' /\ AbstractStep
<1>1. OriginInv'
  BY ZenonT(60) DEF OriginInv
<1>2. PhaseOf' = PhaseOf /\ LayersOf' = LayersOf /\ reply' = reply
  BY ZenonT(60) DEF Keeps, PhaseOf, LayersOf, ParentSetupDone
<1> QED
  BY <1>1, <1>2 DEF AbstractStep, Lifecycle!vars

\* A death changes the phase at most as the abstract specification allows.
LEMMA DieStep ==
  ASSUME TypeOK, SetupInv, OriginInv, NEW p \in Procs, NEW st, Die(p, st), Alive(p), Keeps
  PROVE  OriginInv' /\ AbstractStep
<1> USE DieEffect
<1>1. OriginInv'
  BY ZenonT(60) DEF OriginInv, Procs, Ended, Early, Alive, Gone, TypeOK
<1>2. LayersOf' = LayersOf /\ reply' = reply
  BY ZenonT(60) DEF Keeps, LayersOf, ParentSetupDone
<1>3. \/ PhaseOf' = PhaseOf
      \/ PhaseOf \in {"setup", "running"} /\ PhaseOf' = "ending"
      \/ PhaseOf \in {"setup", "running", "ending"} /\ PhaseOf' = "over"
  <2>1. CASE ppc = "crashed"
    BY <2>1, PhaseCases, ZenonT(60) DEF PhaseFacts, Keeps
  <2>2. CASE ppc # "crashed" /\ p = "child"
    <3>1. pc'["child"] = "zombie"
      BY <2>2, ZenonT(60) DEF Die, AfterDeath, Procs
    <3>2. PhaseOf' = "over"
      BY <2>2, <3>1, PhaseCases, ZenonT(60) DEF PhaseFacts, Keeps
    <3>3. PhaseOf \in {"setup", "running", "ending"}
      BY <2>2, PhaseCases, ZenonT(60) DEF PhaseFacts
    <3> QED
      BY <3>2, <3>3, ZenonT(60)
  <2>3. CASE ppc # "crashed" /\ p # "child" /\ ~Alive("child")
    <3>1. pc'["child"] = pc["child"]
      BY <2>3, ZenonT(60) DEF Procs
    <3> QED
      BY <2>3, <3>1, PhaseCases, ZenonT(60) DEF PhaseFacts, Keeps, Alive, Gone
  <2>4. CASE ppc # "crashed" /\ p = "prog" /\ Alive("child")
    <3>1. /\ pc'["child"] = pc["child"] /\ pc'["desc"] = pc["desc"]
          /\ pc'["prog"] \in {"zombie", "reaped"} /\ pc["prog"] \notin {"zombie", "reaped"}
          /\ pc["child"] # "main" /\ Alive("child")'
      BY <2>4, ZenonT(60) DEF Procs, Alive, Gone, SetupInv, ShapeInv, InitPoints
    <3> QED
      BY <2>4, <3>1, PhaseCases, ZenonT(60) DEF PhaseFacts, Keeps, Procs
  <2>5. CASE ppc # "crashed" /\ p = "desc" /\ Alive("child")
    <3>1. /\ pc'["child"] = pc["child"] /\ pc'["prog"] = pc["prog"]
          /\ pc["desc"] = "main" /\ pc'["desc"] # "main" /\ Alive("child")'
      BY <2>5, ZenonT(60) DEF Procs, Alive, Gone, SetupInv, ShapeInv
    <3>2. pc["child"] = "main" \/ pc["prog"] \in Ended
      BY <2>5, <3>1, ZenonT(60) DEF OriginInv, Ended, Alive, Gone
    <3> QED
      BY <2>5, <3>1, <3>2, PhaseCases, ZenonT(60) DEF PhaseFacts, Keeps, Procs, Ended
  <2> QED
    BY <2>1, <2>2, <2>3, <2>4, <2>5, ZenonT(60) DEF Procs
<1> QED
  BY <1>1, <1>2, <1>3, ZenonT(60) DEF AbstractStep, Lifecycle!vars, Lifecycle!Next, Lifecycle!Drain, Lifecycle!End

\* A process of the jail that is not ended goes on to point m, and no protection
\* is lost; if m is the program's own code, all are in force.
LEMMA MoveStep ==
  ASSUME TypeOK, TypeOK', SetupInv, OriginInv, Confined', Keeps,
         NEW p \in {"child", "prog"}, NEW m \in ChildPoints \ Gone,
         Alive(p), pc[p] # "main", pc' = [pc EXCEPT ![p] = m],
         LayersOf \subseteq LayersOf', OriginInv',
         p = "child" /\ m = "main" => pc["prog"] = "none"
  PROVE  AbstractStep
<1>1. /\ \A q \in Procs : pc'[q] = IF q = p THEN m ELSE pc[q]
      /\ p \in Procs /\ m \notin Gone /\ Alive("child") /\ Alive("child")' /\ pc[p] \notin Gone
  BY ZenonT(60) DEF TypeOK, Procs, Alive, Gone, SetupInv, ShapeInv, InitPoints
<1>2. LayersOf' \in SUBSET (Stages \cup {"parent"})
  BY DEF TypeOK, LayersOf, Procs
<1>3. CASE PhaseOf' = PhaseOf
  BY <1>2, <1>3 DEF Keeps, AbstractStep, Lifecycle!Next, Lifecycle!Protect
<1>4. CASE PhaseOf' # PhaseOf
  <2>1. ppc # "crashed" /\ ppc' # "crashed"
    BY <1>4, PhaseCases, ZenonT(60) DEF PhaseFacts, Keeps
  <2>2. m = "main" /\ \A q \in Procs : pc[q] # "main"
    BY <1>1, <1>4, <2>1, PhaseCases, ZenonT(60) DEF PhaseFacts, Procs, Gone
  <2>3. PhaseOf = "setup" /\ PhaseOf' = "running"
    BY <1>1, <2>1, <2>2, PhaseCases, ZenonT(60) DEF PhaseFacts, Gone
  <2>4. applied'[p] = Stages /\ ParentSetupDone'
    BY <1>1, <2>1, <2>2, ZenonT(60) DEF Confined
  <2>5. LayersOf' = Stages \cup {"parent"}
    BY <1>2, <2>4 DEF LayersOf
  <2> QED
    BY <2>3, <2>5, ZenonT(60) DEF Keeps, AbstractStep, Lifecycle!Next, Lifecycle!Start
<1> QED
  BY <1>3, <1>4

\* A step of the parent-side setup puts the caller's part in force when it is the
\* last one, and takes nothing back.
LEMMA TaskStep ==
  ASSUME TypeOK, SetupInv, OriginInv, NEW t \in Tasks, done[t] < Need(cfg, t),
         done' = [done EXCEPT ![t] = @ + 1], ppc # "crashed", ppc' # "crashed",
         UNCHANGED <<cfg, reply, pc, applied>>
  PROVE  OriginInv' /\ AbstractStep
<1>1. OriginInv' /\ PhaseOf' = PhaseOf
  BY ZenonT(60) DEF OriginInv, PhaseOf
<1>2. ~ParentSetupDone
  BY NeedNat DEF ParentSetupDone, TypeOK
<1>3. LayersOf \subseteq LayersOf' /\ LayersOf' \in SUBSET (Stages \cup {"parent"})
  BY <1>2 DEF TypeOK, LayersOf, Procs
<1> QED
  BY <1>1, <1>3, ZenonT(60) DEF AbstractStep, Lifecycle!Next, Lifecycle!Protect

\* clone(2) makes a jail; a run that fails before makes none.
LEMMA RunStep == ASSUME TypeOK, SetupInv, OriginInv, Run PROVE OriginInv' /\ AbstractStep
<1>1. CASE RunFails \/ RunDies
  BY <1>1, QuietStep DEF RunFails, RunDies, Keeps, procVars
<1>2. CASE CloneChild
  <2>1. /\ \A q \in Procs : pc[q] = "none" /\ pc'[q] = IF q = "child" THEN "fds" ELSE "none"
        /\ ppc # "crashed" /\ ppc' # "crashed"
        /\ UNCHANGED <<cfg, done, reply, applied>>
    BY <1>2 DEF CloneChild, TypeOK, SetupInv, ShapeInv, Procs
  <2>2. PhaseOf = "absent" /\ PhaseOf' = "setup"
    BY <2>1, PhaseCases, ZenonT(60) DEF PhaseFacts, Procs, Alive, Gone
  <2>3. OriginInv' /\ LayersOf' = LayersOf
    BY <2>1, ZenonT(60) DEF OriginInv, LayersOf, ParentSetupDone, Procs, Ended
  <2> QED
    BY <2>1, <2>2, <2>3, ZenonT(60) DEF AbstractStep, Lifecycle!Next, Lifecycle!Create
<1> QED
  BY <1>1, <1>2, ZenonT(60) DEF Run

\* kill(2) of the child is its death, or nothing.
LEMMA KillStep ==
  ASSUME TypeOK, SetupInv, OriginInv, KillChild, Keeps
  PROVE  OriginInv' /\ AbstractStep
<1>1. CASE Alive("child")
  BY <1>1, DieStep DEF KillChild, Procs
<1>2. CASE ~Alive("child")
  BY <1>2, QuietStep DEF KillChild, procVars
<1> QED
  BY <1>1, <1>2

\* One task of the caller.
LEMMA ParentTaskStep ==
  ASSUME TypeOK, SetupInv, OriginInv, NEW t \in Tasks, NEW b \in BOOLEAN, NEW n,
         n # "crashed", ParentTask(t, b, n)
  PROVE  OriginInv' /\ AbstractStep
<1>1. ppc # "crashed" /\ ppc' # "crashed" /\ UNCHANGED <<cfg, reply, pc, applied>>
  BY DEF ParentTask, Tasks, procVars
<1>2. CASE UNCHANGED done
  BY <1>1, <1>2, QuietStep DEF Keeps
<1>3. CASE ~UNCHANGED done
  <2>1. done[t] < Need(cfg, t) /\ done' = [done EXCEPT ![t] = @ + 1]
    BY <1>3 DEF ParentTask
  <2> QED
    BY <1>1, <2>1, TaskStep, ZenonT(60)
<1> QED
  BY <1>2, <1>3, ZenonT(60)

\* The parent-side setup.
LEMMA ParentSetupStep == ASSUME TypeOK, SetupInv, OriginInv, ParentSetup PROVE OriginInv' /\ AbstractStep
<1>1. CASE InstallSignalHandlers \/ WritePidFileOrDie \/ AddToCgroupsOrDie \/ SetRlimitsOrDie
           \/ WriteUidMapOrDie \/ DenySetgroupsOrDie \/ WriteGidMapOrDie
  BY <1>1, ParentTaskStep, ZenonT(60) DEF InstallSignalHandlers, WritePidFileOrDie, AddToCgroupsOrDie, SetRlimitsOrDie,
     WriteUidMapOrDie, DenySetgroupsOrDie, WriteGidMapOrDie, Tasks
<1>2. CASE KillChildAndDie
  BY <1>2, KillStep DEF KillChildAndDie, Keeps
<1>3. CASE Abort \/ ParentSetupComplete
  BY <1>3, QuietStep DEF Abort, ParentSetupComplete, Keeps, procVars
<1> QED
  BY <1>1, <1>2, <1>3 DEF ParentSetup

\* Sending the jail.
LEMMA SendJailStep == ASSUME TypeOK, SetupInv, OriginInv, SendJail PROVE OriginInv' /\ AbstractStep
<1>1. CASE BlockSigpipe \/ WriteHeader \/ WriteBody \/ CloseConfigPipe \/ DrainSigpipe
  BY <1>1, QuietStep, ZenonT(60) DEF BlockSigpipe, WriteHeader, WriteBody, BrokenPipe, CloseConfigPipe, DrainSigpipe,
     Keeps, procVars
<1>2. CASE RestoreMask /\ failed
  BY <1>2, KillStep DEF RestoreMask, Keeps
<1>3. CASE RestoreMask /\ ~failed
  BY <1>3, QuietStep DEF RestoreMask, Keeps, procVars
<1> QED
  BY <1>1, <1>2, <1>3, ZenonT(60) DEF SendJail

\* What minijail_wait_internal() makes of any status is one byte.
LEMMA WaitResultByte == ASSUME NEW st \in Nat PROVE WaitResult(st) \in 0..255
BY DEF WaitResult, WIFEXITED, WEXITSTATUS, WTERMSIG, SIGSYS, MINIJAIL_ERR_JAIL, MINIJAIL_ERR_SIG_BASE

\* The calls on a jail: one gets the status, the others an error number; and the
\* caller's death.
LEMMA CallStep ==
  ASSUME TypeOK, SetupInv, OriginInv, Call \/ WaitReturns \/ ForwardSignal \/ CallerCrash
  PROVE  OriginInv' /\ AbstractStep
<1>1. CASE Call
  <2>1. /\ ppc = "idle" /\ ppc' # "crashed" /\ UNCHANGED <<cfg, done, pc, applied>>
        /\ \/ reply' = reply
           \/ pc["child"] = "none" /\ reply' = -10
           \/ pc["child"] = "reaped" /\ reply' = -3
    BY <1>1 DEF Call, MinijailWait, MinijailKill, procVars, ECHILD, ESRCH
  <2>2. CASE reply' = reply
    BY <2>1, <2>2, QuietStep DEF Keeps
  <2>3. CASE reply' # reply
    <3>1. PhaseOf \in {"absent", "reaped"} /\ PhaseOf' = PhaseOf /\ LayersOf' = LayersOf /\ OriginInv'
      BY <2>1, <2>3, ZenonT(60) DEF PhaseOf, LayersOf, ParentSetupDone, OriginInv
    <3> QED
      BY <2>1, <2>3, <3>1, ZenonT(60) DEF AbstractStep, Lifecycle!Next, Lifecycle!Refuse
  <2> QED
    BY <2>2, <2>3, ZenonT(60)
<1>2. CASE WaitReturns
  <2>1. /\ ppc # "crashed" /\ ppc' # "crashed"
        /\ \A q \in Procs : pc'[q] = IF q = "child" THEN "reaped" ELSE pc[q]
        /\ UNCHANGED <<cfg, done, applied>>
        /\ \/ pc["child"] = "zombie" /\ reply' = WaitResult(status["child"])
           \/ pc["child"] = "reaped" /\ reply' = -10
    BY <1>2, ZenonT(60) DEF WaitReturns, TypeOK, Procs, ECHILD
  <2>2. OriginInv' /\ LayersOf' = LayersOf
    BY <2>1, ZenonT(60) DEF OriginInv, LayersOf, ParentSetupDone, Procs, Ended, Early
  <2>3. PhaseOf' = "reaped"
    BY <2>1, PhaseCases DEF PhaseFacts, Procs
  <2>4. CASE pc["child"] = "zombie"
    <3>1. reply' \in 0..255
      BY <2>1, <2>4, WaitResultByte, ZenonT(60) DEF TypeOK, Procs
    <3>2. PhaseOf = "over"
      BY <2>1, <2>4, PhaseCases DEF PhaseFacts
    <3> QED
      BY <2>2, <2>3, <3>1, <3>2, ZenonT(60) DEF AbstractStep, Lifecycle!Next, Lifecycle!Reap
  <2>5. CASE pc["child"] = "reaped"
    <3>1. PhaseOf = "reaped"
      BY <2>1, <2>5, PhaseCases, ZenonT(60) DEF PhaseFacts
    <3> QED
      BY <2>1, <2>2, <2>3, <2>5, <3>1, ZenonT(60) DEF AbstractStep, Lifecycle!Next, Lifecycle!Refuse
  <2> QED
    BY <2>1, <2>4, <2>5
<1>3. CASE ForwardSignal
  BY <1>3, QuietStep DEF ForwardSignal, Keeps, callerVars, procVars
<1>4. CASE CallerCrash
  <2>1. ppc' = "crashed" /\ UNCHANGED <<cfg, done, reply, pc, applied>>
    BY <1>4, ZenonT(60) DEF CallerCrash, procVars
  <2>2. OriginInv' /\ LayersOf' = LayersOf /\ PhaseOf' = "orphaned"
    BY <2>1 DEF OriginInv, LayersOf, ParentSetupDone, PhaseOf
  <2> QED
    BY <2>1, <2>2, ZenonT(60) DEF AbstractStep, Lifecycle!Next, Lifecycle!Orphan
<1> QED
  BY <1>1, <1>2, <1>3, <1>4

\* A move that leaves the stages in force alone, for a process that does not go
\* back to before minijail_enter().
LEMMA PlainMove ==
  ASSUME TypeOK, TypeOK', SetupInv, OriginInv, Confined', Keeps, UNCHANGED applied,
         NEW p \in {"child", "prog"}, NEW m \in ChildPoints \ Gone,
         Alive(p), pc[p] # "main", pc' = [pc EXCEPT ![p] = m],
         p = "child" /\ m \in Early \cup {"userns", "std", "enter"} =>
           pc["child"] \in Early \cup {"userns", "std"},
         p = "child" /\ m = "main" => pc["prog"] = "none"
  PROVE  OriginInv' /\ AbstractStep
<1>1. OriginInv'
  BY ZenonT(60) DEF OriginInv, TypeOK, Procs, Alive, Gone, Ended, Early
<1>2. LayersOf \subseteq LayersOf'
  BY DEF LayersOf, ParentSetupDone, Keeps
<1> QED
  BY <1>1, <1>2, MoveStep, ZenonT(60)

\* The child's own setup.
LEMMA ChildSetupStep ==
  ASSUME TypeOK, TypeOK', SetupInv, OriginInv, Confined', ChildSetup
  PROVE  OriginInv' /\ AbstractStep
<1> USE DEF callerSide, callerVars, Step
<1> DEFINE From == Early \cup {"userns", "std"}
           Move(m) == /\ m \in ChildPoints \ Gone /\ m # "main" /\ pc["child"] \in From
                      /\ Keeps /\ UNCHANGED applied /\ pc' = [pc EXCEPT !["child"] = m]
<1>0. ASSUME NEW m, Move(m) PROVE OriginInv' /\ AbstractStep
  <2>1. Alive("child") /\ pc["child"] # "main"
    BY <1>0, ZenonT(60) DEF Alive, Gone, Early
  <2> QED
    BY <1>0, <2>1, PlainMove, ZenonT(60)
<1> USE DEF Keeps, ChildPoints, Gone, Early
<1>1. CASE ChildFds
  <2>1. Move("sync") \/ Move("userns")
    BY <1>1, ZenonT(60) DEF ChildFds
  <2> QED
    BY <1>0, <2>1
<1>2. CASE CloseSyncPipe
  <2>1. Move("syncread")
    BY <1>2 DEF CloseSyncPipe
  <2> QED
    BY <1>0, <2>1, ZenonT(60)
<1>3. CASE WaitForParentSetup
  <2>1. Move("userns")
    BY <1>3 DEF WaitForParentSetup
  <2> QED
    BY <1>0, <2>1, ZenonT(60)
<1>4. CASE EnterUserNamespace /\ MapsWritten
  <2>1. Move("std")
    BY <1>4 DEF EnterUserNamespace
  <2> QED
    BY <1>0, <2>1, ZenonT(60)
<1>5. CASE EnterUserNamespace /\ ~MapsWritten
  BY <1>5, DieStep DEF EnterUserNamespace, Alive, Procs
<1>6. CASE SetupChildStdFds
  <2>1. Move("enter")
    BY <1>6 DEF SetupChildStdFds
  <2> QED
    BY <1>0, <2>1, ZenonT(60)
<1>7. CASE EnterBeforeExec
  <2>1. PICK m \in {"fork", "hooks"} : pc' = [pc EXCEPT !["child"] = m]
    BY <1>7, ZenonT(60) DEF EnterBeforeExec
  <2>2. /\ pc["child"] = "enter" /\ applied["child"] = {} /\ applied'["prog"] = applied["prog"] /\ Keeps
    BY <1>7 DEF EnterBeforeExec, OriginInv, TypeOK, Procs
  <2>3. LayersOf \subseteq LayersOf'
    BY <2>2, ZenonT(60) DEF LayersOf, ParentSetupDone
  <2>4. OriginInv'
    BY <2>1, <2>2 DEF OriginInv, TypeOK, Procs, Ended
  <2> QED
    BY <2>1, <2>2, <2>3, <2>4, MoveStep, ZenonT(60) DEF Alive
<1>8. CASE ForkInit
  <2>1. /\ pc["child"] = "fork" /\ pc["prog"] = "none" /\ applied["prog"] = {}
        /\ \A q \in Procs : pc'[q] = IF q = "child" THEN "free" ELSE IF q = "prog" THEN "hooks" ELSE pc[q]
        /\ applied'["child"] = applied["child"] /\ applied'["prog"] = applied["child"]
        /\ Keeps
    BY <1>8, ZenonT(60) DEF ForkInit, TypeOK, Procs, SetupInv, ShapeInv, OriginInv, InitPoints
  <2>2. LayersOf' = LayersOf
    BY <2>1, ZenonT(60) DEF LayersOf, ParentSetupDone
  <2>3. OriginInv'
    BY <2>1 DEF OriginInv, Procs, Ended
  <2>4. pc'["desc"] = pc["desc"] /\ Alive("child") /\ Alive("child")'
    BY <2>1, ZenonT(60) DEF Procs, Alive
  <2>5. PhaseOf' = PhaseOf
    BY <2>1, <2>4, PhaseCases DEF PhaseFacts, Procs
  <2> QED
    BY <2>1, <2>2, <2>3, <2>5, ZenonT(60) DEF AbstractStep, Lifecycle!vars
<1> QED
  BY <1>1, <1>2, <1>3, <1>4, <1>5, <1>6, <1>7, <1>8 DEF ChildSetup

\* From the hooks to the program's own main().
LEMMA ProgramSetupStep ==
  ASSUME TypeOK, TypeOK', SetupInv, OriginInv, Confined', NEW p \in {"child", "prog"}, ProgramSetup(p)
  PROVE  OriginInv' /\ AbstractStep
<1> USE DEF callerSide, callerVars, Step
<1> DEFINE From == ReaderPoints \cup {"hooks", "exec"}
           To == ReaderPoints \cup {"exec", "main"}
           Move(m) == m \in To /\ pc[p] \in From /\ Keeps /\ pc' = [pc EXCEPT ![p] = m]
<1>0. p \in Procs /\ (pc[p] \in From => Alive(p) /\ pc[p] # "main" /\ (p = "child" => pc["prog"] = "none"))
  BY DEF Procs, SetupInv, ShapeInv, Alive, Gone, InitPoints, ReaderPoints
<1>a. ASSUME NEW m, Move(m), UNCHANGED applied PROVE OriginInv' /\ AbstractStep
  <2>1. m \in ChildPoints \ Gone /\ m \notin Early \cup {"userns", "std", "enter"}
    BY <1>a DEF ChildPoints, Gone, ReaderPoints, Early
  <2> QED
    BY <1>0, <1>a, <2>1, PlainMove, ZenonT(60)
<1>1. CASE RunHooks(p)
  <2>1. (Move("exec") \/ Move("main")) /\ UNCHANGED applied
    BY <1>1, ZenonT(60) DEF RunHooks, Keeps
  <2> QED
    BY <1>a, <2>1
<1>2. CASE Exec(p)
  <2>1. (Move("readsize") \/ Move("main")) /\ UNCHANGED applied
    BY <1>2, ZenonT(60) DEF Exec, Keeps, ReaderPoints
  <2> QED
    BY <1>a, <2>1
<1>3. CASE ReadSize(p) \/ ReadBody(p)
  <2>1. CASE Die(p, SIGABRT)
    BY <1>0, <1>3, <2>1, DieStep, ZenonT(60) DEF ReadSize, ReadBody, Keeps, ReaderPoints
  <2>2. CASE ~Die(p, SIGABRT)
    <3>1. (Move("readbody") \/ Move("enter2")) /\ UNCHANGED applied
      BY <1>3, <2>2, ZenonT(60) DEF ReadSize, ReadBody, Keeps, ReaderPoints
    <3> QED
      BY <1>a, <3>1
  <2> QED
    BY <2>1, <2>2, ZenonT(60)
<1>4. CASE EnterAfterExec(p)
  <2>1. /\ Move("main") /\ \A q \in Procs : applied[q] \subseteq applied'[q]
        /\ \A q \in Procs \ {p} : applied'[q] = applied[q]
    BY <1>4, ZenonT(60) DEF EnterAfterExec, Keeps, ReaderPoints, TypeOK
  <2>2. LayersOf \subseteq LayersOf'
    BY <2>1, ZenonT(60) DEF LayersOf, ParentSetupDone, Keeps, Procs
  <2>3. OriginInv'
    BY <1>0, <2>1, ZenonT(60) DEF OriginInv, TypeOK, Procs, Ended, Early, Alive, Gone
  <2> QED
    BY <1>0, <2>1, <2>2, <2>3, MoveStep, ZenonT(60) DEF ChildPoints, Gone
<1> QED
  BY <1>1, <1>2, <1>3, <1>4, ZenonT(60) DEF ProgramSetup

\* init() and the delivery of SIGTERM.
LEMMA InitLoopStep ==
  ASSUME TypeOK, TypeOK', SetupInv, OriginInv, Confined', InitLoop \/ DeliverTerm
  PROVE  OriginInv' /\ AbstractStep
<1> USE DEF callerVars, Step
<1> DEFINE Move(m) == m \in InitPoints /\ pc["child"] \in InitPoints /\ Keeps /\ UNCHANGED applied
                      /\ pc' = [pc EXCEPT !["child"] = m]
<1>0. ASSUME NEW m, Move(m) PROVE OriginInv' /\ AbstractStep
  <2>1. /\ m \in ChildPoints \ Gone /\ m \notin Early \cup {"userns", "std", "enter", "main"}
        /\ Alive("child") /\ pc["child"] # "main"
    BY <1>0 DEF ChildPoints, Gone, InitPoints, Early, Alive
  <2> QED
    BY <1>0, <2>1, PlainMove, ZenonT(60)
<1>1. CASE InitFreeRunState
  <2>1. Move("signal")
    BY <1>1 DEF InitFreeRunState, callerSide, Keeps, InitPoints
  <2> QED
    BY <1>0, <2>1, ZenonT(60)
<1>2. CASE InitInstallHandler \/ InitStore
  <2>1. Move("wait")
    BY <1>2 DEF InitInstallHandler, InitStore, Keeps, InitPoints
  <2> QED
    BY <1>0, <2>1, ZenonT(60)
<1>3. CASE InitExit
  BY <1>3, DieStep DEF InitExit, callerSide, Keeps, Alive, Gone, Procs
<1>4. CASE \E q \in {"prog", "desc"} : InitWait(q)
  <2>1. PICK q \in {"prog", "desc"} : InitWait(q)
    BY <1>4, ZenonT(60)
  <2>2. /\ pc["child"] = "wait" /\ pc[q] = "zombie" /\ Keeps /\ UNCHANGED applied
        /\ \A r \in Procs : pc'[r] = IF r = "child" THEN "store" ELSE IF r = q THEN "reaped" ELSE pc[r]
    BY <2>1, ZenonT(60) DEF InitWait, Reapable, TypeOK, Procs, Keeps
  <2>3. OriginInv' /\ LayersOf' = LayersOf
    BY <2>2 DEF OriginInv, LayersOf, ParentSetupDone, Keeps, Procs, Ended, Early
  <2>4. Alive("child") /\ Alive("child")'
    BY <2>2, ZenonT(60) DEF Procs, Alive, Gone
  <2>5. PhaseOf' = PhaseOf
    BY <2>2, <2>4, PhaseCases DEF PhaseFacts, Keeps, Procs
  <2> QED
    BY <2>2, <2>3, <2>5 DEF Keeps, AbstractStep, Lifecycle!vars
<1>5. CASE DeliverTerm
  <2>1. CASE ~handler /\ pc["child"] = "main" /\ cfg.catch
    BY <1>5, <2>1, QuietStep DEF DeliverTerm, procVars, Keeps
  <2>2. CASE ~(~handler /\ pc["child"] = "main" /\ cfg.catch)
    BY <1>5, <2>2, DieStep, ZenonT(60) DEF DeliverTerm, Procs, Keeps
  <2> QED
    BY <2>1, <2>2, ZenonT(60)
<1> QED
  BY <1>1, <1>2, <1>3, <1>4, <1>5 DEF InitLoop

\* A setup step that fails, and the program's own steps.
LEMMA ProgramStep ==
  ASSUME TypeOK, SetupInv, OriginInv, NEW p \in Procs, SetupFails(p) \/ Program(p)
  PROVE  OriginInv' /\ AbstractStep
<1> USE DEF callerSide, callerVars
<1>1. CASE SetupFails(p)
  <2>1. Alive(p)
    BY <1>1, ZenonT(60) DEF SetupFails, FailureStatus, On, Alive, Gone
  <2> QED
    BY <1>1, <2>1, DieStep, ZenonT(60) DEF SetupFails, Keeps
<1>2. CASE ProgramForks(p)
  <2>1. /\ p \in {"child", "prog"} /\ pc[p] = "main" /\ pc["desc"] = "none" /\ Keeps
        /\ \A r \in Procs : pc'[r] = IF r = "desc" THEN "main" ELSE pc[r]
        /\ \A r \in {"child", "prog"} : applied'[r] = applied[r]
    BY <1>2, ZenonT(60) DEF ProgramForks, TypeOK, Procs, Keeps
  <2>2. OriginInv' /\ LayersOf' = LayersOf
    BY <2>1, ZenonT(60) DEF OriginInv, LayersOf, ParentSetupDone, Keeps, Procs, Ended
  <2>3. Alive("child") /\ Alive("child")'
    BY <2>1, ZenonT(60) DEF Procs, Alive, Gone, SetupInv, ShapeInv, InitPoints
  <2>4. PhaseOf' = PhaseOf
    BY <2>1, <2>3, PhaseCases, ZenonT(60) DEF PhaseFacts, Keeps, Procs
  <2> QED
    BY <2>1, <2>2, <2>4, ZenonT(60) DEF Keeps, AbstractStep, Lifecycle!vars
<1>3. CASE ProgramEnds(p)
  BY <1>3, DieStep, ZenonT(60) DEF ProgramEnds, Alive, Gone, Keeps
<1> QED
  BY <1>1, <1>2, <1>3 DEF Program

\* Every step of minijail_run_internal(), of the child, of init, of the preloaded
\* library and of the program is a step in the life of a jail, or none.
LEMMA StepImplements ==
  ASSUME TypeOK, TypeOK', SetupInv, OriginInv, Confined', [Next]_vars
  PROVE  OriginInv' /\ AbstractStep
<1>1. CASE Run
  BY <1>1, RunStep
<1>2. CASE ParentSetup
  BY <1>2, ParentSetupStep
<1>3. CASE SendJail
  BY <1>3, SendJailStep
<1>4. CASE Call \/ WaitReturns \/ ForwardSignal \/ CallerCrash
  BY <1>4, CallStep
<1>5. CASE ChildSetup
  BY <1>5, ChildSetupStep
<1>6. CASE InitLoop \/ DeliverTerm
  BY <1>6, InitLoopStep
<1>7. CASE \E p \in {"child", "prog"} : ProgramSetup(p)
  BY <1>7, ProgramSetupStep
<1>8. CASE \E p \in Procs : SetupFails(p) \/ Program(p)
  BY <1>8, ProgramStep, ZenonT(60)
<1>9. CASE UNCHANGED vars
  BY <1>9, QuietStep DEF vars, callerVars, procVars, Keeps
<1> QED
  BY <1>1, <1>2, <1>3, <1>4, <1>5, <1>6, <1>7, <1>8, <1>9 DEF Next, Over

\* A run of minijail is a run of the abstract life of a jail: protections only
\* grow, the program's first instruction finds all of them unless its caller is
\* gone, and exactly one minijail_wait() or minijail_kill() gets its status.
THEOREM LifecycleTheorem == Spec => ImplementsLifecycle
<1>1. Init => Lifecycle!Init /\ OriginInv
  <2> SUFFICES ASSUME Init PROVE Lifecycle!Init /\ OriginInv
    BY ZenonT(60)
  <2>1. PhaseOf = "absent" /\ LayersOf \in SUBSET (Stages \cup {"parent"}) /\ reply = -1
    BY DEF Init, PhaseOf, LayersOf, Procs
  <2>2. OriginInv
    BY DEF Init, OriginInv, Procs
  <2> QED
    BY <2>1, <2>2 DEF Lifecycle!Init
<1>2. TypeOK /\ TypeOK' /\ SetupInv /\ OriginInv /\ Confined' /\ [Next]_vars =>
        OriginInv' /\ [Lifecycle!Next]_(Lifecycle!vars)
  BY StepImplements DEF AbstractStep
<1> QED
  BY <1>1, <1>2, TypeCorrect, SetupInvariant, ConfinedTheorem, PTL DEF Spec, ImplementsLifecycle, Lifecycle!Spec
=============================================================================

-------------------------- MODULE MCFilterCompilers --------------------------
(* The two compilers of seccomp policies, syscall_filter.c and                 *)
(* tools/compile_seccomp_policy.py: a behaviour is a run of one of them, while *)
(* the other one is not used.                                                  *)
EXTENDS MCSyscallFilter

CONSTANTS OffsetMax, DepthLimit, RecursionMax

VARIABLES job, step, files, statements, default, freq, output

Py == INSTANCE MCPolicyJobs

\* Constants of up to four tokens, and the longer ones.
PyTexts == {s \in Texts : Len(s) # 5}

P == INSTANCE PolicyCompiler WITH
       Jobs <- Py!MCJobs(PyTexts), Files <- Py!MCFiles, FreqFiles <- Py!MCFreqFiles, pc <- step, prog <- output

Unused ==
  /\ opts = <<>> /\ policy = <<>> /\ pc = "unused" /\ frames = <<>> /\ head = <<>>
  /\ arg_blocks = <<>> /\ labels = <<>> /\ seen = {} /\ prog = <<>>
PUnused ==
  /\ job = <<>> /\ step = "unused" /\ files = <<>> /\ statements = <<>> /\ default = <<>>
  /\ freq = <<>> /\ output = <<>>

PVars == <<job, step, files, statements, default, freq, output>>

\* Runs of the program in tools/.
PyInit == P!Init /\ Unused
PyNext ==
  \/ P!ParseFilterStatement /\ UNCHANGED vars
  \/ P!ParseIncludeStatement /\ UNCHANGED vars
  \/ P!ParseFrequencyStatement /\ UNCHANGED vars
  \/ P!ParseDefaultStatement /\ UNCHANGED vars
  \/ P!ParseDenylist /\ UNCHANGED vars
  \/ P!ParseMalformed /\ UNCHANGED vars
  \/ P!EndFile /\ UNCHANGED vars
  \/ P!CompileFile /\ UNCHANGED vars
  \/ P!Done /\ UNCHANGED vars
PySpec == PyInit /\ [][PyNext]_<<vars, PVars>>

\* Runs of compile_filter(), and of either compiler.
CNext ==
  \/ SkipLine /\ UNCHANGED PVars
  \/ BadLine /\ UNCHANGED PVars
  \/ UnreadableLine /\ UNCHANGED PVars
  \/ IncludeFile /\ UNCHANGED PVars
  \/ AllowRule /\ UNCHANGED PVars
  \/ FilterRule /\ UNCHANGED PVars
  \/ EndIncluded /\ UNCHANGED PVars
  \/ compile_filter /\ UNCHANGED PVars
  \/ pc # "unused" /\ Done /\ UNCHANGED PVars

CompilersInit == (Init /\ PUnused) \/ PyInit
CompilersNext == CNext \/ PyNext
CompilersSpec == CompilersInit /\ [][CompilersNext]_<<vars, PVars>>

\* A policy that one of the compilers turned into a filter decides every system
\* call as the policy does: for syscall_filter.c the first rule for the call, for
\* compile_seccomp_policy.py the first of its filters that matches, unless the
\* call is allowed in the end.  The reference follows the compiler where its help says
\* more: --use-ret-log does not "Change all seccomp failures" (line 92), but kill, return
\* and the default only, and --default-action (line 79) has no effect on the calls that a
\* denylist does not name.
EachFilterDecides == FilterDecides /\ P!FilterDecides

\* The kernel takes every filter that one of the compilers returned, except for
\* arguments that no system call has and, from compile_seccomp_policy.py, length.
KernelAcceptsEach == KernelAccepts /\ P!KernelAccepts

\* Each compiler refuses a policy exactly when a statement of it, or of a file it
\* includes, is flawed, or a limit of the compiler is exceeded.  By the comments of the C
\* code three verdicts would be others: parse_constant() refuses ~~x and takes x| for x
\* (util.c:284), and a last line that ends in a backslash is dropped (util.c:625).
EachCompilesUnlessFlawed == CompiledUnlessFlawed /\ P!CompiledUnlessFlawed

\* What compile_seccomp_policy.py writes evaluates the filters of a call
\* "sequentially. The last filter is always an unconditional action." (parser.py).
FiltersInOrder == P!FiltersInOrder
=============================================================================

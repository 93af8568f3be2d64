---------------------------- MODULE PolicyCompiler ----------------------------
(* tools/compile_seccomp_policy.py, the second compiler of seccomp policies:    *)
(* parser.py collects the filters of each system call from a policy and the     *)
(* files it includes, compiler.py makes a decision graph of the call numbers,   *)
(* linear or a search tree, and bpf.py lays the graph out from its end.         *)
(* Blocks of instructions are objects: one that is used twice is laid out once. *)
EXTENDS PolicyText, TLC

CONSTANTS
  Jobs,          \* command lines: options and what is in the policy file
  Files,         \* the files that @include names, sequences of statements
  FreqFiles,     \* the frequency files by name: sequences of counts
  OffsetMax,     \* the largest offset of a conditional jump: 255
  DepthLimit,    \* include_depth_limit: 10
  RecursionMax   \* open files at which Python's recursion limit is met

VARIABLES
  job,         \* the command line
  pc,          \* "parsing", "parsed", "ok" or "refused"
  files,       \* _parser_states: open policy files, unread lines, @denylist seen
  statements,  \* the parsed filter statements
  default,     \* _default_action
  freq,        \* _frequency_mapping
  prog         \* the compiled filter

vars == <<job, pc, files, statements, default, freq, prog>>

-----------------------------------------------------------------------------
(* parser.py: filters.                                                         *)

Object(id, verdict) == [t |-> "block", obj |-> id, code |-> Ret(verdict)]

\* kill_action, as main() chooses it; EPERM is 1.
RetLog == job.use_ret_log \/ job.env_ret_log
KillVerdict ==
  IF RetLog THEN Verdict("LOG") ELSE IF job.denylist THEN Errno(1)
  ELSE IF job.kill_process THEN Verdict("KILL_PROCESS") ELSE Verdict("KILL")
Kill == Object(<<0, 0>>, KillVerdict)

Word2Verdict ==
  [w \in {"allow", "implied", "kill-process", "kill-thread", "trap", "trace", "log", "user-notify"} |->
     Verdict(CASE w \in {"allow", "implied"} -> "ALLOW" [] w = "kill-process" -> "KILL_PROCESS"
               [] w = "kill-thread" -> "KILL" [] w = "trap" -> "TRAP" [] w = "trace" -> "TRACE"
               [] w = "log" -> "LOG" [] w = "user-notify" -> "USER_NOTIF")]

\* parse_action(), under given flags and with a given meaning of "kill".  The
\* action of an expression without one is implied and is not parsed.
ParseAction(a, id, denylist, ret_log, kill) ==
  LET constant == ParseSingleConstant(a.token, job.bits) IN
  IF denylist /\ a.word \notin {"return", "implied"} THEN Error
  ELSE IF a.word \in DOMAIN Word2Verdict THEN Parsed(Object(id, Word2Verdict[a.word]))
  ELSE IF a.word = "kill" THEN Parsed(kill)
  ELSE IF a.word = "number" /\ constant.ok /\ constant.v = 1 THEN Parsed(Object(id, Verdict("ALLOW")))
  ELSE IF a.word = "return" /\ ret_log THEN Parsed(Object(id, Verdict("LOG")))
  ELSE IF a.word = "return" /\ constant.ok THEN Parsed(Object(id, Errno(constant.v)))
  ELSE Error

\* _parse_default_action(): no permissive action.
ParseDefaultAction(a) ==
  IF a.word \in {"kill-process", "kill-thread", "trap", "user-notify"}
    THEN Parsed(Object(<<0, 3>>, Word2Verdict[a.word]))
  ELSE IF a.word = "kill" THEN Parsed(Kill)
  ELSE Error

Operators == {"==", "!=", "<", "<=", ">", ">=", "&", "in"}

\* MAX_SYSCALL_ARGUMENTS: one more than the kernel has.
ParseAtom(atom) ==
  LET value == ParseValue(atom.text, 0, job.bits) IN
  IF atom.op \in Operators /\ value.ok /\ value.rest = <<>> /\ atom.arg \in 1 .. MaxArgs + 1
    THEN Parsed([arg |-> atom.arg, op |-> atom.op, v |-> value.v]) ELSE Error

\* A filter has an expression in disjunctive normal form, or none: <<>>.
ParseFilter(f, id) ==
  LET action == ParseAction(f.action, id, job.denylist, RetLog, Kill)
      clauses == [i \in DOMAIN f.expr |-> [k \in DOMAIN f.expr[i] |-> ParseAtom(f.expr[i][k])]]
  IN IF action.ok /\ \A i \in DOMAIN clauses : \A k \in DOMAIN clauses[i] : clauses[i][k].ok
     THEN Parsed([expr |-> [i \in DOMAIN clauses |-> [k \in DOMAIN clauses[i] |-> clauses[i][k].v]],
                  action |-> action.v])
     ELSE Error

\* _parse_syscall_descriptor(): a name for other architectures need not exist.
Known(calls) == calls.arch = "other" \/ calls.known
Numbers(calls) == IF calls.arch = "other" THEN <<>> ELSE calls.nrs
AllNumbers(s) == FlattenSeq([i \in DOMAIN s.calls |-> Numbers(s.calls[i])])

-----------------------------------------------------------------------------
(* parser.py: files.  One action per statement of the file read last.          *)

\* --default-action: parsed by itself, where "kill" is to kill the process.
Override == ParseAction(job.default_action, <<0, 2>>, FALSE, FALSE, Object(<<0, 2>>, Verdict("KILL_PROCESS")))

\* main() and PolicyParser().
Init ==
  /\ job \in Jobs
  /\ pc = IF job.default_action = NoAction \/ Override.ok THEN "parsing" ELSE "refused"
  /\ files = <<[lines |-> job.policy, header |-> FALSE]>>
  /\ statements = <<>>
  /\ default = IF job.denylist THEN Object(<<0, 1>>, Verdict("ALLOW")) ELSE Kill
  /\ freq = <<>>
  /\ prog = <<>>

Top == Last(files)
Line == Head(Top.lines)
Consumed == [files EXCEPT ![Len(files)].lines = Tail(@)]
Reads(kind) == pc = "parsing" /\ Top.lines # <<>> /\ Line.kind = kind

\* An exception ends the program before it has written anything.
Refuse == pc' = "refused" /\ UNCHANGED <<job, files, statements, default, freq, prog>>

\* A statement for other architectures only is dropped, whatever follows it.
AddStatement(nrs, filters) ==
  IF \/ \E i \in DOMAIN Line.calls : ~Known(Line.calls[i])
     \/ \E i \in DOMAIN filters : ~filters[i].ok
     \/ nrs # <<>> /\ Line.extra
  THEN Refuse
  ELSE /\ files' = Consumed
       /\ statements' = IF nrs = <<>> THEN statements
                        ELSE Append(statements, [nrs |-> nrs, filters |-> [i \in DOMAIN filters |-> filters[i].v]])
       /\ UNCHANGED <<job, pc, default, freq, prog>>

ParseFilterStatement ==
  /\ Reads("filter")
  /\ AddStatement(AllNumbers(Line),
                  [i \in DOMAIN Line.filters |-> ParseFilter(Line.filters[i], <<Len(statements) + 1, i>>)])

\* The limit counts one file more than there are.  --include-depth-limit gives it
\* as a text, which no length is equal to.
ParseIncludeStatement ==
  /\ Reads("include")
  /\ IF \/ ~job.depth_option /\ Len(files) + 1 = DepthLimit
        \/ Len(files) = RecursionMax
        \/ Line.file \notin DOMAIN Files
     THEN Refuse
     ELSE /\ files' = Append(Consumed, [lines |-> Files[Line.file], header |-> FALSE])
          /\ UNCHANGED <<job, pc, statements, default, freq, prog>>

BadCount(line) == line.bad \/ ~Known(line.calls) \/ line.n < 0

\* f with n more for the system call nr.
Count(f, nr, n) == (nr :> (IF nr \in DOMAIN f THEN f[nr] ELSE 0) + n) @@ f
AddFrequencies(lines) ==
  FoldLeft(LAMBDA f, line : FoldLeft(LAMBDA g, nr : Count(g, nr, line.n), f, Numbers(line.calls)), freq, lines)

ParseFrequencyStatement ==
  /\ Reads("frequency")
  /\ IF Line.file \notin DOMAIN FreqFiles \/ \E c \in ToSet(FreqFiles[Line.file]) : BadCount(c) THEN Refuse
     ELSE /\ files' = Consumed
          /\ freq' = AddFrequencies(FreqFiles[Line.file])
          /\ UNCHANGED <<job, pc, statements, default, prog>>

ParseDefaultStatement ==
  /\ Reads("default")
  /\ IF ~ParseDefaultAction(Line.action).ok THEN Refuse
     ELSE /\ files' = Consumed
          /\ default' = ParseDefaultAction(Line.action).v
          /\ UNCHANGED <<job, pc, statements, freq, prog>>

ParseDenylist ==
  /\ Reads("denylist")
  /\ IF ~job.denylist THEN Refuse
     ELSE /\ files' = [Consumed EXCEPT ![Len(files)].header = TRUE]
          /\ UNCHANGED <<job, pc, statements, default, freq, prog>>

ParseMalformed == Reads("malformed") /\ Refuse

EndFile ==
  /\ pc = "parsing"
  /\ Top.lines = <<>>
  /\ IF job.denylist /\ ~Top.header THEN Refuse
     ELSE /\ files' = Front(files)
          /\ pc' = IF Len(files) = 1 THEN "parsed" ELSE pc
          /\ UNCHANGED <<job, statements, default, freq, prog>>

-----------------------------------------------------------------------------
(* parse_file(): the filters of each call, ended by an unconditional action.   *)

DefaultObject == IF job.default_action = NoAction THEN default ELSE Override.v

CallNumbers == UNION {ToSet(statements[i].nrs) : i \in DOMAIN statements}
FiltersOf(nr) ==
  FlattenSeq([i \in DOMAIN statements |->
                FlattenSeq([k \in DOMAIN statements[i].nrs |->
                              IF statements[i].nrs[k] = nr THEN statements[i].filters ELSE <<>>])])

\* The position of the first unconditional action.
Unconditional(filters) == SelectInSeq(filters, LAMBDA f : f.expr = <<>>)
AppliedTwice(nr) == Unconditional(FiltersOf(nr)) \notin {0, Len(FiltersOf(nr))}
WithDefault(filters) ==
  IF Unconditional(filters) = 0 THEN Append(filters, [expr |-> <<>>, action |-> DefaultObject]) ELSE filters

-----------------------------------------------------------------------------
(* bpf.py: tests, on a loaded word or on the number that is in the accumulator *)
(* already, with the blocks they lead to; and the layout of blocks.            *)

Test(load, op, k, jt, jf) == [t |-> "test", load |-> load, op |-> op, k |-> k, jt |-> jt, jf |-> jf]
SyscallEntry(op, nr, jt, jf) == Test(<<>>, op, nr, jt, jf)

\* LoweringVisitor.visitAtom(): tests of one word each.
Lowered(arg, op, v, jt, jf) ==
  LET lo == Test(Stmt("LD lo", arg), op, Lo(v), jt, jf)
      high(code, yes, no) == Test(Stmt("LD hi", arg), code, Hi(v), yes, no)
  IN IF job.bits = 32 \/ (op = "JSET" /\ Hi(v) = 0) THEN lo
     ELSE IF op = "JEQ" THEN high("JEQ", lo, jf)
     ELSE IF op = "JSET" THEN high("JSET", jt, lo)
     ELSE high("JGT", jt, IF Hi(v) = 0 THEN lo ELSE high("JEQ", lo, jf))

\* Atom(): the four jumps of BPF, with the branches exchanged for the others.
Atom(atom, jt, jf) ==
  CASE atom.op = "==" -> Lowered(atom.arg, "JEQ", atom.v, jt, jf)
    [] atom.op = "!=" -> Lowered(atom.arg, "JEQ", atom.v, jf, jt)
    [] atom.op = ">" -> Lowered(atom.arg, "JGT", atom.v, jt, jf)
    [] atom.op = "<=" -> Lowered(atom.arg, "JGT", atom.v, jf, jt)
    [] atom.op = ">=" -> Lowered(atom.arg, "JGE", atom.v, jt, jf)
    [] atom.op = "<" -> Lowered(atom.arg, "JGE", atom.v, jf, jt)
    [] atom.op = "&" -> Lowered(atom.arg, "JSET", atom.v, jt, jf)
    [] atom.op = "in" -> Lowered(atom.arg, "JSET", Word * Word - 1 - atom.v, jf, jt)

\* A detour whose jump past it is one too long for a byte.
OffsetTooLarge(op, k, jt, jf) ==
  IF jt <= OffsetMax /\ jf <= OffsetMax THEN Jump(op, k, jt, jf)
  ELSE IF jt <= OffsetMax THEN Jump(op, k, jt + 1, 0) \o Stmt("JA", jf)
  ELSE IF jf <= OffsetMax THEN Jump(op, k, 0, jf + 1) \o Stmt("JA", jt)
  ELSE Jump(op, k, 0, 1) \o Stmt("JA", jt + 1) \o Stmt("JA", jf)

\* _emit_jmp(): what is too far for a conditional jump is reached by one more.
EmitJmp(op, k, jt, jf) ==
  IF jt <= OffsetMax /\ jf <= OffsetMax THEN Jump(op, k, jt, jf)
  ELSE IF jt < OffsetMax THEN Jump(op, k, jt + 1, 0) \o Stmt("JA", jf)
  ELSE IF jf < OffsetMax THEN Jump(op, k, 0, jf + 1) \o Stmt("JA", jt)
  ELSE Jump(op, k, 0, 1) \o Stmt("JA", jt + 1) \o Stmt("JA", jf)

\* FlatteningVisitor: the instructions so far, and how many there were when each
\* block had been put before them.
Nothing == [code |-> <<>>, at |-> <<>>]
Distance(out, block) == Len(out.code) - out.at[block]
Emit(out, block, code) ==
  [code |-> code \o out.code, at |-> (block :> Len(code) + Len(out.code)) @@ out.at]
EmitTest(out, b) == Emit(out, b, b.load \o EmitJmp(b.op, b.k, Distance(out, b.jt), Distance(out, b.jf)))

RECURSIVE Flatten(_, _), ForwardFilters(_, _)
Flatten(out, block) ==
  IF block \in DOMAIN out.at THEN out
  ELSE IF block.t = "block" THEN Emit(out, block, block.code)
  ELSE EmitTest(Flatten(Flatten(out, block.jt), block.jf), block)

\* A call's filter, as a block of the program; ArgFilterForwardingVisitor tells
\* it from an action.
FilterBlock(nr, code) == [t |-> "block", obj |-> <<-1, nr>>, code |-> code]
ForwardFilters(out, block) ==
  IF block.t = "test" THEN ForwardFilters(ForwardFilters(out, block.jt), block.jf)
  ELSE IF block.obj[1] = -1 THEN Flatten(out, block) ELSE out

-----------------------------------------------------------------------------
(* compiler.py.                                                                *)

\* The root of the tests of a list of filters, built from its end.
FilterGraph(filters) ==
  FoldLeft(LAMBDA no, f :
             FoldLeft(LAMBDA below, clause :
                        FoldLeft(LAMBDA yes, atom : Atom(atom, yes, below), f.action, clause),
                      no, f.expr),
           Last(filters).action, Reverse(Front(filters)))

\* compile_filter_statement(): no code when the call is allowed in the end.
FilterCode(filters) ==
  IF ~job.denylist /\ Last(filters).action.code = Ret(Verdict("ALLOW")) THEN <<>>
  ELSE Flatten(Nothing, FilterGraph(filters)).code

Entry(nr) == [lo |-> nr, hi |-> nr + 1, code |-> FilterCode(WithDefault(FiltersOf(nr))),
              freq |-> IF nr \in DOMAIN freq THEN freq[nr] ELSE 1]
Entries == LET nrs == SetToSortSeq(CallNumbers, <) IN [i \in DOMAIN nrs |-> Entry(nrs[i])]

\* _convert_to_ranges(): consecutive calls with the same code.
ConvertToRanges(entries) ==
  FoldLeft(LAMBDA ranges, e :
             IF ranges # <<>> /\ Last(ranges).hi = e.lo /\ Last(ranges).code = e.code
             THEN Append(Front(ranges), [Last(ranges) EXCEPT !.hi = e.hi, !.freq = @ + e.freq])
             ELSE Append(ranges, e),
           <<>>, entries)

AcceptAction == IF job.denylist THEN Kill ELSE Object(<<0, 4>>, Verdict("ALLOW"))
RejectAction == IF job.denylist THEN Object(<<0, 5>>, Verdict("ALLOW")) ELSE DefaultObject

Target(range) == IF range.code = <<>> THEN AcceptAction ELSE FilterBlock(range.lo, range.code)

\* What a decision costs, and its first test.
Choice(cost, block) == [cost |-> cost, block |-> block]

CompileSingleRange(r, reject) ==
  IF r.hi - r.lo = 1 THEN Choice(1, SyscallEntry("JEQ", r.lo, Target(r), reject))
  ELSE IF r.lo = 0 THEN Choice(1, SyscallEntry("JGE", r.hi, reject, Target(r)))
  ELSE Choice(2, SyscallEntry("JGE", r.lo, SyscallEntry("JGE", r.hi, reject, Target(r)), reject))

\* _compile_ranges_linear(): the least frequent ranges are tested last.
CompileRangesLinear(ranges) ==
  LET order == SetToSortSeq(DOMAIN ranges, LAMBDA a, b : ranges[a].freq < ranges[b].freq
                                                       \/ (ranges[a].freq = ranges[b].freq /\ a < b))
      step(acc, i, single) == [sum |-> acc.sum + ranges[i].freq, block |-> single.block,
                               cost |-> acc.cost + (acc.sum + ranges[i].freq) * single.cost]
      chain == FoldLeft(LAMBDA acc, i : step(acc, i, CompileSingleRange(ranges[i], acc.block)),
                        [sum |-> 0, cost |-> 0, block |-> RejectAction], order)
  IN Choice(chain.cost, chain.block)

Cheaper(best, c) == IF c.cost < best.cost THEN c ELSE best
SplitAt(cut, cost, left, right) ==
  Choice(cost + left.cost + right.cost, SyscallEntry("JGE", cut, right.block, left.block))

RECURSIVE GenerateSyscallBst(_, _, _)
\* _generate_syscall_bst(), for ranges between two numbers, which determine them
\* and under which the code remembers its results: the chain, or the cheapest
\* cut at the start of a range or at the end of the one before.
GenerateSyscallBst(ranges, from, to) ==
  LET cuts == FlattenSeq([n \in 1 .. Len(ranges) - 1 |->
                           <<[left |-> n, at |-> ranges[n + 1].lo], [left |-> n, at |-> ranges[n].hi]>>])
      split(c) == SplitAt(c.at, FoldLeft(LAMBDA n, r : n + r.freq, 0, ranges),
                          GenerateSyscallBst(SubSeq(ranges, 1, c.left), from, c.at),
                          GenerateSyscallBst(SubSeq(ranges, c.left + 1, Len(ranges)), c.at, to))
      single == CompileSingleRange(ranges[1], RejectAction)
  IN IF Len(ranges) = 1
     THEN IF <<from, to>> = <<ranges[1].lo, ranges[1].hi>> THEN Choice(0, Target(ranges[1]))
          ELSE Choice(single.cost * ranges[1].freq, single.block)
     ELSE FoldLeft(LAMBDA best, c : IF from < c.at /\ c.at < to THEN Cheaper(best, split(c)) ELSE best,
                   CompileRangesLinear(ranges), cuts)

\* 2^64 - 1, the end of the numbers: above them all.
NumberMax == 2 ^ 20

Decide(ranges) ==
  IF ranges = <<>> THEN RejectAction
  ELSE IF job.strategy = "bst" THEN GenerateSyscallBst(ranges, 0, NumberMax).block
  ELSE CompileRangesLinear(ranges).block

ValidateArch(out, block) ==
  Stmt("LD arch", 0) \o Jump("JEQ", 1, Distance(out, block) + 1, 0) \o Kill.code \o Stmt("LD nr", 0) \o out.code

\* The filters first, then the actions, then the tests of the number.
Program(root) ==
  LET actions == Flatten(ForwardFilters(Nothing, root), RejectAction)
  IN ValidateArch(Flatten(IF statements = <<>> THEN actions ELSE Flatten(actions, AcceptAction), root), root)

CompileFile ==
  /\ pc = "parsed"
  /\ IF \E nr \in CallNumbers : AppliedTwice(nr) THEN Refuse
     ELSE /\ prog' = Program(Decide(ConvertToRanges(Entries)))
          /\ pc' = "ok"
          /\ UNCHANGED <<job, files, statements, default, freq>>

Done == pc \in {"ok", "refused"} /\ UNCHANGED vars

Next ==
  \/ ParseFilterStatement
  \/ ParseIncludeStatement
  \/ ParseFrequencyStatement
  \/ ParseDefaultStatement
  \/ ParseDenylist
  \/ ParseMalformed
  \/ EndFile
  \/ CompileFile
  \/ Done

Spec == Init /\ [][Next]_vars

-----------------------------------------------------------------------------
(* What a policy says, without the compiler.                                   *)

\* The value of a constant.  Unlike in util.c, "invalid double complement" is part of the
\* grammar, and no | is left over.
ValuesOf(text) == IF ComplementedTwice(text) THEN {} ELSE Values(text, job.bits)
Holds(atom, args) ==
  LET v == args[atom.arg]
      c == CHOOSE x \in ValuesOf(atom.text) : TRUE
  IN CASE atom.op = "==" -> v = c
       [] atom.op = "!=" -> v # c
       [] atom.op = "<" -> v < c
       [] atom.op = "<=" -> v <= c
       [] atom.op = ">" -> v > c
       [] atom.op = ">=" -> v >= c
       [] atom.op = "&" -> v & c # 0
       [] atom.op = "in" -> v & c = v

\* How many files may be open, one including the next.
Nesting == IF job.depth_option THEN RecursionMax ELSE Min({DepthLimit - 1, RecursionMax})

RECURSIVE TextFrom(_, _), FilesFrom(_, _)
\* The statements of a file that is the n-th open one, included ones in place of
\* the include, unless there is no such file or it is one too many.
Opens(s, n) == s.kind = "include" /\ s.file \in DOMAIN Files /\ n < Nesting
TextFrom(lines, n) ==
  FlattenSeq([i \in DOMAIN lines |-> IF Opens(lines[i], n) THEN TextFrom(Files[lines[i].file], n + 1) ELSE <<lines[i]>>])
Text == TextFrom(job.policy, 1)

\* The files it consists of.
FilesFrom(lines, n) == {lines} \cup UNION {FilesFrom(Files[s.file], n + 1) : s \in {x \in ToSet(lines) : Opens(x, n)}}

Named == UNION {ToSet(AllNumbers(s)) : s \in {x \in ToSet(Text) : x.kind = "filter"}}
RulesFor(nr) ==
  FlattenSeq([i \in DOMAIN Text |->
                LET named == SelectSeq(AllNumbers(Text[i]), LAMBDA n : n = nr)
                IN FlattenSeq([k \in DOMAIN named |-> Text[i].filters])])

Outcome(a, kill) ==
  CASE a.word \in DOMAIN Word2Verdict -> Word2Verdict[a.word]
    [] a.word = "number" -> Verdict("ALLOW")
    [] a.word = "kill" -> kill
    [] a.word = "return" -> Errno(CHOOSE x \in ValuesOf(<<a.token>>) : TRUE)

\* --use-ret-log is to "Change all seccomp failures to return SECCOMP_RET_LOG instead of
\* killing" (compile_seccomp_policy.py:92).  It does for two words and for the default of
\* an allowlist; trap, kill-process and kill-thread stay as they are, and so does what
\* --default-action says.
Meaning(a) == IF RetLog /\ a.word \in {"kill", "return"} THEN Verdict("LOG") ELSE Outcome(a, KillVerdict)

LastResort ==
  LET defaults == SelectSeq(Text, LAMBDA s : s.kind = "default") IN
  IF job.default_action # NoAction THEN Outcome(job.default_action, Verdict("KILL_PROCESS"))
  ELSE IF defaults # <<>> THEN Meaning(Last(defaults).action)
  ELSE IF job.denylist THEN Verdict("ALLOW") ELSE KillVerdict

Matches(f, args) == f.expr = <<>> \/ \E i \in DOMAIN f.expr : \A k \in DOMAIN f.expr[i] : Holds(f.expr[i][k], args)

\* What a call with these arguments meets if its number has these filters: the
\* first that matches decides.
Decision(args, rules, last) ==
  LET n == SelectInSeq(rules, LAMBDA f : Matches(f, args))
  IN IF n = 0 THEN last ELSE Meaning(rules[n].action)

\* The filters of a call are dropped when the last of them allows it.
Dropped(rules, last) ==
  /\ ~job.denylist
  /\ IF Last(rules).expr # <<>> THEN last = Verdict("ALLOW") ELSE Last(rules).action.word \in {"allow", "number"}

NamesNoArgument ==
  \E s \in ToSet(Text) : \E f \in ToSet(s.filters) : \E c \in ToSet(f.expr) : \E a \in ToSet(c) : a.arg \notin 1 .. MaxArgs

\* Arguments to try a filter on, as for the other compiler.
TestArgs == {<<v, w>> : v \in 0 .. (ULong(job.bits) - 1), w \in {0, ULong(job.bits) - 1}}
Runs(arch, nr, args) == Execute(prog, [arch |-> arch, nr |-> nr, args |-> args], 1, 0, <<>>)

\* A denylist allows what it does not name, whatever --default-action, "overriding any
\* @default action" (compile_seccomp_policy.py:79), or @default says.
Unnamed == IF job.denylist THEN Verdict("ALLOW") ELSE LastResort

DecidesOthers(tried) ==
  /\ Runs(0, 0, <<0, 0>>) = KillVerdict
  /\ \A nr \in tried : Runs(1, nr, <<0, 0>>) = Unnamed
DecidesNamed(nr, rules, last) == \A args \in TestArgs : Runs(1, nr, args) = Decision(args, rules, last)
AllowsNamed(nr) == \A args \in TestArgs : Runs(1, nr, args) = Verdict("ALLOW")
DecidesOrAllows(nr, rules, last) == IF Dropped(rules, last) THEN AllowsNamed(nr) ELSE DecidesNamed(nr, rules, last)

\* A policy that compile_seccomp_policy.py compiled decides every system call by
\* the first filter that matches it, whatever the shape of the search tree, the
\* order of the chain and the detours of long jumps.  The exception is a call
\* that is allowed in the end, whose other filters compile_filter_statement() drops.
\* Two options do less than their help says: --use-ret-log leaves actions that are
\* written out as trap, kill-process or kill-thread, and those of --default-action, as
\* they are; and --default-action does not reach the calls a denylist does not name.
FilterDecides ==
  pc = "ok" /\ ~NamesNoArgument =>
    /\ DecidesOthers((0 .. 6) \ Named)
    /\ \A nr \in Named : DecidesOrAllows(nr, RulesFor(nr), LastResort)

\* The filters of a system call "are evaluated sequentially. The last filter is
\* always an unconditional action." (parser.py, FilterStatement): the first that
\* matches decides, also before a last one that allows.  (Without --default-action.)
FiltersInOrder ==
  pc = "ok" /\ ~NamesNoArgument /\ job.default_action = NoAction =>
    \A nr \in Named : DecidesNamed(nr, RulesFor(nr), LastResort)

\* The kernel takes what the compiler writes: jumps stay within the program and
\* their offsets within a byte.  It is left to the kernel to refuse a filter on a
\* seventh argument, which MAX_SYSCALL_ARGUMENTS lets pass, and too long a program.
KernelAccepts ==
  pc = "ok" =>
    /\ Len(prog) <= MaxInsns => (Acceptable(prog) <=> \A x \in ToSet(prog) : x.code \in {"LD lo", "LD hi"} => x.k <= MaxArgs)
    /\ \A x \in ToSet(prog) : x.jt <= OffsetMax /\ x.jf <= OffsetMax

BadAction(a) ==
  \/ a.word = "bad"
  \/ a.word = "number" /\ ValuesOf(<<a.token>>) # {1}
  \/ a.word = "return" /\ ValuesOf(<<a.token>>) = {}
BadFilter(f) ==
  \/ BadAction(f.action) /\ ~(f.action.word = "return" /\ RetLog)
  \/ job.denylist /\ f.action.word \notin {"return", "implied"}
  \/ \E c \in ToSet(f.expr) : \E a \in ToSet(c) :
       a.op \notin Operators \/ a.arg \notin 1 .. MaxArgs + 1 \/ ValuesOf(a.text) = {}
Nonexistent(calls) == calls.arch # "other" /\ ~calls.known
BadStatement(s) ==
  \/ s.kind \in {"malformed", "include"}
  \/ s.kind = "denylist" /\ ~job.denylist
  \/ s.kind = "default" /\ s.action.word \notin {"kill-process", "kill-thread", "kill", "trap", "user-notify"}
  \/ s.kind = "frequency" /\ (s.file \notin DOMAIN FreqFiles \/ \E c \in ToSet(FreqFiles[s.file]) : c.bad \/ c.n < 0 \/ Nonexistent(c.calls))
  \/ s.kind = "filter" /\ (\/ \E c \in ToSet(s.calls) : Nonexistent(c)
                           \/ \E f \in ToSet(s.filters) : BadFilter(f)
                           \/ s.extra /\ AllNumbers(s) # <<>>)

\* A filter follows an unconditional one.
Unreached(rules) == \E i \in 1 .. Len(rules) - 1 : rules[i].expr = <<>>

Flawed ==
  \/ BadAction(job.default_action)
  \/ \E s \in ToSet(Text) : BadStatement(s)
  \/ job.denylist /\ \E lines \in FilesFrom(job.policy, 1) : ~\E s \in ToSet(lines) : s.kind = "denylist"
  \/ \E nr \in Named : Unreached(RulesFor(nr))

\* A policy is compiled exactly when all of its statements and of the files it
\* includes are sound, none is nested too deep, each file of a denylist says that
\* it is one, and no filter of a call comes after an unconditional one.
CompiledUnlessFlawed == /\ pc = "ok" => ~Flawed
                        /\ pc = "refused" => Flawed
=============================================================================

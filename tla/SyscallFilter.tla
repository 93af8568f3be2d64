---------------------------- MODULE SyscallFilter ----------------------------
(* The compiler of seccomp policies (syscall_filter.c and bpf.c): it reads a   *)
(* policy line by line, puts a jump table on system call numbers into `head'   *)
(* and a block of comparisons per filtered call into `arg_blocks', and joins   *)
(* the two into one BPF program whose symbolic jumps it resolves last.         *)
(* A policy line is what the tokens of its text say; a word of BPF has         *)
(* WordBits bits (32 in the code) and an unsigned long has one or two words.   *)
EXTENDS ConstantText, SequencesExt, FiniteSets

CONSTANTS
  Inputs,          \* policy files that may be compiled, as sequences of lines,
                   \* with what parse_seccomp_filters() finds
  Included,        \* what the files that @include statements name contain
  LogSyscalls      \* log_syscalls of the architecture

\* How a line ends: without a "return", with the bare word or with an errno.
NoReturn == [word |-> FALSE, errno |-> <<>>]
BareReturn == [word |-> TRUE, errno |-> <<>>]
ReturnErrno(text) == [word |-> TRUE, errno |-> text]

LineKinds == {"blank", "unfinished", "unreadable", "malformed", "include", "allow", "return", "filter"}

Line(kind, nr, groups, ret) == [kind |-> kind, nr |-> nr, groups |-> groups, ret |-> ret, file |-> ""]
Allow(nr) == Line("allow", nr, <<>>, NoReturn)
Return(nr, ret) == Line("return", nr, <<>>, ret)
Filter(nr, groups, ret) == Line("filter", nr, groups, ret)
Include(file) == [Line("include", -1, <<>>, NoReturn) EXCEPT !.file = file]
Other(kind) == Line(kind, -1, <<>>, NoReturn)

\* Only the last line of a file can want another one.
IsFile(lines) ==
  \A i \in DOMAIN lines : lines[i].kind \in LineKinds /\ (lines[i].kind = "unfinished" => i = Len(lines))

ASSUME FilterAssumption ==
  /\ \A f \in DOMAIN Included : IsFile(Included[f])
  /\ \A x \in Inputs : /\ IsFile(x.policy)
                       /\ x.env \in [bits : {32, 64}, logging : BOOLEAN, ret_log : BOOLEAN, tsync : BOOLEAN,
                                     kill_process : BOOLEAN, duplicates : BOOLEAN]

VARIABLES
  opts,        \* struct filter_options, and the word size of the build
  policy,      \* the file that is compiled
  pc,          \* "reading", "ok", "refused" (-1 is returned) or "died"
  frames,      \* active calls of compile_file(): unread lines and `ret'
  head,        \* instructions of the jump table
  arg_blocks,  \* instructions of the blocks it jumps to
  labels,      \* struct bpf_labels: the labels by id
  seen,        \* previous_syscalls
  prog         \* the compiled filter

vars == <<opts, policy, pc, frames, head, arg_blocks, labels, seen, prog>>

parse_seccomp_filters(e) ==
  [bits |-> e.bits,
   allow_logging |-> e.logging,
   action |-> IF e.logging THEN IF e.ret_log THEN "LOG" ELSE "TRAP"
              ELSE IF ~e.tsync THEN "KILL"
              ELSE IF e.kill_process THEN "KILL_PROCESS" ELSE "TRAP",
   allow_syscalls_for_logging |-> e.logging /\ ~e.ret_log,
   allow_duplicate_syscalls |-> e.duplicates]

\* The options of the program that checks a policy, parse_seccomp_policy.
CheckerOptions(e) ==
  [bits |-> e.bits, allow_logging |-> FALSE, action |-> "KILL", allow_syscalls_for_logging |-> FALSE,
   allow_duplicate_syscalls |-> e.duplicates]

allow_logging_syscalls == FlattenSeq([i \in DOMAIN LogSyscalls |-> bpf_allow_syscall(LogSyscalls[i])])

Init ==
  /\ \E x \in Inputs :
       /\ opts \in {parse_seccomp_filters(x.env), CheckerOptions(x.env)}
       /\ policy = x.policy
  /\ pc = "reading"
  /\ frames = <<[lines |-> policy, failed |-> FALSE]>>
  /\ head = bpf_validate_arch \o Stmt("LD nr", 0)
            \o IF opts.allow_syscalls_for_logging THEN allow_logging_syscalls ELSE <<>>
  /\ arg_blocks = <<>> /\ labels = <<>> /\ seen = {} /\ prog = <<>>

-----------------------------------------------------------------------------
(* Compiling the rule of one system call: c is the instructions and labels so  *)
(* far, and whether compilation goes on.                                       *)

EntryLabel(nr) == [kind |-> "entry", nr |-> nr, group |-> 0]
EndLabel(nr, g) == [kind |-> "end", nr |-> nr, group |-> g]
SuccessLabel(nr) == [kind |-> "success", nr |-> nr, group |-> 0]

Goes(c) == c.end = "no"
Emit(c, instrs) == [c EXCEPT !.code = @ \o instrs]
Refuse(c) == [c EXCEPT !.end = "refused"]
Id(c, label) == bpf_label_id(c.labels, label)

\* get_label_id(), group_end_lbl(), success_lbl(): death when the table is full.
get_label_id(c, label) ==
  IF ~Goes(c) THEN c
  ELSE IF Id(c, label) = NoLabel THEN [c EXCEPT !.end = "died"]
  ELSE [c EXCEPT !.labels = WithLabel(@, label)]

str_to_op(op) ==
  CASE op = "==" -> "EQ" [] op = "!=" -> "NE" [] op = "<" -> "LT" [] op = "<=" -> "LE"
    [] op = ">" -> "GT" [] op = ">=" -> "GE" [] op = "&" -> "SET" [] op = "in" -> "IN"
    [] OTHER -> "none"

Compare(c, atom, label) ==
  IF Goes(c) THEN Emit(c, bpf_arg_comp(opts.bits, str_to_op(atom.op), atom.arg, parse_constant(atom.text, opts.bits).v,
                                       Id(c, label))) ELSE c

\* An atom has three tokens.  Which arguments there are is not checked.
compile_atom(c, atom, nr, g) ==
  IF Goes(c) /\ (str_to_op(atom.op) = "none" \/ ~parse_constant(atom.text, opts.bits).ok) THEN Refuse(c)
  ELSE Compare(get_label_id(c, EndLabel(nr, g)), atom, EndLabel(nr, g))

EndGroup(c, nr, g) ==
  IF Goes(c) THEN Emit(c, JumpLbl(Id(c, SuccessLabel(nr))) \o Lbl(Id(c, EndLabel(nr, g)))) ELSE c

compile_group(c, group, nr, g) ==
  EndGroup(get_label_id(get_label_id(FoldLeft(LAMBDA d, atom : compile_atom(d, atom, nr, g), c, group),
                                     SuccessLabel(nr)),
                        EndLabel(nr, g)),
           nr, g)

\* The constant is assigned to an int, of one word, before it is compared to -1.
compile_errno(c, ret) ==
  LET value == parse_constant(ret.errno, opts.bits) IN
  IF ret = BareReturn
    THEN IF opts.action = "LOG" THEN Refuse(c) ELSE Emit(c, Ret(Verdict(opts.action)))
    ELSE IF ~value.ok \/ Lo(value.v) = Word - 1 THEN Refuse(c) ELSE Emit(c, Ret(Errno(value.v)))

Block(c, ret) ==
  IF ~Goes(c) THEN c
  ELSE IF ret.word THEN compile_errno(c, ret)
  ELSE Emit(c, Ret(Verdict(opts.action)))

Succeed(c, nr) ==
  IF Goes(c) THEN Emit(c, Lbl(Id(c, SuccessLabel(nr))) \o Ret(Verdict("ALLOW"))) ELSE c

compile_policy_line(c, line) ==
  IF line.kind = "return" THEN compile_errno(c, line.ret)
  ELSE Succeed(get_label_id(Block(FoldLeftDomain(LAMBDA d, g : compile_group(d, line.groups[g], line.nr, g),
                                                 c, line.groups),
                                  line.ret),
                            SuccessLabel(line.nr)),
               line.nr)

-----------------------------------------------------------------------------
(* compile_file(), a line at a time.                                           *)

Top == frames[Len(frames)]
\* getmultiline() returns a line, unless the last one ends in a backslash.
HasLine == Top.lines # <<>> /\ Head(Top.lines).kind # "unfinished"
Reading == pc = "reading" /\ HasLine
ThisLine == Head(Top.lines)
Ends(outcome) == pc' = outcome /\ UNCHANGED <<opts, policy, frames, head, arg_blocks, labels, seen, prog>>

\* The next line of the file, with `ret' set once it is.
NextLine(failed) ==
  [frames EXCEPT ![Len(frames)] = [lines |-> Tail(@.lines), failed |-> @.failed \/ failed]]

\* Comments, empty lines and @frequency statements; names that are not those of
\* a system call, when failures are logged.
SkipLine ==
  /\ Reading
  /\ \/ ThisLine.kind = "blank"
     \/ ThisLine.kind \in {"allow", "return", "filter"} /\ ThisLine.nr < 0 /\ opts.allow_logging
  /\ frames' = NextLine(FALSE)
  /\ UNCHANGED <<opts, policy, pc, head, arg_blocks, labels, seen, prog>>

BadLine ==
  /\ Reading
  /\ \/ ThisLine.kind = "malformed"
     \/ ThisLine.kind \in {"allow", "return", "filter"} /\ ThisLine.nr < 0 /\ ~opts.allow_logging
     \/ ThisLine.kind = "include" /\ (Len(frames) > 1 \/ ThisLine.file \notin DOMAIN Included)
  /\ Ends("refused")

\* getmultiline() fails with the file not at its end.
UnreadableLine ==
  /\ Reading
  /\ ThisLine.kind = "unreadable"
  /\ Ends("refused")

IncludeFile ==
  /\ Reading
  /\ ThisLine.kind = "include" /\ Len(frames) = 1 /\ ThisLine.file \in DOMAIN Included
  /\ frames' = Append(NextLine(FALSE), [lines |-> Included[ThisLine.file], failed |-> FALSE])
  /\ UNCHANGED <<opts, policy, pc, head, arg_blocks, labels, seen, prog>>

Rule(kinds) == Reading /\ ThisLine.kind \in kinds /\ ThisLine.nr >= 0

\* insert_and_check_duplicate_syscall(): a second rule fails the file, which is
\* read to its end all the same.
insert_and_check_duplicate_syscall ==
  /\ seen' = seen \cup {ThisLine.nr}
  /\ frames' = NextLine(ThisLine.nr \in seen /\ ~opts.allow_duplicate_syscalls)

AllowRule ==
  /\ Rule({"allow"})
  /\ insert_and_check_duplicate_syscall
  /\ head' = head \o bpf_allow_syscall(ThisLine.nr)
  /\ UNCHANGED <<opts, policy, pc, arg_blocks, labels, prog>>

\* The id of the entry label is not checked, unlike those of the labels inside.
FilterRule ==
  /\ Rule({"return", "filter"})
  /\ LET entry == bpf_label_id(labels, EntryLabel(ThisLine.nr))
         c == compile_policy_line(
                [code |-> Lbl(entry), labels |-> WithLabel(labels, EntryLabel(ThisLine.nr)), end |-> "no"],
                ThisLine)
     IN IF Goes(c)
        THEN /\ insert_and_check_duplicate_syscall
             /\ head' = head \o bpf_allow_syscall_args(ThisLine.nr, entry)
             /\ arg_blocks' = arg_blocks \o c.code
             /\ labels' = c.labels
             /\ UNCHANGED <<opts, policy, pc, prog>>
        ELSE Ends(c.end)

AtEnd == pc = "reading" /\ ~HasLine

\* An included file whose duplicates are forgotten when it ends.
ForgetDuplicates ==
  /\ AtEnd /\ Len(frames) > 1
  /\ frames' = Front(frames)
  /\ UNCHANGED <<opts, policy, pc, head, arg_blocks, labels, seen, prog>>

\* The end of an included file.  A last line that ends in a backslash is not
\* returned by getmultiline(), and with the file at its end that is no error.
EndIncluded ==
  /\ AtEnd /\ Len(frames) > 1
  /\ IF Top.failed THEN Ends("refused")
     ELSE /\ frames' = Front(frames)
          /\ UNCHANGED <<opts, policy, pc, head, arg_blocks, labels, seen, prog>>

\* What calls without a rule meet.
DefaultAction == Ret(Verdict(opts.action))

\* The end of the file, and the rest of compile_filter().  Resolving a label
\* without an id reads and writes outside the label table: on a 64-bit build far
\* from any memory, on a 32-bit build at its count, which is refused or printed.
compile_filter ==
  /\ AtEnd /\ Len(frames) = 1
  /\ LET filter == head \o DefaultAction \o arg_blocks
         r == bpf_resolve_jumps(filter)
     IN IF \/ Top.failed
           \/ opts.action = "LOG" /\ ~opts.allow_logging
           \/ r.end = "refused"
        THEN Ends("refused")
        ELSE IF r.end = "wild"
        THEN \E outcome \in IF opts.bits = 64 THEN {"died"} ELSE {"died", "refused"} : Ends(outcome)
        ELSE /\ pc' = "ok"
             /\ prog' = r.prog
             /\ UNCHANGED <<opts, policy, frames, head, arg_blocks, labels, seen>>

Done == pc # "reading" /\ UNCHANGED vars

Next == SkipLine \/ BadLine \/ UnreadableLine \/ IncludeFile \/ AllowRule \/ FilterRule \/ EndIncluded \/ compile_filter \/ Done

Spec == Init /\ [][Next]_vars

-----------------------------------------------------------------------------
(* What a policy says, without the program.                                    *)

\* The lines of the policy that are read, those of included files in place.  A last
\* line that ends in a backslash is left out without an error, though getmultiline()
\* means to "return an error" for it (util.c:625): compile_file() takes it for the end.
Finished(lines) == LET n == SelectInSeq(lines, LAMBDA l : l.kind = "unfinished")
                   IN IF n = 0 THEN lines ELSE SubSeq(lines, 1, n - 1)
Text == LET own == Finished(policy)
        IN FlattenSeq([i \in DOMAIN own |->
                         IF own[i].kind = "include" /\ own[i].file \in DOMAIN Included
                         THEN Finished(Included[own[i].file]) ELSE <<own[i]>>])
Rules == SelectSeq(Text, LAMBDA l : l.kind \in {"allow", "return", "filter"} /\ l.nr >= 0)

Holds(atom, args) ==
  LET v == args[atom.arg]
      c == CHOOSE x \in Taken(atom.text, opts.bits) : TRUE
  IN CASE atom.op = "==" -> v = c
       [] atom.op = "!=" -> v # c
       [] atom.op = "<" -> v < c
       [] atom.op = "<=" -> v <= c
       [] atom.op = ">" -> v > c
       [] atom.op = ">=" -> v >= c
       [] atom.op = "&" -> v & c # 0
       [] atom.op = "in" -> v & c = v

\* The first rule for the system call decides; a rule's conditions are met when
\* those of one of its groups all are.
Decision(call, rules) ==
  LET n == SelectInSeq(rules, LAMBDA l : l.nr = call.nr)
      rule == rules[n]
      met == \E g \in DOMAIN rule.groups : \A k \in DOMAIN rule.groups[g] : Holds(rule.groups[g][k], call.args)
  IN IF call.arch # 1 THEN Verdict("KILL")
     ELSE IF opts.allow_syscalls_for_logging /\ Contains(LogSyscalls, call.nr) THEN Verdict("ALLOW")
     ELSE IF n = 0 THEN Verdict(opts.action)
     ELSE IF rule.kind = "allow" \/ (rule.kind = "filter" /\ met) THEN Verdict("ALLOW")
     ELSE IF rule.ret.errno # <<>>
     THEN [act |-> "ERRNO", errno |-> Lo(CHOOSE x \in Taken(rule.ret.errno, opts.bits) : TRUE)]
     ELSE Verdict(opts.action)

\* A rule is about an argument no system call has.
NamesNoArgument ==
  \E r \in ToSet(Rules) : \E g \in DOMAIN r.groups : \E k \in DOMAIN r.groups[g] :
    r.groups[g][k].arg \notin 1 .. MaxArgs

\* System calls to try a filter on: one from another architecture, and from this
\* one (1) with every value of the first argument and the extreme ones of the second.
TestCalls(rules) ==
  {[arch |-> 0, nr |-> 0, args |-> <<0, 0>>]}
  \cup [arch : {1}, nr : {l.nr : l \in ToSet(rules)} \cup ToSet(LogSyscalls) \cup {99},
        args : {<<v, w>> : v \in 0 .. (ULong(opts.bits) - 1), w \in {0, ULong(opts.bits) - 1}}]
Decides(rules) ==
  \A call \in TestCalls(rules) : Execute(prog, call, 1, 0, [m \in {0, 1} |-> 0]) = Decision(call, rules)

\* A filter that compile_filter() returned decides every system call as the
\* policy does: the jump table, the two-word comparisons of bpf.c and the resolved
\* jumps together amount to the first rule for the call.
FilterDecides == pc = "ok" /\ ~NamesNoArgument => Decides(Rules)

\* The kernel takes every filter that compile_filter() returned: it is no longer
\* than allowed, cannot run off its end, and reads no scratch word unset.  Only a
\* rule about an argument that no system call has, which compile_atom() does not
\* look at, is left for the kernel to refuse.  (An index below 0 is not among the
\* inputs: it is the place of another field of seccomp_data, and accepted.)
KernelAccepts == pc = "ok" => (Acceptable(prog) <=> ~NamesNoArgument)

AtomLength(atom) ==
  IF opts.bits = 32 THEN 3 ELSE IF atom.op \in {"<", "<=", ">", ">="} /\ Hi(CHOOSE x \in Taken(atom.text, opts.bits) : TRUE) # 0 THEN 9 ELSE 8
GroupLength(group) == FoldLeft(LAMBDA n, atom : n + AtomLength(atom), 2, group)
RuleLength(rule) == IF rule.kind = "allow" THEN 2 ELSE IF rule.kind = "return" THEN 4
                    ELSE FoldLeft(LAMBDA n, group : n + GroupLength(group), 6, rule.groups)
FilterLength == FoldLeft(LAMBDA n, rule : n + RuleLength(rule),
                         5 + IF opts.allow_syscalls_for_logging THEN 2 * Len(LogSyscalls) ELSE 0, Rules)

LabelsNeeded ==
  UNION {{EntryLabel(r.nr)} \cup {SuccessLabel(r.nr) : g \in DOMAIN r.groups} \cup {EndLabel(r.nr, g) : g \in DOMAIN r.groups} :
         r \in {l \in ToSet(Rules) : l.kind # "allow"}}

BadRule(r) ==
  \/ r.ret = BareReturn /\ opts.action = "LOG"
  \/ r.ret.errno # <<>> /\ ~\E x \in Taken(r.ret.errno, opts.bits) : Lo(x) # Word - 1
  \/ \E g \in DOMAIN r.groups : \E k \in DOMAIN r.groups[g] :
       str_to_op(r.groups[g][k].op) = "none" \/ Taken(r.groups[g][k].text, opts.bits) = {}

\* A second rule for a call, unless duplicates are allowed and one at most of the
\* two needs a block of its own.
Duplicated ==
  \E m, n \in DOMAIN Rules :
    /\ m < n /\ Rules[m].nr = Rules[n].nr
    /\ opts.allow_duplicate_syscalls => Rules[m].kind # "allow" /\ Rules[n].kind # "allow"

BadText(line) ==
  \/ line.kind \in {"malformed", "unreadable", "include"}
  \/ line.kind \in {"allow", "return", "filter"} /\ line.nr < 0 /\ ~opts.allow_logging

Flawed ==
  \/ \E line \in ToSet(Text) : BadText(line)
  \/ \E r \in ToSet(Rules) : BadRule(r)
  \/ Duplicated
  \/ FilterLength > MaxInsns

TooManyLabels == Cardinality(LabelsNeeded) > LabelsMax

\* compile_filter() compiles a policy exactly when every line of it and of the
\* files it includes is sound and it fits the instruction and label limits; it is
\* ended by die() or a fault only for want of labels.  A constant is sound by the
\* grammar in parse_constant()'s comment (util.c:284), which the code departs from twice:
\* ~~x is refused, and a | left over after a word is let pass.  An unfinished last line
\* is no flaw: it is not read, against util.c:625.
CompiledUnlessFlawed ==
  /\ pc = "ok" => ~Flawed /\ ~TooManyLabels
  /\ pc = "refused" => Flawed \/ TooManyLabels
  /\ pc = "died" => TooManyLabels
=============================================================================

--------------------------------- MODULE Bpf ---------------------------------
(* The BPF instructions minijail builds (bpf.c, bpf.h), and the machine in the *)
(* kernel that runs them.                                                      *)
EXTENDS Bitwise, Integers, Sequences, SequencesExt, FiniteSetsExt

CONSTANTS
  WordBits,     \* the width of the accumulator: 32 in the code
  LabelsMax,    \* BPF_LABELS_MAX
  MaxInsns,     \* BPF_MAXINSNS
  MaxArgs       \* the arguments of a system call: six

ASSUME BpfAssumption ==
  /\ WordBits \in Nat \ {0}
  /\ LabelsMax \in Nat
  /\ MaxInsns \in Nat
  /\ MaxArgs \in Nat

Word == 2 ^ WordBits
ULong(bits) == IF bits = 32 THEN Word ELSE Word * Word

Lo(c) == c % Word
Hi(c) == c \div Word

\* What a filter tells the kernel: the SECCOMP_RET_ values.
Verdict(action) == [act |-> action, errno |-> 0]
Errno(e) == [act |-> "ERRNO", errno |-> (e % Word) % 2 ^ 16]

\* One instruction, as a sequence to be joined to others.
Jump(code, k, jt, jf) == <<[code |-> code, k |-> k, jt |-> jt, jf |-> jf, ret |-> Verdict("")]>>
Stmt(code, k) == Jump(code, k, 0, 0)
Ret(verdict) == <<[code |-> "RET", k |-> 0, jt |-> 0, jf |-> 0, ret |-> verdict]>>

\* Symbolic jumps and labels, told apart by their jt and jf.
JumpLbl(id) == Jump("JA", id, 255, 255)
Lbl(id) == Jump("JA", id, 254, 254)

bpf_validate_arch == Stmt("LD arch", 0) \o Jump("JEQ", 1, 1, 0) \o Ret(Verdict("KILL"))

bpf_allow_syscall(nr) == Jump("JEQ", nr, 0, 1) \o Ret(Verdict("ALLOW"))

bpf_allow_syscall_args(nr, id) == Jump("JEQ", nr, 0, 1) \o JumpLbl(id)

bpf_load_arg(bits, argidx) ==
  IF bits = 32 THEN Stmt("LD lo", argidx)
  ELSE Stmt("LD lo", argidx) \o Stmt("ST", 0) \o Stmt("LD hi", argidx) \o Stmt("ST", 1)

bpf_comp_jeq(bits, c, jt, jf) ==
  IF bits = 32 THEN Jump("JEQ", Lo(c), jt, jf)
  ELSE Jump("JEQ", Hi(c), 0, 2 + jf) \o Stmt("LD mem", 0) \o Jump("JEQ", Lo(c), jt, jf)

\* The comparison of high words that forgets the extra jump it is followed by.
ShortSkip(bits, code, c, jt, jf) ==
  IF bits = 32 THEN Jump(code, Lo(c), jt, jf)
  ELSE (IF Hi(c) = 0 THEN Jump("JGT", 0, 2 + jt, 0)
        ELSE Jump("JGT", Hi(c), 2 + jt, 0) \o Jump("JEQ", Hi(c), 0, 2 + jf))
       \o Stmt("LD mem", 0) \o Jump(code, Lo(c), jt, jf)

\* bpf_comp_jgt*() and bpf_comp_jge*(), with code JGT and JGE.
bpf_comp_order(bits, code, c, jt, jf) ==
  IF bits = 32 THEN Jump(code, Lo(c), jt, jf)
  ELSE (IF Hi(c) = 0 THEN Jump("JGT", 0, 2 + jt, 0)
        ELSE Jump("JGT", Hi(c), 3 + jt, 0) \o Jump("JEQ", Hi(c), 0, 2 + jf))
       \o Stmt("LD mem", 0) \o Jump(code, Lo(c), jt, jf)

bpf_comp_jset(bits, mask, jt, jf) ==
  IF bits = 32 THEN Jump("JSET", Lo(mask), jt, jf)
  ELSE Jump("JSET", Hi(mask), 2 + jt, 0) \o Stmt("LD mem", 0) \o Jump("JSET", Lo(mask), jt, jf)

bpf_comp_jin(bits, mask, jt, jf) == bpf_comp_jset(bits, ULong(bits) - 1 - mask, jf, jt)

\* Falls through to a jump to the label when the comparison fails, skips it
\* when it holds; NE, LT and LE are EQ, GE and GT with the branches exchanged.
bpf_arg_comp(bits, op, argidx, c, id) ==
  bpf_load_arg(bits, argidx)
  \o (CASE op = "EQ" -> bpf_comp_jeq(bits, c, 1, 0)
        [] op = "NE" -> bpf_comp_jeq(bits, c, 0, 1)
        [] op = "LT" -> bpf_comp_order(bits, "JGE", c, 0, 1)
        [] op = "LE" -> bpf_comp_order(bits, "JGT", c, 0, 1)
        [] op = "GT" -> bpf_comp_order(bits, "JGT", c, 1, 0)
        [] op = "GE" -> bpf_comp_order(bits, "JGE", c, 1, 0)
        [] op = "SET" -> bpf_comp_jset(bits, c, 1, 0)
        [] op = "IN" -> bpf_comp_jin(bits, c, 1, 0))
  \o JumpLbl(id)

-----------------------------------------------------------------------------
(* The label table, a sequence of labels without location: ids are positions,  *)
(* and NoLabel is the -1 of a full table.                                      *)

NoLabel == 0

WithLabel(labels, label) ==
  IF Contains(labels, label) \/ Len(labels) = LabelsMax THEN labels ELSE Append(labels, label)

bpf_label_id(labels, label) ==
  SelectInSeq(WithLabel(labels, label), LAMBDA l : l = label)

IsJump(x) == x.code = "JA" /\ x.jt = 255
IsLabel(x) == x.code = "JA" /\ x.jt = 254

\* The pass over the program from its end: a label is met before the jumps to
\* it, and what is wrong with the last jump or label that is wrong ends it.  A
\* label without an id is one beyond the table ("wild").
bpf_resolve_jumps(filter) ==
  LET after(i) == {h \in (i + 1) .. Len(filter) : IsLabel(filter[h]) /\ filter[h].k = filter[i].k}
      wild == {i \in DOMAIN filter : IsLabel(filter[i]) /\ filter[i].k = NoLabel}
      refused == {i \in DOMAIN filter :
                    \/ IsJump(filter[i]) /\ (filter[i].k = NoLabel \/ after(i) = {})
                    \/ IsLabel(filter[i]) /\ filter[i].k # NoLabel /\ after(i) # {}}
  IN [prog |-> [i \in DOMAIN filter |->
                  IF IsJump(filter[i]) /\ after(i) # {} THEN Stmt("JA", Max(after(i)) - (i + 1))[1]
                  ELSE IF IsLabel(filter[i]) THEN Stmt("JA", 0)[1] ELSE filter[i]],
      end |-> IF Len(filter) > MaxInsns THEN "refused"
              ELSE IF wild \cup refused = {} THEN "no"
              ELSE IF Max(wild \cup refused) \in wild THEN "wild" ELSE "refused"]

-----------------------------------------------------------------------------
(* The kernel, from the instructions bpf.c hands it.                           *)

RECURSIVE Execute(_, _, _, _, _)
\* The verdict of the program on a call, from instruction i on, with
\* accumulator A and scratch memory M.
Execute(filter, call, i, A, M) ==
  LET x == filter[i]
      Go(n, acc) == Execute(filter, call, i + 1 + n, acc, M)
      Test(holds) == Go(IF holds THEN x.jt ELSE x.jf, A)
  IN CASE x.code = "RET" -> x.ret
       [] x.code = "LD arch" -> Go(0, call.arch)
       [] x.code = "LD nr" -> Go(0, call.nr)
       [] x.code = "LD lo" -> Go(0, Lo(call.args[x.k]))
       [] x.code = "LD hi" -> Go(0, Hi(call.args[x.k]))
       [] x.code = "LD mem" -> Go(0, M[x.k])
       [] x.code = "ST" -> Execute(filter, call, i + 1, A, [M EXCEPT ![x.k] = A])
       [] x.code = "JA" -> Go(x.k, A)
       [] x.code = "JEQ" -> Test(A = x.k)
       [] x.code = "JGT" -> Test(A > x.k)
       [] x.code = "JGE" -> Test(A >= x.k)
       [] x.code = "JSET" -> Test(A & x.k # 0)

\* What the kernel checks before it takes a program: it ends, no jump leaves it,
\* it loads only arguments there are and no scratch word before it is written.
Acceptable(filter) ==
  LET next == [i \in DOMAIN filter |->
                 CASE filter[i].code = "RET" -> {}
                   [] filter[i].code = "JA" -> {i + 1 + filter[i].k}
                   [] filter[i].code \in {"JEQ", "JGT", "JGE", "JSET"} -> {i + 1 + filter[i].jt, i + 1 + filter[i].jf}
                   [] OTHER -> {i + 1}]
      \* the scratch words written on every way to each instruction
      written == FoldLeftDomain(
                   LAMBDA w, i : LET after == w[i] \cup (IF filter[i].code = "ST" THEN {filter[i].k} ELSE {})
                                 IN [h \in DOMAIN w |-> IF h \in next[i] THEN w[h] \cap after ELSE w[h]],
                   [i \in DOMAIN filter |-> IF i = 1 THEN {} ELSE {0, 1}], filter)
  IN /\ Len(filter) \in 1 .. MaxInsns
     /\ filter[Len(filter)].code = "RET"
     /\ \A i \in DOMAIN filter : next[i] \subseteq DOMAIN filter
     /\ \A i \in DOMAIN filter : filter[i].code \in {"LD lo", "LD hi"} => filter[i].k \in 1 .. MaxArgs
     /\ \A i \in DOMAIN filter : filter[i].code = "LD mem" => filter[i].k \in written[i]
=============================================================================

---------------------------- MODULE MCPolicyJobs ----------------------------
(* Policies for PolicyCompiler, over words of two bits and two arguments.      *)
EXTENDS PolicyText

Cmp(op, arg, text) == [op |-> op, arg |-> arg, text |-> text]
Is(op, arg, v) == Cmp(op, arg, <<Num(v)>>)
Word1(w) == Does(w, Num(0))
ReturnOf(v) == Does("return", Num(v))
Always(action) == FilterOf(<<>>, action)
When(atom, action) == FilterOf(<<<<atom>>>>, action)
Just(nr) == <<Calls(<<nr>>, "any", TRUE)>>

\* Command lines without the options that are seldom given, and with them.
Simple(policies, bits, strategies, denylist) ==
  [policy : policies, bits : bits, strategy : strategies, denylist : denylist, kill_process : {FALSE},
   use_ret_log : {FALSE}, env_ret_log : {FALSE}, default_action : {NoAction}, depth_option : {FALSE}]
Actions(policies, denylist) ==
  [policy : policies, bits : {64}, strategy : {"bst"}, denylist : denylist, kill_process : BOOLEAN,
   use_ret_log : BOOLEAN, env_ret_log : BOOLEAN, default_action : {NoAction}, depth_option : {FALSE}]
Overrides(policies, denylist) ==
  [policy : policies, bits : {64}, strategy : {"bst"}, denylist : denylist, kill_process : {FALSE},
   use_ret_log : {FALSE}, env_ret_log : {FALSE}, depth_option : {TRUE},
   default_action : {NoAction, Word1("allow"), Word1("kill"), Word1("trace"), ReturnOf(3), Word1("bad")}]

\* One comparison, of every kind with every constant; one with an argument the
\* kernel does not have, and ones that are refused.
Comparisons ==
  {Is(op, 1, c) : op \in {"==", "!=", "<", "<=", ">", ">=", "&", "in"}, c \in 0 .. 15}
  \cup {Is("==", 3, 1), Is("==", 4, 1), Is("bad", 1, 1)}
CompareJobs(texts) ==
  Simple({<<Rule(Just(1), <<When(atom, Implied)>>)>> : atom \in Comparisons \cup {Cmp("==", 1, s) : s \in texts}},
         {32, 64}, {"bst"}, {FALSE})

\* Lists of filters for one system call.
Filters ==
  {When(Is("==", 1, 1), ReturnOf(2)), When(Is("!=", 2, 0), Word1("kill")), When(Is("&", 1, 6), Word1("trap")),
   FilterOf(<<<<Is(">=", 1, 2), Is("<", 2, 3)>>, <<Is("in", 2, 1), Is(">", 1, 5), Is("<=", 1, 9)>>>>, Implied),
   Always(Word1("allow")), Always(Word1("kill")), Always(Word1("log")), Always(ReturnOf(3)),
   Always(Does("number", Num(1))), Always(Does("number", Num(2))), Always(Word1("bad")),
   Always(Does("return", Sym("garbage")))}
FilterLists == BoundedSeq(Filters, 3) \ {<<>>}
FilterJobs ==
  Simple({<<Rule(Just(1), s)>> : s \in FilterLists}, {32, 64}, {"bst"}, {FALSE})
  \cup Simple({<<Other("denylist"), Rule(Just(1), s)>> : s \in FilterLists}, {64}, {"bst"}, {TRUE})

\* Some system calls, with a gap between them, of four kinds; and how frequent
\* they are.
Numbers == <<0, 1, 2, 4, 5>>
Kinds == <<<<Always(Word1("allow"))>>, <<When(Is("==", 1, 5), Implied)>>, <<When(Is("<", 2, 5), ReturnOf(1)), Always(Word1("trap"))>>>>
Layout(kind) ==
  SelectSeq([k \in DOMAIN Kinds |->
               Rule(<<Calls(SelectSeq(Numbers, LAMBDA nr : kind[nr] = k), "this", TRUE)>>, Kinds[k])],
            LAMBDA s : s.calls[1].nrs # <<>>)
Layouts(more) == {Layout(kind) \o more : kind \in [ToSet(Numbers) -> 0 .. 3]}
LayoutJobs ==
  Simple(Layouts(<<>>), {64}, {"bst"}, {FALSE})
  \cup Simple(Layouts(<<Frequency("often"), Frequency("rare")>>), {64}, {"bst", "linear"}, {FALSE})

MCFreqFiles ==
  [often |-> <<[calls |-> Calls(<<1, 4>>, "any", TRUE), n |-> 7, bad |-> FALSE],
               [calls |-> Calls(<<9>>, "other", FALSE), n |-> 3, bad |-> FALSE],
               [calls |-> Calls(<<2>>, "any", TRUE), n |-> 0, bad |-> FALSE]>>,
   rare |-> <<[calls |-> Calls(<<5>>, "this", TRUE), n |-> 2, bad |-> FALSE],
              [calls |-> Calls(<<1>>, "any", TRUE), n |-> 1, bad |-> FALSE]>>,
   negative |-> <<[calls |-> Calls(<<5>>, "any", TRUE), n |-> -1, bad |-> FALSE]>>,
   broken |-> <<[calls |-> Calls(<<5>>, "any", TRUE), n |-> 1, bad |-> TRUE]>>]

\* Statements of every kind.
Statements ==
  {Rule(Just(1), <<Always(Word1("allow"))>>), Rule(Just(1), <<When(Is("==", 1, 1), ReturnOf(2))>>),
   Rule(Just(1) \o Just(1), <<When(Is("!=", 1, 1), Implied)>>), Rule(Just(1) \o Just(1), <<Always(ReturnOf(2))>>),
   Rule(<<Calls(<<1, 2>>, "this", TRUE), Calls(<<3>>, "other", FALSE)>>, <<Always(ReturnOf(3))>>),
   Statement("filter", <<Calls(<<3>>, "other", FALSE)>>, <<Always(ReturnOf(3))>>, TRUE),
   Statement("filter", Just(1), <<Always(ReturnOf(3))>>, TRUE),
   Rule(<<Calls(<<3>>, "any", FALSE)>>, <<Always(ReturnOf(3))>>),
   Include("rules"), Include("nested"), Include("loop"), Include("deny"), Include("missing"),
   Frequency("often"), Frequency("negative"), Frequency("broken"), Frequency("missing"),
   Default(Word1("trap")), Default(Word1("kill")), Default(Word1("allow")),
   Other("denylist"), Other("malformed")}

MCFiles ==
  [rules |-> <<Rule(Just(2), <<When(Is("==", 1, 1), ReturnOf(2))>>), Default(Word1("kill-process"))>>,
   nested |-> <<Include("rules"), Rule(Just(2), <<When(Is("==", 2, 0), ReturnOf(1))>>)>>,
   deny |-> <<Rule(Just(2), <<When(Is(">", 2, 3), ReturnOf(1))>>), Other("denylist")>>,
   loop |-> <<Rule(Just(2), <<When(Is(">", 2, 3), ReturnOf(1))>>), Include("loop")>>]

StructureJobs ==
  Simple([1 .. 3 -> Statements], {64}, {"bst"}, {FALSE}) \cup Simple(BoundedSeq(Statements, 2), {64}, {"bst"}, {TRUE})
  \cup Actions(BoundedSeq(Statements, 2), {FALSE}) \cup Overrides(BoundedSeq(Statements, 2), {FALSE})
  \cup Actions({<<Other("denylist")>> \o s : s \in BoundedSeq(Statements, 2)}, {TRUE})
  \cup Overrides({<<Other("denylist")>> \o s : s \in BoundedSeq(Statements, 2)}, {TRUE})

MCJobs(texts) == CompareJobs(texts) \cup FilterJobs \cup LayoutJobs \cup StructureJobs
=============================================================================

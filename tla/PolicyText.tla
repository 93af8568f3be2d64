------------------------------ MODULE PolicyText ------------------------------
(* The policies that tools/compile_seccomp_policy.py reads: a statement is what *)
(* its tokens say.  And the constants in them (parser.py), whose tokens are     *)
(* those of ConstantText, with values as in Bpf.                                *)
EXTENDS ConstantText

\* What is written: one system call or a group of them, perhaps for some
\* architectures only; a comparison; an action; a filter; and the statements.
Calls(nrs, arch, known) == [nrs |-> nrs, arch |-> arch, known |-> known]
Does(word, token) == [word |-> word, token |-> token]
FilterOf(expr, action) == [expr |-> expr, action |-> action]
\* The action of an expression without one, and no --default-action.
Implied == Does("implied", Num(0))
NoAction == Does("none", Num(0))
Statement(kind, calls, filters, extra) ==
  [kind |-> kind, calls |-> calls, filters |-> filters, extra |-> extra, file |-> "", action |-> Implied]
Rule(calls, filters) == Statement("filter", calls, filters, FALSE)
Include(file) == [Statement("include", <<>>, <<>>, FALSE) EXCEPT !.file = file]
Frequency(file) == [Statement("frequency", <<>>, <<>>, FALSE) EXCEPT !.file = file]
Default(action) == [Statement("default", <<>>, <<>>, FALSE) EXCEPT !.action = action]
Other(kind) == Statement(kind, <<>>, <<>>, FALSE)

-----------------------------------------------------------------------------
(* parser.py: constants.  A parser returns the tokens it leaves.               *)

Got(v, rest) == [ok |-> TRUE, v |-> v, rest |-> rest]
Failed == [ok |-> FALSE, v |-> 0, rest |-> <<>>]

ParseSingleConstant(token, bits) ==
  IF token.t = "num" /\ token.v < ULong(bits) /\ token.v >= -(ULong(bits) \div 2)
    THEN Parsed(token.v % ULong(bits)) ELSE Error

RECURSIVE ParseConstant(_, _), ParseValue(_, _, _)

ParseConstant(s, bits) ==
  LET negate == Starts(s, "~")
      t == IF negate THEN Tail(s) ELSE s
      group == ParseValue(Tail(t), 0, bits)
      single == ParseSingleConstant(Head(t), bits)
  IN IF t = <<>> \/ Starts(t, "~") THEN Failed
     ELSE IF Starts(t, "(")
     THEN IF group.ok /\ Starts(group.rest, ")")
          THEN Got(Complement(group.v, negate, bits), Tail(group.rest)) ELSE Failed
     ELSE IF single.ok THEN Got(Complement(single.v, negate, bits), Tail(t)) ELSE Failed

\* parse_value(), with the value of the constants before.
ParseValue(s, value, bits) ==
  LET c == ParseConstant(s, bits) IN
  IF s = <<>> \/ ~c.ok THEN Failed
  ELSE IF Starts(c.rest, "|") THEN ParseValue(Tail(c.rest), value | c.v, bits)
  ELSE Got(value | c.v, c.rest)
=============================================================================

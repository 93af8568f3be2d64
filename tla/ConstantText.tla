----------------------------- MODULE ConstantText -----------------------------
(* The constants of a policy (util.c): numbers and names joined by |, grouped   *)
(* in parentheses and complemented by ~.  A text is the sequence of its tokens; *)
(* a number or a name is a token with its value, anything else in its place is  *)
(* "garbage".  Two adjacent words would be one, so no text has them.            *)
EXTENDS Bpf

Num(v) == [t |-> "num", v |-> v]
Sym(t) == [t |-> t, v |-> 0]
IsWord(token) == token.t \in {"num", "garbage"}
IsText(s) == \A i \in 1 .. Len(s) - 1 : ~(IsWord(s[i]) /\ IsWord(s[i + 1]))

Starts(s, t) == s # <<>> /\ Head(s).t = t
Positions(s, t) == {i \in DOMAIN s : s[i].t = t}

\* What a parser returns; an error is an end pointer equal to the start.
Parsed(v) == [ok |-> TRUE, v |-> v]
Error == [ok |-> FALSE, v |-> 0]

\* strtol(3), and strtoul(3) for what is too large for it: the number, as an
\* unsigned long, unless it is out of the range of both.
parse_single_constant(s, bits) ==
  IF Len(s) = 1 /\ s[1].t = "num" /\ s[1].v >= -(ULong(bits) \div 2) /\ s[1].v < ULong(bits)
    THEN Parsed(s[1].v % ULong(bits))
    ELSE Error

\* The text up to the first |, and what follows it.
tokenize(s) ==
  LET n == Min(Positions(s, "|") \cup {Len(s) + 1})
  IN [token |-> SubSeq(s, 1, n - 1), rest |-> SubSeq(s, n + 1, Len(s))]

\* The position of the parenthesis that closes the first one of s, 0 if none.
tokenize_parenthesized_expression(s) ==
  LET level(i) == Cardinality({k \in Positions(s, "(") : k <= i}) - Cardinality({k \in Positions(s, ")") : k <= i})
      closing == {i \in DOMAIN s : level(i) = 0}
  IN IF closing = {} THEN 0 ELSE Min(closing)

Complement(v, negate, bits) == IF negate THEN ULong(bits) - 1 - v ELSE v

RECURSIVE parse_constant(_, _), ParseTerms(_, _, _), ParseGroup(_, _, _, _, _), ParseRest(_, _, _, _, _)

parse_constant(s, bits) == IF s = <<>> THEN Error ELSE ParseTerms(s, 0, bits)

\* The loop, with the value so far: one ~ at most, then a group or a word.
ParseTerms(s, value, bits) ==
  LET negate == Starts(s, "~")
      term == IF negate THEN Tail(s) ELSE s
  IN IF s = <<>> THEN Parsed(value)
     ELSE IF Starts(term, "(")
     THEN ParseGroup(term, tokenize_parenthesized_expression(term), negate, value, bits)
     ELSE ParseRest(parse_single_constant(tokenize(term).token, bits), tokenize(term).rest, negate, value, bits)

\* After a group there is nothing, or a | and something.
ParseGroup(s, close, negate, value, bits) ==
  LET rest == SubSeq(s, close + 1, Len(s)) IN
  IF close = 0 \/ (rest # <<>> /\ (~Starts(rest, "|") \/ Len(rest) = 1)) THEN Error
  ELSE ParseRest(parse_constant(SubSeq(s, 2, close - 1), bits), SubSeq(rest, 2, Len(rest)), negate, value, bits)

ParseRest(current, rest, negate, value, bits) ==
  IF current.ok THEN ParseTerms(rest, value | Complement(current.v, negate, bits), bits) ELSE Error

-----------------------------------------------------------------------------
(* The grammar, as the comment in parse_constant() gives it (util.c:284).      *)

RECURSIVE Values(_, _), TermValues(_, _)

\* The values a text has, one at most.
Values(s, bits) ==
  TermValues(s, bits)
  \cup UNION {{a | b : a \in TermValues(SubSeq(s, 1, n - 1), bits), b \in Values(SubSeq(s, n + 1, Len(s)), bits)} :
                n \in Positions(s, "|")}

TermValues(s, bits) ==
  LET inner == SubSeq(s, 2, Len(s) - 1) IN
  IF Starts(s, "~") THEN {ULong(bits) - 1 - v : v \in TermValues(Tail(s), bits)}
  ELSE IF Starts(s, "(") THEN IF Last(s).t = ")" THEN Values(inner, bits) ELSE {}
  ELSE IF Len(s) = 1 /\ s[1].t = "num" /\ s[1].v \in -(ULong(bits) \div 2) .. ULong(bits) - 1
       THEN {s[1].v % ULong(bits)} ELSE {}

(* Where the code departs from it. *)

\* ~~1 is "a valid constant expression prefixed with the unary bitwise complement
\* operator ~", and refused.
ComplementedTwice(s) == \E i \in 1 .. Len(s) - 1 : s[i].t = "~" /\ s[i + 1].t = "~"

\* 1| is not a series "of valid constant expressions separated by pipes", and taken for
\* 1, at the end of the text or of a group.  (After a group it is refused.)
LeftOver(s, i) == /\ s[i].t = "|" /\ i > 1 /\ s[i - 1].t = "num"
                  /\ i = Len(s) \/ s[i + 1].t = ")"
WithoutLeftOvers(s) == FlattenSeq([i \in DOMAIN s |-> IF LeftOver(s, i) THEN <<>> ELSE <<s[i]>>])

\* The values that parse_constant() is to give a text: those of the grammar, but for these.
Taken(s, bits) == IF ComplementedTwice(s) THEN {} ELSE Values(WithoutLeftOvers(s), bits)
=============================================================================

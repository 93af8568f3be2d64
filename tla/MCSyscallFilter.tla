-------------------------- MODULE MCSyscallFilter --------------------------
(* Words of two bits, so that an unsigned long of the 64-bit build is 0..15.   *)
EXTENDS SyscallFilter

Expr(op, arg, text) == [op |-> op, arg |-> arg, text |-> text]
Atom(op, arg, val) == Expr(op, arg, <<Num(val)>>)
ErrnoOf(n) == ReturnErrno(<<Num(n)>>)

\* One comparison, of every kind with every constant, and one that is off the end.
Comparisons ==
  {<<Filter(0, <<<<Atom(op, 1, c)>>>>, NoReturn)>> : op \in {"==", "!=", "<", "<=", ">", ">=", "&", "in"}, c \in 0 .. 15}
  \cup {<<Filter(0, <<<<Atom("==", 3, 1)>>>>, NoReturn)>>}

\* Constants: all that six tokens can make up, and the edges of the types.
Tokens == {Sym("~"), Sym("("), Sym(")"), Sym("|"), Num(1), Num(6), Sym("garbage")}
Texts ==
  {s \in BoundedSeq(Tokens, 5) : IsText(s)}
  \cup {<<Num(v)>> : v \in -9 .. 17}
  \cup {<<t, Sym("("), Num(1), Sym("|"), u, Num(6), Sym(")"), Sym("|"), Num(9)>> : t, u \in {Sym("~"), Sym("(")}}
  \cup {<<Sym("("), Num(1), Sym(")"), Sym("|"), Sym("~"), Sym("("), Num(6), Sym(")")>>}
Constants ==
  {IF return THEN <<Return(0, ReturnErrno(s))>> ELSE <<Filter(0, <<<<Expr("==", 1, s)>>>>, NoReturn)>> :
     s \in Texts, return \in BOOLEAN}

\* Rules for a call that the logging code may need (1) and for two it does not.
Lines ==
  {Allow(0), Allow(1),
   Return(0, ErrnoOf(2)), Return(2, BareReturn), Return(0, ErrnoOf(-1)),
   Filter(1, <<<<Atom(">=", 1, 2), Atom("<", 2, 3)>>, <<Atom("in", 2, 1)>>>>, ErrnoOf(1)),
   Filter(0, <<<<Atom("==", 1, 1)>>, <<Atom("&", 1, 2)>>>>, NoReturn),
   Filter(0, <<<<Atom("bad", 1, 1)>>>>, NoReturn),
   Allow(-1), Include("rules"), Include("nested"), Include("missing"),
   Other("malformed"), Other("unreadable"), Other("blank"), Other("unfinished")}

MCIncluded ==
  [f \in {"rules", "nested"} |->
     IF f = "rules" THEN <<Allow(0), Filter(1, <<<<Atom("!=", 1, 0)>>>>, BareReturn), Allow(0)>>
     ELSE <<Return(1, ErrnoOf(0)), Include("rules")>>]

Policies == Comparisons \cup {p \in BoundedSeq(Lines, 3) : IsFile(p)}

Environments ==
  {e \in [bits : {32, 64}, logging : BOOLEAN, ret_log : BOOLEAN, tsync : BOOLEAN,
          kill_process : BOOLEAN, duplicates : BOOLEAN] :
     /\ e.kill_process => e.tsync /\ e.ret_log
     /\ e.tsync => ~e.logging}
Plain == {e \in Environments : ~(e.logging \/ e.ret_log \/ e.tsync \/ e.duplicates)}

MCInputs == [policy : Policies, env : Environments] \cup [policy : Constants, env : Plain]

MCLogSyscalls == <<1>>
=============================================================================

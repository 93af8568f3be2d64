---------------------------- MODULE MCFdRedirect ----------------------------
(* Small calls for TLC: tables of a dozen descriptors. *)
EXTENDS FdRedirect

\* A caller with five open descriptors that asks for nothing.
Plain ==
  [open |-> 0 .. 4, cloexec |-> {4}, maps |-> << >>, pipes |-> {}, closefds |-> FALSE,
   elf |-> NoFd, mountns |-> NoFd, netns |-> NoFd, landlock |-> FALSE]

\* What the caller asks for besides preserved descriptors.
Wishes ==
  {Plain,
   [Plain EXCEPT !.pipes = {"stdin", "stdout", "stderr", "sync"}, !.closefds = TRUE],
   [Plain EXCEPT !.pipes = {"config", "stdout"}, !.closefds = TRUE, !.landlock = TRUE],
   [Plain EXCEPT !.pipes = {"config", "sync"}, !.landlock = TRUE, !.netns = 4],
   [Plain EXCEPT !.pipes = {"stdin", "stderr"}, !.closefds = TRUE, !.elf = 4],
   [Plain EXCEPT !.pipes = {"sync"}, !.closefds = TRUE, !.landlock = TRUE,
                 !.mountns = 3, !.netns = 4, !.elf = 2]}

Pairs(P, C) == [parent : P, child : C]
Triples(P, C) == UNION {[1 .. n -> Pairs(P, C)] : n \in 0 .. 3}
Couples(P, C) == UNION {[1 .. n -> Pairs(P, C)] : n \in 0 .. 2}

\* Chains and cycles of preserved descriptors, over the caller's own.
Overlapping == {[Plain EXCEPT !.maps = m] : m \in Triples({2, 3, 4}, {2, 3, 4, 5})}

\* Preserved descriptors against the pipes, the ruleset and the program's.
Mixed == {[w EXCEPT !.maps = m] : w \in Wishes, m \in Couples({0, 3}, {1, 3, 4, 5, 6, 7})}

\* A jail with a preloaded library and one preserved descriptor.
PreloadRuns ==
  {[Plain EXCEPT !.pipes = {"config"}, !.maps = m, !.closefds = TRUE] : m \in Couples({3}, {4, 5})}

\* A caller that has closed some of its standard descriptors.
DaemonRuns ==
  {[Plain EXCEPT !.open = 0 .. 4 \ S, !.pipes = P, !.landlock = TRUE, !.closefds = c] :
     S \in SUBSET {0, 1, 2}, P \in {{"stdin", "stdout"}, {"stderr"}, {"config", "stderr"}}, c \in BOOLEAN}

MixedRuns == Overlapping \cup Mixed \cup DaemonRuns
=============================================================================

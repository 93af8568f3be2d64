------------------------ MODULE MinijailRunLifecycle ------------------------
(* What a run of MinijailRun looks like as the life of a jail in JailLifecycle. *)
EXTENDS MinijailRun

PhaseOf ==
  IF ppc = "crashed" THEN "orphaned"
  ELSE IF pc["child"] = "none" THEN "absent"
  ELSE IF pc["child"] = "reaped" THEN "reaped"
  ELSE IF pc["child"] = "zombie" THEN "over"
  ELSE IF \E p \in Procs : pc[p] = "main" THEN "running"
  ELSE IF pc["prog"] \in {"zombie", "reaped"} THEN "ending"
  ELSE "setup"

LayersOf ==
  (IF ParentSetupDone THEN {"parent"} ELSE {}) \cup applied["child"] \cup applied["prog"]

Lifecycle == INSTANCE JailLifecycle WITH
  Layers <- Stages \cup {"parent"}, phase <- PhaseOf, layers <- LayersOf, result <- reply

\* A run of minijail is a run of the abstract life of a jail: protections only
\* grow, the program's first instruction finds all of them, and only one
\* minijail_wait() or minijail_kill() gets the status.
ImplementsLifecycle == Lifecycle!Spec

-----------------------------------------------------------------------------
(* What the refinement needs besides SetupInv. *)

Ended == {"main", "zombie", "reaped"}

\* No stage is in force before minijail_enter(), none in a process that init has
\* not forked yet, and a descendant comes from a program that has started.
OriginInv ==
  /\ pc["child"] \in Early \cup {"none", "userns", "std", "enter"} => applied["child"] = {}
  /\ pc["prog"] = "none" => applied["prog"] = {}
  /\ pc["desc"] # "none" => pc["child"] \in Ended \/ pc["prog"] \in Ended
=============================================================================

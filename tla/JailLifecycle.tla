--------------------------- MODULE JailLifecycle ---------------------------
(***************************************************************************)
(* What libminijail promises of one jailed command: protections are put in *)
(* force one after the other, the program starts only with all of them,    *)
(* none is ever taken back, and its end is reported exactly once.  Of a    *)
(* jail whose caller is gone it only promises that nothing is taken back.  *)
(***************************************************************************)
EXTENDS Integers

CONSTANT Layers   \* the protections that have to be in force

VARIABLES phase, layers, result

vars == <<phase, layers, result>>

Phases == {"absent", "setup", "running", "ending", "over", "reaped", "orphaned"}

Init ==
  /\ phase = "absent"
  /\ layers \in SUBSET Layers
  /\ result = -1

Create == phase = "absent" /\ phase' = "setup" /\ UNCHANGED <<layers, result>>

Protect ==
  /\ layers' \in SUBSET Layers
  /\ layers \subseteq layers'
  /\ UNCHANGED <<phase, result>>

\* The program's first instruction.
Start ==
  /\ phase = "setup"
  /\ phase' = "running"
  /\ layers' = Layers
  /\ UNCHANGED result

\* The program is gone but the init of its namespace still has to exit.
Drain ==
  /\ phase \in {"setup", "running"}
  /\ phase' = "ending"
  /\ UNCHANGED <<layers, result>>

End ==
  /\ phase \in {"setup", "running", "ending"}
  /\ phase' = "over"
  /\ UNCHANGED <<layers, result>>

\* The one wait that gets the status.
Reap ==
  /\ phase = "over"
  /\ phase' = "reaped"
  /\ result' \in 0..255
  /\ UNCHANGED layers

\* Any later call, or one without a jail, gets an error number.
Refuse ==
  /\ phase \in {"absent", "reaped"}
  /\ result' \in {-10, -3}
  /\ UNCHANGED <<phase, layers>>

\* The caller dies.
Orphan ==
  /\ phase' = "orphaned"
  /\ UNCHANGED <<layers, result>>

Next == Orphan \/ Create \/ Protect \/ Start \/ Drain \/ End \/ Reap \/ Refuse

Spec == Init /\ [][Next]_vars
=============================================================================

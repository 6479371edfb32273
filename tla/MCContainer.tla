---------------------------- MODULE MCContainer ----------------------------
(* Two names, one of them the empty one, two identifiers that are used     *)
(* again, two commands, and one thing that goes wrong: a failure, a kill,  *)
(* or a workspace that rm leaves in another directory.                     *)
EXTENDS Container, TLC

Symmetry == Permutations(Proc) \cup Permutations(Pid)

Bound == faults + Cardinality(strayed) <= 1
=============================================================================

----------------------------- MODULE MCReaders -----------------------------
(* Two names and identifiers, one command and one that reads.              *)
EXTENDS Readers, TLC

Symmetry == Permutations(Pid) \cup Permutations(Name)
=============================================================================

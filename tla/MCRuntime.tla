----------------------------- MODULE MCRuntime -----------------------------
(* Two names, two commands and two identifiers, which no process of the    *)
(* host takes, and commands that make or remove workspaces one after the   *)
(* other, in one directory: those are MCContainer's matter.  Disconnect    *)
(* overwrites the error of an exit status.  After a mishap only the type   *)
(* invariant says anything.                                                *)
EXTENDS Runtime, TLC

Symmetry == Permutations(Proc) \cup Permutations(Pid) \cup Permutations(Name)

Elsewhere == {"layers", "limit", "start", "uncgroup", "unlayer", "rmlayers"}
Bound ==
  /\ ~mishap /\ strayed = {}
  /\ \A i \in Pid : process[i] # Foreign /\ (Container(i) /\ ~Alive(i) => process[i].ok)
  /\ \A p, q \in Proc : p # q => ~(/\ call[p] # Idle /\ call[p].at \in Elsewhere
                                   /\ call[q] # Idle /\ call[q].at \in Elsewhere)
=============================================================================

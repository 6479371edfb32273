------------------------------ MODULE MCMounts ------------------------------
(* Up to three volumes of two directories, one with a mount below, on the  *)
(* root, on a directory and below it, and on the two paths that the init   *)
(* process uses or below.                                                  *)
EXTENDS Mounts

MCTarget == {<<>>, <<"a">>, <<"a", "b">>, PutOld, Append(PutOld, "b"), DevFS}
=============================================================================

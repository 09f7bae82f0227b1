---------------------------- MODULE MCForkServer ----------------------------
(* Small instances of ForkServer for TLC; the values are in the .cfg.      *)
EXTENDS ForkServer

Symmetry == Permutations(Clients)
=============================================================================

---------------------------- MODULE MCIterServer ----------------------------
(* Small instances of IterServer for TLC; the values are in the .cfg.      *)
EXTENDS IterServer
=============================================================================

--------------------------- MODULE MCSelectServer ---------------------------
(* Small instances of SelectServer for TLC; the values are in the .cfg.    *)
EXTENDS SelectServer

Symmetry == Permutations(Clients)
=============================================================================

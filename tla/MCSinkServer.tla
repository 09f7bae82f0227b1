---------------------------- MODULE MCSinkServer ----------------------------
(* Small instances of SinkServer for TLC; the values are in the .cfg.      *)
EXTENDS SinkServer
=============================================================================

---------------------------- MODULE MCPollServer ----------------------------
(* Small instances of PollServer for TLC; the values are in the .cfg.      *)
EXTENDS PollServer
=============================================================================

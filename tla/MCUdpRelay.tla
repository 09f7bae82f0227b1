----------------------------- MODULE MCUdpRelay -----------------------------
(* Small instances of UdpRelay for TLC; the values are in the .cfg.        *)
EXTENDS UdpRelay
=============================================================================

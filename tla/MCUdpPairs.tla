----------------------------- MODULE MCUdpPairs -----------------------------
(* Small instances of UdpPairs for TLC; the values are in the .cfg.        *)
EXTENDS UdpPairs
=============================================================================

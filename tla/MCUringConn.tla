----------------------------- MODULE MCUringConn -----------------------------
(* Instances of UringConn for TLC.                                         *)
EXTENDS UringConn
=============================================================================

--------------------------- MODULE MCUpstreamPool ---------------------------
(* Instances of UpstreamPool for TLC.                                      *)
EXTENDS UpstreamPool, TLC

\* Connections and venues are interchangeable.
Symmetric == Permutations(Conn) \cup Permutations(Venue)
=============================================================================

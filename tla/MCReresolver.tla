---------------------------- MODULE MCReresolver ----------------------------
(* Instances of Reresolver for TLC.                                        *)
EXTENDS Reresolver

CONSTANTS p, q

\* A name with two addresses, and one that never resolves.
Addresses == <<{p, q}, {}>>
=============================================================================

----------------------------- MODULE MCLifecycle -----------------------------
(* Instances of Lifecycle for TLC.                                         *)
EXTENDS Lifecycle, TLC

\* Clients are interchangeable.
Symmetric == Permutations(Client)
=============================================================================

---------------------------- MODULE MCEpollLoop ----------------------------
(* Instances of EpollLoop for TLC. *)
EXTENDS EpollLoop, TLC

\* Clients are interchangeable.
Symmetric == Permutations(Clients)
=============================================================================

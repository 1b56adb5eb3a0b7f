-------------------------- MODULE MCPortLifecycle --------------------------
(* PortLifecycle for TLC: ports and handles are interchangeable.           *)
EXTENDS PortLifecycle, TLC

Symmetry == Permutations(Ports) \cup Permutations(Handles)
=============================================================================

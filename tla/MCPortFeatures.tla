-------------------------- MODULE MCPortFeatures ---------------------------
(***************************************************************************)
(* PortFeatures for TLC.                                                   *)
(***************************************************************************)
EXTENDS PortFeatures

\* Sizes below, at and above whole pages of four bytes.
MCResources ==
    {[size |-> s, phys |-> p] : s \in {3, 4, 5, 9}, p \in {40, 80}}
============================================================================

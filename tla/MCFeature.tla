------------------------------ MODULE MCFeature ------------------------------
(* Instances of IptsFeature for TLC. *)
EXTENDS IptsFeature, TLC

CONSTANTS a, b

\* The tasks are interchangeable.
Symmetry == Permutations(Tasks)
=============================================================================

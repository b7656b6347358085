------------------------------- MODULE MCShmem -------------------------------
(* Instances of Shmem for TLC.                                             *)
EXTENDS Shmem, TLC

\* Writers are interchangeable, and so are keys.
Symmetry == Permutations(Writers) \cup Permutations(Keys)
=============================================================================

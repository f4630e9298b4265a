----------------------------- MODULE MCPublish -----------------------------
(* Instances of Publish for TLC. *)
EXTENDS Publish, TLC

Symmetry == Permutations(Procs)
=============================================================================

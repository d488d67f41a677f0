-------------------------- MODULE MCInstanceLifecycle --------------------------
(***************************************************************************)
(* Instances of InstanceLifecycle for TLC.                                 *)
(***************************************************************************)
EXTENDS InstanceLifecycle, TLC

CONSTANTS r1, r2

Symmetry == Permutations({r1, r2})
==============================================================================

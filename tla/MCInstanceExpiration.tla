------------------------- MODULE MCInstanceExpiration -------------------------
(***************************************************************************)
(* Instances of InstanceExpiration for TLC.                                *)
(***************************************************************************)
EXTENDS InstanceExpiration

CONSTANTS i1, u1
==============================================================================

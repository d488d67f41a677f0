----------------------- MODULE MCInstanceActionManager -----------------------
(***************************************************************************)
(* Instances of InstanceActionManager for TLC.                             *)
(***************************************************************************)
EXTENDS InstanceActionManager, TLC

CONSTANTS i1, i2, w1, w2

Symmetry == Permutations({w1, w2})

MCCommand(id, i, type, origin) ==
    [id |-> id, instance |-> i, actionType |-> type, origin |-> origin]

\* A user and the delete job delete the instance i1, and the state job asks for
\* its state.
SameInstance ==
    {MCCommand(1, i1, "DELETE", "user"), MCCommand(2, i1, "DELETE", "deleteJob"),
     MCCommand(3, i1, "STATE", "system")}

\* The state job asks for the state of i2 too.
MixedCommands == SameInstance \cup {MCCommand(4, i2, "STATE", "system")}
==============================================================================

---------------------------- MODULE MCDesktopAccess ----------------------------
(***************************************************************************)
(* Instances of DesktopAccess for TLC: one client of the owner, and two of *)
(* support staff, one of them on the server of the owner.                  *)
(***************************************************************************)
EXTENDS DesktopAccess

CONSTANTS owner, near, far, s1, s2

Home == [c \in Client |-> IF c = far THEN s2 ELSE s1]
UserOf == [c \in Client |-> IF c = owner THEN "owner" ELSE IF c = near THEN "near" ELSE "far"]
RoleOf == [c \in Client |-> IF c = owner THEN "OWNER" ELSE "SUPPORT"]
Place == [c \in Client |-> IF c = owner THEN 0 ELSE 1]
==============================================================================

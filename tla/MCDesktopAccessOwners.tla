------------------------- MODULE MCDesktopAccessOwners -------------------------
(***************************************************************************)
(* Instances of DesktopAccess for TLC with two clients of the owner, for   *)
(* instance two windows, and one of support staff, each on a server of its *)
(* own, so that both owners are shown the request and may answer.          *)
(***************************************************************************)
EXTENDS DesktopAccess

CONSTANTS owner1, owner2, staff, s1, s2, s3

Owners == {owner1, owner2}
Apart == [c \in Client |-> IF c = owner1 THEN s1 ELSE IF c = owner2 THEN s2 ELSE s3]
UserOf == [c \in Client |-> IF c \in Owners THEN "owner" ELSE "staff"]
RoleOf == [c \in Client |-> IF c \in Owners THEN "OWNER" ELSE "SUPPORT"]
Place == [c \in Client |-> IF c = owner2 THEN 0 ELSE 1]
==============================================================================

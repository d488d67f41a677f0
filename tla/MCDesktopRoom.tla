----------------------------- MODULE MCDesktopRoom -----------------------------
(***************************************************************************)
(* Instances of DesktopRoom for TLC: the owner comes twice, on different   *)
(* servers, for instance because the page is loaded again.                 *)
(***************************************************************************)
EXTENDS DesktopRoom

CONSTANTS owner1, owner2, user, s1, s2

Owners == {owner1, owner2}
Home == [c \in Client |-> IF c = owner1 THEN s1 ELSE s2]
UserOf == [c \in Client |-> IF c \in Owners THEN "owner" ELSE "other"]
RoleOf == [c \in Client |-> IF c \in Owners THEN "OWNER" ELSE "USER"]
==============================================================================

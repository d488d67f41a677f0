-------------------------- MODULE DesktopAccessRequest --------------------------
(***************************************************************************)
(* What the remote desktop promises to a member of support staff who asks  *)
(* the owner of a desktop for access, without servers, events, tokens and  *)
(* threads: it waits until one answer settles its request; the role which  *)
(* that answer grants is the only one it ever gets, and only those who are *)
(* still waiting get one.  It may leave, and a server may fail, at any     *)
(* moment; a role is given back once.                                      *)
(***************************************************************************)
CONSTANT Candidate   \* the clients of support staff, each asking once

VARIABLES
    place,      \* where each candidate is
    given,      \* the role it is being connected, or is connected, with
    answers     \* what the clients of the owner have answered

requestVars == <<place, given, answers>>

Init ==
    /\ place = [c \in Candidate |-> "away"]
    /\ given = [c \in Candidate |-> "NONE"]
    /\ answers = [c \in Candidate |-> {}]

\* What an answer grants to support staff that must ask.
RoleFor(r) == IF r = "SUPPORT" THEN "USER" ELSE r

\* Whoever finds nobody of the owner is turned away.
Ask(c) ==
    /\ place[c] = "away"
    /\ \E p \in {"waiting", "settled"} : place' = [place EXCEPT ![c] = p]
    /\ UNCHANGED <<given, answers>>

\* An answer that is still to reach the candidate, or that comes too late.
Answer(c, r) ==
    /\ place[c] # "away"
    /\ answers' = [answers EXCEPT ![c] = @ \cup {r}]
    /\ UNCHANGED <<place, given>>

Settle(c, r) ==
    /\ place[c] = "waiting" /\ given[c] = "NONE"
    /\ place' = [place EXCEPT ![c] = "settled"]
    /\ given' = [given EXCEPT ![c] = RoleFor(r)]
    /\ answers' = [answers EXCEPT ![c] = @ \cup {r}]

Leave(c) ==
    /\ place[c] \in {"waiting", "settled"}
    /\ place' = [place EXCEPT ![c] = "gone"]
    /\ UNCHANGED <<given, answers>>

Release(c) ==
    /\ given' = [given EXCEPT ![c] = "NONE"]
    /\ UNCHANGED <<place, answers>>

\* The server of some candidates restarts.
Fail(lost) ==
    /\ place' = [c \in Candidate |->
                   IF c \in lost /\ place[c] # "away" THEN "gone" ELSE place[c]]
    /\ given' = [c \in Candidate |-> IF c \in lost THEN "NONE" ELSE given[c]]
    /\ UNCHANGED answers

Next ==
    \/ \E c \in Candidate : Ask(c) \/ Leave(c) \/ Release(c)
    \/ \E c \in Candidate, r \in {"GUEST", "SUPPORT", "NONE"} : Answer(c, r) \/ Settle(c, r)
    \/ \E lost \in SUBSET Candidate : Fail(lost)

Spec == Init /\ [][Next]_requestVars
==============================================================================

------------------------- MODULE InstanceActionQueue -------------------------
(***************************************************************************)
(* What InstanceActionManager promises to the rest of VISA, without its    *)
(* threads, its pool and its database writes: every instance has a queue   *)
(* of commands of its own, at most one command of each type waits in it,   *)
(* and a single server takes the commands of one instance one at a time in *)
(* the order in which they were accepted.  A restart of the server forgets *)
(* every queue.                                                            *)
(***************************************************************************)
EXTENDS Sequences

CONSTANTS
    Instance,   \* virtual machines, identified as Instance.equals does (by id)
    Command     \* commands, with the fields instance and actionType

VARIABLES
    queue,      \* [Instance -> Seq(Command)], the head is next or being served
    serving     \* the instances whose head is being served

abstractVars == <<queue, serving>>

Init ==
    /\ queue = [i \in Instance |-> <<>>]
    /\ serving = {}

Accept(c) ==
    /\ \A k \in DOMAIN queue[c.instance] :
          queue[c.instance][k].actionType # c.actionType
    /\ queue' = [queue EXCEPT ![c.instance] = Append(@, c)]
    /\ UNCHANGED serving

Begin(i) ==
    /\ queue[i] # <<>>
    /\ i \notin serving
    /\ serving' = serving \cup {i}
    /\ UNCHANGED queue

End(i) ==
    /\ i \in serving
    /\ serving' = serving \ {i}
    /\ queue' = [queue EXCEPT ![i] = Tail(@)]

Forget ==
    /\ queue' = [i \in Instance |-> <<>>]
    /\ serving' = {}

Next ==
    \/ \E c \in Command : Accept(c)
    \/ \E i \in Instance : Begin(i) \/ End(i)
    \/ Forget

Spec == Init /\ [][Next]_abstractVars
==============================================================================

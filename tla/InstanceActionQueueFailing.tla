---------------------- MODULE InstanceActionQueueFailing ----------------------
(***************************************************************************)
(* What is left of the promise of InstanceActionQueue when the database    *)
(* may refuse the saves of a command: an instance may get stuck.  The      *)
(* commands of a stuck instance are still accepted, none of them is begun  *)
(* any more, its head is never replaced, and only a restart of the server, *)
(* which forgets every queue, ends this.  The other instances are served   *)
(* as before.                                                              *)
(***************************************************************************)
EXTENDS InstanceActionQueue

VARIABLE stuck   \* the instances whose queue is not served any more

failingVars == <<abstractVars, stuck>>

FailingInit == Init /\ stuck = {}

\* The command is accepted as it should be, also behind a head that is stuck.
AcceptInOrder(c) == Accept(c) /\ UNCHANGED stuck

\* The command is accepted by an idle instance, and not handed to a server.
AcceptStuck(c) ==
    /\ queue[c.instance] = <<>>
    /\ Accept(c)
    /\ stuck' = stuck \cup {c.instance}

BeginUnstuck(i) == i \notin stuck /\ Begin(i) /\ UNCHANGED stuck

EndUnstuck(i) == i \notin stuck /\ End(i) /\ UNCHANGED stuck

\* The server lets go of the head, begun or not, which stays where it is.
Abandon(i) ==
    /\ queue[i] # <<>>
    /\ i \notin stuck
    /\ stuck' = stuck \cup {i}
    /\ serving' = serving \ {i}
    /\ UNCHANGED queue

ForgetAll == Forget /\ stuck' = {}

FailingNext ==
    \/ \E c \in Command : AcceptInOrder(c) \/ AcceptStuck(c)
    \/ \E i \in Instance : BeginUnstuck(i) \/ EndUnstuck(i) \/ Abandon(i)
    \/ ForgetAll

FailingSpec == FailingInit /\ [][FailingNext]_failingVars
==============================================================================

--------------------------- MODULE InstanceExpiryPolicy ---------------------------
(***************************************************************************)
(* What the expiration of instances promises to the owner of an instance,  *)
(* without rows, transactions, entities, queues and workers: a machine is  *)
(* destroyed only when its owner has asked for it, or when its expiration  *)
(* had been announced and the announced date was reached at the moment     *)
(* the job condemned it; the job forgets an announcement it has acted upon *)
(* only if the machine is gone or has been shelved by somebody else.       *)
(***************************************************************************)
EXTENDS Naturals

CONSTANTS Instance, None

VARIABLES
    machine,     \* whether the machine of each instance is gone or has been shelved
    notice,      \* the announced date of each instance, or None
    condemned,   \* the instances that the running execution of the job deletes
    asked,       \* the instances that users are deleting
    now

policyVars == <<machine, notice, condemned, asked, now>>

Init ==
    /\ machine \in [Instance -> {"running", "gone"}]
    /\ notice = [i \in Instance |-> None]
    /\ condemned = {} /\ asked = {}
    /\ now = 1

TimePasses == now' \in {now, now + 1}

Tick == TimePasses /\ UNCHANGED <<machine, notice, condemned, asked>>

\* Dates are announced to instances that have none.
Announce(list) ==
    /\ notice' = [i \in Instance |->
                    IF i \in list /\ notice[i] = None THEN notice'[i] ELSE notice[i]]
    /\ \A i \in list : notice'[i] \in Nat
    /\ condemned = {}
    /\ TimePasses
    /\ UNCHANGED <<machine, condemned, asked>>

\* Activity, an extension, or a life without an end.
Withdraw(list) ==
    /\ notice' = [i \in Instance |-> IF i \in list THEN None ELSE notice[i]]
    /\ UNCHANGED <<machine, condemned, asked, now>>

Condemn ==
    /\ condemned = {}
    /\ condemned' = {i \in Instance : notice[i] # None /\ notice[i] <= now}
    /\ UNCHANGED <<machine, notice, asked, now>>

Destroy(i) ==
    /\ i \in condemned \cup asked
    /\ machine' = [machine EXCEPT ![i] = "gone"]
    /\ UNCHANGED <<notice, condemned, asked, now>>

Shelve(i) ==
    /\ machine[i] = "running"
    /\ machine' = [machine EXCEPT ![i] = "shelved"]
    /\ UNCHANGED <<notice, condemned, asked, now>>

EndExecution(done) ==
    /\ \A i \in done : i \in condemned /\ machine[i] # "running"
    /\ notice' = [i \in Instance |-> IF i \in done THEN None ELSE notice[i]]
    /\ condemned' = {}
    /\ UNCHANGED <<machine, asked, now>>

AskToDelete(i) == asked' = asked \cup {i} /\ UNCHANGED <<machine, notice, condemned, now>>

EndDelete(i) == asked' = asked \ {i} /\ UNCHANGED <<machine, notice, condemned, now>>

Restart == condemned' = {} /\ asked' = {} /\ UNCHANGED <<machine, notice, now>>

Next ==
    \/ Tick \/ Condemn \/ Restart
    \/ \E i \in Instance : Destroy(i) \/ Shelve(i) \/ AskToDelete(i) \/ EndDelete(i)
    \/ \E list \in SUBSET Instance : Announce(list) \/ Withdraw(list) \/ EndExecution(list)

Spec == Init /\ [][Next]_policyVars
==============================================================================

-------------------------- MODULE InstanceExpiration --------------------------
(***************************************************************************)
(* The expiration of instances: the dates of an instance, the rows of the  *)
(* table instance_expiration, InstanceLifecycleJob that creates, withdraws *)
(* and executes them, and the requests that change what the job has read.  *)
(*                                                                         *)
(* Each of the four services called by the job is one transaction: it      *)
(* reads a list in one step and commits in a later one.  deleteAllExpired  *)
(* waits in between for the workers that delete the instances; its         *)
(* entities are written at its commit, all columns of every entity whose   *)
(* state has changed.  A transaction cannot delete a row of                *)
(* instance_expiration that has vanished: its commit fails, and with it    *)
(* the execution of the job.                                               *)
(*                                                                         *)
(* Dates are numbers; no two events that take the date take the same one.  *)
(***************************************************************************)
EXTENDS Naturals

CONSTANTS
    Instance,
    User,            \* threads that serve requests
    None,            \* null
    MaxInactivity,   \* getUserMaxInactivityDurationHours
    WarnInactivity,  \* HOURS_BEFORE_EXPIRATION_INACTIVITY
    WarnLifetime,    \* HOURS_BEFORE_EXPIRATION_LIFETIME
    Lifetime,        \* getUserMaxLifetimeDurationHours
    LastRequest,     \* bound on the date of what users do
    LastDate,        \* bound on the date
    MaxRequests,     \* bound on the requests of users
    MaxFaults,       \* bound on the failures of the cloud
    MaxCrashes       \* bound on the number of restarts of the server

ASSUME DurationAssumption ==
    /\ {MaxInactivity, WarnInactivity, WarnLifetime, Lifetime} \subseteq Nat
    /\ WarnInactivity <= MaxInactivity
ASSUME BoundAssumption == {LastRequest, LastDate, MaxRequests, MaxFaults, MaxCrashes} \subseteq Nat

VARIABLES
    row,         \* the rows of instance
    machine,     \* the machine in the cloud
    expiration,  \* the rows of instance_expiration, at most one per instance
    deletion,    \* the DELETE command in the queue of each instance
    stage,       \* the service that InstanceLifecycleJob calls, or calls next
    listed,      \* what the open transaction of the job has still to handle
    loaded,      \* the rows as this transaction has read them
    entity,      \* its entities, written at its commit
    removed,     \* the expirations it will delete
    awaited,     \* the instance whose deletion it is waiting for
    outcome,     \* how this deletion has ended
    request,     \* what each thread is doing for a user
    now,         \* the date
    requests, faults, crashes

jobVars == <<stage, listed, loaded, entity, removed, awaited, outcome>>
boundVars == <<requests, faults, crashes>>
vars == <<row, machine, expiration, deletion, jobVars, request, now, boundVars>>

Date == Nat

\* "ACTIVE" stands for every state that does not tell of a deletion.
Row == [state : {"ACTIVE", "DELETING", "DELETED"}, computeId : BOOLEAN,
        lastSeenAt : Date, terminationDate : Date \cup {None}, deleted : BOOLEAN]

Expiration == [expirationDate : Date, createdAt : Date]

\* A deletion is a command of the job, which then refers to its entity, or of
\* somebody else.
Deletion == [by : {"job", "user"}, pc : {"queued", "read"}, copy : {None}]
            \cup [by : {"job", "user"}, pc : {"save"}, copy : Row]
            \cup [by : {"job", "user"}, pc : {"done", "failed"}, copy : {None}]

\* "gone" stands for a machine that was never created as well, "shelved" for every
\* status of OpenStack that convertStatus takes for a deletion, "back" for a machine
\* that is no longer in one, "running" for a machine that never was.
Machine == {"running", "shelved", "back", "gone"}

Outcome == {"deleted", "kept", "failed"}

Stage == {"withdraw", "inactive", "terminating", "expired"}

ASSUME NoneAssumption ==
    None \notin Instance \cup Date \cup Row \cup Expiration \cup Deletion \cup Outcome

Idle == [pc |-> "idle"]
Busy == [pc : {"display", "visit", "connect", "activate", "extend", "delete", "command"},
         instance : Instance, copy : Row]

TypeOK ==
    /\ row \in [Instance -> Row]
    /\ machine \in [Instance -> Machine]
    /\ expiration \in [Instance -> Expiration \cup {None}]
    /\ deletion \in [Instance -> Deletion \cup {None}]
    /\ stage \in Stage
    /\ listed \subseteq Instance
    /\ loaded \in [Instance -> Row \cup {None}]
    /\ entity \in [Instance -> Row \cup {None}]
    /\ removed \subseteq Instance
    /\ awaited \in Instance \cup {None}
    /\ outcome \in Outcome \cup {None}
    /\ request \in [User -> Busy \cup {Idle}]
    /\ now \in Date
    /\ requests \in Nat /\ faults \in Nat /\ crashes \in Nat

NotLoaded == [i \in Instance |-> None]

\* The instances have been created by a request, and their machines too unless
\* the cloud has refused.
Init ==
    /\ machine \in [Instance -> {"running", "gone"}]
    /\ row = [i \in Instance |->
                [state |-> "ACTIVE", computeId |-> machine[i] = "running", lastSeenAt |-> 0,
                 terminationDate |-> Lifetime, deleted |-> FALSE]]
    /\ expiration = [i \in Instance |-> None]
    /\ deletion = [i \in Instance |-> None]
    /\ stage = "withdraw"
    /\ listed = {} /\ removed = {}
    /\ loaded = NotLoaded /\ entity = NotLoaded
    /\ awaited = None /\ outcome = None
    /\ request = [u \in User |-> Idle]
    /\ now = 1
    /\ requests = 0 /\ faults = 0 /\ crashes = 0

------------------------------------------------------------------------------
(* Time.  Taking the date makes the next one different. *)

DateTaken == now' = IF now < LastDate THEN now + 1 ELSE now

Tick ==
    /\ now < LastDate
    /\ now' = now + 1
    /\ UNCHANGED <<row, machine, expiration, deletion, jobVars, request, boundVars>>

------------------------------------------------------------------------------
(* Requests.  The row is read when the request arrives, and saved with all     *)
(* its columns by a later transaction.  The operators marked "Faulty" are      *)
(* variants of the definition that follows them; no specification uses them. *)

Kind == {"display", "visit", "connect", "extend", "delete"}

\* What the users and administrators do: display data of a desktop, a visit to
\* Jupyter, a connection to a desktop, an extension, a deletion.
Receive(u, i, kind) ==
    /\ requests < MaxRequests
    /\ requests' = requests + 1
    /\ request[u] = Idle
    /\ ~row[i].deleted
    /\ request' = [request EXCEPT ![u] =
                     [pc |-> kind, instance |-> i, copy |-> row[i]]]
    /\ UNCHANGED <<row, machine, expiration, deletion, jobVars, now, faults, crashes>>

Doing(u, pc) == request[u] # Idle /\ request[u].pc = pc

Proceed(u, pc) == request' = [request EXCEPT ![u].pc = pc]
Finish(u) == request' = [request EXCEPT ![u] = Idle]

Seen(r) == [r EXCEPT !.lastSeenAt = now]

\* The copy is saved with a new lastSeenAt.
UpdateLastSeenAt(u) ==
    LET i == request[u].instance
    IN  /\ Doing(u, "display") \/ Doing(u, "visit")
        /\ now < LastRequest
        /\ row' = [row EXCEPT ![i] = Seen(request[u].copy)]
        /\ DateTaken
        /\ IF request[u].pc = "visit" THEN Proceed(u, "activate") ELSE Finish(u)
        /\ UNCHANGED <<machine, expiration, deletion, jobVars, boundVars>>

\* An expiration is due to inactivity when the instance would live longer.
DueToInactivity(r, e) == r.terminationDate = None \/ r.terminationDate > e.expirationDate

\* onInstanceActivated
OnInstanceActivated(u) ==
    LET i == request[u].instance
        e == expiration[i]
    IN  /\ Doing(u, "connect") \/ Doing(u, "activate")
        /\ expiration' = IF e # None /\ DueToInactivity(request[u].copy, e)
                         THEN [expiration EXCEPT ![i] = None] ELSE expiration
        /\ Finish(u)
        /\ UNCHANGED <<row, machine, deletion, jobVars, now, boundVars>>

\* An instance is made immortal or gets a later date.
ExtensionDate == {None, now + WarnLifetime + 1}

\* grantExtension: one transaction.
GrantExtension(u) ==
    LET i == request[u].instance
    IN  /\ Doing(u, "extend")
        /\ now < LastRequest
        /\ \E date \in ExtensionDate :
              row' = [row EXCEPT ![i] = [request[u].copy EXCEPT !.terminationDate = date]]
        /\ expiration' = [expiration EXCEPT ![i] = None]
        /\ Finish(u)
        /\ UNCHANGED <<machine, deletion, jobVars, now, boundVars>>

InState(r, s) == [r EXCEPT !.state = s]

\* A user deletes the instance: the row is saved DELETING, and a command is
\* created, which InstanceCommandExecutorJob gives to the queue.
SaveDeleting(u) ==
    LET i == request[u].instance
    IN  /\ Doing(u, "delete")
        /\ row' = [row EXCEPT ![i] = InState(request[u].copy, "DELETING")]
        /\ Proceed(u, "command")
        /\ UNCHANGED <<machine, expiration, deletion, jobVars, now, boundVars>>

\* Commands of the same type are merged.
Queued(i, by) ==
    deletion' = IF deletion[i] = None
                THEN [deletion EXCEPT ![i] = [by |-> by, pc |-> "queued", copy |-> None]]
                ELSE deletion

QueueDeletion(u) ==
    /\ Doing(u, "command")
    /\ Queued(request[u].instance, "user")
    /\ Finish(u)
    /\ UNCHANGED <<row, machine, expiration, jobVars, now, boundVars>>

RequestStep(u) ==
    UpdateLastSeenAt(u) \/ OnInstanceActivated(u) \/ GrantExtension(u) \/ SaveDeleting(u)
    \/ QueueDeletion(u)

------------------------------------------------------------------------------
(* The workers: DeleteInstanceAction, and what the state job does to the rows *)

SetDeletion(i, pc) == deletion' = [deletion EXCEPT ![i].pc = pc]

At(i, pc) == deletion[i] # None /\ deletion[i].pc = pc

CloudFault == faults < MaxFaults /\ faults' = faults + 1 /\ UNCHANGED <<requests, crashes>>

Without(i) == [machine EXCEPT ![i] = "gone"]

\* Somebody shelves the machine without VISA, and takes it from the shelf again.
Shelve(i) ==
    /\ machine[i] \in {"running", "back"}
    /\ CloudFault
    /\ machine' = [machine EXCEPT ![i] = "shelved"]
    /\ UNCHANGED <<row, expiration, deletion, jobVars, request, now>>

Unshelve(i) ==
    /\ machine[i] = "shelved"
    /\ machine' = [machine EXCEPT ![i] = "back"]
    /\ UNCHANGED <<row, expiration, deletion, jobVars, request, now, boundVars>>

\* The row is read: nothing is done for one that is already deleted.  The cloud
\* deletes the machine, or its provider is not known, or its call fails, before or
\* after it had its effect.
RunDelete(i) ==
    /\ At(i, "queued")
    /\ \/ /\ UNCHANGED boundVars
          /\ SetDeletion(i, IF row[i].deleted THEN "done" ELSE "read")
          /\ machine' = IF row[i].deleted THEN machine ELSE Without(i)
       \/ /\ ~row[i].deleted
          /\ CloudFault
          /\ \/ SetDeletion(i, "done") /\ UNCHANGED machine
             \/ SetDeletion(i, "failed") /\ machine' \in {machine, Without(i)}
    /\ UNCHANGED <<row, expiration, jobVars, request, now>>

Deleted(r) == [r EXCEPT !.state = "DELETED", !.deleted = TRUE]

\* updateInstanceState changes the instance of the command, which is the entity
\* of the job for a command of the job, and reads the row again.
UpdateInstanceState(i) ==
    /\ At(i, "read")
    /\ entity' = IF deletion[i].by = "job"
                 THEN [entity EXCEPT ![i] = InState(@, "DELETED")] ELSE entity
    /\ deletion' = [deletion EXCEPT ![i] =
            IF row[i].deleted THEN [@ EXCEPT !.pc = "done"]
            ELSE [@ EXCEPT !.pc = "save", !.copy = Deleted(row[i])]]
    /\ UNCHANGED <<row, machine, expiration, stage, listed, loaded, removed, awaited, outcome,
                   request, now, boundVars>>

\* Faulty: the thread keeps the copy that it has saved.
SaveDeletedKeepingCopy(i) ==
    /\ At(i, "save")
    /\ row' = [row EXCEPT ![i] = deletion[i].copy]
    /\ SetDeletion(i, "done")
    /\ UNCHANGED <<machine, expiration, jobVars, request, now, boundVars>>

SaveDeleted(i) ==
    /\ At(i, "save")
    /\ row' = [row EXCEPT ![i] = deletion[i].copy]
    /\ deletion' = [deletion EXCEPT ![i] = [@ EXCEPT !.pc = "done", !.copy = None]]
    /\ UNCHANGED <<machine, expiration, jobVars, request, now, boundVars>>

\* Faulty: only a command of the job answers the job.
EndOwnDelete(i) ==
    /\ At(i, "done") \/ At(i, "failed")
    /\ outcome' = IF awaited # i \/ deletion[i].by # "job" THEN outcome
                  ELSE IF At(i, "failed") THEN "failed"
                  ELSE IF row[i].deleted THEN "deleted" ELSE "kept"
    /\ deletion' = [deletion EXCEPT ![i] = None]
    /\ UNCHANGED <<row, machine, expiration, stage, listed, loaded, entity, removed, awaited,
                   request, now, boundVars>>

\* The command leaves the queue, and the future answers with the instance as it
\* is read then, none when it is deleted, or with the exception.
EndDelete(i) ==
    /\ At(i, "done") \/ At(i, "failed")
    /\ outcome' = IF awaited # i THEN outcome
                  ELSE IF At(i, "failed") THEN "failed"
                  ELSE IF row[i].deleted THEN "deleted" ELSE "kept"
    /\ deletion' = [deletion EXCEPT ![i] = None]
    /\ UNCHANGED <<row, machine, expiration, stage, listed, loaded, entity, removed, awaited,
                   request, now, boundVars>>

WorkerStep(i) == RunDelete(i) \/ UpdateInstanceState(i) \/ SaveDeleted(i) \/ EndDelete(i)

\* Faulty: the instances in state DELETED are left out, without being saved.
FilterDeleted(i) ==
    /\ ~row[i].deleted /\ row[i].state = "DELETED"
    /\ UNCHANGED vars

\* InstanceStateJob dates the deletion of a row whose state is DELETED.
DateDeletion(i) ==
    /\ ~row[i].deleted /\ row[i].state = "DELETED"
    /\ row' = [row EXCEPT ![i] = Deleted(@)]
    /\ UNCHANGED <<machine, expiration, deletion, jobVars, request, now, boundVars>>

\* Its STATE command is run by the queue for the other rows with a machine.
StateIsAsked(i) ==
    /\ ~row[i].deleted /\ row[i].state # "DELETED" /\ row[i].computeId
    /\ deletion[i] = None

\* The cloud does not find the machine, or reports it as deleted.
FindDeleted(i) ==
    /\ StateIsAsked(i)
    /\ machine[i] \in {"shelved", "gone"}
    /\ row' = [row EXCEPT ![i] = Deleted(@)]
    /\ UNCHANGED <<machine, expiration, deletion, jobVars, request, now, boundVars>>

\* A machine that the cloud may report in another state than ACTIVE, which is
\* ignored while the row says DELETING.
CorrectDeleting(i) ==
    /\ StateIsAsked(i)
    /\ machine[i] \in {"running", "back"} /\ row[i].state = "DELETING"
    /\ row' = [row EXCEPT ![i] = InState(@, "ACTIVE")]
    /\ UNCHANGED <<machine, expiration, deletion, jobVars, request, now, boundVars>>

UpdateState(i) == DateDeletion(i) \/ FindDeleted(i) \/ CorrectDeleting(i)

------------------------------------------------------------------------------
(* InstanceLifecycleJob.execute *)

InTransaction == loaded # NotLoaded

NextStage ==
    [withdraw |-> "inactive", inactive |-> "terminating", terminating |-> "expired",
     expired |-> "withdraw"]

\* A transaction that has found nothing to do ends at once.
Begin(s, list) ==
    /\ stage = s /\ ~InTransaction
    /\ IF list = {}
       THEN stage' = NextStage[s] /\ UNCHANGED <<listed, loaded, entity>>
       ELSE /\ listed' = list
            /\ loaded' = [i \in Instance |-> IF i \in list THEN row[i] ELSE None]
            /\ entity' = loaded'
            /\ UNCHANGED stage
    /\ UNCHANGED <<row, machine, expiration, deletion, removed, awaited, outcome, request, now,
                   boundVars>>

\* What the commit or the rollback of a transaction leaves of it.  After an
\* exception the job is over, and starts again at its next trigger.
Close(next) ==
    /\ stage' = next
    /\ listed' = {} /\ removed' = {}
    /\ loaded' = NotLoaded /\ entity' = NotLoaded
    /\ awaited' = None /\ outcome' = None

InCommit(s) == stage = s /\ InTransaction

\* Faulty: an immortal instance keeps its expiration.
WithdrawnIfMortal(r, e) ==
    r.terminationDate # None /\ DueToInactivity(r, e) /\ r.lastSeenAt > e.createdAt

\* removeExpirationForAllActiveInstances: the instance is seen again, or has
\* become immortal.
Withdrawn(r, e) ==
    IF r.terminationDate = None THEN TRUE
    ELSE DueToInactivity(r, e) /\ r.lastSeenAt > e.createdAt

BeginWithdraw ==
    Begin("withdraw", {i \in Instance : expiration[i] # None /\ Withdrawn(row[i], expiration[i])})

CommitWithdraw ==
    /\ InCommit("withdraw")
    /\ IF \E i \in listed : expiration[i] = None
       THEN UNCHANGED expiration /\ Close("withdraw")
       ELSE /\ expiration' = [i \in Instance |-> IF i \in listed THEN None ELSE expiration[i]]
            /\ Close("inactive")
    /\ UNCHANGED <<row, machine, deletion, request, now, boundVars>>

\* Faulty: the queries leave out an instance that is announced to be deleted.
MortalAndActive(i) ==
    ~row[i].deleted /\ row[i].terminationDate # None /\ row[i].state = "ACTIVE"

\* getAllNewInactive and getAllNewTerminations
Mortal(i) == ~row[i].deleted /\ row[i].terminationDate # None

NewInactive(i) ==
    /\ Mortal(i) /\ expiration[i] = None
    /\ row[i].lastSeenAt + (MaxInactivity - WarnInactivity) < now

NewTermination(i) ==
    /\ Mortal(i) /\ expiration[i] = None
    /\ row[i].terminationDate < now + WarnLifetime

BeginInactive == Begin("inactive", {i \in Instance : NewInactive(i)})
BeginTerminating == Begin("terminating", {i \in Instance : NewTermination(i)})

\* create, for every instance of the list, from the entities of the transaction.
Create(date) ==
    /\ expiration' =
          [i \in Instance |->
              IF i \in listed /\ expiration[i] = None
              THEN [expirationDate |-> date[i], createdAt |-> now]
              ELSE expiration[i]]
    /\ DateTaken
    /\ UNCHANGED <<row, machine, deletion, request, boundVars>>

CommitInactive ==
    /\ InCommit("inactive")
    /\ Create([i \in listed |-> entity[i].lastSeenAt + MaxInactivity])
    /\ Close("terminating")

CommitTerminating ==
    /\ InCommit("terminating")
    /\ Create([i \in listed |-> entity[i].terminationDate])
    /\ Close("expired")

\* Faulty: the expirations that are announced are listed with those that are due.
BeginAnnounced == Begin("expired", {i \in Instance : expiration[i] # None})

\* deleteAllExpired
BeginExpired ==
    Begin("expired", {i \in Instance : expiration[i] # None /\ expiration[i].expirationDate <= now})

\* The next instance of the list: its deletion is queued and awaited, unless it
\* was deleted when the list was read.
DeleteExpired(i) ==
    /\ InCommit("expired") /\ awaited = None
    /\ i \in listed
    /\ listed' = listed \ {i}
    /\ IF loaded[i].deleted
       THEN /\ removed' = removed \cup {i}
            /\ UNCHANGED <<deletion, entity, awaited>>
       ELSE /\ entity' = [entity EXCEPT ![i] = InState(@, "DELETING")]
            /\ Queued(i, "job")
            /\ awaited' = i
            /\ UNCHANGED removed
    /\ UNCHANGED <<row, machine, expiration, stage, loaded, outcome, request, now, boundVars>>

\* Faulty: the expiration is dropped whatever became of the deletion.
ConcludeAlways ==
    /\ awaited # None /\ outcome # None
    /\ removed' = removed \cup {awaited}
    /\ entity' = IF outcome = "failed"
                 THEN [entity EXCEPT ![awaited] = InState(@, loaded[awaited].state)] ELSE entity
    /\ awaited' = None /\ outcome' = None
    /\ UNCHANGED <<row, machine, expiration, deletion, stage, listed, loaded, request, now,
                   boundVars>>

\* The expiration of an instance that is still there is kept for the next run,
\* and after an exception its previous state is put back.
Conclude ==
    /\ awaited # None /\ outcome # None
    /\ removed' = IF outcome = "deleted" THEN removed \cup {awaited} ELSE removed
    /\ entity' = IF outcome = "failed"
                 THEN [entity EXCEPT ![awaited] = InState(@, loaded[awaited].state)] ELSE entity
    /\ awaited' = None /\ outcome' = None
    /\ UNCHANGED <<row, machine, expiration, deletion, stage, listed, loaded, request, now,
                   boundVars>>

\* Every entity whose state has changed is written, with all its columns.
Written == [i \in Instance |-> IF entity[i] # loaded[i] THEN entity[i] ELSE row[i]]

CommitExpired ==
    /\ InCommit("expired") /\ listed = {} /\ awaited = None
    /\ IF \E i \in removed : expiration[i] = None
       THEN UNCHANGED <<row, expiration>>
       ELSE /\ row' = Written
            /\ expiration' = [i \in Instance |-> IF i \in removed THEN None ELSE expiration[i]]
    /\ Close("withdraw")
    /\ UNCHANGED <<machine, deletion, request, now, boundVars>>

BetweenExecutions == stage = "withdraw" /\ ~InTransaction

JobStep ==
    \/ BeginWithdraw \/ CommitWithdraw
    \/ BeginInactive \/ CommitInactive
    \/ BeginTerminating \/ CommitTerminating
    \/ BeginExpired \/ (\E i \in Instance : DeleteExpired(i)) \/ Conclude \/ CommitExpired

\* The server stops and starts again: transactions are rolled back, the queue is
\* lost.
Restart ==
    /\ crashes < MaxCrashes
    /\ crashes' = crashes + 1
    /\ deletion' = [i \in Instance |-> None]
    /\ request' = [u \in User |-> Idle]
    /\ Close("withdraw")
    /\ UNCHANGED <<row, machine, expiration, now, requests, faults>>

------------------------------------------------------------------------------

Next ==
    \/ Tick
    \/ \E u \in User : RequestStep(u) \/ \E i \in Instance, k \in Kind : Receive(u, i, k)
    \/ \E i \in Instance : WorkerStep(i) \/ UpdateState(i) \/ Shelve(i) \/ Unshelve(i)
    \/ JobStep
    \/ Restart

Spec == Init /\ [][Next]_vars

\* Time passes, and threads and workers make progress.  InstanceStateJob runs
\* every five seconds, so that it also runs between two executions of
\* InstanceLifecycleJob, every five minutes.  The cloud need not report a machine in
\* a state that corrects DELETING.
Fairness ==
    /\ WF_vars(Tick)
    /\ WF_vars(JobStep)
    /\ \A u \in User : WF_vars(RequestStep(u))
    /\ \A i \in Instance :
          /\ WF_vars(WorkerStep(i))
          /\ SF_vars(BetweenExecutions /\ (DateDeletion(i) \/ FindDeleted(i)))

FairSpec == Spec /\ Fairness

------------------------------------------------------------------------------
(* Properties *)

\* deleteAllExpired never waits for a deletion that is not in the queue: also
\* when the command that it waits for is the one of a user.
WaitIsAnswered == awaited # None => outcome # None \/ deletion[awaited] # None

\* deleteAllExpired drops the expiration of an instance only if its machine is gone,
\* or has been shelved, which the state job takes for a deletion: a deletion that
\* failed is tried again by the next run.
ExpirationKeptUntilGone ==
    [][CommitExpired =>
          \A i \in Instance : expiration[i] # None /\ expiration'[i] = None
                             => machine[i] # "running"]_vars

Notice(i) == IF expiration[i] = None THEN None ELSE expiration[i].expirationDate

\* What deleteAllExpired has listed, until its transaction is over.
Condemned == IF stage = "expired" THEN {i \in Instance : loaded[i] # None} ELSE {}

AskedBy(u, i) == request[u] # Idle /\ request[u].instance = i /\ request[u].pc \in {"delete", "command"}

Asked ==
    {i \in Instance : (\E u \in User : AskedBy(u, i)) \/ (deletion[i] # None /\ deletion[i].by = "user")}

\* The policy does not tell a shelved machine from one that is back.
Fate(i) == IF machine[i] = "back" THEN "shelved" ELSE machine[i]

Policy ==
    INSTANCE InstanceExpiryPolicy WITH
        machine <- [i \in Instance |-> Fate(i)],
        notice <- [i \in Instance |-> Notice(i)], condemned <- Condemned, asked <- Asked

\* Rows read and written at different times, merged commands and failures together do
\* what the policy allows: the job destroys no machine but one whose expiration had been
\* announced for a date that was reached when the job listed it, and no other worker
\* destroys one but for a user.
ImplementsPolicy == Policy!Spec

\* An instance is due when nobody has used it for the given time or its lifetime
\* is over.
Abandoned(i) == row[i].lastSeenAt + MaxInactivity <= now
Due(i) ==
    row[i].terminationDate # None /\ (Abandoned(i) \/ row[i].terminationDate <= now)

\* An instance that is due is deleted, unless it is used or extended meanwhile:
\* also when the deletion fails, when the job is interrupted, or when the request
\* that was to delete it is.
DueIsDeleted == \A i \in Instance : Due(i) ~> (row[i].deleted \/ ~Due(i))

Immortal(i) == row[i].terminationDate = None

\* An expiration that was being created when its instance became immortal is
\* withdrawn before the job executes it: the instance is not deleted, unless a
\* user deletes it or its machine is shelved.
ImmortalIsWithdrawn ==
    \A i \in Instance :
        BetweenExecutions /\ machine[i] = "running" /\ Immortal(i) /\ expiration[i] # None
          ~> \/ expiration[i] = None /\ row[i].state # "DELETED"
             \/ ~Immortal(i)
             \/ deletion[i] # None /\ deletion[i].by = "user"
             \/ machine[i] \in {"shelved", "back"}

\* Whatever the commit of deleteAllExpired and the saves of older copies write
\* back, an instance whose machine is gone ends up deleted.
GoneIsDeleted == \A i \in Instance : <>[](row[i].computeId /\ machine[i] = "gone" => row[i].deleted)

\* "automatic deletion of instances after given times of inactivity or after a
\* maximum lifetime": nothing else makes the job delete one.  Activity that is
\* newer than the expiration, which the job may see too late, is left aside.
SeenSince(i) == expiration[i] = None \/ row[i].lastSeenAt > expiration[i].createdAt

DeletedInTime ==
    [][\A i \in Instance :
          awaited = None /\ awaited' = i /\ ~SeenSince(i) => Due(i)]_vars
==============================================================================

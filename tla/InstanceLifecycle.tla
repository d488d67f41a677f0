--------------------------- MODULE InstanceLifecycle ---------------------------
(***************************************************************************)
(* The life of one instance: its row in the table instance, its machine in *)
(* the cloud, the requests of users, the actions run by the queue of       *)
(* commands, and the jobs that look at rows and at machines.               *)
(*                                                                         *)
(* Every call of a service is a transaction, and an Instance read by one   *)
(* is a detached copy: a save (a merge, the entity has no version) writes  *)
(* every column of the copy back, whatever happened to the row meanwhile.  *)
(* A process of this module therefore reads the row in one step and saves  *)
(* a whole row in a later one.                                             *)
(*                                                                         *)
(* The commands of the instance are run one at a time, in order and        *)
(* without two of the same type, which is what InstanceActionQueue         *)
(* promises and InstanceActionManager implements.                          *)
(***************************************************************************)
EXTENDS Naturals, Sequences

CONSTANTS
    Request,      \* the requests that users make
    Kind,         \* what they may ask
    Job,          \* the triggers of InstanceStateJob
    DailyUpdate,  \* whether InstanceSecurityGroupUpdateJob is scheduled
    Outside,      \* what may become of the machine without VISA
    Nothing,      \* the absence of a copy or of a command
    MaxFaults,    \* bound on the failures of the cloud
    MaxCrashes    \* bound on the number of restarts of the server

ASSUME KindAssumption == Kind \subseteq {"START", "REBOOT", "SHUTDOWN", "delete", "update"}
ASSUME JobAssumption == Job \subseteq {"allStates", "nonStable"} /\ DailyUpdate \in BOOLEAN
ASSUME OutsideAssumption ==
    Outside \subseteq {"ACTIVE", "SHUTOFF", "SUSPENDED", "SHELVED", "RESIZE", "ERROR", "UNKNOWN",
                       "gone"}
ASSUME BoundAssumption == MaxFaults \in Nat /\ MaxCrashes \in Nat

InstanceState ==
    {"ACTIVE", "PARTIALLY_ACTIVE", "BUILDING", "DELETED", "DELETING", "ERROR", "STARTING",
     "STOPPED", "STOPPING", "REBOOTING", "UNAVAILABLE", "UNKNOWN"}

ActionType ==
    {"CREATE", "START", "REBOOT", "SHUTDOWN", "DELETE", "STATE", "UPDATE_SECURITY_GROUPS"}

\* The columns of a row that decide what happens to it.  An instance has at most
\* one machine, so computeId tells whether the column is null.
Row == [state : InstanceState, computeId : BOOLEAN, deleteRequested : BOOLEAN,
        deleted : BOOLEAN]

\* The status of the machine in OpenStack, which it keeps until it has reached its
\* target.  SUSPENDED stands for PAUSED as well, SHELVED for SHELVED_OFFLOADED and
\* SOFT_DELETED, RESIZE for MIGRATING, RESCUE and their like.
Status == {"none", "BUILD", "ACTIVE", "SHUTOFF", "REBOOT", "SUSPENDED", "SHELVED", "RESIZE",
           "ERROR", "UNKNOWN", "gone"}

ASSUME NothingAssumption == Nothing \notin ActionType \cup Row \cup [execute : BOOLEAN]

Creator == "creator"

VARIABLES
    row,        \* the row of the instance
    machine,    \* the machine, what it is turning into and, history, whether it has
                \* ever been shelved
    commands,   \* PENDING commands, in the order of their ids
    queue,      \* the queue of the instance in InstanceActionManager
    worker,     \* the thread that runs the head of the queue
    request,    \* what each request has still to save and to create
    stateJob,   \* what each InstanceStateJob has loaded
    deleteJob,  \* the copy held by InstanceDeleteJob
    cleanup,    \* what CloudInstanceCleanupJob has seen
    asked,      \* history: a user has asked for the deletion
    faults, crashes

jobVars == <<stateJob, deleteJob, cleanup>>
boundVars == <<faults, crashes>>
vars == <<row, machine, commands, queue, worker, request, jobVars, asked, boundVars>>

Idle == [pc |-> "idle", copy |-> Nothing, writes |-> <<>>]
Done == [pc |-> "done", copy |-> Nothing, writes |-> <<>>]
Unused == [saves |-> <<>>, create |-> "unused"]
NoRequest == [saves |-> <<>>, create |-> Nothing]

TypeOK ==
    /\ row \in Row
    /\ machine \in [status : Status, target : Status, shelved : BOOLEAN]
    /\ commands \in Seq(ActionType)
    /\ queue \in Seq(ActionType)
    /\ worker \in [pc : {"idle", "cloud", "read", "save", "done"},
                   copy : Row \cup {Nothing},
                   writes : Seq(InstanceState \cup {"same"})]
    /\ \A r \in Request \cup {Creator} :
          request[r] \in {Unused} \cup [saves : Seq(Row), create : ActionType \cup {Nothing}]
    /\ stateJob \in [Job -> Row \cup {Nothing} \cup [execute : BOOLEAN]]
    /\ deleteJob \in Row \cup {Nothing} \cup [execute : BOOLEAN]
    /\ cleanup \in [pc : {"idle", "list", "delete"}, known : BOOLEAN]
    /\ asked \in BOOLEAN
    /\ faults \in 0..MaxFaults
    /\ crashes \in 0..MaxCrashes

\* The row has just been created by a request, which has still to create the
\* command that builds the machine.
Init ==
    /\ row = [state |-> "BUILDING", computeId |-> FALSE, deleteRequested |-> FALSE,
              deleted |-> FALSE]
    /\ machine = [status |-> "none", target |-> "none", shelved |-> FALSE]
    /\ commands = <<>>
    /\ queue = <<>>
    /\ worker = Idle
    /\ request = [r \in Request \cup {Creator} |->
                    IF r = Creator THEN [saves |-> <<>>, create |-> "CREATE"] ELSE Unused]
    /\ stateJob = [j \in Job |-> Nothing]
    /\ deleteJob = Nothing
    /\ cleanup = [pc |-> "idle", known |-> FALSE]
    /\ asked = FALSE
    /\ faults = 0
    /\ crashes = 0

------------------------------------------------------------------------------
(* The cloud *)

Exists == machine.status \notin {"none", "gone"}

TurnInto(s) == machine' = [machine EXCEPT !.target = s]

\* A new machine, as the call that creates it reports it.
Built(s) ==
    [status |-> s, target |-> IF s = "ERROR" THEN s ELSE "ACTIVE", shelved |-> FALSE]

Settle ==
    /\ machine.status # machine.target
    /\ machine' = [machine EXCEPT !.status = machine.target]
    /\ UNCHANGED <<row, commands, queue, worker, request, jobVars, asked, boundVars>>

\* A machine that is shelved counts as deleted although it exists.
ConvertStatus(status) ==
    CASE status = "BUILD"                    -> "BUILDING"
      [] status = "REBOOT"                   -> "REBOOTING"
      [] status = "RESIZE"                   -> "UNAVAILABLE"
      [] status = "SHELVED"                  -> "DELETED"
      [] status \in {"SHUTOFF", "SUSPENDED"} -> "STOPPED"
      [] OTHER                               -> status

\* The state that the cloud reports: OpenStack tells a server that is powering
\* off from an active one, and no other change in progress.
CloudState ==
    IF ~Exists THEN "missing"
    ELSE IF machine.status = "ACTIVE" /\ machine.target = "SHUTOFF" THEN "STOPPING"
    ELSE ConvertStatus(machine.status)

CloudFault == faults < MaxFaults /\ faults' = faults + 1 /\ UNCHANGED crashes

\* The machine fails, or somebody changes or removes it without VISA.
MachineChanges ==
    /\ Exists /\ machine.target # "gone"
    /\ CloudFault
    /\ \E s \in Outside :
          machine' = [status |-> s, target |-> s,
                      shelved |-> machine.shelved \/ s = "SHELVED"]
    /\ UNCHANGED <<row, commands, queue, worker, request, jobVars, asked>>

------------------------------------------------------------------------------
(* Requests of users.  The operators marked "Faulty" are variants of the       *)
(* definition that follows them; no specification uses them.                 *)

Marked(r) == [r EXCEPT !.deleteRequested = TRUE]
InState(r, s) == [r EXCEPT !.state = s]

\* performAction: the state announced by a request and the command it creates.
PerformAction(r, type) ==
    LET s == CASE type = "START"    -> "STARTING"
               [] type = "REBOOT"   -> "REBOOTING"
               [] type = "SHUTDOWN" -> "STOPPING"
               [] type = "DELETE"   -> "DELETING"
    IN  [saves |-> <<InState(r, s)>>, create |-> type]

\* A machine that runs is first shut down; InstanceDeleteJob does the rest.
DeleteInstance(r) ==
    IF ~r.computeId \/ r.state \in {"STOPPED", "ERROR", "UNKNOWN", "UNAVAILABLE"}
    THEN PerformAction(r, "DELETE")
    ELSE IF r.state = "STOPPING"
         THEN [saves |-> <<Marked(r)>>, create |-> Nothing]
         ELSE LET shutdown == PerformAction(Marked(r), "SHUTDOWN")
              IN  [shutdown EXCEPT !.saves = <<Marked(r)>> \o @]

\* The row is read when the request arrives and everything the request does is
\* decided from this copy.  "update" stands for the requests that save the copy
\* with other columns changed: a name, a member, the last time of activity.
ReceiveRequest(r, k) ==
    /\ request[r] = Unused
    /\ ~row.deleted
    /\ request' = [request EXCEPT ![r] =
            CASE k = "delete" -> DeleteInstance(row)
              [] k = "update" -> [saves |-> <<row>>, create |-> Nothing]
              [] OTHER        -> PerformAction(row, k)]
    /\ asked' = (asked \/ k = "delete")
    /\ UNCHANGED <<row, machine, commands, queue, worker, jobVars, boundVars>>

SaveOfRequest(r) ==
    /\ request[r] \notin {Unused, NoRequest}
    /\ request[r].saves # <<>>
    /\ row' = Head(request[r].saves)
    /\ request' = [request EXCEPT ![r].saves = Tail(@)]
    /\ UNCHANGED <<machine, commands, queue, worker, jobVars, asked, boundVars>>

CreateCommand(r) ==
    /\ request[r] \notin {Unused, NoRequest}
    /\ request[r].saves = <<>>
    /\ commands' = Append(commands, request[r].create)
    /\ request' = [request EXCEPT ![r] = NoRequest]
    /\ UNCHANGED <<row, machine, queue, worker, jobVars, asked, boundVars>>

------------------------------------------------------------------------------
(* The queue of commands *)

\* Faulty: commands of the same type are not merged.
QueuedTwice(c) == queue' = Append(queue, c)

Queued(c) ==
    queue' = IF \E k \in DOMAIN queue : queue[k] = c THEN queue ELSE Append(queue, c)

\* Faulty: the command is found again by the next run of the job.
StaysPending(cs) == cs

WithoutExecuted(cs) == Tail(cs)

\* InstanceCommandExecutorJob.
ExecutePending ==
    /\ commands # <<>>
    /\ Queued(Head(commands))
    /\ commands' = WithoutExecuted(commands)
    /\ UNCHANGED <<row, machine, worker, request, jobVars, asked, boundVars>>

\* The command ends, returned or failed, and leaves the queue.
EndCommand ==
    /\ worker.pc = "done"
    /\ worker' = Idle
    /\ queue' = Tail(queue)
    /\ UNCHANGED <<row, machine, commands, request, jobVars, asked, boundVars>>

------------------------------------------------------------------------------
(* The actions: InstanceAction.run *)

\* Faulty: the state of an instance without machine is asked as well.
AlwaysAsksCloud(r) == TRUE

\* STATE and UPDATE_SECURITY_GROUPS return early without a machine, the other
\* actions do nothing to the cloud then.
AsksCloud(r) == r.computeId

\* run reads the row.
StartCommand ==
    LET c == Head(queue)
    IN  /\ queue # <<>> /\ worker = Idle
        /\ worker' = IF row.deleted THEN Done
                     ELSE IF c = "CREATE" \/ AsksCloud(row)
                     THEN [Idle EXCEPT !.pc = "cloud", !.copy = row]
                     ELSE IF c = "DELETE"
                     THEN [Idle EXCEPT !.pc = "read", !.writes = <<"DELETED">>]
                     ELSE Done
        /\ UNCHANGED <<row, machine, commands, queue, request, jobVars, asked, boundVars>>

Running(c) == worker.pc = "cloud" /\ Head(queue) = c

Write(states) ==
    worker' = IF states = <<>> THEN Done
              ELSE [Idle EXCEPT !.pc = "read", !.writes = states]

SaveCopy(r) == worker' = [worker EXCEPT !.pc = "save", !.copy = r]

unchangedByRun == <<row, commands, queue, request, jobVars, asked>>

\* The copy read before the call of the cloud is saved with the machine it
\* returns.
CreateInstance ==
    /\ Running("CREATE")
    /\ \E s \in {"BUILD", "ACTIVE", "ERROR"} :
          /\ machine' = Built(s)
          /\ SaveCopy([worker.copy EXCEPT !.computeId = TRUE, !.state = ConvertStatus(s)])
    /\ UNCHANGED <<unchangedByRun, boundVars>>

\* A CloudException, before or after the machine was created, is recorded as
\* ERROR.  Nothing is recorded without a client of the cloud, nor after another
\* exception: a machine that is not found right after its creation is a null
\* reference.
CreateInstanceFails ==
    /\ Running("CREATE")
    /\ CloudFault
    /\ machine' \in {machine, Built("BUILD")}
    /\ Write(<<"ERROR">>) \/ worker' = Done
    /\ UNCHANGED unchangedByRun

\* What a call of the cloud makes of the machine.  OpenStack refuses to start, to
\* stop or to reboot a machine that is changing or is neither active nor off.
AfterCall(type) ==
    CASE /\ type \in {"START", "REBOOT", "SHUTDOWN"}
         /\ machine.status \in {"ACTIVE", "SHUTOFF"} /\ machine.target = machine.status
            -> [machine EXCEPT !.status = IF type = "REBOOT" THEN "REBOOT" ELSE @,
                               !.target = IF type = "SHUTDOWN" THEN "SHUTOFF" ELSE "ACTIVE"]
      [] type = "DELETE" /\ Exists -> [machine EXCEPT !.target = "gone"]
      [] OTHER                     -> machine

\* Start, shutdown and reboot leave the row alone: InstanceStateJob will see the
\* change.
Operate(type) ==
    /\ Running(type)
    /\ machine' = AfterCall(type)
    /\ worker' = Done
    /\ UNCHANGED <<unchangedByRun, boundVars>>

DeleteMachine ==
    /\ Running("DELETE")
    /\ machine' = AfterCall("DELETE")
    /\ Write(<<"DELETED">>)
    /\ UNCHANGED <<unchangedByRun, boundVars>>

\* Faulty: the state of the cloud is ignored once the deletion is requested.
IgnoredWhenDeleting(r, s) ==
    r.state = "DELETING" \/ (r.state = "STARTING" /\ s = "STOPPED")

Ignored(r, s) ==
    \/ r.state = "DELETING" /\ s = "ACTIVE"
    \/ r.state = "STARTING" /\ s = "STOPPED"

\* Faulty: the state of the cloud is written as it is.
AnyState(s) == {<<s>>}

\* The writes of the state action for a state of the cloud: the address and the
\* protocols are written by transactions of their own, before the state.  Which
\* ports answer decides between three states.
WritesFor(s) ==
    CASE s = "missing" -> {<<"DELETED", "same">>}
      [] s = "ACTIVE"  -> {<<"same", "STARTING">>, <<"same", "same", "PARTIALLY_ACTIVE">>,
                           <<"same", "same", "ACTIVE">>}
      [] OTHER         -> {<<s>>}

GetState ==
    /\ Running("STATE")
    /\ IF Ignored(worker.copy, CloudState)
       THEN Write(IF CloudState = "ACTIVE" THEN <<"same">> ELSE <<>>)
       ELSE \E w \in WritesFor(CloudState) : Write(w)
    /\ UNCHANGED <<unchangedByRun, machine, boundVars>>

UpdateSecurityGroups ==
    /\ Running("UPDATE_SECURITY_GROUPS")
    /\ SaveCopy(worker.copy)
    /\ UNCHANGED <<unchangedByRun, machine, boundVars>>

\* A call fails, taking effect or not, in an action that has written nothing, or
\* there is no client of the cloud.
CloudCallFails ==
    /\ worker.pc = "cloud" /\ Head(queue) # "CREATE"
    /\ CloudFault
    /\ machine' \in {machine, AfterCall(Head(queue))}
    /\ worker' = Done
    /\ UNCHANGED unchangedByRun

RunAction ==
    \/ CreateInstance \/ CreateInstanceFails \/ DeleteMachine \/ GetState
    \/ Operate("START") \/ Operate("SHUTDOWN") \/ Operate("REBOOT")
    \/ UpdateSecurityGroups \/ CloudCallFails

\* updateInstanceState, updateInstanceIpAddress and updateInstanceProtocols read
\* the row again, unless it is deleted, and save it.
Updated(r, s) ==
    IF s = "same" THEN r ELSE [r EXCEPT !.state = s, !.deleted = (s = "DELETED")]

ReadAgain ==
    LET rest == Tail(worker.writes)
    IN  /\ worker.pc = "read"
        /\ worker' = IF row.deleted
                     THEN IF rest = <<>> THEN Done ELSE [worker EXCEPT !.writes = rest]
                     ELSE [pc |-> "save", copy |-> Updated(row, Head(worker.writes)),
                           writes |-> rest]
        /\ UNCHANGED <<row, machine, commands, queue, request, jobVars, asked, boundVars>>

SaveRow ==
    /\ worker.pc = "save"
    /\ row' = worker.copy
    /\ Write(worker.writes)
    /\ UNCHANGED <<machine, commands, queue, request, jobVars, asked, boundVars>>

------------------------------------------------------------------------------
(* The jobs *)

NonStable == {"BUILDING", "STARTING", "PARTIALLY_ACTIVE", "REBOOTING", "STOPPING", "DELETED"}

\* InstanceStateJob.execute reads all rows, then handles them one by one: a
\* DELETED row gets the date of its deletion, the others a STATE command.
LoadForState(j) ==
    /\ stateJob[j] = Nothing
    /\ ~row.deleted
    /\ j = "nonStable" => row.state \in NonStable
    /\ stateJob' = [stateJob EXCEPT ![j] =
            IF row.state = "DELETED" THEN [row EXCEPT !.deleted = TRUE] ELSE [execute |-> TRUE]]
    /\ UNCHANGED <<row, machine, commands, queue, worker, request, deleteJob, cleanup, asked,
                   boundVars>>

HandleState(j) ==
    /\ stateJob[j] # Nothing
    /\ \/ stateJob[j] \in Row /\ row' = stateJob[j] /\ UNCHANGED queue
       \/ stateJob[j] \notin Row /\ Queued("STATE") /\ UNCHANGED row
    /\ stateJob' = [stateJob EXCEPT ![j] = Nothing]
    /\ UNCHANGED <<machine, commands, worker, request, deleteJob, cleanup, asked, boundVars>>

\* InstanceSecurityGroupUpdateJob.
RequestSecurityGroups ==
    /\ DailyUpdate /\ ~row.deleted
    /\ Queued("UPDATE_SECURITY_GROUPS")
    /\ UNCHANGED <<row, machine, commands, worker, request, jobVars, asked, boundVars>>

\* Faulty: the query takes instances before they are stopped, and only these.
ToDeleteEarly(r) == r.state = "STOPPING" /\ r.deleteRequested /\ ~r.deleted

ToDelete(r) == r.state = "STOPPED" /\ r.deleteRequested /\ ~r.deleted

\* InstanceDeleteJob.execute reads the rows, saves each DELETING, and then
\* creates and executes the command.
LoadToDelete ==
    /\ deleteJob = Nothing
    /\ ToDelete(row)
    /\ deleteJob' = InState(row, "DELETING")
    /\ UNCHANGED <<row, machine, commands, queue, worker, request, stateJob, cleanup, asked,
                   boundVars>>

SaveDeleting ==
    /\ deleteJob \in Row
    /\ row' = deleteJob
    /\ deleteJob' = [execute |-> TRUE]
    /\ UNCHANGED <<machine, commands, queue, worker, request, stateJob, cleanup, asked, boundVars>>

\* The command is saved PENDING before it is executed, so that
\* InstanceCommandExecutorJob may have taken it too.
ExecuteDelete ==
    /\ deleteJob = [execute |-> TRUE]
    /\ Queued("DELETE")
    /\ \/ UNCHANGED commands
       \/ /\ \A k \in DOMAIN commands : commands[k] # "DELETE"
          /\ commands' = Append(commands, "DELETE")
    /\ deleteJob' = Nothing
    /\ UNCHANGED <<row, machine, worker, request, stateJob, cleanup, asked, boundVars>>

\* Faulty: any row will do, whatever its computeId.
KnownByRow(r) == ~r.deleted

Known(r) == r.computeId /\ ~r.deleted

\* CloudInstanceCleanupJob.execute: the rows first, then the machines.
LoadKnown ==
    /\ cleanup.pc = "idle"
    /\ cleanup' = [pc |-> "list", known |-> Known(row)]
    /\ UNCHANGED <<row, machine, commands, queue, worker, request, stateJob, deleteJob, asked,
                   boundVars>>

\* The listing fails, the known machine is listed, or a zombie is found.
ListMachines ==
    /\ cleanup.pc = "list"
    /\ \/ UNCHANGED boundVars
          /\ cleanup' = [pc |-> IF Exists /\ ~cleanup.known THEN "delete" ELSE "idle",
                         known |-> FALSE]
       \/ CloudFault /\ cleanup' = [pc |-> "idle", known |-> FALSE]
    /\ UNCHANGED <<row, machine, commands, queue, worker, request, stateJob, deleteJob, asked>>

DeleteZombie ==
    /\ cleanup.pc = "delete"
    /\ cleanup' = [cleanup EXCEPT !.pc = "idle"]
    /\ \/ UNCHANGED boundVars /\ IF Exists THEN TurnInto("gone") ELSE UNCHANGED machine
       \/ CloudFault /\ UNCHANGED machine
    /\ UNCHANGED <<row, commands, queue, worker, request, stateJob, deleteJob, asked>>

\* The server stops and starts again: only the rows, the PENDING commands and
\* the machine remain.
Restart ==
    /\ crashes < MaxCrashes
    /\ crashes' = crashes + 1
    /\ queue' = <<>>
    /\ worker' = Idle
    /\ request' = [r \in DOMAIN request |-> IF request[r] = Unused THEN Unused ELSE NoRequest]
    /\ stateJob' = [j \in Job |-> Nothing]
    /\ deleteJob' = Nothing
    /\ cleanup' = [pc |-> "idle", known |-> FALSE]
    /\ UNCHANGED <<row, machine, commands, asked, faults>>

------------------------------------------------------------------------------

RequestStep(r) == SaveOfRequest(r) \/ CreateCommand(r)
WorkerStep == StartCommand \/ RunAction \/ ReadAgain \/ SaveRow \/ EndCommand
CleanupStep == LoadKnown \/ ListMachines \/ DeleteZombie

Next ==
    \/ \E r \in Request, k \in Kind : ReceiveRequest(r, k)
    \/ \E r \in Request \cup {Creator} : RequestStep(r)
    \/ ExecutePending \/ WorkerStep
    \/ \E j \in Job : LoadForState(j) \/ HandleState(j)
    \/ RequestSecurityGroups
    \/ LoadToDelete \/ SaveDeleting \/ ExecuteDelete
    \/ CleanupStep
    \/ Settle \/ MachineChanges
    \/ Restart

Spec == Init /\ [][Next]_vars

\* The server lives on: the scheduler triggers its jobs, threads make progress,
\* and the cloud completes what it was asked.  Users need not ask anything.
Fairness ==
    /\ \A r \in Request \cup {Creator} : WF_vars(RequestStep(r))
    /\ WF_vars(ExecutePending)
    /\ WF_vars(WorkerStep)
    /\ \A j \in Job : WF_vars(LoadForState(j)) /\ WF_vars(HandleState(j))
    /\ WF_vars(LoadToDelete) /\ WF_vars(SaveDeleting) /\ WF_vars(ExecuteDelete)
    /\ WF_vars(CleanupStep)
    /\ WF_vars(Settle)

FairSpec == Spec /\ Fairness

------------------------------------------------------------------------------
(* Properties *)

\* The instance is declared deleted only when a user has asked for it, when its
\* machine does not exist any more or when somebody has shelved it, which VISA
\* takes for a deletion: an instance that is still waiting for its machine, and
\* for which the cloud would report nothing, is not.
DeletedForAReason ==
    row.deleted \/ row.state = "DELETED" => asked \/ machine.status = "gone" \/ machine.shelved

\* An instance never gets a second machine: its CREATE command is executed once,
\* across restarts, and never after its deletion.
OneMachine ==
    [][(CreateInstance \/ CreateInstanceFails) /\ machine' # machine
         => machine.status = "none"]_vars

\* The commands of the instance go through one serial queue without duplicates.
Command == [instance : {"instance"}, actionType : ActionType]
AbstractQueue ==
    INSTANCE InstanceActionQueue
        WITH Instance <- {"instance"},
             Command  <- Command,
             queue    <- [i \in {"instance"} |->
                            [k \in DOMAIN queue |-> [instance |-> i, actionType |-> queue[k]]]],
             serving  <- IF worker = Idle THEN {} ELSE {"instance"}

UsesOneQueue == AbstractQueue!Spec

\* A machine that no row refers to does not run for ever, whichever write was
\* lost: CloudInstanceCleanupJob removes it.
OrphanIsRemoved ==
    []<>(Exists /\ machine.target # "gone" => row.computeId /\ ~row.deleted)

\* When users stop asking and the cloud stops failing, the row of an instance
\* with a machine tells the state of the machine, except in the two cases that
\* StateInstanceAction ignores on purpose.
Agrees ==
    CASE CloudState \in {"missing", "DELETED"} -> FALSE
      [] CloudState = "ACTIVE" -> row.state \in {"ACTIVE", "PARTIALLY_ACTIVE", "STARTING", "DELETING"}
      [] CloudState = "STOPPED" -> row.state \in {"STOPPED", "STARTING"}
      [] OTHER -> row.state = CloudState

StateFollowsCloud == <>[](row.deleted \/ ~row.computeId \/ Agrees)

MarkedAndStopped ==
    /\ row.deleteRequested /\ row.computeId /\ ~row.deleted
    /\ machine.status = "SHUTOFF" /\ machine.target = "SHUTOFF"

\* "Performs the Delete command on an instance if it has been marked as for
\* deletion and is shutdown", says quartz-config.xml of InstanceDeleteJob: also when
\* the server restarts or the cloud fails between the steps of the job, an instance
\* does not stay marked for ever while its machine is stopped, unless its row says
\* STARTING, which StateInstanceAction never corrects.
MarkedIsDeletedUnlessStarting == []<>~(MarkedAndStopped /\ row.state # "STARTING")

\* "Deletes any cloud instances that no longer exist in the database": no
\* machine is removed whose instance is in the database.
OnlyZombiesAreDeleted ==
    [][DeleteZombie /\ machine' # machine => ~Known(row)]_vars
==============================================================================

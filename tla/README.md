# A TLA+ model of the VISA API server

VISA gives the users of a research facility virtual machines with a remote
desktop. The server keeps one row for each *instance* in a database, tells a
cloud (OpenStack or a web service) what to do with the machine behind it, and
opens the remote desktops of the people who share an instance. This directory
models the parts where several threads, jobs, servers and requests meet, checks
them with TLC, and proves the central results with TLAPS.

Paths below are short for

| short | path |
|---|---|
| `business/` | `src/visa-business/src/main/java/eu/ill/visa/business/` |
| `jobs/` | `src/visa-scheduler/src/main/java/eu/ill/visa/scheduler/jobs/` |
| `vdi/` | `src/visa-remote-desktop/src/main/java/eu/ill/visa/vdi/` |
| `web/` | `src/visa-web/src/main/java/eu/ill/visa/web/` |
| `cloud/` | `src/visa-cloud/src/main/java/eu/ill/visa/cloud/` |
| `mappers/` | `src/visa-persistence/src/main/resources/mappers/` |

## Inventory

### The parts and how they meet

```
 REST request ----> row of instance_command (PENDING) ---> InstanceCommandExecutorJob
      |                                                           |  execute
      |  save                InstanceDeleteJob --- execute ---+   v
      v                      InstanceStateJob  --- execute ---+-> InstanceActionManager
 row of instance <---- read, then save ---- InstanceAction <---  one queue per instance
      ^                                         |                 pool of threads
      |                                         v
      |  read                              cloud machine
 CloudInstanceCleanupJob ---- list, delete -----+

 InstanceLifecycleJob ---> rows of instance_expiration; deletes what has expired
                           through InstanceActionManager and waits for it

 remote desktop clients ---> room of an instance: owner, members, candidates
                             session and session members (database)
```

| component | state it keeps | operations | status |
|---|---|---|---|
| command queue and worker pool (`business/concurrent/InstanceAction{Manager,Dispatcher,Runner,Future}.java`, `business/services/InstanceCommandService.java`, `jobs/InstanceCommandExecutorJob.java`) | rows of `instance_command`; one list of commands per instance in memory; the pool's own queue and threads | create, execute, cancel, run, end, fail; restart | modelled, proved |
| lifecycle of an instance (`business/concurrent/actions/*`, `AccountInstanceController`, `InstanceStateJob`, `InstanceDeleteJob`, `InstanceSecurityGroupUpdateJob`, `CloudInstanceCleanupJob`) | the row of the instance; the machine in the cloud; copies of the row held by requests, actions and jobs | create, start, reboot, shut down, delete, update, state, security groups, cleanup; restart | partly modelled (see below), safety proved |
| remote desktop rooms (`vdi/services/Desktop{Access,Connection}Service.java`, listeners, `InstanceSessionService`) | connections, candidates and tokens in memory of each server; sessions and members in the database; rooms of socket.io | connect, ask for access, reply, lock, unlock, disconnect, restart; revoke, messages between servers | partly modelled (see below), safety proved |
| expiration (`InstanceExpirationService`, `InstanceLifecycleJob`, `InstanceExtensionRequestService`) | rows of `instance_expiration`, three dates of an instance | create, withdraw, delete expired, extend, record activity | modelled, proved |
| pure algorithms (`SecurityGroupService`, `PortService`, `FlavourLimitService`) | none | functions | planned |
| cloud providers, notifications, signature, authentication, GraphQL, Jupyter, persistence | none of their own, or single saves | | not modelled; what the rest sees of the cloud is an external part of the lifecycle |

### What is hard

* **Concurrency.** Commands are queued by five threads of Quartz and ended by
  the threads of the pool; the future of a command is run outside the lock in
  one place and inside it in another.
* **Stale copies.** Every service method is a transaction, entities have no
  version, and a save merges all columns of a copy that may be minutes old.
  Requests, actions and jobs overwrite each other's columns.
* **Two transactions for one intent.** The row of an instance and its command
  are saved one after the other; a restart in between leaves one of them.
* **Late commits.** A state written inside a transaction becomes visible at its
  commit, which another thread may overtake.
* **The cloud.** A call may fail after having had its effect; a machine may fail,
  stop or vanish; the state it reports lags behind what it was asked.
* **Time.** What is due is found by queries and deleted later; between the two a
  user comes back, or the instance is extended, deleted or lost.
* **A transaction that waits.** The job that deletes expired instances waits for a
  worker inside its own transaction and commits entities that the worker changed.
* **Rooms.** Locking a room, asking an owner for access and leaving are handled
  by different threads and servers over maps without synchronisation.

### What makes each component correct

* *Queue*: two actions never work on one instance at once; commands of an
  instance are served in order; nothing that is queued is forgotten while the
  server lives; a row says in the end what happened to its command; a command is
  not started twice.
* *Lifecycle*: an instance gets one machine; it is declared deleted only if
  somebody wanted that, its machine is gone, or somebody shelved it; what the row
  says follows the machine; a machine that no row knows is removed, and no other; a marked
  instance is deleted unless its row says STARTING.
* *Rooms*: who is in the room has a connection, who has left has none; a room
  that is closed empties; users do not stay when the owner leaves; a user
  whose access is revoked is told on whichever server it is.
* *Access*: a candidate is connected once, and only with what the owner granted;
  every answer has its effect, and no second one has. A request that was cancelled
  disappears from the screen of an owner that has one client.
* *Expiration*: what is due is deleted in the end, whatever fails meanwhile; what is
  used, extended or made immortal is not; an expiration is kept until its machine
  is gone or shelved; the job never waits for an answer that nobody will give.

## Modules

| module | what it is |
|---|---|
| `InstanceActionQueue` | abstract specification: one serial queue per instance, one command per type |
| `InstanceActionQueueFailing` | abstract specification: the same queues when saves may be refused, some of which are stuck until the next restart |
| `InstanceActionManager` | `InstanceActionManager`, `InstanceActionDispatcher`, `InstanceActionRunner`, `InstanceCommandService`, the jobs that execute commands, cancellation, refused saves, restarts; implements both abstract queues |
| `InstanceActionManagerProofs` | its inductive invariant, seven safety theorems and the two refinements |
| `InstanceLifecycle` | one instance: row, machine, requests, actions, jobs; uses `InstanceActionQueue` for its commands |
| `InstanceLifecycleProofs` | its inductive invariant, three safety theorems and the use of the abstract queue |
| `DesktopRoom` | the clients of one instance on several servers: connecting, sessions and members, leaving, locking and closing the room, revocation, messages between servers, restarts |
| `DesktopRoomProofs` | its inductive invariant and two safety theorems |
| `DesktopSessionProofs` | the types of its variables and the completeness of revocation, which need the sessions; the announcement of a closure |
| `DesktopAccessRequest` | abstract specification: what a candidate that asks the owner for access is promised |
| `DesktopAccess` | extends `DesktopRoom` with candidates: asking the owner, answering, cancelling; implements `DesktopAccessRequest` |
| `DesktopAccessProofs` | a candidate is connected at most once |
| `DesktopAnswerProofs` | types, granted roles, answers, revocation and closure in the presence of candidates; uses the two other modules of proofs |
| `DesktopAccessRequestProofs` | that `DesktopAccess` implements `DesktopAccessRequest` |
| `InstanceExpiryPolicy` | abstract specification: when a machine may be destroyed |
| `InstanceExpiration` | the four transactions of `InstanceLifecycleJob`, the requests of users and the deletion of an instance by a worker, with dates; implements `InstanceExpiryPolicy` |
| `InstanceExpirationProofs` | its inductive invariant, three theorems and the refinement |
| `MCInstanceActionManager`, `MCInstanceLifecycle`, `MCDesktopRoom`, `MCDesktopAccess`, `MCDesktopAccessOwners`, `MCInstanceExpiration` | instances for TLC |

### InstanceActionManager

| variable | code |
|---|---|
| `db` | the state column of each row of `instance_command`; a command without a user has no row (`InstanceCommandService.save` skips it) |
| `mem` | the state of the `InstanceCommand` object that the manager holds |
| `keys`, `actions` | the map `InstanceActionManager.actions`: the instances that have an entry, and the deque of each |
| `submitted` | the work queue of the `ThreadPoolExecutor` of `InstanceActionDispatcher` |
| `pc`, `task` | where each thread of the pool is in `InstanceActionRunner.call`, and its command |
| `todo` | the commands that `InstanceCommandExecutorJob` and `InstanceDeleteJob` have loaded or created and not executed yet |
| `uncommitted` | saves made inside the transaction of `InstanceCommandService.execute`, not yet committed |
| `started`, `crashes` | history of what was started; number of restarts |

Every method of the manager is synchronized and is one action; a transaction
that outlives it (the one of `execute`) is committed by an action of its own.
`queue` adds the command and runs its future if the instance had no entry. A
thread takes a future, announces the start, runs the action, writes
`TERMINATED` or `FAILED`, removes the head and runs the next future under the
lock. What an action does is a choice between returning and failing. `FailingSpec`
lets the database refuse any of the saves. `InstanceCommandService.cancel` is a
transaction as well, which is one step here, the one of its commit: what it does before
changes no queue (`CancelRemovesNothing`).

`ImplementsQueue` maps `actions` to the abstract queues and the threads that run an
action to the servers. `ImplementsFailingQueue` adds that an instance is stuck
exactly when it has a queue of which neither the pool nor a thread holds a command:
that is where a refused save leaves a head, and the abstract specification says what
follows from it: commands are still accepted, none is begun, until a restart.

### InstanceLifecycle

| variable | code |
|---|---|
| `row` | columns `state`, `compute_id` (null or not), `delete_requested`, `deleted_at` (null or not) of the table `instance` |
| `machine` | external: the status of the server in OpenStack, the one it is turning into, and, history, whether it has ever been shelved |
| `commands` | PENDING rows of `instance_command` for this instance |
| `queue`, `worker` | the queue of the instance as `InstanceActionQueue` promises it, and the action at its head: the copy it has read, the writes it has still to make |
| `request` | what a request handler has still to save and the command it will create |
| `stateJob`, `deleteJob`, `cleanup` | what the jobs have loaded |

A process reads the row in one step and saves a whole row in a later one, so
every lost update of the code is a behaviour of the model. Columns that no
transition depends on are left out; a request that changes only these
(`update`, members, the last time of activity) is a save of the copy.

The code does not see the status but what `InstanceConverter.convertStatus` makes of
it (`ConvertStatus`, `CloudState`): a paused or suspended server counts as stopped, one
that is being resized or rescued as unavailable, and one that is shelved as *deleted*,
although it exists. `Outside` is what may become of the machine without VISA.

### DesktopRoom and DesktopAccess

| variable | code |
|---|---|
| `policy` | `VirtualDesktopConfiguration.ownerDisconnectionPolicy` |
| `channel`, `told` | the web socket of a client; clients on which a server has called `disconnect` and whose listener has not been called yet |
| `connect`, `leave` | where `createDesktopConnection` and `onDisconnect` are for a client, and the locals they keep between two transactions |
| `connection`, `room` | `desktopConnections` (role and `roomLocked`); the room of socket.io |
| `created`, `current`, `member` | tables `instance_session` (ids, column `current`) and `instance_session_member` (session of the active row of a client) |
| `inbox` | the channel `DISPATCH` of redis, for each server |
| `ask`, `candidates`, `tokens` | `initiateAccess`; the maps `desktopCandidates` and `clientSessionIds` |
| `shown` | external: the requests that the browser of an owner shows |
| `replying` | whose thread runs `connectFromAccessReply`; a client's handlers do not overlap, so that owner is busy |
| `answers`, `grants`, `revoked` | history |
| `account` (constant), `Revocable` | the user of a client; bound on the users whose access is revoked, once each |

Every method of `InstanceSessionService` is a transaction, so each call is a step
of its own and other clients act between two; `removeInstanceSessionMember`, which
counts the members it sees, is split into what it reads and what it commits.
An exception is modelled where the code can raise it: no role, no session, a
client of the room without a connection, a socket that cannot be opened.
A client that comes back is another client. `DesktopAccess` keeps every action of
`DesktopRoom` and adds the clients for which `MustAsk` holds.

`ImplementsRequest` hides all of this: for `DesktopAccessRequest` a candidate is
away, waiting, settled or gone (`PlaceOf`: waiting means that it is joining the room
to wait, or has an entry in `desktopCandidates`), and has the role with which a
handler is connecting it or with which it is connected (`GivenTo`).

### InstanceExpiration

| variable | code |
|---|---|
| `row` | columns `state`, `compute_id` (null or not), `last_seen_at`, `termination_date`, `deleted_at` (null or not) of `instance`; `"ACTIVE"` stands for every state that does not tell of a deletion |
| `expiration` | the row of `instance_expiration` of each instance; it is unique |
| `stage`, `listed` | the service that `InstanceLifecycleJob.execute` is in, and what the loop of this service has still to handle |
| `loaded`, `entity` | the entities of its transaction, as they were read and as they are now: at the commit Hibernate writes all columns of those that differ |
| `removed` | expirations the transaction will delete; if one has vanished the commit fails and all is rolled back |
| `awaited`, `outcome` | the future that `deleteAllExpired` waits for, and its answer |
| `deletion` | the DELETE command in the queue of an instance, who made it, and how far `DeleteInstanceAction` has come |
| `request` | the copy that a thread which serves a user has read, and what it still does |
| `machine`, `now` | external: whether the machine runs, is shelved, has been shelved, or is gone; the date |

The command of the job has no user, hence no row, and it refers to the entity of
the job: `updateInstanceState` sets the state of that entity as well. Its
`deletedAt` stays null, so that the commit of the job writes DELETED without a
date over the row that the worker has dated; `InstanceStateJob` repairs this.
Short transactions that do one thing are one action: `RunDelete` is the read of
the row and the call to the cloud, `EndDelete` the removal from the queue and the
read of the answer, `UpdateState` a whole run of the state job for an instance, with
its STATE command (`InstanceLifecycle` has their steps). An expiration takes its date at the commit.

For `ImplementsPolicy` the announced date of an instance is the one in its row of
`instance_expiration`, the instances condemned by the job are those that the
transaction of `deleteAllExpired` has loaded, and a user is deleting an instance
(`Asked`) from the request until the command made by it has ended.

## Runs

| run | instance | result |
|---|---|---|
| `queues` | 1 instance, 2 threads, two commands of a user and those of the delete job and the state job, cancellation, 1 restart, fairness | 141,000 states: all hold, the abstract queue is implemented, pending commands are taken, queued ones conclude |
| `queues_failing` | 2 instances, any save may be refused | 2.1M states: exclusion and order still hold, the abstract queues with stuck instances are implemented |
| `queues_late_commit` | | *violated*: a row may stay QUEUED after its command ended |
| `lifecycle` | 2 concurrent requests (reboot, delete, update), daily update, all jobs | 8.3M states: no deletion without a reason |
| `lifecycle_live` | 1 request (start, delete, update), 1 restart, 1 failure of the cloud or machine that is stopped, shelved, resized or removed without VISA, fairness | 978,000 states: one machine, no deletion without a reason, the row follows the machine, lost machines are removed, marked instances are deleted unless they are STARTING; the commands use the abstract queue |
| `lifecycle_zombies` | | *violated*: cleanup removes the machine of an existing instance |
| `rooms` | 2 clients of the owner on 2 servers, a user who may be revoked, both policies, 1 failing socket, 1 restart | 1.9M states, all hold |
| `rooms_owner` | the same without failures | *violated*: users stay when the last client of the owner leaves |
| `access` | 1 client of the owner, a candidate on its server and one on another who may be revoked, both policies, 1 restart, fairness | 360,000 states: all hold, the abstract request is implemented |
| `access_owners` | 2 clients of the owner and a candidate, each on a server of its own, rooms that close when the owner leaves, no failures | 3.9M states: the candidate is connected once and with a granted role whatever the owners answer, no answer is lost, the abstract request is implemented |
| `expiration` | 1 instance from creation to deletion, 1 request of any kind, 1 failure or machine that is shelved, 1 restart, fairness | 466,000 states: all hold, the policy is implemented |
| `expiration_in_time` | | *violated*: a user comes back while the expiration is created, and the instance is deleted all the same |

**Bounds.** Two threads are the least for which an instance can be served twice at
once, two instances the least for which another one can take the thread; the
manager treats instances alike and shares only the pool between them, so that one
instance is enough where the order of its commands matters, and the theorems below
cover the rest. The commands of `queues` hold two of the same type (merging),
commands with and without a row, and one that two jobs can execute. One restart is enough to lose what is
in memory once; a second one starts from a state that the first can leave too.
In the lifecycle one or two requests suffice because a third copy overwrites no
other columns than a second; failures of the cloud are bounded by `MaxFaults`,
restarts by `MaxCrashes`. The job for the states that are not stable has no run of its
own: what it does, the job for all states does too. `Outside` is a machine that is
stopped, shelved (which counts as deleted), resized (unavailable) or removed; ERROR and
UNKNOWN reach the row as UNAVAILABLE does. A machine that is shelved and a failing call
of the cloud do not come together in one behaviour of TLC, they do in the proofs. In the rooms two servers are the least for which an
event has to travel; the owner comes twice in `rooms`, because one session and one
row of the owner hide what happens when they differ, and once in `access`, where
two candidates make the local and the remote path meet. That several clients of the
owner are shown one request, which takes a server for each, is the question of
`access_owners`; it leaves out what `access` has: restarts, revocation, the policy that
locks rooms, and fairness. One user is revoked, once,
in the room or on another server. Dates of `expiration` are
chosen so that an instance is warned of before it is due (inactivity 3 with a warning
of 3, lifetime 4 with a warning of 2), so that an announced expiration waits at least
for one execution of the job in which it must not be acted upon, and that all that a user does (until `LastRequest`, 5)
falls due before time stops (`LastDate`, 7). One request (`MaxRequests`) is one
visit, connection, extension or deletion at any moment; it leaves out a user who
comes back again and again. Runs stop when requests
and faults are used up or everybody has left, which is why the runs of the manager
and of the rooms switch the deadlock check off; in the lifecycle the
jobs go on for ever and deadlock is checked.

**Fairness.** Weak fairness for each job, each thread of the pool and each
request handler: Quartz triggers the jobs periodically, the pool's threads take
work from a blocking queue, and a request runs to its end. The cloud is assumed
to complete what it was asked (weak fairness of `Settle`), as
`InstanceStateJob` assumes. In the rooms the handlers progress, redis delivers,
and a client that was told to disconnect does so, at the latest when its ping
times out. No fairness is assumed of users, of the answer of an owner, failures or
restarts. In `expiration` time
passes and the job, the workers and requests progress; `InstanceStateJob` has strong
fairness between two executions of `InstanceLifecycleJob` for what it makes of a row
whose state is DELETED and of a machine that is gone or shelved, because it runs every
five seconds and the other one every five minutes.

## Proofs

`InstanceActionManagerProofs` proves, for any sets of instances, types, commands
and threads and any number of restarts:

* `TypeCorrect`, `NoDuplicateTypes`, `NoLostWakeUp`, `MutualExclusion`,
  `FirstInFirstServed`: the properties `TypeOK`, `OnePerType`,
  `HeadIsDispatched`, `OneActionPerInstance`, `ServedIsHead`.
* `NeverStartedAgain`: `StartedOnce`. A command is either new, or in a queue and
  its row still PENDING only as long as the job that queued it has not committed
  (and does not read rows), or started and its row never PENDING again; a command
  that was started is in a queue only as long as a thread serves it (`OnceInv`).
* `Refinement`: `Spec => ImplementsQueue`; the initial state maps to the
  initial state of `InstanceActionQueue`, and every step to a step or a stutter.
* `FailingRefinement`: `FailingSpec => ImplementsFailingQueue`. Besides `Refinement`
  it needs to know that the set of stuck instances changes only where a save is
  refused: the pool holds at most one command of an instance, so that the thread
  that lets go of it leaves none; a command put into an empty queue finds the pool
  without one; and the end of a command hands the next one over.
* `CancelRemovesNothing`: of `FailingSpec` as well, `InstanceCommandService.cancel`
  leaves every queue as it is. The state of a queued object is never CANCELLED, and
  the object it is compared with is.

None of the properties is inductive alone. That two threads do not serve one
instance follows from the *structure* that the invariant adds: the pool, its work
queue and its threads together, holds at most one command of an instance, and this
is the head of the queue of the instance; no two commands of a queue have the same
type, so that a command is in it once. `Invariance` proves this structure for
`FailingSpec`. Without refused saves the pool holds exactly one command of every
instance that has a queue (`InProgress`), which gives `NoLostWakeUp`. The
assumptions are the two `ASSUME`s of the module. Sequences are handled by
lemmas on `Append` and `Tail`.

`DesktopRoomProofs` proves `RoomIsConnected` and `ConnectionsAreReleased` for any
clients, servers and policies, any number of failures and restarts. The second
needs the first: the connection of a client that locks the room while it leaves is
removed only if no client of the room lacks one. The invariant adds that a
handler that connects a client runs while its channel is open and that a handler
is left for every connection of a client that has gone. Sessions play no part in
it.

`DesktopSessionProofs` adds them. `RoomTypeCorrect` needs a bound on `created`, the
number of sessions: it is at most the number of clients that have spent their
session, and a finite set of clients has a finite count (`ClientAssumption`).
`RevocationIsComplete` says that whoever is revoked has left, is told, or has an
event under way to its server. Its invariant is that who has a row or is revoked
has joined the room before; the event is kept by every other handler, and a server
that takes it finds the client in its room or gone. The lemmas have two parameters,
the set of all events and a set of clients that have not been let in, which is
empty here.

`ClosureIsAnnounced` is an action property: closing the room tells everybody who is
in it or sends the event that will, and a step takes nobody out of this state but by
taking it out of the room. The server that takes the event tells all its clients in
the same step, and a restart that loses the event loses the clients of that server as
well. What is left of `ClosedRoomEmpties` is then the fairness that delivers events
and lets the told leave. `ClosureIsAnnouncedWithAccess` says it of `DesktopAccess`.

`DesktopAnswerProofs` uses the lemmas of `DesktopSessionProofs` with the events of
`DesktopAccess` and the candidates not yet granted access. `AccessTypeCorrect`, `RolesAreGranted`
(`GrantedByTheOwner`), `NoAnswerIsLost` and `RevocationIsCompleteWithAccess` need
each other: an answer is waited for, under way, or has been acted upon
(`Waiting`); every event of an answer tells what an owner has answered
(`EventsAreGenuine`); a candidate that has not been granted access has no row and no
connection (`Unknown`, `OnlyAllowed`).

`DesktopAccessRequestProofs` proves `RequestIsImplemented`: `AccessSpec =>
ImplementsRequest`. A candidate has one role although two handlers keep one for it,
that of `createDesktopConnection` and the one in the connection. They agree
(`RolesAgree`), and a candidate that no answer has let in has neither, which needs
the invariant of `DesktopAnswerProofs`. The steps of the room are then of four kinds:
nothing changes for the candidates, one comes, one goes, one loses its role; an
answer settles the request of a candidate that still waits or changes nothing but
the answers.

`DesktopAccessProofs` proves `ServedAtMostOnce`: with many servers several
clients of the owner are shown one request and answer it, and what bounds the
effect is the single entry in `desktopCandidates`. The run `access_owners` shows it for
two such clients. The proofs about rooms assume
`ClientAssumption` and, for the types, `PolicyAssumption` and `BoundAssumption`.

`InstanceExpirationProofs` proves `ExpirationTypeCorrect`, `FutureIsAnswered`
(`WaitIsAnswered`) and `ExpirationIsKept` (`ExpirationKeptUntilGone`) for any
instances, threads, durations and bounds. `ExpirationInvariance` is the invariant:
what the transaction has listed it has loaded; a machine whose row is deleted is
gone or has been shelved, also for the copies that a worker or a request is about to
save; and so is the machine of what the job has removed. `ExpirationIsKept` therefore
says that an expiration is not dropped while the machine runs and was never shelved.

`PolicyIsImplemented` is `Spec => ImplementsPolicy`: the job destroys no machine but
one whose expiration had been announced, for a date that was reached when the job
listed it, and a worker destroys no other one but for a user. A worker that runs a command of the job works on an instance that the job
waits for, hence has loaded in this transaction; a command of a user is in the queue
of an instance that the user asked to delete; and the job removes at its commit only
expirations it has loaded (`RemovedIsLoaded`) and whose machine is gone or was
shelved. Merged
commands are why `Asked` looks at the command and not at who waits for it. The
assumptions are those on durations, on bounds and that null is none of the values.

`InstanceLifecycleProofs` proves `LifecycleTypeCorrect` (`TypeOK`), `OneMachineEach`
(`OneMachine`), `DeletionHasAReason` (`DeletedForAReason`) and `OneQueue`
(`Spec => UsesOneQueue`) for any requests, jobs and bounds. That an instance gets one
machine: until the machine is there, the CREATE command is with the request that
creates it, among the PENDING commands or in the queue, once and in one of these
places (`CreateInv`). That it is deleted for a reason: a property of the row alone is
not inductive, because older copies of it are saved; `CopiesInv` says the same of the
copies held by requests, by the worker and by the jobs, and `OrdersInv` that commands
to delete come from a user. The reasons are a request of a user, a machine that does not
exist any more, and one that somebody has shelved, since the code takes the three alike. For `OneQueue`, a command is accepted by `Queued`, begun by
`StartCommand`, ended by `EndCommand` and forgotten by `Restart`. The assumptions are
those on requests and bounds and that null is none of the values.

## What is only model-checked

Liveness (`queues`, `lifecycle_live`, `access`, `expiration`): it needs fairness and
ENABLED, which the prover does not handle. Of `ClosedRoomEmpties` the part that is
safety is proved. Every safety property that a passing run checks is proved, and so are the
refinements.

## What is not modelled

* `InstanceActionManager.cancel` when the caller's object is the queued one;
  in the program no caller has it.
* The contents of actions in the queue module, and the queue's internals in the
  lifecycle module: `InstanceActionQueue` is the interface between them.
* Names, addresses, protocols, security groups of a row; only when they are
  written matters to the columns kept.
* Clearing the sessions of an instance by START, SHUTDOWN, REBOOT and DELETE.
* The list of connected users sent to browsers. The activity that is recorded with
  display events, which saves a copy of the row of a member: it could bring back a
  row that another server has ended at its start.
* Requests for an extension (they record a wish; granting it is modelled), and the
  mails that announce an expiration.
* More than one server that runs the jobs: Quartz keeps its triggers in memory, and
  History.md:227 has the commands executed on a single server (`VISA_SCHEDULER_ENABLED`).
* A restart between the removal of a candidate and what `onAccessReply` does with the
  answer: it drops both, which a restart before the answer does as well. The put into
  `desktopConnections` and the entry into the room are one step, since nobody but its
  own handlers looks for the connection of a client that is not in the room yet.
* Tunnels, mail, templates, signature, authentication, GraphQL.

## Facts found while modelling

Besides the violations listed as findings: a command that is cancelled before it
starts is started all the same, because `InstanceCommandService.cancel` changes
the state of a copy and `InstanceCommand.equals` compares states (nothing in the
program calls it). A state action writes over a DELETING that was written after
it read the row. With refused saves a user command can
stay at the head of its queue until the server restarts; an instance whose
`compute_id` is lost to an older copy stays BUILDING for ever while its machine
is removed by the cleanup. An instance whose machine is shelved is declared
deleted: its row gets a date of deletion, `deleteAllExpired` drops its expiration, and
`CloudInstanceCleanupJob` destroys the machine, which exists and belongs to no row.

Two deletions come to nothing. *While the instance boots*: the request saves STOPPING,
but a state action that saw the machine active before saves STARTING over it, its ports
not being open yet; SHUTDOWN then stops the machine, and from then on
`StateInstanceAction` ignores STOPPED for an instance that is STARTING, while
`InstanceDeleteJob` looks for STOPPED only: the instance is marked and shut down, and
is not deleted (the exception of `MarkedIsDeletedUnlessStarting`; it does not hold
without it). *Over an older copy*: a state action reads the row, the request saves
`delete_requested` and STOPPING, and the action saves its copy with all columns; the
machine is shut down, the row becomes STOPPED, and nobody knows any more that it is to
be deleted.

In the rooms: a request for access and its cancellation are both sent to the client of
the owner that comes first in the hash order of the room at that moment. With two
clients of the owner on one server, the second of which has come since the request was
shown, the cancellation goes to the one that does not show it
(`CancellationReachesOwner` is therefore said of an owner with one client, although
History.md:285 makes no exception). `GoneIsReleased` is checked without candidates because it fails
with them. A candidate that leaves while the owner's thread connects it is
cancelled as a candidate, and the connection and member row made afterwards stay
for ever. A candidate in a room that is locked ends `lockRoom` with a
`NullPointerException`, which leaves some members unlocked and the connection of
the leaver in the map; this is why `RoomClientsAreConnected` excepts candidates.
A user who connects while the room is locked is not locked. A page loaded again
can leave the room locked with the owner in it. A server that starts with
`cleanupSessionsOnStartup` ends the sessions of clients of other servers.

Revocation asks for the clients that have a row: a client of the revoked user that
is still being connected has none, and is not disconnected.

Expiration: there is one row per instance, so that an expiration due to inactivity
hides that the lifetime ends earlier, and an instance can outlive its lifetime by
the time of the warning. Connecting to a desktop withdraws an expiration but does not
record activity; the next run of the job creates it again if no display data has
come meanwhile. `lastSeenAt` can be put back by a save of an older copy. Deleting the
row of an expiration that has vanished fails the commit of the whole service, and
the job starts again at its next trigger.

## Plan

1. Display activity in the rooms, and the policy of the room as an abstract
   specification that `DesktopRoom` implements without races on sessions.
2. The quota of instances of a user, which two requests can exceed.
3. Pure operators: security groups, ports, flavour limits.

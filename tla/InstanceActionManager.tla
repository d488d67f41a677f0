------------------------ MODULE InstanceActionManager ------------------------
(***************************************************************************)
(* The commands on instances: their rows in the table instance_command,    *)
(* the jobs that hand them to InstanceActionManager, the queue it keeps    *)
(* for each instance, and the pool of threads that runs them.              *)
(*                                                                         *)
(* Every method of the manager is synchronized, so each is one step.  The  *)
(* rows are written by InstanceCommandService, whose methods are           *)
(* transactions: a save of a worker thread is a transaction of its own,    *)
(* committed before the manager's lock is released, but a save made inside *)
(* InstanceCommandService.execute is committed only when execute returns,  *)
(* after the lock is released and after the pool may have started the      *)
(* command.                                                                *)
(***************************************************************************)
EXTENDS Naturals, Sequences

CONSTANTS
    Instance,     \* the virtual machines
    ActionType,   \* InstanceCommandType
    Command,      \* the commands that are ever created
    Worker,       \* the threads of the pool of InstanceActionDispatcher
    MaxCrashes    \* bound on the number of restarts of the server

\* "user": created with a user by a request; "deleteJob": created by
\* InstanceDeleteJob with the owner of the instance; "system": created with a
\* null user, and therefore never saved.
Origin == {"user", "deleteJob", "system"}

ASSUME CommandAssumption ==
    Command \subseteq [id : Nat, instance : Instance,
                       actionType : ActionType, origin : Origin]

ASSUME CrashAssumption == MaxCrashes \in Nat

HasRow(c) == c.origin # "system"

\* The two jobs that execute commands that have a row.
Caller == {"executorJob", "deleteJob"}

CommandState ==
    {"PENDING", "QUEUED", "RUNNING", "TERMINATED", "FAILED", "CANCELLED"}

VARIABLES
    db,           \* state column of each row, "none" when there is no row
    mem,          \* state of the InstanceCommand object held by the runner
    keys,         \* instances with an entry in the map InstanceActionManager.actions
    actions,      \* the deque of each of them (empty for the others)
    submitted,    \* the work queue of the pool
    pc,           \* where each thread of the pool is in InstanceActionRunner.call
    task,         \* the command of each thread that is not idle
    todo,         \* commands each job has loaded or created and not yet executed
    uncommitted,  \* saves made by execute and not yet committed
    started,      \* history: the commands with a row that have been started
    crashes       \* number of restarts so far

queueVars  == <<keys, actions, submitted>>
workerVars == <<pc, task>>
callerVars == <<todo, uncommitted>>
vars == <<db, mem, queueVars, workerVars, callerVars, started, crashes>>

TypeOK ==
    /\ db \in [Command -> CommandState \cup {"none"}]
    /\ mem \in [Command -> CommandState]
    /\ keys \subseteq Instance
    /\ actions \in [Instance -> Seq(Command)]
    /\ submitted \in Seq(Command)
    /\ pc \in [Worker -> {"idle", "start", "run", "returned", "threw"}]
    /\ DOMAIN task = Worker
    /\ \A w \in Worker : pc[w] # "idle" => task[w] \in Command
    /\ todo \in [Caller -> SUBSET Command]
    /\ uncommitted \subseteq [caller : Caller, command : Command,
                              state : CommandState]
    /\ started \subseteq Command
    /\ crashes \in Nat

Init ==
    /\ db = [c \in Command |-> "none"]
    /\ mem = [c \in Command |-> "PENDING"]
    /\ keys = {}
    /\ actions = [i \in Instance |-> <<>>]
    /\ submitted = <<>>
    /\ pc = [w \in Worker |-> "idle"]
    /\ task = [w \in Worker |-> <<>>]
    /\ todo = [j \in Caller |-> {}]
    /\ uncommitted = {}
    /\ started = {}
    /\ crashes = 0

------------------------------------------------------------------------------
(* InstanceActionManager.queue.  The operators marked "Faulty" are variants of  *)
(* the definition that follows them; no specification uses them.              *)

\* Faulty: only the very same command is looked for.
SameCommand(c) ==
    {k \in DOMAIN actions[c.instance] : actions[c.instance][k] = c}

SameType(c) ==
    {k \in DOMAIN actions[c.instance] :
        actions[c.instance][k].actionType = c.actionType}

\* Faulty: doExecute is ignored.
SubmitAlways(c) == submitted' = Append(submitted, c)

\* The future of the command is run, that is, its runner is submitted to the
\* pool, when the instance had no queue.
Submit(c) ==
    submitted' = IF c.instance \in keys THEN submitted ELSE Append(submitted, c)

Put(c) ==
    /\ SameType(c) = {}
    /\ mem' = [mem EXCEPT ![c] = "QUEUED"]
    /\ keys' = keys \cup {c.instance}
    /\ actions' = [actions EXCEPT ![c.instance] = Append(@, c)]

Enqueue(c) == Put(c) /\ Submit(c)

\* A command of the same type is queued or running: its future is returned.
Merge(c) ==
    /\ SameType(c) # {}
    /\ UNCHANGED <<mem, queueVars>>

\* A save inside execute: the row is loaded, and written at commit only if the
\* state has changed.
SaveInTransaction(j, c, s) ==
    uncommitted' = IF db[c] = s THEN uncommitted
                   ELSE uncommitted \cup {[caller |-> j, command |-> c, state |-> s]}

\* Faulty: removeLast.
WithoutLast(q) == IF q = <<>> THEN <<>> ELSE SubSeq(q, 1, Len(q) - 1)

WithoutFirst(q) == IF q = <<>> THEN <<>> ELSE Tail(q)

\* Faulty: the next future is not run.
RunNothing(q) == submitted' = submitted

RunFirst(q) ==
    submitted' = IF q = <<>> THEN submitted ELSE Append(submitted, Head(q))

\* The head leaves the queue, the next command is submitted, and an empty queue
\* is removed from the map.
HandleNextActionForInstance(i) ==
    LET rest == WithoutFirst(actions[i])
    IN  IF i \notin keys
        THEN UNCHANGED queueVars
        ELSE /\ actions' = [actions EXCEPT ![i] = rest]
             /\ keys' = IF rest = <<>> THEN keys \ {i} ELSE keys
             /\ RunFirst(rest)

------------------------------------------------------------------------------
(* Requests and jobs *)

\* A request creates a command with its user; InstanceCommandExecutorJob will
\* find it.
CreateCommand(c) ==
    /\ c.origin = "user"
    /\ db[c] = "none"
    /\ db' = [db EXCEPT ![c] = "PENDING"]
    /\ UNCHANGED <<mem, queueVars, workerVars, callerVars, started, crashes>>

\* Faulty: a job waits until no instance has a queue.
FreeWhenQuiet(j) == keys = {} /\ todo[j] = {} /\ \A u \in uncommitted : u.caller # j

\* A job thread is free when it has executed and committed all it took.
Free(j) == todo[j] = {} /\ \A u \in uncommitted : u.caller # j

\* Faulty: getAllActive instead of getAllPending.
Active == {c \in Command : db[c] \in {"PENDING", "QUEUED", "RUNNING"}}

Pending == {c \in Command : db[c] = "PENDING"}

\* InstanceCommandExecutorJob.execute: getAllPending.
LoadPending ==
    /\ Free("executorJob")
    /\ Pending # {}
    /\ todo' = [todo EXCEPT !["executorJob"] = Pending]
    /\ UNCHANGED <<db, mem, queueVars, workerVars, uncommitted, started, crashes>>

\* InstanceDeleteJob.execute: the command is saved PENDING, then executed by
\* the same thread.
CreateDelete(c) ==
    /\ c.origin = "deleteJob"
    /\ db[c] = "none"
    /\ Free("deleteJob")
    /\ db' = [db EXCEPT ![c] = "PENDING"]
    /\ todo' = [todo EXCEPT !["deleteJob"] = {c}]
    /\ UNCHANGED <<mem, queueVars, workerVars, uncommitted, started, crashes>>

\* The job executes the commands it has loaded in the order of their ids, one
\* transaction after the other.
Turn(j, c) ==
    /\ c \in todo[j]
    /\ \A d \in todo[j] : c.id <= d.id
    /\ \A u \in uncommitted : u.caller # j

\* InstanceCommandService.execute up to its commit, for a command with a row.
Execute(j, c) ==
    /\ Turn(j, c)
    /\ todo' = [todo EXCEPT ![j] = @ \ {c}]
    /\ \/ Enqueue(c) /\ SaveInTransaction(j, c, "QUEUED")
       \/ Merge(c) /\ SaveInTransaction(j, c, "TERMINATED")
    /\ UNCHANGED <<db, workerVars, started, crashes>>

Commit(j) ==
    \E u \in uncommitted :
        /\ u.caller = j
        /\ db' = [db EXCEPT ![u.command] = u.state]
        /\ uncommitted' = uncommitted \ {u}
        /\ UNCHANGED <<mem, queueVars, workerVars, todo, started, crashes>>

\* InstanceStateJob, InstanceSecurityGroupUpdateJob and deleteAllExpired create
\* a command without user and execute it: nothing is saved.  An object that has
\* left the queue and the pool is available again for a new command.
ExecuteSystem(c) ==
    /\ c.origin = "system"
    /\ Enqueue(c)
    /\ UNCHANGED <<db, workerVars, callerVars, started, crashes>>

\* InstanceCommandService.cancel loads the command again, marks this new object
\* CANCELLED, saves it, and removes from the queue the entries equal to it.
\* InstanceCommand.equals compares the users, here any two of them, and the states.
\* The transaction is the step of its commit: it finds no entry to remove, whenever it
\* looks (CancelRemovesNothing).
Cancel(c) ==
    LET equal(d) == /\ HasRow(d)
                    /\ d.actionType = c.actionType
                    /\ mem[d] = "CANCELLED"
        unequal(d) == ~equal(d)
        q == actions[c.instance]
    IN  /\ db[c] \notin {"none", "CANCELLED"}
        /\ db' = [db EXCEPT ![c] = "CANCELLED"]
        /\ IF \E k \in DOMAIN q : equal(q[k])
           THEN actions' = [actions EXCEPT ![c.instance] = SelectSeq(@, unequal)]
           ELSE UNCHANGED actions
        /\ UNCHANGED <<mem, keys, submitted, workerVars, callerVars, started, crashes>>

------------------------------------------------------------------------------
(* The threads of the pool: InstanceActionRunner.call *)

Goto(w, from, to) == pc[w] = from /\ pc' = [pc EXCEPT ![w] = to]

\* Faulty: the thread gets no runner.
HandNothing(w) == UNCHANGED task

Hand(w) == task' = [task EXCEPT ![w] = Head(submitted)]

Take(w) ==
    /\ submitted # <<>>
    /\ Goto(w, "idle", "start")
    /\ Hand(w)
    /\ submitted' = Tail(submitted)
    /\ UNCHANGED <<db, mem, keys, actions, callerVars, started, crashes>>

\* A save of a worker thread, committed at once; commands without user have no row.
Save(c, s) == db' = IF HasRow(c) THEN [db EXCEPT ![c] = s] ELSE db

OnActionStart(w) ==
    /\ Goto(w, "start", "run")
    /\ mem' = [mem EXCEPT ![task[w]] = "RUNNING"]
    /\ Save(task[w], "RUNNING")
    /\ started' = IF HasRow(task[w]) THEN started \cup {task[w]} ELSE started
    /\ UNCHANGED <<queueVars, task, callerVars, crashes>>

\* InstanceAction.run returns or throws.
RunAction(w) ==
    /\ \E outcome \in {"returned", "threw"} : Goto(w, "run", outcome)
    /\ UNCHANGED <<db, mem, queueVars, task, callerVars, started, crashes>>

\* onActionTerminated and onActionFailed: the state is read from the row, and
\* a command that was cancelled meanwhile stays CANCELLED.
Conclude(w, from, final) ==
    LET c == task[w]
        cancelled == HasRow(c) /\ db[c] = "CANCELLED"
        s == IF cancelled THEN "CANCELLED" ELSE final
    IN  /\ Goto(w, from, "idle")
        /\ task' = [task EXCEPT ![w] = <<>>]
        /\ mem' = [mem EXCEPT ![c] = s]
        /\ Save(c, s)
        /\ HandleNextActionForInstance(c.instance)
        /\ UNCHANGED <<callerVars, started, crashes>>

OnActionTerminated(w) == Conclude(w, "returned", "TERMINATED")
OnActionFailed(w)     == Conclude(w, "threw", "FAILED")

WorkerStep(w) ==
    OnActionStart(w) \/ RunAction(w) \/ OnActionTerminated(w) \/ OnActionFailed(w)

------------------------------------------------------------------------------
(* Failures *)

\* The server stops and starts again: the rows survive, the queues, the pool
\* and the open transactions do not, and nothing reads QUEUED or RUNNING rows.
Restart ==
    /\ crashes < MaxCrashes
    /\ crashes' = crashes + 1
    /\ mem' = [c \in Command |-> "PENDING"]
    /\ keys' = {}
    /\ actions' = [i \in Instance |-> <<>>]
    /\ submitted' = <<>>
    /\ pc' = [w \in Worker |-> "idle"]
    /\ task' = [w \in Worker |-> <<>>]
    /\ todo' = [j \in Caller |-> {}]
    /\ uncommitted' = {}
    /\ UNCHANGED <<db, started>>

\* The database refuses the save of queue(): the command is in the queue but
\* its future is not run, and the job stops with an exception.
ExecuteSaveFails(j, c) ==
    /\ Turn(j, c)
    /\ todo' = [todo EXCEPT ![j] = {}]
    /\ (Put(c) /\ UNCHANGED submitted) \/ Merge(c)
    /\ UNCHANGED <<db, workerVars, uncommitted, started, crashes>>

\* The database refuses the commit of execute: the command stays queued.
CommitFails(j) ==
    /\ \E u \in uncommitted : u.caller = j /\ uncommitted' = uncommitted \ {u}
    /\ todo' = [todo EXCEPT ![j] = {}]
    /\ UNCHANGED <<db, mem, queueVars, workerVars, started, crashes>>

\* onActionStart throws, outside the try of call: no listener is told and the
\* command stays at the head of its queue.
StartSaveFails(w) ==
    /\ Goto(w, "start", "idle")
    /\ HasRow(task[w])
    /\ task' = [task EXCEPT ![w] = <<>>]
    /\ mem' = [mem EXCEPT ![task[w]] = "RUNNING"]
    /\ UNCHANGED <<db, queueVars, callerVars, started, crashes>>

\* onActionTerminated throws: call catches it and reports a failure.
\* onActionFailed throws: the exception leaves call.  Nothing is saved of a command
\* that was cancelled; the object has its state before the save.
ConcludeSaveFails(w) ==
    /\ pc[w] \in {"returned", "threw"}
    /\ HasRow(task[w]) /\ db[task[w]] # "CANCELLED"
    /\ mem' = [mem EXCEPT ![task[w]] = IF pc[w] = "returned" THEN "TERMINATED" ELSE "FAILED"]
    /\ pc' = [pc EXCEPT ![w] = IF @ = "returned" THEN "threw" ELSE "idle"]
    /\ task' = IF pc[w] = "returned" THEN task ELSE [task EXCEPT ![w] = <<>>]
    /\ UNCHANGED <<db, queueVars, callerVars, started, crashes>>

SaveFailure ==
    \/ \E j \in Caller, c \in Command : ExecuteSaveFails(j, c)
    \/ \E j \in Caller : CommitFails(j)
    \/ \E w \in Worker : StartSaveFails(w) \/ ConcludeSaveFails(w)

------------------------------------------------------------------------------

Next ==
    \/ \E c \in Command :
          CreateCommand(c) \/ CreateDelete(c) \/ ExecuteSystem(c) \/ Cancel(c)
    \/ LoadPending
    \/ \E j \in Caller, c \in Command : Execute(j, c)
    \/ \E j \in Caller : Commit(j)
    \/ \E w \in Worker : Take(w) \/ WorkerStep(w)
    \/ Restart

Spec == Init /\ [][Next]_vars

\* With a database that may refuse any save.
FailingSpec == Init /\ [][Next \/ SaveFailure]_vars

\* The scheduler keeps triggering its jobs, a transaction is eventually
\* committed, an idle thread of the pool takes submitted work, and a running
\* action eventually returns or throws.
Fairness ==
    /\ WF_vars(LoadPending)
    /\ \A j \in Caller : WF_vars(\E c \in Command : Execute(j, c))
    /\ \A j \in Caller : WF_vars(Commit(j))
    /\ WF_vars(\E w \in Worker : Take(w))
    /\ \A w \in Worker : WF_vars(WorkerStep(w))

FairSpec == Spec /\ Fairness

------------------------------------------------------------------------------
(* Properties *)

\* A command is being served between onActionStart and the end of call.
Serving(w) == pc[w] \in {"run", "returned", "threw"}

\* Two actions never work on the same instance at the same time, whatever the
\* size of the pool: InstanceActionManager gives each instance a queue of its
\* own and dispatches only the head of a queue.
OneActionPerInstance ==
    \A v, w \in Worker :
        v # w /\ Serving(v) /\ Serving(w) => task[v].instance # task[w].instance

\* Whatever save the database refuses, a command is served only while it is at
\* the head of the queue of its instance: nothing overtakes a command that is
\* stuck there.
ServedIsHead ==
    \A w \in Worker : Serving(w) =>
        LET q == actions[task[w].instance] IN q # <<>> /\ task[w] = Head(q)

\* At most one command of each type is queued or running for an instance: a
\* second one is answered with the future of the first.
OnePerType ==
    \A i \in Instance : \A k, l \in DOMAIN actions[i] :
        actions[i][k].actionType = actions[i][l].actionType => k = l

\* The threads and the pool hold exactly one command for each instance that has
\* a queue, its head, and none for the others: no queue is left without a
\* command in progress, and no command is dispatched before its turn.
Dispatched(i) ==
    [threads |-> {w \in Worker : pc[w] # "idle" /\ task[w].instance = i},
     places  |-> {k \in DOMAIN submitted : submitted[k].instance = i}]

HeadIsDispatched ==
    \A i \in Instance :
        LET d == Dispatched(i)
        IN  IF i \in keys
            THEN \/ \E w \in d.threads : /\ d.threads = {w} /\ d.places = {}
                                         /\ actions[i] # <<>>
                                         /\ task[w] = Head(actions[i])
                 \/ \E k \in d.places : /\ d.places = {k} /\ d.threads = {}
                                        /\ actions[i] # <<>>
                                        /\ submitted[k] = Head(actions[i])
            ELSE d.threads = {} /\ d.places = {} /\ actions[i] = <<>>

\* A command created by a request is started at most once, across restarts, late
\* commits and cancellations: InstanceCommandExecutorJob takes PENDING rows only,
\* and a command that was started is never PENDING again.
StartedOnce ==
    \A w \in Worker :
        pc[w] = "start" /\ task[w].origin = "user" => task[w] \notin started

\* The manager behaves as one serial queue for each instance.
AbstractQueue ==
    INSTANCE InstanceActionQueue
        WITH queue   <- actions,
             serving <- {task[w].instance : w \in {v \in Worker : Serving(v)}}

ImplementsQueue == AbstractQueue!Spec

\* Also when the database refuses saves: an instance whose head is held by no
\* thread and is not in the pool is stuck, it is never served again before a
\* restart, and nothing overtakes its head.
AbstractFailingQueue ==
    INSTANCE InstanceActionQueueFailing
        WITH queue   <- actions,
             serving <- {task[w].instance : w \in {v \in Worker : Serving(v)}},
             stuck   <- {i \in Instance : /\ actions[i] # <<>>
                                          /\ Dispatched(i).threads = {}
                                          /\ Dispatched(i).places = {}}

ImplementsFailingQueue == AbstractFailingQueue!FailingSpec

\* Every PENDING row is eventually taken by a job, also when the server restarts
\* before the command was committed as QUEUED.
PendingIsTaken ==
    \A c \in Command : (db[c] = "PENDING") ~> (db[c] # "PENDING")

\* Every command accepted in a queue eventually comes to its end, if the server
\* does not restart meanwhile.
InQueue(c) == \E k \in DOMAIN actions[c.instance] : actions[c.instance][k] = c

QueuedIsConcluded ==
    \A c \in Command : \A n \in 0..MaxCrashes :
        (InQueue(c) /\ crashes = n) ~>
            (crashes # n \/ mem[c] \in {"TERMINATED", "FAILED", "CANCELLED"})

\* InstanceActionManagerTest asserts TERMINATED or FAILED once the future of the
\* command has been answered.
ConcludedIsRecorded ==
    \A c \in Command :
        mem[c] \in {"TERMINATED", "FAILED"} /\ db[c] # "none"
           /\ (\A u \in uncommitted : u.command # c)
        => db[c] \notin {"PENDING", "QUEUED", "RUNNING"}
==============================================================================

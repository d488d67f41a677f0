------------------------ MODULE InstanceExpirationProofs ------------------------
(***************************************************************************)
(* Proofs about InstanceExpiration, for any instances, users, durations    *)
(* and dates and any number of requests, failures and restarts: types, the *)
(* future that deleteAllExpired waits for is answered, an expiration is    *)
(* kept until the machine of its instance is gone or shelved, and the      *)
(* whole implements InstanceExpiryPolicy.                                  *)
(*                                                                         *)
(* The second and the third need to know what the job holds while a worker *)
(* writes its entity, and that every copy of a row which says DELETED is a *)
(* copy of an instance whose machine is gone or has been shelved.          *)
(***************************************************************************)
EXTENDS InstanceExpiration, TLAPS

------------------------------------------------------------------------------
(* The inductive invariant *)

\* What is listed has been read.
ListedIsLoaded == \A i \in listed : loaded[i] # None

\* The entities are those of the rows that have been read.
EntityIsLoaded == \A i \in Instance : loaded[i] = None <=> entity[i] = None

\* getAllNewTerminations returns instances with a date.
TerminatingHasDate == stage = "terminating" => \A i \in listed : entity[i].terminationDate # None

\* Only deleteAllExpired waits, for one instance that it has read.
AwaitedIsLoaded == awaited # None => stage = "expired" /\ loaded[awaited] # None

OutcomeIsAwaited == awaited = None => outcome = None

\* The command of the job is the one that it waits for.
JobCommandIsAwaited ==
    \A i \in Instance : deletion[i] # None /\ deletion[i].by = "job" => awaited = i /\ outcome = None

JobInv ==
    /\ ListedIsLoaded /\ EntityIsLoaded /\ TerminatingHasDate /\ AwaitedIsLoaded
    /\ OutcomeIsAwaited /\ JobCommandIsAwaited /\ WaitIsAnswered

\* A copy of a row that tells of a completed deletion.
TellsDeleted(r) == r.state = "DELETED" \/ r.deleted

RowsAreTrue == \A i \in Instance : TellsDeleted(row[i]) => machine[i] # "running"

RequestsAreTrue ==
    \A u \in User : request[u] # Idle /\ TellsDeleted(request[u].copy) => machine[request[u].instance] # "running"

EntitiesAreTrue ==
    \A i \in Instance :
        /\ loaded[i] # None /\ TellsDeleted(loaded[i]) => machine[i] # "running"
        /\ entity[i] # None /\ TellsDeleted(entity[i]) => machine[i] # "running"

WorkersAreTrue == \A i \in Instance : At(i, "read") \/ At(i, "save") => machine[i] # "running"

RemovedIsGone == \A i \in removed : machine[i] # "running"

OutcomeIsTrue == awaited # None /\ outcome = "deleted" => machine[awaited] # "running"

TruthInv ==
    /\ RowsAreTrue /\ RequestsAreTrue /\ EntitiesAreTrue /\ WorkersAreTrue
    /\ RemovedIsGone /\ OutcomeIsTrue

Inv == TypeOK /\ JobInv /\ TruthInv

------------------------------------------------------------------------------
(* Facts about the operators *)

LEMMA NoneIsNoData ==
    /\ None \notin Instance /\ None \notin Date /\ None \notin Row /\ None \notin Expiration
    /\ None \notin Deletion /\ None \notin Outcome
BY NoneAssumption

LEMMA RowOperators ==
    ASSUME NEW r \in Row, NEW s \in {"ACTIVE", "DELETING", "DELETED"}
    PROVE  InState(r, s) \in Row /\ Deleted(r) \in Row
BY DEF InState, Deleted, Row

LEMMA InitInv == Init => Inv
<1> SUFFICES ASSUME Init PROVE Inv
  OBVIOUS
<1> USE DurationAssumption, NoneIsNoData DEF Init, NotLoaded
<1>1. TypeOK
  BY DEF TypeOK, Row, Date, Stage, Machine
<1>2. JobInv
  BY DEF JobInv, ListedIsLoaded, EntityIsLoaded, TerminatingHasDate, AwaitedIsLoaded,
         OutcomeIsAwaited, JobCommandIsAwaited, WaitIsAnswered
<1>3. TruthInv
  BY DEF TruthInv, RowsAreTrue, RequestsAreTrue, EntitiesAreTrue, WorkersAreTrue, RemovedIsGone,
         OutcomeIsTrue, TellsDeleted, At
<1> QED
  BY <1>1, <1>2, <1>3 DEF Inv

------------------------------------------------------------------------------
(* Types *)

LEMMA RequestType ==
    ASSUME TypeOK, NEW u \in User, RequestStep(u) PROVE TypeOK'
<1> DEFINE q == request[u]
<1>0. q \in Busy /\ q.instance \in Instance /\ q.copy \in Row
  BY DEF TypeOK, RequestStep, UpdateLastSeenAt, OnInstanceActivated, GrantExtension, SaveDeleting,
         QueueDeletion, Doing, Busy
<1>1. CASE UpdateLastSeenAt(u)
  <2>1. Seen(q.copy) \in Row /\ now' \in Date
    BY <1>0, <1>1 DEF UpdateLastSeenAt, DateTaken, Seen, Row, Date, TypeOK
  <2>2. request' \in [User -> Busy \cup {Idle}]
    BY <1>0, <1>1 DEF UpdateLastSeenAt, Proceed, Finish, TypeOK, Busy
  <2> QED
    BY <1>0, <1>1, <2>1, <2>2 DEF UpdateLastSeenAt, TypeOK, jobVars, boundVars
<1>2. CASE OnInstanceActivated(u)
  <2>1. expiration' \in [Instance -> Expiration \cup {None}]
    BY <1>0, <1>2 DEF OnInstanceActivated, TypeOK
  <2>2. request' \in [User -> Busy \cup {Idle}]
    BY <1>0, <1>2 DEF OnInstanceActivated, Finish, TypeOK
  <2> QED
    <3>1. UNCHANGED <<row, machine, deletion, jobVars, now, boundVars>>
      BY <1>2 DEF OnInstanceActivated
    <3> QED
      BY <3>1, <2>1, <2>2 DEF TypeOK, jobVars, boundVars
<1>3. CASE GrantExtension(u)
  <2>1. \A d \in ExtensionDate : [q.copy EXCEPT !.terminationDate = d] \in Row
    <3>1. ExtensionDate \subseteq Date \cup {None}
      BY DurationAssumption DEF ExtensionDate, Date, TypeOK
    <3> HIDE DEF q
    <3> QED
      BY <1>0, <3>1 DEF Row
  <2>2. row' \in [Instance -> Row]
    BY <1>0, <1>3, <2>1 DEF GrantExtension, TypeOK
  <2> QED
    BY <1>0, <1>3, <2>2 DEF GrantExtension, Finish, TypeOK, jobVars, boundVars
<1>4. CASE SaveDeleting(u)
  <2>1. InState(q.copy, "DELETING") \in Row
    BY <1>0, RowOperators
  <2>2. request' \in [User -> Busy \cup {Idle}]
    BY <1>0, <1>4 DEF SaveDeleting, Proceed, TypeOK, Busy
  <2> QED
    BY <1>0, <1>4, <2>1, <2>2 DEF SaveDeleting, TypeOK, jobVars, boundVars
<1>5. CASE QueueDeletion(u)
  BY <1>0, <1>5 DEF QueueDeletion, Queued, Finish, TypeOK, Deletion, jobVars, boundVars
<1> QED
  BY <1>1, <1>2, <1>3, <1>4, <1>5 DEF RequestStep

\* What a worker does leaves a command in the queue, of the same origin.
LEMMA WorkerDeletion ==
    ASSUME TypeOK, NEW i \in Instance, RunDelete(i) \/ UpdateInstanceState(i) \/ SaveDeleted(i)
    PROVE  \E e \in Deletion : e.by = deletion[i].by /\ deletion' = [deletion EXCEPT ![i] = e]
<1> DEFINE d == deletion[i]
<1>0. row[i] \in Row /\ d \in Deletion
  BY DEF TypeOK, RunDelete, UpdateInstanceState, SaveDeleted, At
<1>1. CASE RunDelete(i)
  <2>1. d \in [by : {"job", "user"}, pc : {"queued", "read"}, copy : {None}]
    BY <1>0, <1>1 DEF RunDelete, At, Deletion
  <2>2. \A p \in {"read", "done", "failed"} :
           [d EXCEPT !.pc = p] \in Deletion /\ [d EXCEPT !.pc = p].by = d.by
    BY <2>1 DEF Deletion
  <2>3. PICK p \in {"read", "done", "failed"} : SetDeletion(i, p)
    BY <1>1 DEF RunDelete
  <2>4. deletion' = [deletion EXCEPT ![i] = [d EXCEPT !.pc = p]]
    BY <2>3 DEF SetDeletion
  <2> QED
    BY <2>2, <2>4
<1>2. CASE UpdateInstanceState(i)
  <2>1. d \in [by : {"job", "user"}, pc : {"queued", "read"}, copy : {None}]
    BY <1>0, <1>2 DEF UpdateInstanceState, At, Deletion
  <2>2. [d EXCEPT !.pc = "done"] \in Deletion /\ [d EXCEPT !.pc = "done"].by = d.by
    BY <2>1 DEF Deletion
  <2> DEFINE e == [d EXCEPT !.pc = "save", !.copy = Deleted(row[i])]
  <2>3. e \in Deletion /\ e.by = d.by
    BY <1>0, <2>1, RowOperators DEF Deletion
  <2>4. \/ deletion' = [deletion EXCEPT ![i] = [d EXCEPT !.pc = "done"]]
        \/ deletion' = [deletion EXCEPT ![i] = e]
    BY <1>2 DEF UpdateInstanceState
  <2> HIDE DEF e
  <2> QED
    BY <2>2, <2>3, <2>4
<1>3. CASE SaveDeleted(i)
  <2> DEFINE e == [d EXCEPT !.pc = "done", !.copy = None]
  <2>1. d \in [by : {"job", "user"}, pc : {"save"}, copy : Row]
    BY <1>0, <1>3 DEF SaveDeleted, At, Deletion
  <2>2. e \in Deletion /\ e.by = d.by
    BY <2>1 DEF Deletion
  <2>3. deletion' = [deletion EXCEPT ![i] = e]
    BY <1>3 DEF SaveDeleted
  <2> QED
    BY <2>2, <2>3
<1> QED
  BY <1>1, <1>2, <1>3

LEMMA WorkerType ==
    ASSUME TypeOK, JobInv, NEW i \in Instance, WorkerStep(i) \/ UpdateState(i) PROVE TypeOK'
<1> DEFINE d == deletion[i]
<1>0. /\ row[i] \in Row
      /\ d # None => d \in Deletion
  BY DEF TypeOK
<1>1. CASE RunDelete(i)
  <2>1. deletion' \in [Instance -> Deletion \cup {None}]
    BY <1>1, WorkerDeletion DEF TypeOK
  <2>2. machine' \in [Instance -> Machine]
    BY <1>1 DEF RunDelete, Without, TypeOK, Machine
  <2>3. requests' \in Nat /\ faults' \in Nat /\ crashes' \in Nat
    BY <1>1 DEF RunDelete, CloudFault, TypeOK, boundVars
  <2> QED
    BY <1>1, <2>1, <2>2, <2>3 DEF RunDelete, TypeOK, jobVars
<1>2. CASE UpdateInstanceState(i)
  <2>1. deletion' \in [Instance -> Deletion \cup {None}]
    BY <1>2, WorkerDeletion DEF TypeOK
  <2>2. entity' \in [Instance -> Row \cup {None}]
    <3>1. CASE d.by = "job"
      <4>1. entity[i] \in Row
        BY <1>2, <3>1, NoneIsNoData DEF UpdateInstanceState, At, TypeOK, JobInv,
             JobCommandIsAwaited, AwaitedIsLoaded, EntityIsLoaded
      <4> QED
        BY <1>2, <3>1, <4>1, RowOperators DEF UpdateInstanceState, TypeOK
    <3>2. CASE d.by # "job"
      BY <1>2, <3>2 DEF UpdateInstanceState, TypeOK
    <3> QED
      BY <3>1, <3>2
  <2> QED
    BY <1>2, <2>1, <2>2 DEF UpdateInstanceState, TypeOK, boundVars
<1>3. CASE SaveDeleted(i)
  <2>1. d \in [by : {"job", "user"}, pc : {"save"}, copy : Row]
    BY <1>0, <1>3 DEF SaveDeleted, At, Deletion
  <2>2. d.copy \in Row
    BY <2>1
  <2>3. deletion' \in [Instance -> Deletion \cup {None}]
    BY <1>3, WorkerDeletion DEF TypeOK
  <2> QED
    BY <1>3, <2>2, <2>3 DEF SaveDeleted, TypeOK, jobVars, boundVars
<1>4. CASE EndDelete(i)
  BY <1>4 DEF EndDelete, TypeOK, Outcome, boundVars
<1>5. CASE UpdateState(i)
  BY <1>0, <1>5, RowOperators
     DEF UpdateState, DateDeletion, FindDeleted, CorrectDeleting, TypeOK, jobVars, boundVars
<1> QED
  BY <1>1, <1>2, <1>3, <1>4, <1>5 DEF WorkerStep

LEMMA ShelvingType ==
    ASSUME TypeOK, NEW i \in Instance, Shelve(i) \/ Unshelve(i) PROVE TypeOK'
<1>1. machine' \in [Instance -> Machine]
  BY DEF Shelve, Unshelve, TypeOK, Machine
<1>2. requests' \in Nat /\ faults' \in Nat /\ crashes' \in Nat
  BY DEF Shelve, Unshelve, CloudFault, TypeOK, boundVars
<1> QED
  BY <1>1, <1>2 DEF Shelve, Unshelve, TypeOK, jobVars

LEMMA CloseType ==
    ASSUME NEW s \in Stage, Close(s)
    PROVE  /\ stage' \in Stage /\ listed' \subseteq Instance /\ removed' \subseteq Instance
           /\ loaded' \in [Instance -> Row \cup {None}] /\ entity' \in [Instance -> Row \cup {None}]
           /\ awaited' \in Instance \cup {None} /\ outcome' \in Outcome \cup {None}
BY DEF Close, NotLoaded

LEMMA BeginType ==
    ASSUME TypeOK, NEW s \in Stage, NEW list \in SUBSET Instance, Begin(s, list) PROVE TypeOK'
<1>1. NextStage[s] \in Stage
  BY DEF NextStage, Stage
<1> QED
  BY <1>1 DEF Begin, TypeOK, boundVars

LEMMA CreateType ==
    ASSUME TypeOK, NEW date \in [listed -> Date], Create(date)
    PROVE  expiration' \in [Instance -> Expiration \cup {None}] /\ now' \in Date
BY DEF Create, DateTaken, TypeOK, Expiration, Date

\* Expirations are created with dates: the job has the rows that it lists, and those of
\* getAllNewTerminations have a date.
LEMMA CreatedDates ==
    ASSUME TypeOK, JobInv, CommitInactive \/ CommitTerminating
    PROVE  \E date \in [listed -> Date] : Create(date)
<1>1. \A i \in listed : entity[i] \in Row
  BY NoneIsNoData DEF TypeOK, JobInv, ListedIsLoaded, EntityIsLoaded
<1>2. CASE CommitInactive
  <2>1. [i \in listed |-> entity[i].lastSeenAt + MaxInactivity] \in [listed -> Date]
    BY <1>1, DurationAssumption DEF Row, Date
  <2> QED
    BY <1>2, <2>1 DEF CommitInactive
<1>3. CASE CommitTerminating
  <2>1. \A i \in listed : entity[i].terminationDate # None
    BY <1>3 DEF CommitTerminating, InCommit, JobInv, TerminatingHasDate
  <2>2. [i \in listed |-> entity[i].terminationDate] \in [listed -> Date]
    BY <1>1, <2>1 DEF Row
  <2> QED
    BY <1>3, <2>2 DEF CommitTerminating
<1> QED
  BY <1>2, <1>3

LEMMA JobType == ASSUME TypeOK, JobInv, JobStep PROVE TypeOK'
<1> USE DEF Stage
<1>1. CASE BeginWithdraw
  BY <1>1, BeginType DEF BeginWithdraw
<1>2. CASE BeginInactive
  BY <1>2, BeginType DEF BeginInactive
<1>3. CASE BeginTerminating
  BY <1>3, BeginType DEF BeginTerminating
<1>4. CASE BeginExpired
  BY <1>4, BeginType DEF BeginExpired
<1>5. CASE CommitWithdraw
  <2>1. Close("withdraw") \/ Close("inactive")
    BY <1>5 DEF CommitWithdraw
  <2>2. expiration' \in [Instance -> Expiration \cup {None}]
    BY <1>5 DEF CommitWithdraw, TypeOK
  <2> QED
    BY <1>5, <2>1, <2>2, CloseType DEF CommitWithdraw, TypeOK, boundVars
<1>6. CASE CommitInactive \/ CommitTerminating
  <2>1. PICK date \in [listed -> Date] : Create(date)
    BY <1>6, CreatedDates
  <2>2. Close("terminating") \/ Close("expired")
    BY <1>6 DEF CommitInactive, CommitTerminating
  <2> QED
    BY <2>1, <2>2, CloseType, CreateType DEF Create, TypeOK, boundVars
<1>7. ASSUME NEW i \in Instance, DeleteExpired(i) PROVE TypeOK'
  <2>1. deletion' \in [Instance -> Deletion \cup {None}]
    BY <1>7 DEF DeleteExpired, Queued, TypeOK, Deletion
  <2>2. entity' \in [Instance -> Row \cup {None}]
    <3>1. entity[i] \in Row
      BY <1>7, NoneIsNoData DEF DeleteExpired, TypeOK, JobInv, ListedIsLoaded, EntityIsLoaded
    <3> QED
      BY <1>7, <3>1, RowOperators DEF DeleteExpired, TypeOK
  <2> QED
    BY <1>7, <2>1, <2>2 DEF DeleteExpired, TypeOK, boundVars
<1>8. CASE Conclude
  <2>1. awaited \in Instance /\ entity[awaited] \in Row /\ loaded[awaited] \in Row
    BY <1>8, NoneIsNoData DEF Conclude, TypeOK, JobInv, AwaitedIsLoaded, EntityIsLoaded
  <2>2. InState(entity[awaited], loaded[awaited].state) \in Row
    BY <2>1, RowOperators DEF Row
  <2> QED
    BY <1>8, <2>1, <2>2 DEF Conclude, TypeOK, boundVars
<1>9. CASE CommitExpired
  <2>1. Written \in [Instance -> Row]
    BY NoneIsNoData DEF Written, TypeOK, JobInv, EntityIsLoaded
  <2> QED
    BY <1>9, <2>1, CloseType DEF CommitExpired, TypeOK, boundVars
<1> QED
  BY <1>1, <1>2, <1>3, <1>4, <1>5, <1>6, <1>7, <1>8, <1>9 DEF JobStep

LEMMA TypeKept == ASSUME TypeOK, JobInv, [Next]_vars PROVE TypeOK'
<1>1. CASE Tick
  BY <1>1 DEF Tick, TypeOK, Date, jobVars, boundVars
<1>2. ASSUME NEW u \in User, NEW i \in Instance, NEW k \in Kind, Receive(u, i, k) PROVE TypeOK'
  <2>1. [pc |-> k, instance |-> i, copy |-> row[i]] \in Busy
    BY DEF Busy, Kind, TypeOK
  <2> QED
    BY <1>2, <2>1 DEF Receive, TypeOK, jobVars
<1>3. CASE Restart
  BY <1>3, CloseType DEF Restart, TypeOK, Stage
<1>4. CASE UNCHANGED vars
  BY <1>4 DEF vars, jobVars, boundVars, TypeOK
<1> QED
  BY <1>1, <1>2, <1>3, <1>4, RequestType, WorkerType, ShelvingType, JobType DEF Next

------------------------------------------------------------------------------
(* What the job holds *)

\* A command is added to a queue that has none of the same type.
LEMMA QueuedFact ==
    ASSUME TypeOK, NEW i \in Instance, NEW by \in {"job", "user"}, Queued(i, by)
    PROVE  /\ deletion'[i] # None
           /\ \A j \in Instance : deletion[j] # None => deletion'[j] = deletion[j]
           /\ \A j \in Instance : deletion'[j] # None /\ deletion[j] = None
                                    => j = i /\ deletion'[j].by = by
<1>1. [by |-> by, pc |-> "queued", copy |-> None] \in Deletion
  BY DEF Deletion
<1> QED
  BY <1>1, NoneIsNoData DEF Queued, TypeOK

\* Changing what a worker does keeps whose command it runs.
LEMMA WorkerFact ==
    ASSUME TypeOK, NEW i \in Instance, RunDelete(i) \/ UpdateInstanceState(i) \/ SaveDeleted(i)
    PROVE  \A j \in Instance : /\ deletion'[j] = None <=> deletion[j] = None
                               /\ deletion[j] # None => deletion'[j].by = deletion[j].by
<1>1. deletion[i] # None
  BY DEF RunDelete, UpdateInstanceState, SaveDeleted, At
<1> QED
  BY <1>1, WorkerDeletion, NoneIsNoData DEF TypeOK

LEMMA JobInvOfClose ==
    ASSUME TypeOK, JobInv, NEW s, Close(s), UNCHANGED deletion, awaited = None PROVE JobInv'
BY NoneIsNoData
   DEF Close, NotLoaded, JobInv, ListedIsLoaded, EntityIsLoaded, TerminatingHasDate, AwaitedIsLoaded,
       OutcomeIsAwaited, JobCommandIsAwaited, WaitIsAnswered

\* An action of somebody else leaves the job alone and at most adds a command.
LEMMA JobInvOfOthers ==
    ASSUME TypeOK, JobInv, UNCHANGED jobVars,
           UNCHANGED deletion \/ \E i \in Instance : Queued(i, "user")
    PROVE  JobInv'
<1> USE DEF JobInv, jobVars
<1>1. ListedIsLoaded' /\ EntityIsLoaded' /\ TerminatingHasDate' /\ AwaitedIsLoaded' /\ OutcomeIsAwaited'
  BY DEF ListedIsLoaded, EntityIsLoaded, TerminatingHasDate, AwaitedIsLoaded, OutcomeIsAwaited
<1>2. CASE UNCHANGED deletion
  BY <1>1, <1>2 DEF JobCommandIsAwaited, WaitIsAnswered
<1>3. ASSUME NEW i \in Instance, Queued(i, "user") PROVE JobCommandIsAwaited' /\ WaitIsAnswered'
  <2>1. /\ \A j \in Instance : deletion[j] # None => deletion'[j] = deletion[j]
        /\ \A j \in Instance : deletion'[j] # None /\ deletion[j] = None => deletion'[j].by = "user"
    BY <1>3, QueuedFact
  <2>2. JobCommandIsAwaited'
    BY <2>1 DEF JobCommandIsAwaited
  <2>3. WaitIsAnswered'
    BY <2>1 DEF WaitIsAnswered, TypeOK
  <2> QED
    BY <2>2, <2>3
<1> QED
  BY <1>1, <1>2, <1>3

LEMMA JobInvOfWorker ==
    ASSUME TypeOK, JobInv, NEW i \in Instance, WorkerStep(i) PROVE JobInv'
<1> USE DEF JobInv
<1>1. UNCHANGED <<stage, listed, loaded, removed, awaited>>
  BY DEF WorkerStep, RunDelete, UpdateInstanceState, SaveDeleted, EndDelete, jobVars
<1>2. CASE RunDelete(i) \/ UpdateInstanceState(i) \/ SaveDeleted(i)
  <2>1. outcome' = outcome
    BY <1>2 DEF RunDelete, UpdateInstanceState, SaveDeleted, jobVars
  <2>2. entity' = entity \/ (deletion[i].by = "job" /\ deletion[i] # None
                              /\ entity' = [entity EXCEPT ![i] = InState(entity[i], "DELETED")])
    BY <1>2 DEF RunDelete, UpdateInstanceState, SaveDeleted, jobVars, At
  <2>3. EntityIsLoaded' /\ TerminatingHasDate'
    <3>1. CASE entity' = entity
      BY <1>1, <3>1 DEF EntityIsLoaded, TerminatingHasDate
    <3>2. CASE entity' # entity
      <4>1. awaited = i /\ stage = "expired" /\ loaded[i] # None /\ entity[i] \in Row
        BY <2>2, <3>2, NoneIsNoData DEF JobCommandIsAwaited, AwaitedIsLoaded, EntityIsLoaded, TypeOK
      <4>2. InState(entity[i], "DELETED") # None
        BY <4>1, RowOperators, NoneIsNoData
      <4> QED
        BY <1>1, <2>2, <3>2, <4>1, <4>2 DEF EntityIsLoaded, TerminatingHasDate, TypeOK
    <3> QED
      BY <3>1, <3>2
  <2>4. JobCommandIsAwaited' /\ WaitIsAnswered'
    BY <1>1, <1>2, <2>1, WorkerFact DEF JobCommandIsAwaited, WaitIsAnswered, TypeOK
  <2> QED
    BY <1>1, <2>1, <2>3, <2>4 DEF ListedIsLoaded, AwaitedIsLoaded, OutcomeIsAwaited
<1>3. CASE EndDelete(i)
  <2>1. entity' = entity /\ deletion' = [deletion EXCEPT ![i] = None]
    BY <1>3 DEF EndDelete
  <2>2. /\ awaited # i => outcome' = outcome
        /\ awaited = i => outcome' # None
    BY <1>3, NoneIsNoData DEF EndDelete, Outcome
  <2>3. ListedIsLoaded' /\ EntityIsLoaded' /\ TerminatingHasDate' /\ AwaitedIsLoaded'
    BY <1>1, <2>1 DEF ListedIsLoaded, EntityIsLoaded, TerminatingHasDate, AwaitedIsLoaded
  <2>4. OutcomeIsAwaited'
    BY <1>1, <2>2, NoneIsNoData DEF OutcomeIsAwaited
  <2>5. JobCommandIsAwaited'
    BY <1>1, <2>1, <2>2 DEF JobCommandIsAwaited, TypeOK
  <2>6. WaitIsAnswered'
    BY <1>1, <2>1, <2>2 DEF WaitIsAnswered, TypeOK
  <2> QED
    BY <2>3, <2>4, <2>5, <2>6
<1> QED
  BY <1>2, <1>3 DEF WorkerStep

LEMMA JobInvOfBegin ==
    ASSUME TypeOK, JobInv, NEW s \in Stage, NEW list \in SUBSET Instance, Begin(s, list),
           s = "terminating" => \A i \in list : row[i].terminationDate # None
    PROVE  JobInv'
<1> USE DEF JobInv
<1>1. loaded = NotLoaded /\ entity = NotLoaded /\ awaited = None /\ listed = {}
  <2>1. loaded = NotLoaded
    BY DEF Begin, InTransaction
  <2> QED
    BY <2>1 DEF NotLoaded, ListedIsLoaded, EntityIsLoaded, AwaitedIsLoaded, TypeOK
<1>2. CASE list = {}
  <2>1. UNCHANGED <<listed, loaded, entity, deletion, awaited, outcome>>
    BY <1>2 DEF Begin
  <2> QED
    BY <1>1, <2>1 DEF ListedIsLoaded, EntityIsLoaded, TerminatingHasDate, AwaitedIsLoaded,
        OutcomeIsAwaited, JobCommandIsAwaited, WaitIsAnswered
<1>3. CASE list # {}
  <2>1. /\ listed' = list /\ stage' = s /\ stage = s
        /\ loaded' = [i \in Instance |-> IF i \in list THEN row[i] ELSE None]
        /\ entity' = [i \in Instance |-> IF i \in list THEN row[i] ELSE None]
        /\ UNCHANGED <<deletion, awaited, outcome>>
    BY <1>3 DEF Begin
  <2>2. \A i \in list : row[i] # None
    BY NoneIsNoData DEF TypeOK
  <2> QED
    BY <1>1, <2>1, <2>2 DEF ListedIsLoaded, EntityIsLoaded, TerminatingHasDate, AwaitedIsLoaded,
        OutcomeIsAwaited, JobCommandIsAwaited, WaitIsAnswered
<1> QED
  BY <1>2, <1>3

LEMMA JobInvOfJob == ASSUME TypeOK, JobInv, JobStep PROVE JobInv'
<1> USE DEF Stage
<1>1. CASE BeginWithdraw
  BY <1>1, JobInvOfBegin DEF BeginWithdraw
<1>2. CASE BeginInactive
  BY <1>2, JobInvOfBegin DEF BeginInactive
<1>3. CASE BeginTerminating
  BY <1>3, JobInvOfBegin DEF BeginTerminating, NewTermination, Mortal
<1>4. CASE BeginExpired
  BY <1>4, JobInvOfBegin DEF BeginExpired
<1>5. CASE CommitWithdraw \/ CommitInactive \/ CommitTerminating
  <2>1. awaited = None /\ UNCHANGED deletion
    BY <1>5 DEF CommitWithdraw, CommitInactive, CommitTerminating, InCommit, Create, JobInv, AwaitedIsLoaded
  <2>2. \E s \in Stage : Close(s)
    BY <1>5 DEF CommitWithdraw, CommitInactive, CommitTerminating
  <2> QED
    BY <2>1, <2>2, JobInvOfClose
<1>6. CASE CommitExpired
  BY <1>6, JobInvOfClose DEF CommitExpired
<1>7. ASSUME NEW i \in Instance, DeleteExpired(i) PROVE JobInv'
  <2> USE DEF JobInv
  <2>1. /\ stage = "expired" /\ stage' = stage /\ loaded' = loaded /\ listed' = listed \ {i}
        /\ awaited = None /\ outcome = None /\ outcome' = None
        /\ loaded[i] # None /\ entity[i] \in Row
    BY <1>7, NoneIsNoData DEF DeleteExpired, InCommit, OutcomeIsAwaited, ListedIsLoaded, EntityIsLoaded,
       TypeOK
  <2>2. CASE loaded[i].deleted
    <3>1. UNCHANGED <<deletion, entity, awaited>>
      BY <1>7, <2>2 DEF DeleteExpired
    <3> QED
      BY <2>1, <3>1 DEF ListedIsLoaded, EntityIsLoaded, TerminatingHasDate, AwaitedIsLoaded,
        OutcomeIsAwaited, JobCommandIsAwaited, WaitIsAnswered
  <2>3. CASE ~loaded[i].deleted
    <3>1. /\ entity' = [entity EXCEPT ![i] = InState(entity[i], "DELETING")]
          /\ Queued(i, "job") /\ awaited' = i
      BY <1>7, <2>3 DEF DeleteExpired
    <3>2. InState(entity[i], "DELETING") # None
      BY <2>1, RowOperators, NoneIsNoData
    <3>3. /\ deletion'[i] # None
          /\ \A j \in Instance : deletion[j] # None => deletion'[j] = deletion[j]
          /\ \A j \in Instance : deletion'[j] # None /\ deletion[j] = None => j = i
      BY <3>1, QueuedFact
    <3>4. EntityIsLoaded'
      BY <2>1, <3>1, <3>2 DEF EntityIsLoaded, TypeOK
    <3>5. JobCommandIsAwaited' /\ WaitIsAnswered'
      BY <2>1, <3>1, <3>3, NoneIsNoData DEF JobCommandIsAwaited, WaitIsAnswered
    <3> QED
      BY <2>1, <3>1, <3>4, <3>5, NoneIsNoData
      DEF ListedIsLoaded, TerminatingHasDate, AwaitedIsLoaded, OutcomeIsAwaited
  <2> QED
    BY <2>2, <2>3
<1>8. CASE Conclude
  <2> USE DEF JobInv
  <2>1. /\ awaited \in Instance /\ stage = "expired" /\ outcome # None
        /\ awaited' = None /\ outcome' = None
        /\ UNCHANGED <<deletion, stage, listed, loaded>>
    BY <1>8 DEF Conclude, TypeOK, AwaitedIsLoaded
  <2>2. entity' = entity \/ entity' = [entity EXCEPT ![awaited] = InState(entity[awaited], loaded[awaited].state)]
    BY <1>8 DEF Conclude
  <2>3. EntityIsLoaded'
    <3>1. entity[awaited] \in Row /\ loaded[awaited] \in Row
      BY <2>1, NoneIsNoData DEF AwaitedIsLoaded, EntityIsLoaded, TypeOK
    <3>2. InState(entity[awaited], loaded[awaited].state) # None
      BY <3>1, RowOperators, NoneIsNoData DEF Row
    <3> QED
      BY <2>1, <2>2, <3>1, <3>2, NoneIsNoData DEF EntityIsLoaded, TypeOK
  <2> QED
    BY <2>1, <2>3 DEF ListedIsLoaded, TerminatingHasDate, AwaitedIsLoaded, OutcomeIsAwaited,
       JobCommandIsAwaited, WaitIsAnswered
<1> QED
  BY <1>1, <1>2, <1>3, <1>4, <1>5, <1>6, <1>7, <1>8 DEF JobStep

LEMMA JobInvKept == ASSUME TypeOK, JobInv, [Next]_vars PROVE JobInv'
<1>1. CASE Tick \/ UNCHANGED vars
  BY <1>1, JobInvOfOthers DEF Tick, vars
<1>2. ASSUME NEW u \in User, NEW i \in Instance, NEW k \in Kind, Receive(u, i, k) PROVE JobInv'
  BY <1>2, JobInvOfOthers DEF Receive
<1>3. ASSUME NEW u \in User, RequestStep(u) PROVE JobInv'
  <2>1. CASE QueueDeletion(u)
    <3>1. request[u].instance \in Instance
      BY <2>1 DEF QueueDeletion, Doing, TypeOK, Busy
    <3> QED
      BY <2>1, <3>1, JobInvOfOthers DEF QueueDeletion
  <2>2. CASE ~QueueDeletion(u)
    BY <1>3, <2>2, JobInvOfOthers DEF RequestStep, UpdateLastSeenAt, OnInstanceActivated, GrantExtension,
       SaveDeleting
  <2> QED
    BY <2>1, <2>2
<1>4. ASSUME NEW i \in Instance, UpdateState(i) \/ Shelve(i) \/ Unshelve(i) PROVE JobInv'
  BY <1>4, JobInvOfOthers DEF UpdateState, DateDeletion, FindDeleted, CorrectDeleting, Shelve, Unshelve
<1>5. CASE Restart
  BY <1>5, NoneIsNoData DEF Restart, Close, NotLoaded, JobInv, ListedIsLoaded, EntityIsLoaded, TerminatingHasDate,
     AwaitedIsLoaded, OutcomeIsAwaited, JobCommandIsAwaited, WaitIsAnswered
<1> QED
  BY <1>1, <1>2, <1>3, <1>4, <1>5, JobInvOfWorker, JobInvOfJob DEF Next

------------------------------------------------------------------------------
(* What the copies of rows tell *)

\* Changing another column, or the state to one that does not tell of a completed
\* deletion, does not make a copy tell of one.
LEMMA TellsDeletedFacts ==
    ASSUME NEW r \in Row
    PROVE  /\ TellsDeleted(Seen(r)) => TellsDeleted(r)
           /\ \A d : TellsDeleted([r EXCEPT !.terminationDate = d]) => TellsDeleted(r)
           /\ \A s \in {"ACTIVE", "DELETING"} : TellsDeleted(InState(r, s)) => TellsDeleted(r)
           /\ \A q \in Row : TellsDeleted(InState(r, q.state)) => TellsDeleted(r) \/ TellsDeleted(q)
BY DEF TellsDeleted, Seen, InState, Row

LEMMA TruthOfRequests ==
    ASSUME TypeOK, TruthInv, NEW u \in User, RequestStep(u) PROVE TruthInv'
<1> USE DEF TruthInv
<1> DEFINE q == request[u]
<1>0. request[u] # Idle /\ q \in Busy /\ q.instance \in Instance /\ q.copy \in Row
  BY DEF TypeOK, RequestStep, UpdateLastSeenAt, OnInstanceActivated, GrantExtension, SaveDeleting,
         QueueDeletion, Doing, Busy
<1>1. TellsDeleted(q.copy) => machine[q.instance] # "running"
  BY <1>0 DEF RequestsAreTrue
<1>2. UNCHANGED <<machine, jobVars>>
  BY DEF RequestStep, UpdateLastSeenAt, OnInstanceActivated, GrantExtension, SaveDeleting, QueueDeletion
<1>3. EntitiesAreTrue' /\ RemovedIsGone' /\ OutcomeIsTrue'
  BY <1>2 DEF EntitiesAreTrue, RemovedIsGone, OutcomeIsTrue, jobVars
<1>4. RequestsAreTrue'
  <2>1. Finish(u) \/ Proceed(u, "activate") \/ Proceed(u, "command")
    BY DEF RequestStep, UpdateLastSeenAt, OnInstanceActivated, GrantExtension, SaveDeleting,
           QueueDeletion
  <2>2. ASSUME NEW p, Proceed(u, p) PROVE RequestsAreTrue'
    <3>1. request' = [request EXCEPT ![u] = [q EXCEPT !.pc = p]]
      BY <2>2 DEF Proceed
    <3>2. [q EXCEPT !.pc = p].copy = q.copy /\ [q EXCEPT !.pc = p].instance = q.instance
      BY <1>0 DEF Busy
    <3> QED
      BY <1>1, <1>2, <3>1, <3>2 DEF RequestsAreTrue, TypeOK
  <2>3. CASE Finish(u)
    BY <1>2, <2>3 DEF Finish, RequestsAreTrue, TypeOK
  <2> QED
    BY <2>1, <2>2, <2>3
<1>5. RowsAreTrue'
  <2>1. CASE UNCHANGED row
    BY <1>2, <2>1 DEF RowsAreTrue
  <2>2. CASE \E r \in {Seen(q.copy), InState(q.copy, "DELETING")}
                       \cup {[q.copy EXCEPT !.terminationDate = d] : d \in ExtensionDate} :
                row' = [row EXCEPT ![q.instance] = r]
    <3>1. PICK r : /\ row' = [row EXCEPT ![q.instance] = r]
                   /\ TellsDeleted(r) => TellsDeleted(q.copy)
      BY <1>0, <2>2, TellsDeletedFacts
    <3> QED
      BY <1>0, <1>1, <1>2, <3>1 DEF RowsAreTrue, TypeOK
  <2>3. CASE OnInstanceActivated(u) \/ QueueDeletion(u)
    BY <2>1, <2>3 DEF OnInstanceActivated, QueueDeletion
  <2>4. CASE UpdateLastSeenAt(u)
    BY <2>2, <2>4 DEF UpdateLastSeenAt
  <2>5. CASE GrantExtension(u)
    BY <2>2, <2>5 DEF GrantExtension
  <2>6. CASE SaveDeleting(u)
    BY <2>2, <2>6 DEF SaveDeleting
  <2> QED
    BY <2>3, <2>4, <2>5, <2>6 DEF RequestStep
<1>6. WorkersAreTrue'
  <2>1. CASE QueueDeletion(u)
    BY <1>0, <1>2, <2>1, NoneIsNoData DEF QueueDeletion, Queued, WorkersAreTrue, At, TypeOK
  <2>2. CASE ~QueueDeletion(u)
    BY <1>2, <2>2 DEF RequestStep, UpdateLastSeenAt, OnInstanceActivated, GrantExtension, SaveDeleting,
       WorkersAreTrue, At
  <2> QED
    BY <2>1, <2>2
<1> QED
  BY <1>3, <1>4, <1>5, <1>6

LEMMA TruthOfWorkers ==
    ASSUME TypeOK, JobInv, TruthInv, NEW i \in Instance, WorkerStep(i) \/ UpdateState(i)
    PROVE  TruthInv'
<1> USE DEF TruthInv
<1>0. /\ row[i] \in Row
      /\ \A j \in Instance : machine'[j] = "running" => machine[j] = "running"
      /\ UNCHANGED <<request, removed, loaded, awaited>>
  BY DEF TypeOK, WorkerStep, RunDelete, UpdateInstanceState, SaveDeleted, EndDelete, UpdateState,
         DateDeletion, FindDeleted, CorrectDeleting, Without, jobVars
<1>1. RequestsAreTrue' /\ RemovedIsGone'
  <2>1. \A u \in User : request[u] # Idle => request[u].instance \in Instance
    BY DEF TypeOK, Busy
  <2> QED
    BY <1>0, <2>1 DEF RequestsAreTrue, RemovedIsGone, TypeOK
<1>2. CASE RunDelete(i)
  <2>1. RowsAreTrue' /\ EntitiesAreTrue' /\ OutcomeIsTrue'
    BY <1>0, <1>2 DEF RunDelete, RowsAreTrue, EntitiesAreTrue, OutcomeIsTrue, TypeOK, jobVars
  <2>2. /\ \A j \in Instance \ {i} : deletion'[j] = deletion[j]
        /\ ~row[i].deleted /\ deletion'[i].pc = "read" => machine'[i] # "running"
        /\ row[i].deleted => deletion'[i].pc = "done"
        /\ deletion'[i].pc # "save"
    <3>1. PICK p \in {"read", "done", "failed"} : SetDeletion(i, p)
      BY <1>2 DEF RunDelete
    <3>2. deletion[i] \in Deletion
      BY <1>2 DEF RunDelete, At, TypeOK
    <3>3. /\ \A j \in Instance \ {i} : deletion'[j] = deletion[j]
          /\ \A r \in {"read", "done", "failed"} : SetDeletion(i, r) => deletion'[i].pc = r
      BY <3>1, <3>2 DEF SetDeletion, TypeOK, Deletion
    <3>4. CASE row[i].deleted
      BY <1>2, <3>3, <3>4 DEF RunDelete
    <3>5. CASE ~row[i].deleted
      BY <1>2, <3>3, <3>5 DEF RunDelete, Without, TypeOK
    <3> QED
      BY <3>3, <3>4, <3>5
  <2>3. WorkersAreTrue'
    BY <1>0, <2>2 DEF WorkersAreTrue, At
  <2> QED
    BY <1>1, <2>1, <2>3
<1>3. CASE UpdateInstanceState(i)
  <2>1. machine[i] # "running" /\ UNCHANGED <<row, machine, outcome>>
    BY <1>3 DEF UpdateInstanceState, WorkersAreTrue
  <2>2. EntitiesAreTrue'
    BY <1>0, <1>3, <2>1 DEF UpdateInstanceState, EntitiesAreTrue, TypeOK
  <2>3. WorkersAreTrue'
    BY <1>3, <2>1 DEF UpdateInstanceState, WorkersAreTrue, At, TypeOK
  <2> QED
    BY <1>0, <1>1, <2>1, <2>2, <2>3 DEF RowsAreTrue, OutcomeIsTrue
<1>4. CASE SaveDeleted(i)
  <2>1. machine[i] # "running" /\ UNCHANGED <<machine, jobVars>>
    BY <1>4 DEF SaveDeleted, WorkersAreTrue
  <2>2. RowsAreTrue'
    BY <1>4, <2>1 DEF SaveDeleted, RowsAreTrue, TypeOK
  <2>3. WorkersAreTrue'
    BY <1>4, <2>1 DEF SaveDeleted, WorkersAreTrue, At, TypeOK
  <2> QED
    BY <1>1, <2>1, <2>2, <2>3 DEF EntitiesAreTrue, OutcomeIsTrue, jobVars
<1>5. CASE EndDelete(i)
  <2>1. WorkersAreTrue'
    BY <1>5 DEF EndDelete, WorkersAreTrue, At, TypeOK
  <2>2. OutcomeIsTrue'
    BY <1>5 DEF EndDelete, OutcomeIsTrue, RowsAreTrue, TellsDeleted
  <2> QED
    BY <1>1, <1>5, <2>1, <2>2 DEF EndDelete, RowsAreTrue, EntitiesAreTrue
<1>6. CASE UpdateState(i)
  <2>1. UNCHANGED <<machine, deletion, jobVars>>
    BY <1>6 DEF UpdateState, DateDeletion, FindDeleted, CorrectDeleting
  <2>2. RowsAreTrue'
    <3>1. \/ row' = [row EXCEPT ![i] = Deleted(row[i])] /\ machine[i] # "running"
          \/ row' = [row EXCEPT ![i] = InState(row[i], "ACTIVE")]
      BY <1>6 DEF UpdateState, DateDeletion, FindDeleted, CorrectDeleting, RowsAreTrue, TellsDeleted
    <3> QED
      BY <1>0, <2>1, <3>1, TellsDeletedFacts DEF RowsAreTrue, TypeOK
  <2> QED
    BY <1>1, <2>1, <2>2 DEF EntitiesAreTrue, WorkersAreTrue, At, OutcomeIsTrue, jobVars
<1> QED
  BY <1>2, <1>3, <1>4, <1>5, <1>6 DEF WorkerStep

\* No machine becomes one that was never shelved.
LEMMA TruthOfShelving ==
    ASSUME TypeOK, TruthInv, NEW i \in Instance, Shelve(i) \/ Unshelve(i) PROVE TruthInv'
<1> USE DEF TruthInv
<1>1. /\ \A j \in Instance : machine'[j] = "running" => machine[j] = "running"
      /\ UNCHANGED <<row, deletion, jobVars, request>>
  BY DEF Shelve, Unshelve, TypeOK
<1>2. \A u \in User : request[u] # Idle => request[u].instance \in Instance
  BY DEF TypeOK, Busy
<1> QED
  BY <1>1, <1>2 DEF jobVars, RowsAreTrue, RequestsAreTrue, EntitiesAreTrue, WorkersAreTrue, At,
     RemovedIsGone, OutcomeIsTrue, TypeOK

\* The end of a transaction that leaves the rows alone, or of the server.
LEMMA TruthOfClose ==
    ASSUME TypeOK, TruthInv, NEW s, Close(s), UNCHANGED machine, UNCHANGED row \/ RowsAreTrue',
           UNCHANGED deletion \/ deletion' = [i \in Instance |-> None],
           UNCHANGED request \/ request' = [u \in User |-> Idle]
    PROVE  TruthInv'
<1> USE DEF TruthInv
<1>1. EntitiesAreTrue' /\ RemovedIsGone' /\ OutcomeIsTrue'
  BY DEF Close, NotLoaded, EntitiesAreTrue, RemovedIsGone, OutcomeIsTrue
<1>2. RowsAreTrue' /\ RequestsAreTrue' /\ WorkersAreTrue'
  BY DEF RowsAreTrue, RequestsAreTrue, WorkersAreTrue, At
<1> QED
  BY <1>1, <1>2

LEMMA TruthOfBegin ==
    ASSUME TypeOK, TruthInv, NEW s, NEW list \in SUBSET Instance, Begin(s, list) PROVE TruthInv'
<1> USE DEF TruthInv
<1>1. UNCHANGED <<row, machine, deletion, removed, awaited, outcome, request>>
  BY DEF Begin
<1>2. EntitiesAreTrue'
  BY <1>1 DEF Begin, EntitiesAreTrue, RowsAreTrue
<1> QED
  BY <1>1, <1>2 DEF RowsAreTrue, RequestsAreTrue, WorkersAreTrue, At, RemovedIsGone, OutcomeIsTrue

LEMMA TruthOfJob ==
    ASSUME TypeOK, JobInv, TruthInv, JobStep PROVE TruthInv'
<1> USE DEF TruthInv
<1>1. CASE BeginWithdraw \/ BeginInactive \/ BeginTerminating \/ BeginExpired
  BY <1>1, TruthOfBegin DEF BeginWithdraw, BeginInactive, BeginTerminating, BeginExpired
<1>2. CASE CommitWithdraw \/ CommitInactive \/ CommitTerminating
  BY <1>2, TruthOfClose DEF CommitWithdraw, CommitInactive, CommitTerminating, Create
<1>3. CASE CommitExpired
  <2>1. RowsAreTrue'
    <3>1. \A i \in Instance : row'[i] = row[i] \/ (entity[i] # None /\ row'[i] = entity[i])
      <4>1. \A i \in Instance : entity[i] = None => loaded[i] = None
        BY DEF JobInv, EntityIsLoaded
      <4> QED
        BY <1>3, <4>1 DEF CommitExpired, Written
    <3>2. UNCHANGED machine
      BY <1>3 DEF CommitExpired
    <3> QED
      BY <3>1, <3>2 DEF RowsAreTrue, EntitiesAreTrue
  <2> QED
    BY <1>3, <2>1, TruthOfClose DEF CommitExpired
<1>4. ASSUME NEW i \in Instance, DeleteExpired(i) PROVE TruthInv'
  <2>1. /\ UNCHANGED <<row, machine, loaded, outcome, request>>
        /\ outcome = None /\ loaded[i] \in Row /\ entity[i] \in Row
    BY <1>4, NoneIsNoData DEF DeleteExpired, JobInv, OutcomeIsAwaited, ListedIsLoaded, EntityIsLoaded, TypeOK
  <2>2. RowsAreTrue' /\ RequestsAreTrue' /\ OutcomeIsTrue'
    BY <2>1, NoneIsNoData DEF RowsAreTrue, RequestsAreTrue, OutcomeIsTrue, Outcome
  <2>3. CASE loaded[i].deleted
    <3>1. UNCHANGED <<deletion, entity>> /\ removed' = removed \cup {i} /\ machine[i] # "running"
      BY <1>4, <2>1, <2>3, NoneIsNoData DEF DeleteExpired, EntitiesAreTrue, TellsDeleted
    <3> QED
      BY <2>1, <2>2, <3>1 DEF EntitiesAreTrue, WorkersAreTrue, At, RemovedIsGone
  <2>4. CASE ~loaded[i].deleted
    <3>1. /\ entity' = [entity EXCEPT ![i] = InState(entity[i], "DELETING")]
          /\ Queued(i, "job") /\ removed' = removed
      BY <1>4, <2>4 DEF DeleteExpired
    <3>2. EntitiesAreTrue'
      <4>1. TellsDeleted(InState(entity[i], "DELETING")) => machine[i] # "running"
        BY <2>1, TellsDeletedFacts, NoneIsNoData DEF EntitiesAreTrue
      <4> QED
        BY <2>1, <3>1, <4>1 DEF EntitiesAreTrue, TypeOK
    <3>3. WorkersAreTrue'
      BY <2>1, <3>1, NoneIsNoData DEF Queued, WorkersAreTrue, At, TypeOK
    <3> QED
      BY <2>1, <2>2, <3>1, <3>2, <3>3 DEF RemovedIsGone
  <2> QED
    BY <2>3, <2>4
<1>5. CASE Conclude
  <2>1. /\ awaited \in Instance /\ loaded[awaited] \in Row /\ entity[awaited] \in Row
        /\ awaited' = None
        /\ UNCHANGED <<row, machine, loaded, deletion, request>>
    BY <1>5, NoneIsNoData DEF Conclude, JobInv, AwaitedIsLoaded, EntityIsLoaded, TypeOK
  <2>2. RemovedIsGone'
    BY <1>5, <2>1 DEF Conclude, RemovedIsGone, OutcomeIsTrue
  <2>3. EntitiesAreTrue'
    <3> DEFINE e == InState(entity[awaited], loaded[awaited].state)
    <3>1. TellsDeleted(e) => machine[awaited] # "running"
      BY <2>1, TellsDeletedFacts, NoneIsNoData DEF EntitiesAreTrue
    <3>2. entity' = entity \/ entity' = [entity EXCEPT ![awaited] = e]
      BY <1>5 DEF Conclude
    <3> HIDE DEF e
    <3> QED
      BY <2>1, <3>1, <3>2 DEF EntitiesAreTrue, TypeOK
  <2> QED
    BY <2>1, <2>2, <2>3 DEF RowsAreTrue, RequestsAreTrue, WorkersAreTrue, At, OutcomeIsTrue
<1> QED
  BY <1>1, <1>2, <1>3, <1>4, <1>5 DEF JobStep

LEMMA TruthKept == ASSUME TypeOK, JobInv, TruthInv, [Next]_vars PROVE TruthInv'
<1>1. CASE Tick \/ UNCHANGED vars
  BY <1>1 DEF Tick, vars, jobVars, TruthInv, RowsAreTrue, RequestsAreTrue, EntitiesAreTrue,
     WorkersAreTrue, At, RemovedIsGone, OutcomeIsTrue
<1>2. ASSUME NEW u \in User, NEW i \in Instance, NEW k \in Kind, Receive(u, i, k) PROVE TruthInv'
  <2> DEFINE q == [pc |-> k, instance |-> i, copy |-> row[i]]
  <2>1. request' = [request EXCEPT ![u] = q] /\ q.copy = row[i] /\ q.instance = i
    BY <1>2 DEF Receive
  <2> HIDE DEF q
  <2>2. RequestsAreTrue'
    BY <1>2, <2>1 DEF Receive, TruthInv, RequestsAreTrue, RowsAreTrue, TypeOK
  <2> QED
    BY <1>2, <2>2 DEF Receive, jobVars, TruthInv, RowsAreTrue, EntitiesAreTrue, WorkersAreTrue, At,
       RemovedIsGone, OutcomeIsTrue
<1>3. CASE Restart
  BY <1>3, TruthOfClose DEF Restart
<1> QED
  BY <1>1, <1>2, <1>3, TruthOfRequests, TruthOfWorkers, TruthOfShelving, TruthOfJob DEF Next

------------------------------------------------------------------------------
(* Theorems *)

LEMMA InvKept == Inv /\ [Next]_vars => Inv'
BY TypeKept, JobInvKept, TruthKept DEF Inv

\* The inductive invariant: types, what the job holds, and what copies of rows
\* tell.
THEOREM ExpirationInvariance == Spec => []Inv
BY InitInv, InvKept, PTL DEF Spec

\* Every variable keeps its type: the job does not write an entity that it has not
\* read, and no expiration is created without a date.
THEOREM ExpirationTypeCorrect == Spec => []TypeOK
BY ExpirationInvariance, PTL DEF Inv

\* deleteAllExpired does not wait for a command that nobody will run, whoever has
\* queued the command.
THEOREM FutureIsAnswered == Spec => []WaitIsAnswered
<1>1. Inv => WaitIsAnswered
  BY DEF Inv, JobInv
<1> QED
  BY <1>1, ExpirationInvariance, PTL

\* deleteAllExpired drops the expiration of an instance only when its machine is
\* gone, or has been shelved by somebody else.
THEOREM ExpirationIsKept == Spec => ExpirationKeptUntilGone
<1>1. ASSUME Inv, CommitExpired, NEW i \in Instance, expiration[i] # None, expiration'[i] = None
      PROVE  machine[i] # "running"
  BY <1>1 DEF CommitExpired, Inv, TypeOK, TruthInv, RemovedIsGone
<1>2. Inv /\ [Next]_vars =>
        [CommitExpired =>
          \A i \in Instance : expiration[i] # None /\ expiration'[i] = None => machine[i] # "running"]_vars
  BY <1>1
<1> QED
  BY <1>2, ExpirationInvariance, PTL DEF Spec, ExpirationKeptUntilGone

------------------------------------------------------------------------------
(* The policy *)

\* What deleteAllExpired drops is among what it has listed.
RemovedIsLoaded == \A i \in removed : stage = "expired" /\ loaded[i] # None

PInv == Inv /\ RemovedIsLoaded

LEMMA RemovedIsLoadedKept == ASSUME PInv, [Next]_vars PROVE RemovedIsLoaded'
<1> USE DEF PInv, RemovedIsLoaded
<1>1. CASE UNCHANGED <<stage, loaded, removed>>
  BY <1>1
<1>2. ASSUME NEW s, Close(s) PROVE RemovedIsLoaded'
  BY <1>2 DEF Close
<1>3. CASE BeginWithdraw \/ BeginInactive \/ BeginTerminating \/ BeginExpired
  <2>1. loaded = NotLoaded /\ removed' = removed
    BY <1>3 DEF BeginWithdraw, BeginInactive, BeginTerminating, BeginExpired, Begin, InTransaction
  <2>2. removed = {}
    BY <2>1 DEF NotLoaded, Inv, TypeOK
  <2> QED
    BY <2>1, <2>2
<1>4. ASSUME NEW i \in Instance, DeleteExpired(i) PROVE RemovedIsLoaded'
  BY <1>4 DEF DeleteExpired, InCommit, Inv, JobInv, ListedIsLoaded
<1>5. CASE Conclude
  BY <1>5 DEF Conclude, Inv, JobInv, AwaitedIsLoaded
<1>6. CASE CommitWithdraw \/ CommitInactive \/ CommitTerminating \/ CommitExpired \/ Restart
  BY <1>2, <1>6 DEF CommitWithdraw, CommitInactive, CommitTerminating, CommitExpired, Restart
<1>7. CASE Tick \/ UNCHANGED vars \/ \E u \in User, i \in Instance, k \in Kind : Receive(u, i, k)
  BY <1>1, <1>7 DEF Tick, Receive, vars, jobVars
<1>8. CASE \/ \E u \in User : RequestStep(u)
           \/ \E i \in Instance : WorkerStep(i) \/ UpdateState(i) \/ Shelve(i) \/ Unshelve(i)
  BY <1>1, <1>8 DEF RequestStep, UpdateLastSeenAt, OnInstanceActivated, GrantExtension, SaveDeleting,
     QueueDeletion, WorkerStep, RunDelete, UpdateInstanceState, SaveDeleted, EndDelete, UpdateState,
     DateDeletion, FindDeleted, CorrectDeleting, Shelve, Unshelve, jobVars
<1> QED
  BY <1>3, <1>4, <1>5, <1>6, <1>7, <1>8 DEF Next, JobStep

\* What each part of the mapping depends on.
LEMMA MappedAlike ==
    /\ UNCHANGED <<stage, loaded>> => Condemned' = Condemned
    /\ loaded' = NotLoaded => Condemned' = {}
    /\ loaded = NotLoaded => Condemned = {}
    /\ UNCHANGED expiration => \A i \in Instance : Notice(i)' = Notice(i)
    /\ UNCHANGED <<request, deletion>> => Asked' = Asked
    /\ UNCHANGED machine => \A i \in Instance : Fate(i)' = Fate(i)
BY DEF Condemned, NotLoaded, Notice, Asked, AskedBy, Fate

\* Asked depends on the requests and commands of each instance alone.
AskedAlike(i) == (i \in Asked)' <=> i \in Asked

LEMMA AskedOfRequest ==
    ASSUME TypeOK, NEW u \in User, NEW q, request' = [request EXCEPT ![u] = q],
           NEW i \in Instance, AskedBy(u, i)' <=> AskedBy(u, i), UNCHANGED deletion
    PROVE  AskedAlike(i)
<1>1. \A v \in User : AskedBy(v, i)' <=> AskedBy(v, i)
  <2> SUFFICES ASSUME NEW v \in User, v # u PROVE AskedBy(v, i)' <=> AskedBy(v, i)
    OBVIOUS
  <2>1. request'[v] = request[v]
    BY DEF TypeOK
  <2> QED
    BY <2>1 DEF AskedBy
<1> QED
  BY <1>1 DEF AskedAlike, Asked

LEMMA AskedSets ==
    /\ (\A i \in Instance : AskedAlike(i)) => Asked' = Asked
    /\ \A i \in Instance : (\A j \in Instance \ {i} : AskedAlike(j)) =>
          (IF (i \in Asked)' THEN Asked' = Asked \cup {i} ELSE Asked' = Asked \ {i})
BY DEF AskedAlike, Asked

\* The abstract steps that change one part of the mapped state each.
LEMMA PolicyUnseen ==
    ASSUME UNCHANGED <<machine, expiration, now>>, Condemned' = Condemned, Asked' = Asked
    PROVE  UNCHANGED Policy!policyVars
BY MappedAlike DEF Policy!policyVars

LEMMA PolicyAsking ==
    ASSUME UNCHANGED <<machine, expiration, now, stage, loaded>>, NEW i \in Instance,
           \A j \in Instance \ {i} : AskedAlike(j)
    PROVE  Policy!AskToDelete(i) \/ Policy!EndDelete(i)
<1>1. Condemned' = Condemned /\ \A j \in Instance : Notice(j)' = Notice(j) /\ Fate(j)' = Fate(j)
  BY MappedAlike
<1>2. Asked' = Asked \cup {i} \/ Asked' = Asked \ {i}
  BY AskedSets
<1> QED
  BY <1>1, <1>2 DEF Policy!AskToDelete, Policy!EndDelete

LEMMA PolicyWithdraw ==
    ASSUME TypeOK, UNCHANGED <<machine, now>>, Condemned' = Condemned, Asked' = Asked,
           NEW list \in SUBSET Instance,
           expiration' = [i \in Instance |-> IF i \in list THEN None ELSE expiration[i]]
    PROVE  Policy!Withdraw(list)
<1>1. \A i \in Instance : Notice(i)' = IF i \in list THEN None ELSE Notice(i)
  BY DEF Notice
<1> QED
  BY <1>1, MappedAlike DEF Policy!Withdraw

LEMMA ReceivingIsPolicy ==
    ASSUME PInv, NEW u \in User, NEW i \in Instance, NEW k \in Kind, Receive(u, i, k)
    PROVE  [Policy!Next]_Policy!policyVars
<1> DEFINE q == [pc |-> k, instance |-> i, copy |-> row[i]]
<1>1. request' = [request EXCEPT ![u] = q] /\ request[u] = Idle /\ q.instance = i
  BY DEF Receive
<1>2. UNCHANGED <<machine, expiration, now, stage, loaded, deletion>>
  BY DEF Receive, jobVars
<1> HIDE DEF q
<1>3. ASSUME NEW j \in Instance, j # i PROVE AskedAlike(j)
  <2>1. AskedBy(u, j)' <=> AskedBy(u, j)
    BY <1>1, <1>3 DEF AskedBy, PInv, Inv, TypeOK
  <2> QED
    BY <1>1, <1>2, <2>1, AskedOfRequest DEF PInv, Inv
<1>4. Policy!AskToDelete(i) \/ Policy!EndDelete(i)
  BY <1>2, <1>3, PolicyAsking
<1> QED
  BY <1>4 DEF Policy!Next

LEMMA RequestIsPolicy ==
    ASSUME PInv, NEW u \in User, RequestStep(u) PROVE [Policy!Next]_Policy!policyVars
<1> USE DEF PInv, Inv
<1> DEFINE q == request[u]
           i == request[u].instance
<1>0. request[u] # Idle /\ q \in Busy /\ i \in Instance
  BY DEF TypeOK, RequestStep, UpdateLastSeenAt, OnInstanceActivated, GrantExtension, SaveDeleting,
         QueueDeletion, Doing, Busy
<1>a. ASSUME q.pc \notin {"delete", "command"}, UNCHANGED deletion,
             Finish(u) \/ Proceed(u, "activate")
      PROVE  Asked' = Asked
  <2>1. PICK r : request' = [request EXCEPT ![u] = r] /\ (r = Idle \/ r.pc = "activate")
    <3>1. CASE Finish(u)
      BY <3>1 DEF Finish
    <3>2. CASE Proceed(u, "activate")
      <4>1. [q EXCEPT !.pc = "activate"].pc = "activate"
        BY <1>0 DEF Busy
      <4> QED
        BY <3>2, <4>1 DEF Proceed
    <3> QED
      BY <1>a, <3>1, <3>2
  <2>2. \A j \in Instance : ~AskedBy(u, j)' /\ ~AskedBy(u, j)
    BY <1>a, <2>1 DEF AskedBy, TypeOK
  <2>3. \A j \in Instance : AskedAlike(j)
    BY <1>a, <2>1, <2>2, AskedOfRequest
  <2> QED
    BY <2>3, AskedSets
<1>1. CASE UpdateLastSeenAt(u)
  <2>1. UNCHANGED <<machine, expiration, deletion, stage, loaded>> /\ now' \in {now, now + 1}
    BY <1>1 DEF UpdateLastSeenAt, DateTaken, jobVars
  <2>2. Asked' = Asked
    BY <1>1, <1>a, <2>1 DEF UpdateLastSeenAt, Doing
  <2>3. Policy!Tick
    BY <2>1, <2>2, MappedAlike DEF Policy!Tick, Policy!TimePasses
  <2> QED
    BY <2>3 DEF Policy!Next
<1>2. CASE OnInstanceActivated(u) \/ GrantExtension(u)
  <2>1. UNCHANGED <<machine, now, deletion, stage, loaded>> /\ Asked' = Asked
    BY <1>2, <1>a DEF OnInstanceActivated, GrantExtension, Doing, jobVars
  <2>2. expiration' = expiration \/ expiration' = [expiration EXCEPT ![i] = None]
    BY <1>2 DEF OnInstanceActivated, GrantExtension
  <2>3. CASE expiration' = expiration
    BY <2>1, <2>3, PolicyUnseen, MappedAlike
  <2>4. CASE expiration' = [expiration EXCEPT ![i] = None]
    <3>1. expiration' = [j \in Instance |-> IF j \in {i} THEN None ELSE expiration[j]]
      BY <2>4 DEF TypeOK
    <3>2. Policy!Withdraw({i})
      BY <1>0, <2>1, <3>1, PolicyWithdraw, MappedAlike
    <3> QED
      BY <1>0, <3>2 DEF Policy!Next
  <2> QED
    BY <2>2, <2>3, <2>4
<1>3. CASE SaveDeleting(u)
  <2> DEFINE r == [q EXCEPT !.pc = "command"]
  <2>1. /\ request' = [request EXCEPT ![u] = r] /\ r.pc = "command" /\ r.instance = q.instance
        /\ r # Idle /\ q.pc = "delete"
    BY <1>0, <1>3 DEF SaveDeleting, Proceed, Doing, Busy, Idle
  <2>2. UNCHANGED <<machine, expiration, now, stage, loaded, deletion>>
    BY <1>3 DEF SaveDeleting, jobVars
  <2> HIDE DEF r
  <2>3. \A j \in Instance : AskedBy(u, j)' <=> AskedBy(u, j)
    BY <1>0, <2>1 DEF AskedBy, TypeOK
  <2>4. \A j \in Instance : AskedAlike(j)
    BY <2>1, <2>2, <2>3, AskedOfRequest
  <2> QED
    BY <2>2, <2>4, AskedSets, PolicyUnseen, MappedAlike
<1>4. CASE QueueDeletion(u)
  <2>1. UNCHANGED <<machine, expiration, now, stage, loaded>>
    BY <1>4 DEF QueueDeletion, jobVars
  <2>2. /\ request' = [request EXCEPT ![u] = Idle]
        /\ \A j \in Instance \ {i} : deletion'[j] = deletion[j]
    BY <1>4 DEF QueueDeletion, Queued, Finish, TypeOK
  <2>3. ASSUME NEW j \in Instance, j # i PROVE AskedAlike(j)
    <3>1. \A v \in User : AskedBy(v, j)' <=> AskedBy(v, j)
      BY <2>2, <2>3 DEF AskedBy, TypeOK
    <3> QED
      BY <2>2, <2>3, <3>1 DEF AskedAlike, Asked
  <2>4. Policy!AskToDelete(i) \/ Policy!EndDelete(i)
    <3> HIDE DEF i
    <3> QED
      BY <1>0, <2>1, <2>3, PolicyAsking
  <2> QED
    BY <1>0, <2>4 DEF Policy!Next
<1> QED
  BY <1>1, <1>2, <1>3, <1>4 DEF RequestStep

LEMMA ShelvingIsPolicy ==
    ASSUME PInv, NEW i \in Instance, Shelve(i) \/ Unshelve(i)
    PROVE  [Policy!Next]_Policy!policyVars
<1>1. UNCHANGED <<expiration, now, stage, loaded, request, deletion>>
  BY DEF Shelve, Unshelve, jobVars
<1>2. /\ Condemned' = Condemned /\ Asked' = Asked
      /\ \A j \in Instance : Notice(j)' = Notice(j)
  BY <1>1, MappedAlike
<1>3. CASE machine[i] = "running"
  <2>1. \A j \in Instance : Fate(j)' = IF j = i THEN "shelved" ELSE Fate(j)
    BY <1>3 DEF Shelve, Unshelve, Fate, PInv, Inv, TypeOK
  <2>2. Policy!Shelve(i)
    BY <1>1, <1>2, <1>3, <2>1 DEF Policy!Shelve, Fate
  <2> QED
    BY <2>2 DEF Policy!Next
<1>4. CASE machine[i] # "running"
  <2>1. \A j \in Instance : Fate(j)' = Fate(j)
    BY <1>4 DEF Shelve, Unshelve, Fate, PInv, Inv, TypeOK
  <2> QED
    BY <1>1, <1>2, <2>1 DEF Policy!policyVars
<1> QED
  BY <1>3, <1>4

\* A machine is destroyed by a command of the job, which then waits for it and has
\* listed its instance, or by one of a user.
LEMMA WorkerIsPolicy ==
    ASSUME PInv, NEW i \in Instance, WorkerStep(i) \/ UpdateState(i)
    PROVE  [Policy!Next]_Policy!policyVars
<1> USE DEF PInv, Inv
<1>1. UNCHANGED <<expiration, now, stage, loaded, request>>
  BY DEF WorkerStep, RunDelete, UpdateInstanceState, SaveDeleted, EndDelete, UpdateState,
         DateDeletion, FindDeleted, CorrectDeleting, jobVars
<1>2. CASE RunDelete(i) \/ UpdateInstanceState(i) \/ SaveDeleted(i)
  <2>1. \A j \in Instance : AskedAlike(j)
    BY <1>1, <1>2, WorkerFact DEF AskedAlike, Asked, AskedBy
  <2>2. Asked' = Asked /\ Condemned' = Condemned
    BY <1>1, <2>1, AskedSets, MappedAlike
  <2>3. CASE machine' = machine
    BY <1>1, <2>2, <2>3, PolicyUnseen
  <2>4. CASE machine' # machine
    <3>1. At(i, "queued") /\ machine' = [machine EXCEPT ![i] = "gone"]
      BY <1>2, <2>4 DEF RunDelete, UpdateInstanceState, SaveDeleted, Without
    <3>2. deletion[i] # None /\ deletion[i].by \in {"job", "user"}
      BY <3>1 DEF At, TypeOK, Deletion
    <3>3. i \in Condemned \cup Asked
      <4>1. CASE deletion[i].by = "job"
        <5>1. awaited = i /\ awaited # None
          BY <3>2, <4>1, NoneIsNoData DEF JobInv, JobCommandIsAwaited
        <5> QED
          BY <5>1 DEF JobInv, AwaitedIsLoaded, Condemned
      <4>2. CASE deletion[i].by = "user"
        BY <3>2, <4>2 DEF Asked
      <4> QED
        BY <3>2, <4>1, <4>2
    <3>4. \A j \in Instance : Fate(j)' = IF j = i THEN "gone" ELSE Fate(j)
      BY <3>1 DEF Fate, TypeOK
    <3>5. Policy!Destroy(i)
      BY <1>1, <2>2, <3>3, <3>4, MappedAlike DEF Policy!Destroy
    <3> QED
      BY <3>5 DEF Policy!Next
  <2> QED
    BY <2>3, <2>4
<1>3. CASE EndDelete(i)
  <2>1. machine' = machine /\ deletion' = [deletion EXCEPT ![i] = None]
    BY <1>3 DEF EndDelete
  <2>2. \A j \in Instance \ {i} : AskedAlike(j)
    BY <1>1, <2>1 DEF AskedAlike, Asked, AskedBy, TypeOK
  <2>3. Policy!AskToDelete(i) \/ Policy!EndDelete(i)
    BY <1>1, <2>1, <2>2, PolicyAsking
  <2> QED
    BY <2>3 DEF Policy!Next
<1>4. CASE UpdateState(i)
  BY <1>1, <1>4, PolicyUnseen, MappedAlike
     DEF UpdateState, DateDeletion, FindDeleted, CorrectDeleting
<1> QED
  BY <1>2, <1>3, <1>4 DEF WorkerStep

LEMMA BeginIsPolicy ==
    ASSUME PInv, BeginWithdraw \/ BeginInactive \/ BeginTerminating \/ BeginExpired
    PROVE  [Policy!Next]_Policy!policyVars
<1> USE DEF PInv, Inv
<1>1. /\ UNCHANGED <<machine, expiration, deletion, request, now>> /\ loaded = NotLoaded
  BY DEF BeginWithdraw, BeginInactive, BeginTerminating, BeginExpired, Begin, InTransaction
<1>2. Condemned = {} /\ Asked' = Asked /\ \A i \in Instance : Notice(i)' = Notice(i)
  BY <1>1, MappedAlike
<1>3. CASE BeginWithdraw \/ BeginInactive \/ BeginTerminating
  <2>1. stage' # "expired" \/ loaded' = NotLoaded
    BY <1>1, <1>3 DEF BeginWithdraw, BeginInactive, BeginTerminating, Begin
  <2>2. Condemned' = {}
    BY <2>1 DEF Condemned, NotLoaded
  <2> QED
    BY <1>1, <1>2, <2>2, PolicyUnseen
<1>4. CASE BeginExpired
  <2> DEFINE due == {i \in Instance : expiration[i] # None /\ expiration[i].expirationDate <= now}
  <2>1. due = {i \in Instance : Notice(i) # None /\ Notice(i) <= now}
    <3>1. \A i \in Instance : expiration[i] # None => Notice(i) = expiration[i].expirationDate /\ Notice(i) # None
      BY NoneIsNoData DEF Notice, TypeOK, Expiration
    <3>2. \A i \in Instance : expiration[i] = None => Notice(i) = None
      BY DEF Notice
    <3> QED
      BY <3>1, <3>2
  <2>2. Begin("expired", due)
    BY <1>4 DEF BeginExpired
  <2>3. Condemned' = due
    <3>1. CASE due = {}
      BY <1>1, <2>2, <3>1, MappedAlike DEF Begin
    <3>2. CASE due # {}
      <4>1. stage' = "expired" /\ loaded' = [i \in Instance |-> IF i \in due THEN row[i] ELSE None]
        BY <2>2, <3>2 DEF Begin
      <4>2. \A i \in Instance : row[i] # None
        BY NoneIsNoData DEF TypeOK
      <4> HIDE DEF due
      <4>3. due \subseteq Instance
        BY DEF due
      <4> QED
        BY <4>1, <4>2, <4>3 DEF Condemned
    <3> QED
      BY <3>1, <3>2
  <2>4. Policy!Condemn
    BY <1>1, <1>2, <2>1, <2>3, MappedAlike DEF Policy!Condemn
  <2> QED
    BY <2>4 DEF Policy!Next
<1> QED
  BY <1>3, <1>4

LEMMA CommitIsPolicy ==
    ASSUME PInv, CommitWithdraw \/ CommitInactive \/ CommitTerminating \/ CommitExpired
    PROVE  [Policy!Next]_Policy!policyVars
<1> USE DEF PInv, Inv
<1>1. UNCHANGED <<machine, deletion, request>> /\ loaded' = NotLoaded /\ listed \subseteq Instance
  BY DEF CommitWithdraw, CommitInactive, CommitTerminating, CommitExpired, Create, Close, TypeOK
<1>2. Condemned' = {} /\ Asked' = Asked
  BY <1>1, MappedAlike
<1>3. CASE CommitWithdraw
  <2>1. Condemned = {} /\ now' = now
    BY <1>3 DEF CommitWithdraw, InCommit, Condemned
  <2>2. \/ expiration' = expiration
        \/ expiration' = [i \in Instance |-> IF i \in listed THEN None ELSE expiration[i]]
    BY <1>3 DEF CommitWithdraw
  <2>3. CASE expiration' = expiration
    BY <1>1, <1>2, <2>1, <2>3, PolicyUnseen
  <2>4. CASE expiration' = [i \in Instance |-> IF i \in listed THEN None ELSE expiration[i]]
    <3>1. Policy!Withdraw(listed)
      BY <1>1, <1>2, <2>1, <2>4, PolicyWithdraw
    <3> QED
      BY <1>1, <3>1 DEF Policy!Next
  <2> QED
    BY <2>2, <2>3, <2>4
<1>4. CASE CommitInactive \/ CommitTerminating
  <2>1. Condemned = {}
    BY <1>4 DEF CommitInactive, CommitTerminating, InCommit, Condemned
  <2>2. now' \in {now, now + 1} /\ \E date \in [listed -> Date] : Create(date)
    BY <1>4, CreatedDates DEF CommitInactive, CommitTerminating, Create, DateTaken
  <2>3. expiration' \in [Instance -> Expiration \cup {None}]
    <3>1. TypeOK'
      BY <1>4, JobType DEF JobStep
    <3> QED
      BY <3>1 DEF TypeOK
  <2>4. \A i \in Instance : i \notin listed \/ expiration[i] # None => Notice(i)' = Notice(i)
    BY <2>2 DEF Create, Notice
  <2>5. ASSUME NEW i \in listed PROVE Notice(i)' \in Nat
    <3>1. expiration'[i] # None
      <4>1. PICK date \in [listed -> Date] : Create(date)
        BY <2>2
      <4>2. [expirationDate |-> date[i], createdAt |-> now] \in Expiration
        BY <2>5 DEF TypeOK, Expiration
      <4> QED
        BY <1>1, <2>5, <4>1, <4>2, NoneIsNoData DEF Create
    <3> QED
      BY <1>1, <2>3, <2>5, <3>1 DEF Notice, Expiration, Date
  <2>6. \A i \in Instance : expiration[i] = None => Notice(i) = None
    BY DEF Notice
  <2>7. Policy!Announce(listed)
    <3>1. \A i \in Instance :
             Notice(i)' = IF i \in listed /\ Notice(i) = None THEN Notice(i)' ELSE Notice(i)
      BY <2>4, <2>6
    <3> QED
      BY <1>1, <1>2, <2>1, <2>2, <2>5, <3>1, MappedAlike DEF Policy!Announce, Policy!TimePasses
  <2> QED
    BY <1>1, <2>7 DEF Policy!Next
<1>5. CASE CommitExpired
  <2>1. removed \subseteq Instance /\ UNCHANGED now
    BY <1>5 DEF CommitExpired, TypeOK
  <2>2. \A i \in removed : i \in Condemned /\ machine[i] # "running"
    BY <2>1 DEF RemovedIsLoaded, Condemned, TruthInv, RemovedIsGone
  <2>3. \/ expiration' = expiration
        \/ expiration' = [i \in Instance |-> IF i \in removed THEN None ELSE expiration[i]]
    BY <1>5 DEF CommitExpired
  <2>4. CASE expiration' = expiration
    <3>1. Policy!EndExecution({})
      BY <1>1, <1>2, <2>1, <2>4, MappedAlike DEF Policy!EndExecution
    <3> QED
      BY <3>1 DEF Policy!Next
  <2>5. CASE expiration' = [i \in Instance |-> IF i \in removed THEN None ELSE expiration[i]]
    <3>1. \A i \in Instance : Notice(i)' = IF i \in removed THEN None ELSE Notice(i)
      BY <2>5 DEF Notice
    <3>2. \A i \in removed : Fate(i) # "running"
      BY <2>1, <2>2 DEF Fate
    <3>3. Policy!EndExecution(removed)
      BY <1>1, <1>2, <2>1, <2>2, <3>1, <3>2, MappedAlike DEF Policy!EndExecution
    <3> QED
      BY <2>1, <3>3 DEF Policy!Next
  <2> QED
    BY <2>3, <2>4, <2>5
<1> QED
  BY <1>3, <1>4, <1>5

LEMMA DeletingIsPolicy ==
    ASSUME PInv, Conclude \/ \E i \in Instance : DeleteExpired(i)
    PROVE  [Policy!Next]_Policy!policyVars
<1> USE DEF PInv, Inv
<1>1. UNCHANGED <<machine, expiration, now, stage, loaded, request>>
  BY DEF Conclude, DeleteExpired
<1>2. \/ deletion' = deletion
      \/ \E i \in Instance : Queued(i, "job")
  BY DEF Conclude, DeleteExpired
<1>3. \A j \in Instance : AskedAlike(j)
  <2>1. CASE deletion' = deletion
    BY <1>1, <2>1 DEF AskedAlike, Asked, AskedBy
  <2>2. ASSUME NEW i \in Instance, Queued(i, "job") PROVE \A j \in Instance : AskedAlike(j)
    <3>1. \A j \in Instance :
             \/ deletion'[j] = deletion[j]
             \/ deletion[j] = None /\ deletion'[j] # None /\ deletion'[j].by = "job"
      BY <2>2, QueuedFact
    <3> QED
      BY <1>1, <3>1 DEF AskedAlike, Asked, AskedBy
  <2> QED
    BY <1>2, <2>1, <2>2
<1> QED
  BY <1>1, <1>3, AskedSets, PolicyUnseen, MappedAlike

LEMMA PolicyInit == Init => PInv /\ Policy!Init
<1> SUFFICES ASSUME Init PROVE PInv /\ Policy!Init
  OBVIOUS
<1>1. Asked = {} /\ Condemned = {} /\ \A i \in Instance : Notice(i) = None
  BY DEF Init, Asked, AskedBy, Condemned, Notice
<1>2. RemovedIsLoaded
  BY DEF Init, RemovedIsLoaded
<1>3. \A i \in Instance : Fate(i) \in {"running", "gone"}
  BY DEF Init, Fate
<1> QED
  BY <1>1, <1>2, <1>3, InitInv DEF PInv, Policy!Init, Init

LEMMA PolicyNext == PInv /\ [Next]_vars => PInv' /\ [Policy!Next]_Policy!policyVars
<1> SUFFICES ASSUME PInv, [Next]_vars PROVE PInv' /\ [Policy!Next]_Policy!policyVars
  OBVIOUS
<1>1. PInv'
  BY InvKept, RemovedIsLoadedKept DEF PInv
<1>2. CASE Tick
  <2>1. UNCHANGED <<machine, expiration, request, deletion, stage, loaded>> /\ now' = now + 1
    BY <1>2 DEF Tick, jobVars
  <2>2. Policy!Tick
    BY <2>1, MappedAlike DEF Policy!Tick, Policy!TimePasses
  <2> QED
    BY <1>1, <2>2 DEF Policy!Next
<1>3. CASE Restart
  <2>1. UNCHANGED <<machine, expiration, now>> /\ loaded' = NotLoaded
    BY <1>3 DEF Restart, Close
  <2>2. Asked' = {}
    BY <1>3 DEF Restart, Asked, AskedBy
  <2>3. Policy!Restart
    BY <2>1, <2>2, MappedAlike DEF Policy!Restart
  <2> QED
    BY <1>1, <2>3 DEF Policy!Next
<1>4. CASE UNCHANGED vars
  BY <1>1, <1>4, PolicyUnseen, MappedAlike DEF vars, jobVars
<1> QED
  BY <1>1, <1>2, <1>3, <1>4, ReceivingIsPolicy, RequestIsPolicy, WorkerIsPolicy,
     ShelvingIsPolicy, BeginIsPolicy, CommitIsPolicy, DeletingIsPolicy
     DEF Next, JobStep

\* A worker destroys the machine of an instance only because a user has asked for it, or
\* because a date that had been announced was reached when the job listed it, for any
\* instances, durations, requests, failures and restarts.
THEOREM PolicyIsImplemented == Spec => ImplementsPolicy
BY PolicyInit, PolicyNext, PTL DEF Spec, ImplementsPolicy, Policy!Spec
=============================================================================

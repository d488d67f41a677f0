------------------------ MODULE InstanceLifecycleProofs ------------------------
(***************************************************************************)
(* Proofs about InstanceLifecycle: its types, that an instance gets one    *)
(* machine, that it is declared deleted only for a reason, and that its    *)
(* commands use the abstract queue.                                        *)
(*                                                                         *)
(* What the row says is also said by the copies that requests, jobs and    *)
(* the worker hold, because each of them may be saved last.  RowOK is what *)
(* has to hold of all of them; the facts that it refers to, once true,     *)
(* remain so.                                                              *)
(***************************************************************************)
EXTENDS InstanceLifecycle, SequenceTheorems, TLAPS

Requester == Request \cup {Creator}

Asked == [saves : Seq(Row), create : ActionType \cup {Nothing}]

\* What TypeOK does not say of the variables.
Shape ==
    /\ request \in [Requester -> {Unused} \cup Asked]
    /\ worker.pc # "idle" => queue # <<>>
    /\ worker.pc \in {"cloud", "save"} => worker.copy \in Row
    /\ worker.pc \notin {"cloud", "save"} => worker.copy \notin Row
    /\ worker.pc = "read" => worker.writes # <<>>

Machine == [status : Status, target : Status, shelved : BOOLEAN]

\* The machine does not come back, and who has shelved it has left a trace.
MachineInv ==
    /\ machine.status = "none" <=> machine.target = "none"
    /\ machine.status = "none" => ~machine.shelved
    /\ machine.status = "SHELVED" \/ machine.target = "SHELVED" => machine.shelved
    /\ machine.status = "gone" => machine.target = "gone"

Has(q, c) == \E k \in DOMAIN q : q[k] = c

Once(q, c) == \A k, l \in DOMAIN q : q[k] = c /\ q[l] = c => k = l

Creating == request[Creator].create = "CREATE"

\* There is one CREATE command, in one place, until the machine is there.
CreateInv ==
    /\ \A r \in Requester : request[r].create = "CREATE" => r = Creator
    /\ Once(commands, "CREATE")
    /\ \A c \in ActionType : Once(queue, c)
    /\ ~(Creating /\ Has(commands, "CREATE"))
    /\ ~(Creating /\ Has(queue, "CREATE"))
    /\ ~(Has(commands, "CREATE") /\ Has(queue, "CREATE"))
    /\ machine.status # "none" =>
          /\ ~Creating
          /\ ~Has(commands, "CREATE")
          /\ Has(queue, "CREATE") => /\ queue[1] = "CREATE"
                                     /\ worker.pc \in {"read", "save", "done"}

Reason == asked \/ machine.status = "gone" \/ machine.shelved

\* What a row, or a copy of one, tells is so.
RowOK(r) ==
    /\ r.deleted \/ r.state = "DELETED" => Reason
    /\ r.computeId => machine.status # "none"
    /\ r.deleteRequested => asked

CopiesInv ==
    /\ RowOK(row)
    /\ \A r \in Requester : \A k \in DOMAIN request[r].saves : RowOK(request[r].saves[k])
    /\ worker.copy \in Row => RowOK(worker.copy)
    /\ \A j \in Job : stateJob[j] \in Row => RowOK(stateJob[j])
    /\ deleteJob \in Row => RowOK(deleteJob)

\* Nobody orders a deletion, or writes DELETED, without a reason.
OrdersInv ==
    /\ deleteJob # Nothing => asked
    /\ \A r \in Requester : request[r].create = "DELETE" => asked
    /\ Has(commands, "DELETE") => asked
    /\ Has(queue, "DELETE") => asked
    /\ Has(worker.writes, "DELETED") => Reason
    /\ worker.pc = "cloud" /\ Head(queue) # "CREATE" => worker.copy.computeId

Structure == TypeOK /\ Shape /\ MachineInv /\ CreateInv

IInv == Structure /\ CopiesInv /\ OrdersInv

------------------------------------------------------------------------------
(* Sequences *)

LEMMA AppendMember ==
    ASSUME NEW S, NEW q \in Seq(S), NEW e \in S
    PROVE  /\ Append(q, e) \in Seq(S) /\ Append(q, e) # <<>>
           /\ \A x : Has(Append(q, e), x) <=> Has(q, x) \/ x = e
           /\ \A x : Once(q, x) /\ (x = e => ~Has(q, x)) => Once(Append(q, e), x)
           /\ q # <<>> => Append(q, e)[1] = q[1] /\ Head(Append(q, e)) = Head(q)
<1> DEFINE p == Append(q, e)
<1>1. /\ p \in Seq(S) /\ p # <<>> /\ Len(q) \in Nat
      /\ DOMAIN p = 1..(Len(q) + 1) /\ DOMAIN q = 1..Len(q)
      /\ p[Len(q) + 1] = e /\ \A k \in 1..Len(q) : p[k] = q[k]
  OBVIOUS
<1>2. q # <<>> => 1 \in DOMAIN q /\ Head(q) = q[1] /\ Head(p) = p[1]
  OBVIOUS
<1> HIDE DEF p
<1>3. ASSUME NEW x PROVE Has(p, x) <=> Has(q, x) \/ x = e
  <2>1. CASE Has(p, x)
    <3>1. PICK k \in DOMAIN p : p[k] = x
      BY <2>1 DEF Has
    <3>2. CASE k = Len(q) + 1
      BY <1>1, <3>1, <3>2, <2>1
    <3>3. CASE k # Len(q) + 1
      <4>1. k \in DOMAIN q /\ q[k] = x
        BY <1>1, <3>1, <3>3
      <4> QED
        BY <4>1, <2>1 DEF Has
    <3> QED
      BY <3>2, <3>3
  <2>2. CASE Has(q, x) \/ x = e
    <3>1. \A k \in DOMAIN q : k \in DOMAIN p /\ p[k] = q[k]
      BY <1>1
    <3>2. Len(q) + 1 \in DOMAIN p
      BY <1>1
    <3> QED
      BY <1>1, <2>2, <3>1, <3>2 DEF Has
  <2> QED
    BY <2>1, <2>2
<1>4. ASSUME NEW x, Once(q, x), x = e => ~Has(q, x) PROVE Once(p, x)
  <2> SUFFICES ASSUME NEW k \in DOMAIN p, NEW l \in DOMAIN p, p[k] = x, p[l] = x PROVE k = l
    BY DEF Once
  <2>1. CASE x = e
    <3>1. \A m \in DOMAIN q : p[m] = q[m] /\ q[m] # x
      BY <1>1, <1>4, <2>1 DEF Has
    <3>2. k \notin DOMAIN q /\ l \notin DOMAIN q
      BY <3>1
    <3> QED
      BY <1>1, <3>2
  <2>2. CASE x # e
    <3>1. k \in DOMAIN q /\ l \in DOMAIN q
      BY <1>1, <2>2
    <3>2. q[k] = x /\ q[l] = x
      BY <1>1, <3>1
    <3> QED
      BY <1>4, <3>1, <3>2 DEF Once
  <2> QED
    BY <2>1, <2>2
<1> QED
  BY <1>1, <1>2, <1>3, <1>4 DEF p

LEMMA TailMember ==
    ASSUME NEW S, NEW q \in Seq(S), q # <<>>
    PROVE  /\ Tail(q) \in Seq(S) /\ Head(q) \in S
           /\ 1 \in DOMAIN q /\ Head(q) = q[1] /\ Has(q, Head(q))
           /\ \A k \in DOMAIN Tail(q) : k + 1 \in DOMAIN q /\ Tail(q)[k] = q[k + 1]
           /\ \A x : Has(Tail(q), x) => Has(q, x)
           /\ \A x : Once(q, x) => Once(Tail(q), x) /\ (x = Head(q) => ~Has(Tail(q), x))
<1> DEFINE p == Tail(q)
<1>1. /\ p \in Seq(S) /\ Len(q) \in Nat /\ Len(q) # 0 /\ Head(q) \in S /\ Head(q) = q[1]
      /\ DOMAIN q = 1..Len(q) /\ DOMAIN p = 1..(Len(q) - 1)
      /\ \A k \in 1..(Len(q) - 1) : p[k] = q[k + 1]
  OBVIOUS
<1>2. 1 \in DOMAIN q
  BY <1>1
<1>3. \A k \in DOMAIN p : k + 1 \in DOMAIN q /\ k + 1 # 1 /\ p[k] = q[k + 1]
  BY <1>1
<1>4. \A k, l \in DOMAIN p : k + 1 = l + 1 => k = l
  BY <1>1
<1> HIDE DEF p
<1>5. \A x : Has(p, x) => Has(q, x)
  BY <1>3 DEF Has
<1>6. ASSUME NEW x, Once(q, x) PROVE Once(p, x) /\ (x = q[1] => ~Has(p, x))
  BY <1>2, <1>3, <1>4, <1>6 DEF Once, Has
<1> QED
  BY <1>1, <1>2, <1>3, <1>5, <1>6 DEF p, Has

------------------------------------------------------------------------------
(* Types *)

LEMMA RowOperators ==
    ASSUME NEW r \in Row
    PROVE  /\ Marked(r) \in Row
           /\ \A s \in InstanceState : InState(r, s) \in Row
           /\ \A s \in InstanceState \cup {"same"} : Updated(r, s) \in Row
           /\ \A s \in InstanceState : [r EXCEPT !.computeId = TRUE, !.state = s] \in Row
           /\ [r EXCEPT !.deleted = TRUE] \in Row
<1>1. Marked(r) \in Row
  BY DEF Row, Marked
<1>2. \A s \in InstanceState : InState(r, s) \in Row
  BY DEF Row, InState
<1>3. \A s \in InstanceState \cup {"same"} : Updated(r, s) \in Row
  BY DEF Row, Updated
<1>4. \A s \in InstanceState : [r EXCEPT !.computeId = TRUE, !.state = s] \in Row
  BY DEF Row, InstanceState
<1>5. [r EXCEPT !.deleted = TRUE] \in Row
  BY DEF Row
<1> QED
  BY <1>1, <1>2, <1>3, <1>4, <1>5

\* What a user asks is decided from the row: up to two copies of it to save, and
\* a command that is never CREATE.
LEMMA PerformActionResult ==
    ASSUME NEW r \in Row, NEW type \in {"START", "REBOOT", "SHUTDOWN", "DELETE"}
    PROVE  \E s \in {"STARTING", "REBOOTING", "STOPPING", "DELETING"} :
              /\ PerformAction(r, type) = [saves |-> <<InState(r, s)>>, create |-> type]
              /\ s = "DELETING" <=> type = "DELETE"
  BY DEF PerformAction

LEMMA DeleteInstanceResult ==
    ASSUME NEW r \in Row
    PROVE  \/ DeleteInstance(r) = PerformAction(r, "DELETE")
           \/ DeleteInstance(r) = [saves |-> <<Marked(r)>>, create |-> Nothing]
           \/ DeleteInstance(r) = [saves |-> <<Marked(r), InState(Marked(r), "STOPPING")>>,
                                   create |-> "SHUTDOWN"]
  BY DEF DeleteInstance, PerformAction

\* The result of a request, and what it is in the terms of the invariant.
Answer(r, k) == CASE k = "delete" -> DeleteInstance(r)
                  [] k = "update" -> [saves |-> <<r>>, create |-> Nothing]
                  [] OTHER        -> PerformAction(r, k)

LEMMA RequestResult ==
    ASSUME NEW r \in Row, NEW k \in Kind
    PROVE  LET q == Answer(r, k)
           IN  /\ q \in Asked
               /\ q.create # "CREATE" /\ (q.create = "DELETE" => k = "delete")
               /\ \A n \in DOMAIN q.saves :
                     /\ q.saves[n].deleted = r.deleted
                     /\ q.saves[n].computeId = r.computeId
                     /\ q.saves[n].state = "DELETED" => r.state = "DELETED"
                     /\ q.saves[n].deleteRequested => r.deleteRequested \/ k = "delete"
<1> DEFINE Result(q) ==
              /\ q \in Asked
              /\ q.create # "CREATE" /\ (q.create = "DELETE" => k = "delete")
              /\ \A n \in DOMAIN q.saves :
                    /\ q.saves[n].deleted = r.deleted
                    /\ q.saves[n].computeId = r.computeId
                    /\ q.saves[n].state = "DELETED" => r.state = "DELETED"
                    /\ q.saves[n].deleteRequested => r.deleteRequested \/ k = "delete"
<1>1. ASSUME NEW type \in {"START", "REBOOT", "SHUTDOWN", "DELETE"},
             type = "DELETE" => k = "delete"
      PROVE  Result(PerformAction(r, type))
  <2>1. PICK s \in {"STARTING", "REBOOTING", "STOPPING", "DELETING"} :
           PerformAction(r, type) = [saves |-> <<InState(r, s)>>, create |-> type]
    BY PerformActionResult
  <2>2. InState(r, s) \in Row
    BY RowOperators DEF InstanceState
  <2>3. PerformAction(r, type) \in Asked
    BY <2>1, <2>2 DEF Asked, ActionType
  <2>4. \A n \in DOMAIN <<InState(r, s)>> : <<InState(r, s)>>[n] = InState(r, s)
    OBVIOUS
  <2>5. /\ InState(r, s).deleted = r.deleted /\ InState(r, s).computeId = r.computeId
        /\ InState(r, s).state = s /\ InState(r, s).deleteRequested = r.deleteRequested
    BY DEF InState, Row
  <2> QED
    BY <1>1, <2>1, <2>3, <2>4, <2>5
<1>2. ASSUME k = "delete" PROVE Result(DeleteInstance(r))
  <2> DEFINE m == Marked(r)
             t == InState(m, "STOPPING")
  <2>1. m \in Row /\ t \in Row
    BY RowOperators DEF InstanceState
  <2>2. /\ m.deleted = r.deleted /\ m.computeId = r.computeId /\ m.state = r.state
        /\ t.deleted = r.deleted /\ t.computeId = r.computeId /\ t.state = "STOPPING"
    BY DEF InState, Marked, Row
  <2> HIDE DEF m, t
  <2>3. CASE DeleteInstance(r) = PerformAction(r, "DELETE")
    BY <1>1, <1>2, <2>3
  <2>4. CASE DeleteInstance(r) = [saves |-> <<m>>, create |-> Nothing]
    <3>1. DeleteInstance(r) \in Asked
      BY <2>1, <2>4 DEF Asked
    <3>2. \A n \in DOMAIN <<m>> : <<m>>[n] = m
      OBVIOUS
    <3> QED
      BY <1>2, <2>2, <2>4, <3>1, <3>2, NothingAssumption DEF ActionType
  <2>5. CASE DeleteInstance(r) = [saves |-> <<m, t>>, create |-> "SHUTDOWN"]
    <3>1. DeleteInstance(r) \in Asked
      BY <2>1, <2>5 DEF Asked, ActionType
    <3>2. \A n \in DOMAIN <<m, t>> : <<m, t>>[n] = m \/ <<m, t>>[n] = t
      OBVIOUS
    <3> QED
      BY <1>2, <2>2, <2>5, <3>1, <3>2
  <2> QED
    BY <2>3, <2>4, <2>5, DeleteInstanceResult DEF m, t
<1>3. Result([saves |-> <<r>>, create |-> Nothing])
  <2>1. [saves |-> <<r>>, create |-> Nothing] \in Asked
    BY DEF Asked
  <2>2. \A n \in DOMAIN <<r>> : <<r>>[n] = r
    OBVIOUS
  <2> QED
    BY <2>1, <2>2, NothingAssumption DEF ActionType
<1>4. k \in {"START", "REBOOT", "SHUTDOWN", "delete", "update"}
  BY KindAssumption
<1> HIDE DEF Result
<1>5. Result(CASE k = "delete" -> DeleteInstance(r)
               [] k = "update" -> [saves |-> <<r>>, create |-> Nothing]
               [] OTHER        -> PerformAction(r, k))
  BY <1>1, <1>2, <1>3, <1>4
<1> QED
  BY <1>5 DEF Result, Answer

\* Where a thread goes in an action.
WorkerShape(w, q) ==
    /\ w \in [pc : {"idle", "cloud", "read", "save", "done"}, copy : Row \cup {Nothing},
              writes : Seq(InstanceState \cup {"same"})]
    /\ w.pc # "idle" => q # <<>>
    /\ w.pc \in {"cloud", "save"} => w.copy \in Row
    /\ w.pc \notin {"cloud", "save"} => w.copy \notin Row
    /\ w.pc = "read" => w.writes # <<>>

LEMMA IdleShape ==
    ASSUME NEW q PROVE WorkerShape(Idle, q)
<1>1. <<>> \in Seq(InstanceState \cup {"same"})
  OBVIOUS
<1> QED
  BY <1>1, NothingAssumption DEF WorkerShape, Idle

LEMMA WorkerShapes ==
    ASSUME NEW q, q # <<>>
    PROVE  /\ WorkerShape(Done, q)
           /\ \A r \in Row : WorkerShape([Idle EXCEPT !.pc = "cloud", !.copy = r], q)
           /\ \A states \in Seq(InstanceState \cup {"same"}) :
                 states # <<>> => WorkerShape([Idle EXCEPT !.pc = "read", !.writes = states], q)
<1>1. <<>> \in Seq(InstanceState \cup {"same"})
  OBVIOUS
<1>3. WorkerShape(Done, q)
  BY <1>1, NothingAssumption DEF WorkerShape, Done
<1>4. ASSUME NEW r \in Row
      PROVE  WorkerShape([Idle EXCEPT !.pc = "cloud", !.copy = r], q)
  BY <1>1 DEF WorkerShape, Idle
<1>5. ASSUME NEW states \in Seq(InstanceState \cup {"same"}), states # <<>>
      PROVE  WorkerShape([Idle EXCEPT !.pc = "read", !.writes = states], q)
  BY <1>5, NothingAssumption DEF WorkerShape, Idle
<1> QED
  BY <1>3, <1>4, <1>5

\* What the cloud reports of a machine that exists is a state of instances, and
\* DELETED only of one that has been shelved.
LEMMA ConvertStatusType ==
    /\ \A s \in Status \ {"none", "gone"} : ConvertStatus(s) \in InstanceState
    /\ \A s \in Status : ConvertStatus(s) = "DELETED" => s = "SHELVED"
  BY DEF Status, ConvertStatus, InstanceState

LEMMA CloudStateType ==
    ASSUME machine \in Machine
    PROVE  /\ CloudState \in InstanceState \cup {"missing"}
           /\ CloudState = "missing" => machine.status \in {"none", "gone"}
           /\ CloudState = "DELETED" => machine.status = "SHELVED"
<1>1. "STOPPING" \in InstanceState /\ "missing" \notin InstanceState
  BY DEF InstanceState
<1>2. machine.status \in Status
  BY DEF Machine
<1>3. CASE ~Exists
  BY <1>3 DEF CloudState, Exists
<1>4. CASE Exists
  BY <1>1, <1>2, <1>4, ConvertStatusType DEF CloudState, Exists
<1> QED
  BY <1>3, <1>4

LEMMA WritesShape ==
    /\ <<"DELETED">> \in Seq(InstanceState \cup {"same"})
    /\ <<"ERROR">> \in Seq(InstanceState \cup {"same"})
    /\ <<"same">> \in Seq(InstanceState \cup {"same"})
    /\ <<>> \in Seq(InstanceState \cup {"same"})
    /\ \A s \in InstanceState \cup {"missing"} : \A w \in WritesFor(s) :
          w \in Seq(InstanceState \cup {"same"}) /\ w # <<>>
<1>1. ASSUME NEW s \in InstanceState \cup {"missing"}, NEW w \in WritesFor(s)
      PROVE  w \in Seq(InstanceState \cup {"same"}) /\ w # <<>>
  <2> DEFINE S == InstanceState \cup {"same"}
  <2>1. CASE s = "missing"
    <3>1. w = <<"DELETED", "same">> /\ "DELETED" \in S /\ "same" \in S
      BY <2>1 DEF WritesFor, InstanceState
    <3> QED
      BY <3>1
  <2>2. CASE s = "ACTIVE"
    <3>1. \/ w = <<"same", "STARTING">> \/ w = <<"same", "same", "PARTIALLY_ACTIVE">>
          \/ w = <<"same", "same", "ACTIVE">>
      BY <2>2 DEF WritesFor
    <3>2. \A a, b \in S : <<a, b>> \in Seq(S) /\ <<a, b>> # <<>>
      OBVIOUS
    <3>3. \A a, b, d \in S : <<a, b, d>> \in Seq(S) /\ <<a, b, d>> # <<>>
      OBVIOUS
    <3>4. "same" \in S /\ "STARTING" \in S /\ "PARTIALLY_ACTIVE" \in S /\ "ACTIVE" \in S
      BY DEF InstanceState
    <3> HIDE DEF S
    <3>5. CASE w = <<"same", "STARTING">>
      BY <3>5, <3>2, <3>4 DEF S
    <3>6. CASE w # <<"same", "STARTING">>
      BY <3>6, <3>1, <3>3, <3>4 DEF S
    <3> QED
      BY <3>5, <3>6
  <2>3. CASE s \notin {"missing", "ACTIVE"}
    <3>1. w = <<s>> /\ s \in S
      BY <2>3 DEF WritesFor
    <3> QED
      BY <3>1
  <2> QED
    BY <2>1, <2>2, <2>3
<1> QED
  BY <1>1 DEF InstanceState

\* A write takes the thread to its read of the row, or to the end.
LEMMA WriteShape ==
    ASSUME NEW q, q # <<>>, NEW states \in Seq(InstanceState \cup {"same"}), Write(states)
    PROVE  WorkerShape(worker', q) /\ worker'.pc \in {"read", "done"}
  BY WorkerShapes DEF Write, Done, Idle

LEMMA SaveCopyShape ==
    ASSUME TypeOK, NEW q, q # <<>>, NEW r \in Row, SaveCopy(r)
    PROVE  WorkerShape(worker', q) /\ worker'.pc = "save"
  BY DEF TypeOK, SaveCopy, WorkerShape

Types ==
    /\ row \in Row
    /\ machine \in Machine
    /\ commands \in Seq(ActionType) /\ queue \in Seq(ActionType)
    /\ WorkerShape(worker, queue)
    /\ request \in [Requester -> {Unused} \cup Asked]
    /\ stateJob \in [Job -> Row \cup {Nothing} \cup [execute : BOOLEAN]]
    /\ deleteJob \in Row \cup {Nothing} \cup [execute : BOOLEAN]
    /\ cleanup \in [pc : {"idle", "list", "delete"}, known : BOOLEAN]
    /\ asked \in BOOLEAN
    /\ faults \in 0..MaxFaults /\ crashes \in 0..MaxCrashes

LEMMA TypesFacts == Types <=> TypeOK /\ Shape
  BY DEF Types, TypeOK, Shape, WorkerShape, Requester, Asked, Machine

LEMMA QueuedType ==
    ASSUME queue \in Seq(ActionType), NEW c \in ActionType, Queued(c)
    PROVE  queue' \in Seq(ActionType) /\ queue' # <<>>
<1>1. CASE \E k \in DOMAIN queue : queue[k] = c
  <2>1. queue # <<>>
    BY <1>1
  <2> QED
    BY <1>1, <2>1 DEF Queued
<1>2. CASE ~\E k \in DOMAIN queue : queue[k] = c
  <2>1. queue' = Append(queue, c)
    BY <1>2 DEF Queued
  <2> QED
    BY <2>1, AppendMember
<1> QED
  BY <1>1, <1>2

LEMMA FaultType ==
    ASSUME Types, CloudFault
    PROVE  faults' \in 0..MaxFaults /\ crashes' \in 0..MaxCrashes
  BY BoundAssumption DEF Types, CloudFault

\* The queue of a thread that is running is not empty, also when it grows.
LEMMA SameThread ==
    ASSUME Types, UNCHANGED worker, queue' # <<>> \/ UNCHANGED queue
    PROVE  WorkerShape(worker, queue)'
  BY DEF Types, WorkerShape

\* A request that arrives changes its own entry only.
LEMMA Received ==
    ASSUME Types, NEW r \in Requester, NEW k \in Kind, ReceiveRequest(r, k)
    PROVE  /\ request' = [request EXCEPT ![r] = Answer(row, k)]
           /\ request'[r] = Answer(row, k) /\ Answer(row, k) \in Asked
           /\ \A p \in Requester : p # r => request'[p] = request[p]
           /\ Answer(row, k).create # "CREATE"
           /\ Answer(row, k).create = "DELETE" => k = "delete"
<1>1. request' = [request EXCEPT ![r] = Answer(row, k)]
  BY DEF ReceiveRequest, Answer
<1>2. row \in Row /\ request \in [Requester -> {Unused} \cup Asked]
  BY DEF Types
<1> QED
  BY <1>1, <1>2, RequestResult

LEMMA RequestTypes ==
    ASSUME Types, NEW r \in Requester
    PROVE  /\ \A k \in Kind : r \in Request /\ ReceiveRequest(r, k) => Types'
           /\ SaveOfRequest(r) => Types'
           /\ CreateCommand(r) => Types'
<1>1. ASSUME NEW k \in Kind, r \in Request, ReceiveRequest(r, k) PROVE Types'
  <2>1. request' \in [Requester -> {Unused} \cup Asked]
    BY <1>1, Received DEF Types
  <2> QED
    BY <1>1, <2>1, SameThread DEF ReceiveRequest, Types, jobVars, boundVars
<1>2. ASSUME SaveOfRequest(r) PROVE Types'
  <2>1. request[r] \in Asked /\ request[r].saves # <<>>
    BY <1>2 DEF SaveOfRequest, Types
  <2>2. Head(request[r].saves) \in Row /\ Tail(request[r].saves) \in Seq(Row)
    BY <2>1, TailMember DEF Asked
  <2>3. request' \in [Requester -> {Unused} \cup Asked]
    BY <1>2, <2>1, <2>2 DEF SaveOfRequest, Types, Asked
  <2> QED
    BY <1>2, <2>2, <2>3, SameThread DEF SaveOfRequest, Types, jobVars, boundVars
<1>3. ASSUME CreateCommand(r) PROVE Types'
  <2>1. request[r] \in Asked /\ request[r] # NoRequest /\ request[r].saves = <<>>
    BY <1>3 DEF CreateCommand, Types
  <2>2. request[r].create \in ActionType
    BY <2>1 DEF Asked, NoRequest
  <2>3. commands' \in Seq(ActionType)
    BY <1>3, <2>2, AppendMember DEF CreateCommand, Types
  <2>4. NoRequest \in Asked
    BY DEF NoRequest, Asked
  <2>5. request' \in [Requester -> {Unused} \cup Asked]
    BY <1>3, <2>4 DEF CreateCommand, Types
  <2> QED
    BY <1>3, <2>3, <2>5, SameThread DEF CreateCommand, Types, jobVars, boundVars
<1> QED
  BY <1>1, <1>2, <1>3

LEMMA QueueTypes ==
    ASSUME Types
    PROVE  /\ ExecutePending => Types'
           /\ EndCommand => Types'
           /\ StartCommand => Types'
<1>1. ASSUME ExecutePending PROVE Types'
  <2>1. Head(commands) \in ActionType /\ Tail(commands) \in Seq(ActionType)
    BY <1>1, TailMember DEF ExecutePending, Types
  <2>2. queue' \in Seq(ActionType) /\ queue' # <<>>
    BY <1>1, <2>1, QueuedType DEF ExecutePending, Types
  <2> QED
    BY <1>1, <2>1, <2>2, SameThread DEF ExecutePending, WithoutExecuted, Types, jobVars, boundVars
<1>2. ASSUME EndCommand PROVE Types'
  <2>1. queue # <<>>
    BY <1>2 DEF EndCommand, Types, WorkerShape
  <2>2. queue' \in Seq(ActionType)
    BY <1>2, <2>1, TailMember DEF EndCommand, Types
  <2>3. WorkerShape(worker', queue')
    <3>1. worker' = Idle
      BY <1>2 DEF EndCommand
    <3>2. WorkerShape(Idle, queue')
      BY IdleShape
    <3> QED
      BY <3>1, <3>2
  <2> QED
    BY <1>2, <2>2, <2>3 DEF EndCommand, WorkerShape, Types, jobVars, boundVars
<1>3. ASSUME StartCommand PROVE Types'
  <2>1. queue # <<>> /\ row \in Row
    BY <1>3 DEF StartCommand, Types
  <2>2. WorkerShape(worker', queue)
    BY <1>3, <2>1, WorkerShapes, WritesShape DEF StartCommand
  <2> QED
    BY <1>3, <2>2 DEF StartCommand, WorkerShape, Types, jobVars, boundVars
<1> QED
  BY <1>1, <1>2, <1>3

LEMMA AfterCallType ==
    ASSUME machine \in Machine, NEW type PROVE AfterCall(type) \in Machine
  BY DEF AfterCall, Machine, Status

\* The actions leave the rows to the writes that follow.
LEMMA RunTypes ==
    ASSUME Types, RunAction PROVE Types'
<1>1. ASSUME WorkerShape(worker', queue), machine' \in Machine,
             UNCHANGED unchangedByRun, CloudFault \/ UNCHANGED boundVars
      PROVE  Types'
  <2>1. faults' \in 0..MaxFaults /\ crashes' \in 0..MaxCrashes
    BY <1>1, FaultType DEF Types, boundVars
  <2> QED
    BY <1>1, <2>1 DEF unchangedByRun, jobVars, Types
<1>2. worker.pc = "cloud" /\ worker.copy \in Row /\ queue # <<>>
  BY DEF RunAction, CreateInstance, CreateInstanceFails, DeleteMachine, GetState, Operate,
         UpdateSecurityGroups, CloudCallFails, Running, Types, WorkerShape
<1>3. \A s \in {"BUILD", "ACTIVE", "ERROR"} : Built(s) \in Machine
  BY DEF Built, Machine, Status
<1>4. TypeOK /\ machine \in Machine
  BY TypesFacts DEF Types
<1>5. CASE CreateInstance
  <2>1. PICK s \in {"BUILD", "ACTIVE", "ERROR"} :
           /\ machine' = Built(s)
           /\ SaveCopy([worker.copy EXCEPT !.computeId = TRUE, !.state = ConvertStatus(s)])
    BY <1>5 DEF CreateInstance
  <2>2. ConvertStatus(s) \in InstanceState
    BY ConvertStatusType DEF Status
  <2>3. [worker.copy EXCEPT !.computeId = TRUE, !.state = ConvertStatus(s)] \in Row
    BY <1>2, <2>2, RowOperators
  <2> QED
    BY <1>1, <1>2, <1>3, <1>4, <1>5, <2>1, <2>3, SaveCopyShape DEF CreateInstance
<1>6. CASE CreateInstanceFails
  <2>1. WorkerShape(worker', queue)
    BY <1>2, <1>6, WritesShape, WriteShape, WorkerShapes DEF CreateInstanceFails
  <2> QED
    BY <1>1, <1>3, <1>4, <1>6, <2>1 DEF CreateInstanceFails
<1>7. CASE DeleteMachine
  <2>1. WorkerShape(worker', queue)
    BY <1>2, <1>7, WritesShape, WriteShape DEF DeleteMachine
  <2> QED
    BY <1>1, <1>4, <1>7, <2>1, AfterCallType DEF DeleteMachine
<1>8. CASE GetState
  <2>1. CloudState \in InstanceState \cup {"missing"}
    BY <1>4, CloudStateType
  <2>2. WorkerShape(worker', queue)
    BY <1>2, <1>8, <2>1, WritesShape, WriteShape DEF GetState
  <2> QED
    BY <1>1, <1>4, <1>8, <2>2 DEF GetState
<1>9. ASSUME NEW type, Operate(type) PROVE Types'
  <2>1. WorkerShape(worker', queue)
    BY <1>2, <1>9, WorkerShapes DEF Operate
  <2> QED
    BY <1>1, <1>4, <1>9, <2>1, AfterCallType DEF Operate
<1>10. CASE UpdateSecurityGroups
  BY <1>1, <1>2, <1>4, <1>10, SaveCopyShape DEF UpdateSecurityGroups
<1>11. CASE CloudCallFails
  BY <1>1, <1>2, <1>4, <1>11, WorkerShapes, AfterCallType DEF CloudCallFails
<1> QED
  BY <1>5, <1>6, <1>7, <1>8, <1>9, <1>10, <1>11 DEF RunAction

LEMMA WriteTypes ==
    ASSUME Types
    PROVE  /\ ReadAgain => Types'
           /\ SaveRow => Types'
<1>1. ASSUME ReadAgain PROVE Types'
  <2>1. queue # <<>> /\ worker.writes # <<>> /\ row \in Row
        /\ worker.writes \in Seq(InstanceState \cup {"same"})
    BY <1>1 DEF ReadAgain, Types, WorkerShape
  <2>2. /\ Head(worker.writes) \in InstanceState \cup {"same"}
        /\ Tail(worker.writes) \in Seq(InstanceState \cup {"same"})
    BY <2>1, TailMember
  <2>3. Updated(row, Head(worker.writes)) \in Row
    BY <2>1, <2>2, RowOperators
  <2>4. WorkerShape(worker', queue)
    <3>1. CASE row.deleted /\ Tail(worker.writes) = <<>>
      BY <1>1, <2>1, <3>1, WorkerShapes DEF ReadAgain
    <3>2. CASE row.deleted /\ Tail(worker.writes) # <<>>
      <4>1. worker' = [worker EXCEPT !.writes = Tail(worker.writes)] /\ worker.pc = "read"
        BY <1>1, <3>2 DEF ReadAgain
      <4> QED
        BY <2>2, <3>2, <4>1 DEF Types, WorkerShape
    <3>3. CASE ~row.deleted
      BY <1>1, <2>1, <2>2, <2>3, <3>3 DEF ReadAgain, WorkerShape
    <3> QED
      BY <3>1, <3>2, <3>3
  <2> QED
    BY <1>1, <2>4 DEF ReadAgain, Types, jobVars, boundVars, WorkerShape
<1>2. ASSUME SaveRow PROVE Types'
  <2>1. queue # <<>> /\ worker.copy \in Row /\ worker.writes \in Seq(InstanceState \cup {"same"})
    BY <1>2 DEF SaveRow, Types, WorkerShape
  <2>2. WorkerShape(worker', queue)
    BY <1>2, <2>1, WriteShape DEF SaveRow
  <2> QED
    BY <1>2, <2>1, <2>2 DEF SaveRow, Types, jobVars, boundVars, WorkerShape
<1> QED
  BY <1>1, <1>2

LEMMA JobTypes ==
    ASSUME Types
    PROVE  /\ \A j \in Job : (LoadForState(j) \/ HandleState(j)) => Types'
           /\ RequestSecurityGroups => Types'
           /\ LoadToDelete \/ SaveDeleting \/ ExecuteDelete => Types'
           /\ CleanupStep => Types'
<1>1. ASSUME NEW j \in Job, LoadForState(j) PROVE Types'
  <2>1. [row EXCEPT !.deleted = TRUE] \in Row /\ [execute |-> TRUE] \in [execute : BOOLEAN]
    BY RowOperators DEF Types
  <2>2. stateJob' \in [Job -> Row \cup {Nothing} \cup [execute : BOOLEAN]]
    BY <1>1, <2>1 DEF LoadForState, Types
  <2> QED
    BY <1>1, <2>2, SameThread DEF LoadForState, Types, boundVars
<1>2. ASSUME NEW j \in Job, HandleState(j) PROVE Types'
  <2>1. stateJob' \in [Job -> Row \cup {Nothing} \cup [execute : BOOLEAN]]
    BY <1>2 DEF HandleState, Types
  <2>2. CASE stateJob[j] \in Row /\ row' = stateJob[j] /\ UNCHANGED queue
    BY <1>2, <2>1, <2>2, SameThread DEF HandleState, Types, boundVars
  <2>3. CASE Queued("STATE") /\ UNCHANGED row
    <3>1. queue' \in Seq(ActionType) /\ queue' # <<>>
      BY <2>3, QueuedType DEF Types, ActionType
    <3> QED
      BY <1>2, <2>1, <2>3, <3>1, SameThread DEF HandleState, Types, boundVars
  <2> QED
    BY <1>2, <2>2, <2>3 DEF HandleState
<1>3. ASSUME RequestSecurityGroups PROVE Types'
  <2>1. queue' \in Seq(ActionType) /\ queue' # <<>>
    BY <1>3, QueuedType DEF RequestSecurityGroups, Types, ActionType
  <2> QED
    BY <1>3, <2>1, SameThread DEF RequestSecurityGroups, Types, jobVars, boundVars
<1>4. ASSUME LoadToDelete PROVE Types'
  <2>1. InState(row, "DELETING") \in Row
    BY RowOperators DEF Types, InstanceState
  <2> QED
    BY <1>4, <2>1, SameThread DEF LoadToDelete, Types, boundVars
<1>5. ASSUME SaveDeleting PROVE Types'
  <2>1. [execute |-> TRUE] \in [execute : BOOLEAN]
    OBVIOUS
  <2> QED
    BY <1>5, <2>1, SameThread DEF SaveDeleting, Types, boundVars
<1>6. ASSUME ExecuteDelete PROVE Types'
  <2>1. queue' \in Seq(ActionType) /\ queue' # <<>>
    BY <1>6, QueuedType DEF ExecuteDelete, Types, ActionType
  <2>2. commands' \in Seq(ActionType)
    <3>1. "DELETE" \in ActionType /\ commands \in Seq(ActionType)
      BY DEF ActionType, Types
    <3>2. Append(commands, "DELETE") \in Seq(ActionType)
      BY <3>1, AppendMember
    <3> QED
      BY <1>6, <3>1, <3>2 DEF ExecuteDelete
  <2> QED
    BY <1>6, <2>1, <2>2, SameThread DEF ExecuteDelete, Types, boundVars
<1>7. ASSUME CleanupStep PROVE Types'
  <2>1. Known(row) \in BOOLEAN
    BY DEF Known, Types, Row
  <2>2. cleanup' \in [pc : {"idle", "list", "delete"}, known : BOOLEAN]
    <3>1. CASE LoadKnown
      BY <2>1, <3>1 DEF LoadKnown
    <3>2. CASE ListMachines
      <4>1. \/ cleanup' = [pc |-> "delete", known |-> FALSE]
            \/ cleanup' = [pc |-> "idle", known |-> FALSE]
        BY <3>2 DEF ListMachines
      <4>2. \A p \in {"idle", "list", "delete"}, b \in BOOLEAN :
               [pc |-> p, known |-> b] \in [pc : {"idle", "list", "delete"}, known : BOOLEAN]
        OBVIOUS
      <4> QED
        BY <4>1, <4>2
    <3>3. CASE DeleteZombie
      BY <3>3 DEF DeleteZombie, Types
    <3> QED
      BY <1>7, <3>1, <3>2, <3>3 DEF CleanupStep
  <2>3. machine' \in Machine
    BY <1>7 DEF CleanupStep, LoadKnown, ListMachines, DeleteZombie, TurnInto, Types, Machine, Status
  <2>4. faults' \in 0..MaxFaults /\ crashes' \in 0..MaxCrashes
    BY <1>7, FaultType DEF CleanupStep, LoadKnown, ListMachines, DeleteZombie, boundVars, Types
  <2> QED
    BY <1>7, <2>2, <2>3, <2>4, SameThread
       DEF CleanupStep, LoadKnown, ListMachines, DeleteZombie, Types
<1> QED
  BY <1>1, <1>2, <1>3, <1>4, <1>5, <1>6, <1>7

\* The machine that somebody else has changed.
LEMMA OutsideType ==
    ASSUME machine \in Machine, NEW s \in Outside, NEW m,
           m = [status |-> s, target |-> s, shelved |-> machine.shelved \/ s = "SHELVED"]
    PROVE  /\ m \in Machine /\ m.status = s /\ m.target = s
           /\ s \in Status \ {"none"}
           /\ machine.shelved => m.shelved
           /\ s = "SHELVED" => m.shelved
<1> DEFINE b == machine.shelved \/ s = "SHELVED"
<1>1. /\ b \in BOOLEAN
      /\ machine.shelved => b
      /\ s = "SHELVED" => b
  OBVIOUS
<1>2. s \in Status \ {"none"}
  BY OutsideAssumption DEF Status
<1>3. m = [status |-> s, target |-> s, shelved |-> b]
  OBVIOUS
<1> HIDE DEF b
<1> QED
  BY <1>1, <1>2, <1>3 DEF Machine

LEMMA OtherTypes ==
    ASSUME Types
    PROVE  /\ Settle \/ MachineChanges => Types'
           /\ Restart => Types'
           /\ UNCHANGED vars => Types'
<1>1. ASSUME Settle \/ MachineChanges PROVE Types'
  <2>1. machine' \in Machine
    <3>1. CASE Settle
      BY <3>1 DEF Settle, Types, Machine
    <3>2. CASE MachineChanges
      BY <3>2, OutsideType DEF MachineChanges, Types
    <3> QED
      BY <1>1, <3>1, <3>2
  <2>2. faults' \in 0..MaxFaults /\ crashes' \in 0..MaxCrashes
    BY <1>1, FaultType DEF Settle, MachineChanges, boundVars, Types
  <2> QED
    BY <1>1, <2>1, <2>2, SameThread DEF Settle, MachineChanges, Types, jobVars
<1>2. ASSUME Restart PROVE Types'
  <2>1. NoRequest \in Asked
    BY DEF NoRequest, Asked
  <2>2. request' \in [Requester -> {Unused} \cup Asked]
    BY <1>2, <2>1 DEF Restart, Types
  <2>3. queue' \in Seq(ActionType) /\ WorkerShape(worker', queue')
    <3>1. WorkerShape(Idle, <<>>)
      BY IdleShape
    <3> QED
      BY <1>2, <3>1 DEF Restart
  <2>4. faults' \in 0..MaxFaults /\ crashes' \in 0..MaxCrashes
    BY <1>2, BoundAssumption DEF Restart, Types
  <2> QED
    BY <1>2, <2>2, <2>3, <2>4 DEF Restart, Types, WorkerShape
<1>3. ASSUME UNCHANGED vars PROVE Types'
  BY <1>3, SameThread DEF vars, jobVars, boundVars, Types
<1> QED
  BY <1>1, <1>2, <1>3

LEMMA TypesStep ==
    ASSUME Types, [Next]_vars PROVE Types'
<1>1. \A r \in Requester : RequestStep(r) => Types'
  BY RequestTypes DEF RequestStep
<1>2. \A r \in Request, k \in Kind : ReceiveRequest(r, k) => Types'
  BY RequestTypes DEF Requester
<1>3. WorkerStep => Types'
  BY QueueTypes, RunTypes, WriteTypes DEF WorkerStep
<1> QED
  BY <1>1, <1>2, <1>3, QueueTypes, JobTypes, OtherTypes DEF Next, Requester

LEMMA TypesInit == Init => Types
<1> SUFFICES ASSUME Init PROVE Types
  OBVIOUS
<1>1. row \in Row /\ machine \in Machine
  BY DEF Init, Row, InstanceState, Machine, Status
<1>2. request \in [Requester -> {Unused} \cup Asked]
  <2>1. [saves |-> <<>>, create |-> "CREATE"] \in Asked
    BY DEF Asked, ActionType
  <2> QED
    BY <2>1 DEF Init, Requester
<1>3. WorkerShape(worker, queue)
  <2>1. WorkerShape(Idle, <<>>)
    BY IdleShape
  <2> QED
    BY <2>1 DEF Init
<1>4. /\ commands \in Seq(ActionType) /\ queue \in Seq(ActionType)
      /\ faults \in 0..MaxFaults /\ crashes \in 0..MaxCrashes
  BY BoundAssumption DEF Init
<1>5. /\ stateJob \in [Job -> Row \cup {Nothing} \cup [execute : BOOLEAN]]
      /\ deleteJob \in Row \cup {Nothing} \cup [execute : BOOLEAN]
  BY DEF Init
<1>6. cleanup \in [pc : {"idle", "list", "delete"}, known : BOOLEAN] /\ asked \in BOOLEAN
  BY DEF Init
<1> QED
  BY <1>1, <1>2, <1>3, <1>4, <1>5, <1>6 DEF Types

\* Every variable keeps its type: what the jobs and requests save is a row, and
\* what a command writes is a list of states.
THEOREM LifecycleTypeCorrect == Spec => []TypeOK
<1>1. Types /\ [Next]_vars => Types'
  BY TypesStep
<1>2. Types => TypeOK
  BY TypesFacts
<1> QED
  BY TypesInit, <1>1, <1>2, PTL DEF Spec

------------------------------------------------------------------------------
(* The machine *)

\* All that happens to the machine.
MachineChange ==
    \/ UNCHANGED machine
    \/ machine' = [machine EXCEPT !.status = machine.target]
    \/ Exists /\ machine' = [machine EXCEPT !.target = "gone"]
    \/ Exists /\ \E s \in Outside :
          machine' = [status |-> s, target |-> s, shelved |-> machine.shelved \/ s = "SHELVED"]
    \/ /\ machine.status \in {"ACTIVE", "SHUTOFF"}
       /\ \E s \in {"ACTIVE", "SHUTOFF", "REBOOT"}, t \in {"ACTIVE", "SHUTOFF"} :
             machine' = [machine EXCEPT !.status = s, !.target = t]
    \/ Running("CREATE") /\ \E s \in {"BUILD", "ACTIVE", "ERROR"} : machine' = Built(s)

LEMMA AfterCallChange ==
    ASSUME Types, NEW type, machine' = AfterCall(type) PROVE MachineChange
<1> DEFINE powers == /\ type \in {"START", "REBOOT", "SHUTDOWN"}
                     /\ machine.status \in {"ACTIVE", "SHUTOFF"}
                     /\ machine.target = machine.status
<1>1. CASE powers
  <2> DEFINE s == IF type = "REBOOT" THEN "REBOOT" ELSE machine.status
             t == IF type = "SHUTDOWN" THEN "SHUTOFF" ELSE "ACTIVE"
  <2>1. machine' = [machine EXCEPT !.status = s, !.target = t]
    BY <1>1 DEF AfterCall
  <2>2. s \in {"ACTIVE", "SHUTOFF", "REBOOT"} /\ t \in {"ACTIVE", "SHUTOFF"}
    BY <1>1
  <2> HIDE DEF s, t
  <2> QED
    BY <1>1, <2>1, <2>2 DEF MachineChange
<1>2. CASE type = "DELETE" /\ Exists
  BY <1>2 DEF AfterCall, MachineChange
<1>3. CASE ~powers /\ ~(type = "DELETE" /\ Exists)
  BY <1>3 DEF AfterCall, MachineChange
<1> QED
  BY <1>1, <1>2, <1>3

LEMMA MachineChanged ==
    ASSUME Types, [Next]_vars PROVE MachineChange
<1>1. CASE Settle \/ MachineChanges
  BY <1>1 DEF Settle, MachineChanges, MachineChange
<1>2. CASE RunAction
  <2>1. CASE CreateInstance \/ CreateInstanceFails
    BY <2>1 DEF CreateInstance, CreateInstanceFails, MachineChange
  <2>2. CASE DeleteMachine \/ CloudCallFails
    BY <2>2, AfterCallChange DEF DeleteMachine, CloudCallFails, MachineChange
  <2>3. CASE GetState \/ UpdateSecurityGroups
    BY <2>3 DEF GetState, UpdateSecurityGroups, MachineChange
  <2>4. ASSUME NEW type, Operate(type) PROVE MachineChange
    BY <2>4, AfterCallChange DEF Operate
  <2> QED
    BY <1>2, <2>1, <2>2, <2>3, <2>4 DEF RunAction
<1>3. CASE CleanupStep
  BY <1>3 DEF CleanupStep, LoadKnown, ListMachines, DeleteZombie, TurnInto, MachineChange
<1>4. CASE UNCHANGED machine
  BY <1>4 DEF MachineChange
<1>5. (\E r \in Request, k \in Kind : ReceiveRequest(r, k)) => UNCHANGED machine
  BY DEF ReceiveRequest
<1>6. (\E r \in Request \cup {Creator} : RequestStep(r)) => UNCHANGED machine
  BY DEF RequestStep, SaveOfRequest, CreateCommand
<1>7. ExecutePending \/ StartCommand \/ ReadAgain \/ SaveRow \/ EndCommand => UNCHANGED machine
  BY DEF ExecutePending, StartCommand, ReadAgain, SaveRow, EndCommand
<1>8. (\E j \in Job : LoadForState(j) \/ HandleState(j)) \/ RequestSecurityGroups => UNCHANGED machine
  BY DEF LoadForState, HandleState, RequestSecurityGroups
<1>9. LoadToDelete \/ SaveDeleting \/ ExecuteDelete \/ Restart \/ UNCHANGED vars
        => UNCHANGED machine
  BY DEF LoadToDelete, SaveDeleting, ExecuteDelete, Restart, vars
<1> QED
  BY <1>1, <1>2, <1>3, <1>4, <1>5, <1>6, <1>7, <1>8, <1>9 DEF Next, WorkerStep

\* CREATE runs for an instance without a machine only.
LEMMA CreatesOnce ==
    ASSUME Types, CreateInv, Running("CREATE") PROVE machine.status = "none"
<1> SUFFICES ASSUME machine.status # "none" PROVE FALSE
  OBVIOUS
<1>1. queue # <<>> /\ queue \in Seq(ActionType) /\ worker.pc = "cloud"
  BY DEF Running, Types, WorkerShape
<1>2. Has(queue, "CREATE")
  BY <1>1, TailMember DEF Running
<1> QED
  BY <1>1, <1>2 DEF CreateInv

\* A machine is there once it is created, and a machine that has gone does not come
\* back.
LEMMA MachineStep ==
    ASSUME Types, MachineInv, CreateInv, MachineChange
    PROVE  /\ MachineInv'
           /\ machine.status # "none" => machine'.status # "none"
           /\ machine.status = "gone" => machine'.status = "gone"
           /\ machine.shelved => machine'.shelved
<1>1. Running("CREATE") => machine.status = "none"
  BY CreatesOnce
<1>2. machine \in Machine
  BY DEF Types
<1>3. CASE UNCHANGED machine
  BY <1>3 DEF MachineInv
<1>4. CASE machine' = [machine EXCEPT !.status = machine.target]
  BY <1>2, <1>4 DEF MachineInv, Machine
<1>5. CASE Exists /\ machine' = [machine EXCEPT !.target = "gone"]
  BY <1>2, <1>5 DEF MachineInv, Exists, Machine
<1>6. CASE Exists /\ \E s \in Outside : machine' = [status |-> s, target |-> s,
                                                  shelved |-> machine.shelved \/ s = "SHELVED"]
  <2>1. PICK s \in Outside : machine' = [status |-> s, target |-> s,
                                         shelved |-> machine.shelved \/ s = "SHELVED"]
    BY <1>6
  <2>2. /\ machine'.status = s /\ machine'.target = s /\ s # "none"
        /\ machine.shelved => machine'.shelved
        /\ s = "SHELVED" => machine'.shelved
    BY <1>2, <2>1, OutsideType
  <2>3. machine.status # "gone"
    BY <1>6 DEF Exists
  <2> QED
    BY <2>2, <2>3 DEF MachineInv
<1>7. CASE /\ machine.status \in {"ACTIVE", "SHUTOFF"}
           /\ \E s \in {"ACTIVE", "SHUTOFF", "REBOOT"}, t \in {"ACTIVE", "SHUTOFF"} :
                 machine' = [machine EXCEPT !.status = s, !.target = t]
  BY <1>2, <1>7 DEF MachineInv, Machine
<1>8. CASE Running("CREATE") /\ \E s \in {"BUILD", "ACTIVE", "ERROR"} : machine' = Built(s)
  BY <1>1, <1>2, <1>8 DEF MachineInv, Built, Machine
<1> QED
  BY <1>3, <1>4, <1>5, <1>6, <1>7, <1>8 DEF MachineChange

------------------------------------------------------------------------------
(* The CREATE command *)

LEMMA QueuedFacts ==
    ASSUME queue \in Seq(ActionType), \A x \in ActionType : Once(queue, x),
           NEW c \in ActionType, Queued(c)
    PROVE  /\ \A x \in ActionType : Once(queue', x)
           /\ \A x : Has(queue', x) <=> Has(queue, x) \/ x = c
           /\ queue # <<>> => queue' # <<>> /\ queue'[1] = queue[1] /\ Head(queue') = Head(queue)
<1>1. CASE Has(queue, c)
  <2>1. queue' = queue
    BY <1>1 DEF Queued, Has
  <2> QED
    BY <1>1, <2>1
<1>2. CASE ~Has(queue, c)
  <2>1. queue' = Append(queue, c)
    BY <1>2 DEF Queued, Has
  <2> QED
    BY <1>2, <2>1, AppendMember
<1> QED
  BY <1>1, <1>2

\* A step that does not move the CREATE command.
LEMMA CreateKept ==
    ASSUME Types, MachineInv, CreateInv,
           \A r \in Requester : request'[r].create = "CREATE" => request[r].create = "CREATE",
           Has(commands', "CREATE") => Has(commands, "CREATE"), Once(commands', "CREATE"),
           Has(queue', "CREATE") => Has(queue, "CREATE"), \A c \in ActionType : Once(queue', c),
           machine'.status # "none" => machine.status # "none",
           Has(queue', "CREATE") /\ Has(queue, "CREATE") /\ queue[1] = "CREATE"
              /\ worker.pc \in {"read", "save", "done"}
                  => queue'[1] = "CREATE" /\ worker'.pc \in {"read", "save", "done"}
    PROVE  CreateInv'
<1>1. Creating' => Creating
  BY DEF Creating, Requester
<1> QED
  BY <1>1 DEF CreateInv

LEMMA RequestCreate ==
    ASSUME Types, MachineInv, CreateInv, NEW r \in Requester
    PROVE  /\ \A k \in Kind : r \in Request /\ ReceiveRequest(r, k) => CreateInv'
           /\ SaveOfRequest(r) => CreateInv'
           /\ CreateCommand(r) => CreateInv'
<1>1. ASSUME NEW k \in Kind, ReceiveRequest(r, k) PROVE CreateInv'
  <2>1. request'[r].create # "CREATE" /\ \A p \in Requester : p # r => request'[p] = request[p]
    BY <1>1, Received
  <2>2. \A p \in Requester : request'[p].create = "CREATE" => request[p].create = "CREATE"
    BY <2>1
  <2>3. UNCHANGED <<commands, queue, worker, machine>>
    BY <1>1 DEF ReceiveRequest
  <2> QED
    BY <2>2, <2>3, CreateKept DEF CreateInv
<1>2. ASSUME SaveOfRequest(r) PROVE CreateInv'
  <2>1. \A p \in Requester : request'[p].create = request[p].create
    BY <1>2 DEF SaveOfRequest, Types, Asked
  <2>2. UNCHANGED <<commands, queue, worker, machine>>
    BY <1>2 DEF SaveOfRequest
  <2> QED
    BY <2>1, <2>2, CreateKept DEF CreateInv
<1>3. ASSUME CreateCommand(r) PROVE CreateInv'
  <2> DEFINE c == request[r].create
  <2>1. /\ request[r] \in Asked /\ request[r] # NoRequest /\ request[r].saves = <<>>
        /\ commands' = Append(commands, c) /\ commands \in Seq(ActionType)
        /\ UNCHANGED <<queue, worker, machine>>
    BY <1>3 DEF CreateCommand, Types
  <2>2. c \in ActionType
    BY <2>1 DEF Asked, NoRequest
  <2>3. /\ \A p \in Requester : request'[p].create = IF p = r THEN Nothing ELSE request[p].create
        /\ Nothing # "CREATE"
    BY <1>3, NothingAssumption DEF CreateCommand, Types, NoRequest, ActionType
  <2>4. /\ \A x : Has(commands', x) <=> Has(commands, x) \/ x = c
        /\ \A x : Once(commands, x) /\ (x = c => ~Has(commands, x)) => Once(commands', x)
    BY <2>1, <2>2, AppendMember
  <2>5. CASE c # "CREATE"
    <3>1. \A p \in Requester : request'[p].create = "CREATE" => request[p].create = "CREATE"
      BY <2>3
    <3>2. Once(commands', "CREATE") /\ (Has(commands', "CREATE") => Has(commands, "CREATE"))
      BY <2>4, <2>5 DEF CreateInv
    <3> QED
      BY <2>1, <3>1, <3>2, CreateKept DEF CreateInv
  <2>6. CASE c = "CREATE"
    <3>1. r = Creator /\ Creating
      BY <2>6 DEF CreateInv, Creating
    <3>2. \A p \in Requester : request'[p].create # "CREATE"
      BY <2>3, <3>1 DEF CreateInv
    <3>3. ~Creating'
      BY <3>2 DEF Creating, Requester
    <3>4. Once(commands', "CREATE")
      BY <2>4, <2>6, <3>1 DEF CreateInv
    <3> QED
      BY <2>1, <3>1, <3>2, <3>3, <3>4 DEF CreateInv
  <2> QED
    BY <2>5, <2>6
<1> QED
  BY <1>1, <1>2, <1>3

LEMMA QueuedCreate ==
    ASSUME Types, MachineInv, CreateInv, NEW c \in ActionType \ {"CREATE"}, Queued(c),
           UNCHANGED <<machine, worker, request>>,
           Once(commands', "CREATE"), Has(commands', "CREATE") => Has(commands, "CREATE")
    PROVE  CreateInv'
<1>1. /\ \A x \in ActionType : Once(queue', x)
      /\ Has(queue', "CREATE") => Has(queue, "CREATE")
      /\ queue # <<>> => queue'[1] = queue[1]
  BY QueuedFacts DEF CreateInv, Types
<1>2. Has(queue, "CREATE") => queue # <<>>
  BY DEF Has
<1> QED
  BY <1>1, <1>2, CreateKept

LEMMA QueueCreate ==
    ASSUME Types, MachineInv, CreateInv
    PROVE  /\ ExecutePending => CreateInv'
           /\ EndCommand => CreateInv'
           /\ StartCommand => CreateInv'
<1>0. queue \in Seq(ActionType) /\ commands \in Seq(ActionType)
  BY DEF Types
<1>2. ASSUME ExecutePending PROVE CreateInv'
  <2> DEFINE c == Head(commands)
  <2>1. /\ c \in ActionType /\ Has(commands, c)
        /\ Once(commands', "CREATE") /\ (Has(commands', "CREATE") => Has(commands, "CREATE"))
        /\ c = "CREATE" => ~Has(commands', "CREATE")
    BY <1>0, <1>2, TailMember DEF ExecutePending, WithoutExecuted, CreateInv
  <2>2. Queued(c) /\ UNCHANGED <<machine, worker, request>>
    BY <1>2 DEF ExecutePending
  <2>3. CASE c # "CREATE"
    BY <2>1, <2>2, <2>3, QueuedCreate
  <2>4. CASE c = "CREATE"
    <3>1. ~Creating /\ ~Creating' /\ ~Has(queue, "CREATE") /\ machine.status = "none"
      BY <2>1, <2>2, <2>4 DEF CreateInv, Creating
    <3>2. \A x \in ActionType : Once(queue', x)
      BY <1>0, <2>1, <2>2, QueuedFacts DEF CreateInv
    <3> QED
      BY <2>1, <2>2, <2>4, <3>1, <3>2 DEF CreateInv
  <2> QED
    BY <2>3, <2>4
<1>3. ASSUME EndCommand PROVE CreateInv'
  <2>1. queue # <<>> /\ queue' = Tail(queue) /\ UNCHANGED <<machine, commands, request>>
    BY <1>3 DEF EndCommand, Types, WorkerShape
  <2>2. /\ Has(queue', "CREATE") => Has(queue, "CREATE")
        /\ \A c \in ActionType : Once(queue', c)
        /\ queue[1] = "CREATE" => ~Has(queue', "CREATE")
    BY <1>0, <2>1, TailMember DEF CreateInv, ActionType
  <2> QED
    BY <2>1, <2>2, CreateKept DEF CreateInv
<1>4. ASSUME StartCommand PROVE CreateInv'
  <2>1. UNCHANGED <<queue, machine, commands, request>> /\ worker.pc = "idle"
    BY <1>4 DEF StartCommand, Idle
  <2> QED
    BY <2>1, CreateKept DEF CreateInv
<1> QED
  BY <1>2, <1>3, <1>4

LEMMA RunCreate ==
    ASSUME Types, MachineInv, CreateInv
    PROVE  /\ RunAction => CreateInv'
           /\ ReadAgain \/ SaveRow => CreateInv'
<1>1. \A states : Write(states) => worker'.pc \in {"read", "done"}
  BY DEF Write, Done, Idle
<1>2. ASSUME RunAction PROVE CreateInv'
  <2>1. UNCHANGED <<commands, queue, request>> /\ worker.pc = "cloud"
    BY <1>2 DEF RunAction, CreateInstance, CreateInstanceFails, DeleteMachine, GetState, Operate,
                UpdateSecurityGroups, CloudCallFails, Running, unchangedByRun
  <2>2. CASE CreateInstance \/ CreateInstanceFails
    <3>1. Running("CREATE")
      BY <2>2 DEF CreateInstance, CreateInstanceFails
    <3>2. queue[1] = "CREATE" /\ Has(queue, "CREATE")
      BY <2>1, <3>1, TailMember DEF Running, Types, WorkerShape
    <3>3. worker'.pc \in {"read", "save", "done"}
      <4>1. CASE CreateInstance
        BY <4>1 DEF CreateInstance, SaveCopy, Types, WorkerShape
      <4>2. CASE CreateInstanceFails
        BY <1>1, <4>2 DEF CreateInstanceFails, Done
      <4> QED
        BY <2>2, <4>1, <4>2
    <3> QED
      BY <2>1, <3>2, <3>3 DEF CreateInv, Creating
  <2>3. CASE ~(CreateInstance \/ CreateInstanceFails)
    <3>1. machine'.status # "none" => machine.status # "none"
      <4>1. \A type : AfterCall(type).status # "none" => machine.status # "none"
        BY DEF AfterCall, Types, Machine
      <4>2. CASE DeleteMachine \/ GetState \/ UpdateSecurityGroups \/ CloudCallFails
        BY <4>1, <4>2 DEF DeleteMachine, GetState, UpdateSecurityGroups, CloudCallFails
      <4>3. ASSUME NEW type, Operate(type)
            PROVE  machine'.status # "none" => machine.status # "none"
        BY <4>1, <4>3 DEF Operate
      <4> QED
        BY <1>2, <2>3, <4>2, <4>3 DEF RunAction
    <3> QED
      BY <2>1, <3>1, CreateKept DEF CreateInv
  <2> QED
    BY <2>2, <2>3
<1>3. ASSUME ReadAgain \/ SaveRow PROVE CreateInv'
  <2>1. UNCHANGED <<commands, queue, request, machine>>
    BY <1>3 DEF ReadAgain, SaveRow
  <2>2. worker'.pc \in {"read", "save", "done"}
    BY <1>1, <1>3 DEF ReadAgain, SaveRow, Done, Types, WorkerShape
  <2> QED
    BY <2>1, <2>2, CreateKept DEF CreateInv
<1> QED
  BY <1>2, <1>3

LEMMA CreateStep ==
    ASSUME Types, MachineInv, CreateInv, [Next]_vars PROVE CreateInv'
<1>1. \A r \in Requester : RequestStep(r) => CreateInv'
  BY RequestCreate DEF RequestStep
<1>2. \A r \in Request, k \in Kind : ReceiveRequest(r, k) => CreateInv'
  BY RequestCreate DEF Requester
<1>3. WorkerStep => CreateInv'
  BY QueueCreate, RunCreate DEF WorkerStep
<1>4. {"STATE", "UPDATE_SECURITY_GROUPS", "DELETE"} \subseteq ActionType \ {"CREATE"}
  BY DEF ActionType
<1>6. ASSUME NEW j \in Job, LoadForState(j) \/ HandleState(j) PROVE CreateInv'
  <2>1. CASE Queued("STATE") /\ HandleState(j)
    <3>1. UNCHANGED <<machine, worker, request, commands>>
      BY <2>1 DEF HandleState
    <3> QED
      BY <1>4, <2>1, <3>1, QueuedCreate DEF CreateInv
  <2>2. CASE UNCHANGED <<commands, queue, worker, request, machine>>
    BY <2>2, CreateKept DEF CreateInv
  <2> QED
    BY <1>6, <2>1, <2>2 DEF LoadForState, HandleState
<1>7. ASSUME RequestSecurityGroups PROVE CreateInv'
  <2>1. Queued("UPDATE_SECURITY_GROUPS") /\ UNCHANGED <<machine, worker, request, commands>>
    BY <1>7 DEF RequestSecurityGroups
  <2> QED
    BY <1>4, <2>1, QueuedCreate DEF CreateInv
<1>8. ASSUME ExecuteDelete PROVE CreateInv'
  <2>1. Queued("DELETE") /\ UNCHANGED <<machine, worker, request>>
    BY <1>8 DEF ExecuteDelete
  <2>2. commands' = commands \/ commands' = Append(commands, "DELETE")
    BY <1>8 DEF ExecuteDelete
  <2>3. commands \in Seq(ActionType) /\ "DELETE" \in ActionType
    BY DEF Types, ActionType
  <2>4. Once(commands', "CREATE") /\ (Has(commands', "CREATE") => Has(commands, "CREATE"))
    <3>1. CASE commands' = commands
      BY <3>1 DEF CreateInv
    <3>2. CASE commands' = Append(commands, "DELETE")
      <4>1. Once(Append(commands, "DELETE"), "CREATE")
        BY <2>3, AppendMember DEF CreateInv
      <4>2. Has(Append(commands, "DELETE"), "CREATE") => Has(commands, "CREATE")
        BY <2>3, AppendMember
      <4> QED
        BY <3>2, <4>1, <4>2
    <3> QED
      BY <2>2, <3>1, <3>2
  <2> QED
    BY <1>4, <2>1, <2>4, QueuedCreate
<1>9. ASSUME LoadToDelete \/ SaveDeleting \/ UNCHANGED vars PROVE CreateInv'
  <2>1. UNCHANGED <<commands, queue, worker, request, machine>>
    BY <1>9 DEF LoadToDelete, SaveDeleting, vars
  <2> QED
    BY <2>1, CreateKept DEF CreateInv
<1>10. ASSUME CleanupStep \/ Settle \/ MachineChanges PROVE CreateInv'
  <2>1. UNCHANGED <<commands, queue, worker, request>>
    BY <1>10 DEF CleanupStep, LoadKnown, ListMachines, DeleteZombie, Settle, MachineChanges
  <2>2. machine'.status # "none" => machine.status # "none"
    BY <1>10 DEF CleanupStep, LoadKnown, ListMachines, DeleteZombie, Settle, MachineChanges,
                 TurnInto, Exists, MachineInv, Types, Machine
  <2> QED
    BY <2>1, <2>2, CreateKept DEF CreateInv
<1>11. ASSUME Restart PROVE CreateInv'
  <2>1. \A r \in Requester : request'[r].create = "CREATE" => request[r].create = "CREATE"
    BY <1>11, NothingAssumption DEF Restart, Types, NoRequest, Unused, ActionType
  <2>2. queue' = <<>> /\ UNCHANGED <<commands, machine>>
    BY <1>11 DEF Restart
  <2>3. ~Has(queue', "CREATE") /\ \A c \in ActionType : Once(queue', c)
    BY <2>2 DEF Has, Once
  <2> QED
    BY <2>1, <2>2, <2>3, CreateKept DEF CreateInv
<1> QED
  BY <1>1, <1>2, <1>3, <1>6, <1>7, <1>8, <1>9, <1>10, <1>11, QueueCreate DEF Next, Requester

LEMMA CreateInit == Init => MachineInv /\ CreateInv
<1> SUFFICES ASSUME Init PROVE MachineInv /\ CreateInv
  OBVIOUS
<1>1. MachineInv
  BY DEF Init, MachineInv
<1>2. /\ \A r \in Requester : request[r].create = "CREATE" => r = Creator
      /\ machine.status = "none"
  BY DEF Init, Requester, Unused
<1>3. \A c : ~Has(commands, c) /\ ~Has(queue, c) /\ Once(commands, c) /\ Once(queue, c)
  BY DEF Init, Has, Once
<1> QED
  BY <1>1, <1>2, <1>3 DEF CreateInv

\* An instance never gets a second machine: there is one CREATE command, in the
\* hands of the request, in the table or in the queue, and once it has run it only
\* waits to leave the queue.
THEOREM OneMachineEach == Spec => OneMachine
<1> DEFINE Inv == Types /\ MachineInv /\ CreateInv
<1>1. Init => Inv
  BY TypesInit, CreateInit
<1>2. Inv /\ [Next]_vars => Inv'
  BY TypesStep, MachineChanged, MachineStep, CreateStep
<1>3. Inv /\ [Next]_vars =>
        [(CreateInstance \/ CreateInstanceFails) /\ machine' # machine
           => machine.status = "none"]_vars
  BY CreatesOnce DEF CreateInstance, CreateInstanceFails
<1> QED
  BY <1>1, <1>2, <1>3, PTL DEF Spec, OneMachine

------------------------------------------------------------------------------
(* Rows and their copies *)

\* What a row tells remains so.
Kept ==
    /\ asked => asked'
    /\ machine.status # "none" => machine'.status # "none"
    /\ machine.status = "gone" => machine'.status = "gone"
    /\ machine.shelved => machine'.shelved

LEMMA KeptByAll ==
    ASSUME Types, MachineInv, CreateInv, [Next]_vars PROVE Kept
<1>1. asked => asked'
  <2>1. (\E r \in Request, k \in Kind : ReceiveRequest(r, k)) => (asked => asked')
    BY DEF ReceiveRequest
  <2>2. (\E r \in Request \cup {Creator} : RequestStep(r)) \/ ExecutePending => UNCHANGED asked
    BY DEF RequestStep, SaveOfRequest, CreateCommand, ExecutePending
  <2>3. WorkerStep => UNCHANGED asked
    BY DEF WorkerStep, StartCommand, ReadAgain, SaveRow, EndCommand, RunAction, CreateInstance,
           CreateInstanceFails, DeleteMachine, GetState, Operate, UpdateSecurityGroups,
           CloudCallFails, unchangedByRun
  <2>4. (\E j \in Job : LoadForState(j) \/ HandleState(j)) \/ RequestSecurityGroups
        \/ LoadToDelete \/ SaveDeleting \/ ExecuteDelete => UNCHANGED asked
    BY DEF LoadForState, HandleState, RequestSecurityGroups, LoadToDelete, SaveDeleting,
           ExecuteDelete
  <2>5. CleanupStep \/ Settle \/ MachineChanges \/ Restart \/ UNCHANGED vars => UNCHANGED asked
    BY DEF CleanupStep, LoadKnown, ListMachines, DeleteZombie, Settle, MachineChanges, Restart, vars
  <2> QED
    BY <2>1, <2>2, <2>3, <2>4, <2>5 DEF Next
<1> QED
  BY <1>1, MachineChanged, MachineStep DEF Kept

LEMMA RowKept ==
    ASSUME Kept, NEW r, RowOK(r) PROVE RowOK(r)'
  BY DEF Kept, RowOK, Reason

LEMMA ExecuteIsNoRow == ~([execute |-> TRUE] \in Row)
<1> SUFFICES ASSUME [execute |-> TRUE] \in Row PROVE FALSE
  OBVIOUS
<1>1. \A r \in Row : "state" \in DOMAIN r
  BY DEF Row
<1>2. "state" \notin DOMAIN [execute |-> TRUE]
  OBVIOUS
<1> QED
  BY <1>1, <1>2

\* Where nothing is saved, read or forgotten, nothing new is told.
LEMMA CopiesKept ==
    ASSUME CopiesInv, Kept
    PROVE  /\ UNCHANGED row => RowOK(row)'
           /\ UNCHANGED request =>
                 \A r \in Requester : \A k \in DOMAIN request'[r].saves : RowOK(request[r].saves[k])'
           /\ UNCHANGED worker \/ worker'.copy \notin Row => (worker.copy \in Row => RowOK(worker.copy))'
           /\ UNCHANGED stateJob => \A j \in Job : stateJob'[j] \in Row => RowOK(stateJob[j])'
           /\ UNCHANGED deleteJob => (deleteJob \in Row => RowOK(deleteJob))'
<1>1. UNCHANGED row => RowOK(row)'
  BY RowKept DEF CopiesInv, RowOK
<1>2. ASSUME UNCHANGED request, NEW r \in Requester, NEW k \in DOMAIN request'[r].saves
      PROVE  RowOK(request[r].saves[k])'
  BY <1>2 DEF CopiesInv, RowOK, Reason, Kept
<1>3. ASSUME UNCHANGED worker \/ worker'.copy \notin Row
      PROVE  (worker.copy \in Row => RowOK(worker.copy))'
  BY <1>3 DEF CopiesInv, RowOK, Reason, Kept
<1>4. ASSUME UNCHANGED stateJob, NEW j \in Job, stateJob'[j] \in Row PROVE RowOK(stateJob[j])'
  BY <1>4 DEF CopiesInv, RowOK, Reason, Kept
<1>5. ASSUME UNCHANGED deleteJob PROVE (deleteJob \in Row => RowOK(deleteJob))'
  BY <1>5 DEF CopiesInv, RowOK, Reason, Kept
<1> QED
  BY <1>1, <1>2, <1>3, <1>4, <1>5

LEMMA RequestCopies ==
    ASSUME Types, CopiesInv, Kept, NEW r \in Requester
    PROVE  /\ \A k \in Kind : ReceiveRequest(r, k) => CopiesInv'
           /\ SaveOfRequest(r) => CopiesInv'
           /\ CreateCommand(r) => CopiesInv'
<1>0. \A p \in Requester : \A n \in DOMAIN request[p].saves : RowOK(request[p].saves[n])
  BY DEF CopiesInv
<1>1. ASSUME NEW k \in Kind, ReceiveRequest(r, k) PROVE CopiesInv'
  <2>1. UNCHANGED <<row, worker, stateJob, deleteJob>> /\ (k = "delete" => asked')
    BY <1>1 DEF ReceiveRequest, jobVars
  <2> DEFINE q == Answer(row, k)
  <2>2. request' = [request EXCEPT ![r] = q]
    BY <1>1, Received
  <2>3. \A n \in DOMAIN q.saves : /\ q.saves[n].deleted = row.deleted
                                  /\ q.saves[n].computeId = row.computeId
                                  /\ q.saves[n].state = "DELETED" => row.state = "DELETED"
                                  /\ q.saves[n].deleteRequested => row.deleteRequested \/ k = "delete"
    BY RequestResult DEF Types
  <2> HIDE DEF q
  <2>4. ASSUME NEW p \in Requester, NEW n \in DOMAIN request'[p].saves
        PROVE  RowOK(request[p].saves[n])'
    <3>1. CASE p = r
      <4>1. request'[p] = q
        BY <2>2, <3>1 DEF Types
      <4> QED
        BY <2>1, <2>3, <2>4, <4>1 DEF CopiesInv, RowOK, Reason, Kept
    <3>2. CASE p # r
      <4>1. request'[p] = request[p]
        BY <2>2, <3>2 DEF Types
      <4> QED
        BY <1>0, <2>4, <4>1 DEF RowOK, Reason, Kept
    <3> QED
      BY <3>1, <3>2
  <2> QED
    BY <2>1, <2>4, CopiesKept DEF CopiesInv
<1>2. ASSUME SaveOfRequest(r) PROVE CopiesInv'
  <2> DEFINE q == request[r].saves
  <2>1. /\ UNCHANGED <<worker, stateJob, deleteJob>> /\ row' = Head(q) /\ q # <<>>
        /\ request' = [request EXCEPT ![r].saves = Tail(q)]
        /\ request[r] \in Asked
    BY <1>2 DEF SaveOfRequest, jobVars, Types
  <2>2. q \in Seq(Row) /\ 1 \in DOMAIN q /\ Head(q) = q[1]
    BY <2>1, TailMember DEF Asked
  <2>3. RowOK(row)'
    BY <1>0, <2>1, <2>2 DEF RowOK, Reason, Kept
  <2>4. ASSUME NEW p \in Requester, NEW n \in DOMAIN request'[p].saves
        PROVE  RowOK(request[p].saves[n])'
    <3>1. CASE p = r
      <4>1. request'[p].saves = Tail(q)
        BY <2>1, <3>1 DEF Types, Asked
      <4>2. n + 1 \in DOMAIN q /\ Tail(q)[n] = q[n + 1]
        BY <2>1, <2>2, <2>4, <4>1, TailMember
      <4>3. request'[p].saves[n] = q[n + 1] /\ RowOK(q[n + 1])
        BY <1>0, <4>1, <4>2
      <4> QED
        BY <4>3 DEF RowOK, Reason, Kept
    <3>2. CASE p # r
      <4>1. request'[p] = request[p]
        BY <2>1, <3>2 DEF Types
      <4> QED
        BY <1>0, <2>4, <4>1 DEF RowOK, Reason, Kept
    <3> QED
      BY <3>1, <3>2
  <2> QED
    BY <2>1, <2>3, <2>4, CopiesKept DEF CopiesInv
<1>3. ASSUME CreateCommand(r) PROVE CopiesInv'
  <2>1. UNCHANGED <<row, worker, stateJob, deleteJob>>
    BY <1>3 DEF CreateCommand, jobVars
  <2>2. ASSUME NEW p \in Requester, NEW n \in DOMAIN request'[p].saves
        PROVE  RowOK(request[p].saves[n])'
    <3>1. p # r
      BY <1>3, <2>2 DEF CreateCommand, Types, NoRequest
    <3>2. request'[p] = request[p]
      BY <1>3, <3>1 DEF CreateCommand, Types
    <3> QED
      BY <1>0, <2>2, <3>2 DEF RowOK, Reason, Kept
  <2> QED
    BY <2>1, <2>2, CopiesKept DEF CopiesInv
<1> QED
  BY <1>1, <1>2, <1>3

LEMMA WorkerCopies ==
    ASSUME Types, CopiesInv, OrdersInv, Kept, MachineInv, CreateInv, WorkerStep PROVE CopiesInv'
<1>0. ASSUME UNCHANGED <<row, request, stateJob, deleteJob>>,
             worker'.copy \in Row => RowOK(worker'.copy)
      PROVE  CopiesInv'
  <2>1. (worker.copy \in Row => RowOK(worker.copy))'
    BY <1>0 DEF RowOK, Reason, Kept
  <2> QED
    BY <1>0, <2>1, CopiesKept DEF CopiesInv
<1>1. Nothing \notin Row /\ Idle.copy \notin Row /\ Done.copy \notin Row
  BY NothingAssumption DEF Idle, Done
<1>2. \A states : Write(states) => worker'.copy \notin Row
  BY <1>1 DEF Write, Idle, Done
<1>3. RowOK(row)
  BY DEF CopiesInv
<1>4. CASE StartCommand
  <2>1. UNCHANGED <<row, request, stateJob, deleteJob>>
    BY <1>4 DEF StartCommand, jobVars
  <2>2. worker'.copy \in Row => worker'.copy = row
    BY <1>1, <1>4 DEF StartCommand, Idle, Done
  <2> QED
    BY <1>0, <1>3, <2>1, <2>2
<1>5. CASE EndCommand
  <2>1. UNCHANGED <<row, request, stateJob, deleteJob>> /\ worker'.copy \notin Row
    BY <1>1, <1>5 DEF EndCommand, jobVars
  <2> QED
    BY <1>0, <2>1
<1>6. CASE RunAction
  <2>1. UNCHANGED <<row, request, stateJob, deleteJob>>
    BY <1>6 DEF RunAction, CreateInstance, CreateInstanceFails, DeleteMachine, GetState, Operate,
                UpdateSecurityGroups, CloudCallFails, unchangedByRun, jobVars
  <2>2. RowOK(worker.copy) /\ worker.copy \in Row
    BY <1>6 DEF RunAction, CreateInstance, CreateInstanceFails, DeleteMachine, GetState, Operate,
                UpdateSecurityGroups, CloudCallFails, Running, Types, WorkerShape, CopiesInv
  <2>3. CASE CreateInstance
    <3>1. PICK s \in {"BUILD", "ACTIVE", "ERROR"} :
             /\ machine' = Built(s)
             /\ SaveCopy([worker.copy EXCEPT !.computeId = TRUE, !.state = ConvertStatus(s)])
      BY <2>3 DEF CreateInstance
    <3> DEFINE r == [worker.copy EXCEPT !.computeId = TRUE, !.state = ConvertStatus(s)]
    <3>2. worker'.copy = r
      BY <3>1 DEF SaveCopy, Types, WorkerShape
    <3>3. /\ r.deleted = worker.copy.deleted /\ r.state # "DELETED"
          /\ r.deleteRequested = worker.copy.deleteRequested
      BY <2>2 DEF Row, ConvertStatus
    <3>4. machine'.status # "none"
      BY <3>1 DEF Built
    <3> HIDE DEF r
    <3>5. (worker.copy \in Row => RowOK(worker.copy))'
      BY <2>2, <3>2, <3>3, <3>4 DEF RowOK, Reason, Kept
    <3> QED
      BY <2>1, <3>5, CopiesKept DEF CopiesInv
  <2>4. CASE UpdateSecurityGroups
    <3>1. worker'.copy = worker.copy
      BY <2>4 DEF UpdateSecurityGroups, SaveCopy, Types, WorkerShape
    <3> QED
      BY <1>0, <2>1, <2>2, <3>1
  <2>5. CASE CreateInstanceFails \/ DeleteMachine \/ GetState \/ CloudCallFails
    <3>1. worker'.copy \notin Row
      BY <1>1, <1>2, <2>5 DEF CreateInstanceFails, DeleteMachine, GetState, CloudCallFails
    <3> QED
      BY <1>0, <2>1, <3>1
  <2>6. ASSUME NEW type, Operate(type) PROVE CopiesInv'
    <3>1. worker'.copy \notin Row
      BY <1>1, <2>6 DEF Operate
    <3> QED
      BY <1>0, <2>1, <3>1
  <2> QED
    BY <1>6, <2>3, <2>4, <2>5, <2>6 DEF RunAction
<1>7. CASE ReadAgain
  <2> DEFINE s == Head(worker.writes)
  <2>1. UNCHANGED <<row, request, stateJob, deleteJob>>
    BY <1>7 DEF ReadAgain, jobVars
  <2>2. worker.copy \notin Row /\ Has(worker.writes, s)
    BY <1>7, TailMember DEF ReadAgain, Types, WorkerShape
  <2>3. s = "DELETED" => Reason
    BY <2>2 DEF OrdersInv
  <2> HIDE DEF s
  <2>4. RowOK(Updated(row, s))
    BY <1>3, <2>3 DEF Updated, RowOK, Types, Row
  <2>5. worker'.copy \in Row => worker'.copy = Updated(row, s)
    BY <1>1, <1>7, <2>2 DEF ReadAgain, s
  <2> QED
    BY <1>0, <2>1, <2>4, <2>5
<1>8. CASE SaveRow
  <2>1. UNCHANGED <<request, stateJob, deleteJob>> /\ row' = worker.copy /\ worker'.copy \notin Row
    BY <1>2, <1>8 DEF SaveRow, jobVars
  <2>2. RowOK(row)'
    BY <1>8, <2>1 DEF SaveRow, Types, WorkerShape, CopiesInv, RowOK, Reason, Kept
  <2> QED
    BY <2>1, <2>2, CopiesKept DEF CopiesInv
<1> QED
  BY <1>4, <1>5, <1>6, <1>7, <1>8 DEF WorkerStep

LEMMA JobCopies ==
    ASSUME Types, CopiesInv, Kept
    PROVE  /\ \A j \in Job : LoadForState(j) \/ HandleState(j) => CopiesInv'
           /\ LoadToDelete \/ SaveDeleting \/ ExecuteDelete => CopiesInv'
<1>1. ASSUME NEW j \in Job, LoadForState(j) PROVE CopiesInv'
  <2>1. UNCHANGED <<row, request, worker, deleteJob>>
    BY <1>1 DEF LoadForState
  <2>2. ASSUME NEW i \in Job, stateJob'[i] \in Row PROVE RowOK(stateJob[i])'
    <3>1. CASE i = j /\ row.state = "DELETED"
      <4>1. stateJob'[i] = [row EXCEPT !.deleted = TRUE]
        BY <1>1, <3>1 DEF LoadForState, Types
      <4> QED
        BY <3>1, <4>1 DEF CopiesInv, RowOK, Reason, Kept, Types, Row
    <3>2. CASE i = j /\ row.state # "DELETED"
      <4>1. stateJob'[i] = [execute |-> TRUE]
        BY <1>1, <3>2 DEF LoadForState, Types
      <4> QED
        BY <2>2, <4>1, ExecuteIsNoRow
    <3>3. CASE i # j
      <4>1. stateJob'[i] = stateJob[i]
        BY <1>1, <3>3 DEF LoadForState, Types
      <4> QED
        BY <2>2, <4>1 DEF CopiesInv, RowOK, Reason, Kept
    <3> QED
      BY <3>1, <3>2, <3>3
  <2> QED
    BY <2>1, <2>2, CopiesKept DEF CopiesInv
<1>2. ASSUME NEW j \in Job, HandleState(j) PROVE CopiesInv'
  <2>1. UNCHANGED <<request, worker, deleteJob>>
    BY <1>2 DEF HandleState
  <2>2. RowOK(row)'
    BY <1>2 DEF HandleState, CopiesInv, RowOK, Reason, Kept
  <2>3. ASSUME NEW i \in Job, stateJob'[i] \in Row PROVE RowOK(stateJob[i])'
    <3>1. stateJob'[i] = Nothing \/ stateJob'[i] = stateJob[i]
      BY <1>2 DEF HandleState, Types
    <3> QED
      BY <2>3, <3>1, NothingAssumption DEF CopiesInv, RowOK, Reason, Kept
  <2> QED
    BY <2>1, <2>2, <2>3, CopiesKept DEF CopiesInv
<1>3. ASSUME LoadToDelete PROVE CopiesInv'
  <2>1. UNCHANGED <<row, request, worker, stateJob>> /\ deleteJob' = InState(row, "DELETING")
    BY <1>3 DEF LoadToDelete
  <2>2. RowOK(deleteJob)'
    BY <2>1 DEF CopiesInv, RowOK, Reason, Kept, InState, Types, Row
  <2> QED
    BY <2>1, <2>2, CopiesKept DEF CopiesInv
<1>4. ASSUME SaveDeleting PROVE CopiesInv'
  <2>1. UNCHANGED <<request, worker, stateJob>> /\ deleteJob' \notin Row
    BY <1>4, ExecuteIsNoRow DEF SaveDeleting
  <2>2. RowOK(row)'
    BY <1>4 DEF SaveDeleting, CopiesInv, RowOK, Reason, Kept
  <2> QED
    BY <2>1, <2>2, CopiesKept DEF CopiesInv
<1>5. ASSUME ExecuteDelete PROVE CopiesInv'
  <2>1. UNCHANGED <<row, request, worker, stateJob>> /\ deleteJob' \notin Row
    BY <1>5, NothingAssumption DEF ExecuteDelete
  <2> QED
    BY <2>1, CopiesKept DEF CopiesInv
<1> QED
  BY <1>1, <1>2, <1>3, <1>4, <1>5

LEMMA CopiesStep ==
    ASSUME Types, MachineInv, CreateInv, CopiesInv, OrdersInv, Kept, [Next]_vars PROVE CopiesInv'
<1>1. \A r \in Requester : RequestStep(r) => CopiesInv'
  BY RequestCopies DEF RequestStep
<1>2. \A r \in Request, k \in Kind : ReceiveRequest(r, k) => CopiesInv'
  BY RequestCopies DEF Requester
<1>3. ASSUME UNCHANGED <<row, request, worker, stateJob, deleteJob>> PROVE CopiesInv'
  BY <1>3, CopiesKept DEF CopiesInv
<1>4. ExecutePending \/ RequestSecurityGroups \/ CleanupStep \/ Settle \/ MachineChanges
        \/ UNCHANGED vars => CopiesInv'
  BY <1>3 DEF ExecutePending, RequestSecurityGroups, CleanupStep, LoadKnown, ListMachines,
              DeleteZombie, Settle, MachineChanges, vars, jobVars
<1>5. ASSUME Restart PROVE CopiesInv'
  <2>1. /\ UNCHANGED row /\ worker'.copy \notin Row /\ deleteJob' \notin Row
        /\ \A j \in Job : stateJob'[j] \notin Row
    BY <1>5, NothingAssumption DEF Restart, Idle
  <2>2. \A r \in Requester : request'[r].saves = <<>>
    BY <1>5 DEF Restart, Types, Unused, NoRequest
  <2>3. \A r \in Requester : DOMAIN request'[r].saves = {}
    BY <2>2
  <2> QED
    BY <2>1, <2>3, CopiesKept DEF CopiesInv
<1> QED
  BY <1>1, <1>2, <1>4, <1>5, WorkerCopies, JobCopies DEF Next, Requester

------------------------------------------------------------------------------
(* Orders to delete *)

\* Whether the thread may start with what it has read: only CREATE does without a
\* machine.
AsksKnown == worker.pc = "cloud" /\ Head(queue) # "CREATE" => worker.copy.computeId

\* A step that orders nothing.
LEMMA OrdersKept ==
    ASSUME Types, OrdersInv, Kept,
           deleteJob' # Nothing => deleteJob # Nothing \/ asked',
           \A r \in Requester : request'[r].create = "DELETE" => request[r].create = "DELETE" \/ asked',
           Has(commands', "DELETE") => Has(commands, "DELETE") \/ asked',
           Has(queue', "DELETE") => Has(queue, "DELETE") \/ asked',
           Has(worker'.writes, "DELETED") => Has(worker.writes, "DELETED") \/ Reason',
           AsksKnown'
    PROVE  OrdersInv'
  BY DEF OrdersInv, AsksKnown, Kept, Reason

LEMMA AsksKept ==
    ASSUME Types, OrdersInv
    PROVE  /\ UNCHANGED <<worker, queue>> => AsksKnown'
           /\ UNCHANGED worker /\ (queue # <<>> => Head(queue') = Head(queue)) => AsksKnown'
           /\ worker'.pc # "cloud" => AsksKnown'
  BY DEF OrdersInv, AsksKnown, Types, WorkerShape

LEMMA RequestOrders ==
    ASSUME Types, OrdersInv, Kept, NEW r \in Requester
    PROVE  /\ \A k \in Kind : ReceiveRequest(r, k) => OrdersInv'
           /\ SaveOfRequest(r) => OrdersInv'
           /\ CreateCommand(r) => OrdersInv'
<1>1. ASSUME NEW k \in Kind, ReceiveRequest(r, k) PROVE OrdersInv'
  <2>1. UNCHANGED <<commands, queue, worker, deleteJob>> /\ (k = "delete" => asked')
    BY <1>1 DEF ReceiveRequest, jobVars
  <2>2. /\ request'[r].create = "DELETE" => k = "delete"
        /\ \A p \in Requester : p # r => request'[p] = request[p]
    BY <1>1, Received
  <2>3. \A p \in Requester : request'[p].create = "DELETE" => request[p].create = "DELETE" \/ asked'
    BY <2>1, <2>2
  <2> QED
    BY <2>1, <2>3, OrdersKept, AsksKept
<1>2. ASSUME SaveOfRequest(r) PROVE OrdersInv'
  <2>1. UNCHANGED <<commands, queue, worker, deleteJob>>
    BY <1>2 DEF SaveOfRequest, jobVars
  <2>2. \A p \in Requester : request'[p].create = request[p].create
    BY <1>2 DEF SaveOfRequest, Types, Asked
  <2> QED
    BY <2>1, <2>2, OrdersKept, AsksKept
<1>3. ASSUME CreateCommand(r) PROVE OrdersInv'
  <2> DEFINE c == request[r].create
  <2>1. /\ UNCHANGED <<queue, worker, deleteJob>> /\ commands' = Append(commands, c)
        /\ request' = [request EXCEPT ![r] = NoRequest]
        /\ request[r] \in Asked /\ request[r] # NoRequest /\ request[r].saves = <<>>
    BY <1>3 DEF CreateCommand, Types, jobVars
  <2>2. c \in ActionType
    BY <2>1 DEF Asked, NoRequest
  <2>3. \A p \in Requester : request'[p].create = "DELETE" => request[p].create = "DELETE"
    BY <2>1, NothingAssumption DEF NoRequest, Types, ActionType
  <2>4. Has(commands', "DELETE") => Has(commands, "DELETE") \/ c = "DELETE"
    BY <2>1, <2>2, AppendMember DEF Types
  <2>5. c = "DELETE" => asked'
    BY DEF OrdersInv, Kept
  <2> QED
    BY <2>1, <2>3, <2>4, <2>5, OrdersKept, AsksKept
<1> QED
  BY <1>1, <1>2, <1>3

\* The command that is queued is no DELETE, or somebody has asked for it.
LEMMA QueuedOrders ==
    ASSUME Types, CreateInv, OrdersInv, Kept, NEW c \in ActionType, Queued(c), c = "DELETE" => asked',
           UNCHANGED <<worker, request>>, deleteJob' # Nothing => deleteJob # Nothing,
           Has(commands', "DELETE") => Has(commands, "DELETE") \/ asked'
    PROVE  OrdersInv'
<1>1. /\ Has(queue', "DELETE") => Has(queue, "DELETE") \/ c = "DELETE"
      /\ queue # <<>> => Head(queue') = Head(queue)
  BY QueuedFacts DEF CreateInv, Types
<1> QED
  BY <1>1, OrdersKept, AsksKept

LEMMA QueueOrders ==
    ASSUME Types, CreateInv, CopiesInv, OrdersInv, Kept
    PROVE  /\ ExecutePending => OrdersInv'
           /\ EndCommand => OrdersInv'
           /\ StartCommand => OrdersInv'
<1>1. ASSUME ExecutePending PROVE OrdersInv'
  <2> DEFINE c == Head(commands)
  <2>1. c \in ActionType /\ Has(commands, c) /\ (Has(commands', "DELETE") => Has(commands, "DELETE"))
    BY <1>1, TailMember DEF ExecutePending, WithoutExecuted, Types
  <2>2. c = "DELETE" => asked'
    BY <2>1 DEF OrdersInv, Kept
  <2>3. Queued(c) /\ UNCHANGED <<worker, request, deleteJob>>
    BY <1>1 DEF ExecutePending, jobVars
  <2> QED
    BY <2>1, <2>2, <2>3, QueuedOrders
<1>2. ASSUME EndCommand PROVE OrdersInv'
  <2>1. queue # <<>> /\ queue' = Tail(queue) /\ UNCHANGED <<commands, request, deleteJob>>
    BY <1>2 DEF EndCommand, Types, WorkerShape, jobVars
  <2>2. Has(queue', "DELETE") => Has(queue, "DELETE")
    BY <2>1, TailMember DEF Types
  <2>3. worker'.pc # "cloud" /\ ~Has(worker'.writes, "DELETED")
    BY <1>2 DEF EndCommand, Idle, Has
  <2> QED
    BY <2>1, <2>2, <2>3, OrdersKept, AsksKept
<1>3. ASSUME StartCommand PROVE OrdersInv'
  <2>1. UNCHANGED <<queue, commands, request, deleteJob>>
    BY <1>3 DEF StartCommand, jobVars
  <2>2. Has(queue, Head(queue))
    BY <1>3, TailMember DEF StartCommand, Types
  <2>3. Has(worker'.writes, "DELETED") => Reason'
    <3>1. CASE Head(queue) = "DELETE"
      BY <2>2, <3>1 DEF OrdersInv, Kept, Reason
    <3>2. CASE Head(queue) # "DELETE"
      <4>1. worker'.writes = <<>>
        BY <1>3, <3>2 DEF StartCommand, Idle, Done
      <4> QED
        BY <4>1 DEF Has
    <3> QED
      BY <3>1, <3>2
  <2>4. AsksKnown'
    BY <1>3, <2>1 DEF StartCommand, AsksKnown, AsksCloud, Idle, Done
  <2> QED
    BY <2>1, <2>3, <2>4, OrdersKept
<1> QED
  BY <1>1, <1>2, <1>3

LEMMA WriteOrders ==
    ASSUME Types, OrdersInv, Kept, UNCHANGED <<queue, commands, request, deleteJob>>,
           NEW states, Write(states), Has(states, "DELETED") => Reason'
    PROVE  OrdersInv'
<1>1. worker'.pc # "cloud" /\ (Has(worker'.writes, "DELETED") => Has(states, "DELETED"))
  BY DEF Write, Done, Idle, Has
<1> QED
  BY <1>1, OrdersKept, AsksKept

\* The state action tells of a deletion only for a machine that was there.
LEMMA StateOrders ==
    ASSUME Types, MachineInv, CopiesInv, OrdersInv, Kept, GetState PROVE OrdersInv'
<1>1. worker.pc = "cloud" /\ Head(queue) = "STATE"
  BY DEF GetState, Running
<1>2. machine.status # "none"
  BY <1>1 DEF OrdersInv, CopiesInv, RowOK, Types, WorkerShape
<1>3. UNCHANGED <<queue, commands, request, deleteJob>>
  BY DEF GetState, unchangedByRun, jobVars
<1>4. \A x : ~Has(<<>>, x)
  BY DEF Has
<1>5. ~Has(<<"same">>, "DELETED")
  BY DEF Has
<1>6. CASE CloudState \in {"missing", "DELETED"}
  <2>1. machine.status = "gone" \/ machine.status = "SHELVED"
    BY <1>2, <1>6, CloudStateType DEF Types
  <2>2. Reason'
    BY <2>1 DEF MachineInv, Reason, Kept
  <2>3. PICK states : Write(states)
    BY DEF GetState
  <2> QED
    BY <1>3, <2>2, <2>3, WriteOrders
<1>7. CASE CloudState \notin {"missing", "DELETED"}
  <2>1. CloudState \notin {"missing", "DELETED"}
    BY <1>7
  <2>2. ASSUME NEW states \in WritesFor(CloudState) PROVE ~Has(states, "DELETED")
    <3> DEFINE s == CloudState
    <3> HIDE DEF s
    <3>1. CASE s = "ACTIVE"
      <4>1. \/ states = <<"same", "STARTING">> \/ states = <<"same", "same", "PARTIALLY_ACTIVE">>
            \/ states = <<"same", "same", "ACTIVE">>
        BY <2>2, <3>1 DEF WritesFor, s
      <4>2. CASE states = <<"same", "STARTING">>
        BY <4>2 DEF Has
      <4>3. CASE states = <<"same", "same", "PARTIALLY_ACTIVE">>
        BY <4>3 DEF Has
      <4>4. CASE states = <<"same", "same", "ACTIVE">>
        BY <4>4 DEF Has
      <4> QED
        BY <4>1, <4>2, <4>3, <4>4
    <3>2. CASE s # "ACTIVE"
      <4>1. states = <<s>> /\ s # "DELETED"
        BY <2>1, <2>2, <3>2 DEF WritesFor, s
      <4> QED
        BY <4>1 DEF Has
    <3> QED
      BY <3>1, <3>2
  <2>3. PICK states : Write(states) /\ ~Has(states, "DELETED")
    BY <1>4, <1>5, <2>2 DEF GetState
  <2> QED
    BY <1>3, <2>3, WriteOrders
<1> QED
  BY <1>6, <1>7

LEMMA RunOrders ==
    ASSUME Types, MachineInv, CopiesInv, OrdersInv, Kept
    PROVE  /\ RunAction => OrdersInv'
           /\ ReadAgain \/ SaveRow => OrdersInv'
<1>0. ASSUME UNCHANGED <<queue, commands, request, deleteJob>>, worker'.pc # "cloud",
             Has(worker'.writes, "DELETED") => Has(worker.writes, "DELETED")
      PROVE  OrdersInv'
  BY <1>0, OrdersKept, AsksKept
<1>1. Done.pc # "cloud" /\ ~Has(Done.writes, "DELETED")
  BY DEF Done, Has
<1>2. \A r : SaveCopy(r) => worker'.pc # "cloud" /\ worker'.writes = worker.writes
  BY DEF SaveCopy, Types, WorkerShape
<1>3. ASSUME RunAction PROVE OrdersInv'
  <2>1. UNCHANGED <<queue, commands, request, deleteJob>>
    BY <1>3 DEF RunAction, CreateInstance, CreateInstanceFails, DeleteMachine, GetState, Operate,
                UpdateSecurityGroups, CloudCallFails, unchangedByRun, jobVars
  <2>2. CASE CreateInstance \/ UpdateSecurityGroups
    BY <1>0, <1>2, <2>1, <2>2 DEF CreateInstance, UpdateSecurityGroups
  <2>3. CASE CreateInstanceFails
    <3>1. ~Has(<<"ERROR">>, "DELETED")
      BY DEF Has
    <3>2. CASE worker' = Done
      BY <1>0, <1>1, <2>1, <3>2
    <3>3. CASE Write(<<"ERROR">>)
      BY <2>1, <3>1, <3>3, WriteOrders
    <3> QED
      BY <2>3, <3>2, <3>3 DEF CreateInstanceFails
  <2>4. CASE DeleteMachine
    <3>1. queue # <<>> /\ Head(queue) = "DELETE"
      BY <2>4 DEF DeleteMachine, Running, Types, WorkerShape
    <3>2. Has(queue, "DELETE")
      BY <3>1, TailMember DEF Types
    <3>3. Reason'
      BY <3>2 DEF OrdersInv, Kept, Reason
    <3> QED
      BY <2>1, <2>4, <3>3, WriteOrders DEF DeleteMachine
  <2>5. CASE GetState
    BY <2>5, StateOrders
  <2>6. CASE CloudCallFails
    BY <1>0, <1>1, <2>1, <2>6 DEF CloudCallFails
  <2>7. ASSUME NEW type, Operate(type) PROVE OrdersInv'
    BY <1>0, <1>1, <2>1, <2>7 DEF Operate
  <2> QED
    BY <1>3, <2>2, <2>3, <2>4, <2>5, <2>6, <2>7 DEF RunAction
<1>4. ASSUME ReadAgain PROVE OrdersInv'
  <2>1. UNCHANGED <<queue, commands, request, deleteJob>>
    BY <1>4 DEF ReadAgain, jobVars
  <2>2. Has(Tail(worker.writes), "DELETED") => Has(worker.writes, "DELETED")
    BY <1>4, TailMember DEF ReadAgain, Types, WorkerShape
  <2>3. worker'.pc # "cloud" /\ (worker' = Done \/ worker'.writes = Tail(worker.writes))
    BY <1>4 DEF ReadAgain, Done, Types, WorkerShape
  <2> QED
    BY <1>0, <1>1, <2>1, <2>2, <2>3
<1>5. ASSUME SaveRow PROVE OrdersInv'
  <2>1. UNCHANGED <<queue, commands, request, deleteJob>> /\ Write(worker.writes)
    BY <1>5 DEF SaveRow, jobVars
  <2>2. Has(worker.writes, "DELETED") => Reason'
    BY DEF OrdersInv, Kept, Reason
  <2> QED
    BY <2>1, <2>2, WriteOrders
<1> QED
  BY <1>3, <1>4, <1>5

LEMMA JobOrders ==
    ASSUME Types, CreateInv, CopiesInv, OrdersInv, Kept
    PROVE  /\ \A j \in Job : LoadForState(j) \/ HandleState(j) => OrdersInv'
           /\ RequestSecurityGroups => OrdersInv'
           /\ LoadToDelete \/ SaveDeleting \/ ExecuteDelete => OrdersInv'
<1>0. {"STATE", "UPDATE_SECURITY_GROUPS", "DELETE"} \subseteq ActionType
  BY DEF ActionType
<1>1. ASSUME UNCHANGED <<worker, queue, commands, request>>,
             deleteJob' # Nothing => deleteJob # Nothing \/ asked'
      PROVE  OrdersInv'
  BY <1>1, OrdersKept, AsksKept
<1>2. ASSUME NEW j \in Job, LoadForState(j) \/ HandleState(j) PROVE OrdersInv'
  <2>1. CASE Queued("STATE") /\ HandleState(j)
    <3>1. UNCHANGED <<worker, request, commands, deleteJob>>
      BY <2>1 DEF HandleState
    <3> QED
      BY <1>0, <2>1, <3>1, QueuedOrders
  <2>2. CASE UNCHANGED <<worker, queue, commands, request, deleteJob>>
    BY <1>1, <2>2
  <2> QED
    BY <1>2, <2>1, <2>2 DEF LoadForState, HandleState
<1>3. ASSUME RequestSecurityGroups PROVE OrdersInv'
  <2>1. Queued("UPDATE_SECURITY_GROUPS") /\ UNCHANGED <<worker, request, commands, deleteJob>>
    BY <1>3 DEF RequestSecurityGroups, jobVars
  <2> QED
    BY <1>0, <2>1, QueuedOrders
<1>4. ASSUME LoadToDelete PROVE OrdersInv'
  <2>1. asked'
    BY <1>4 DEF LoadToDelete, ToDelete, CopiesInv, RowOK, Kept
  <2> QED
    BY <1>1, <1>4, <2>1 DEF LoadToDelete
<1>5. ASSUME SaveDeleting PROVE OrdersInv'
  <2>1. deleteJob # Nothing
    BY <1>5, NothingAssumption DEF SaveDeleting
  <2> QED
    BY <1>1, <1>5, <2>1 DEF SaveDeleting
<1>6. ASSUME ExecuteDelete PROVE OrdersInv'
  <2>1. deleteJob # Nothing
    <3>1. deleteJob = [execute |-> TRUE] /\ [execute |-> TRUE] \in [execute : BOOLEAN]
      BY <1>6 DEF ExecuteDelete
    <3> QED
      BY <3>1, NothingAssumption
  <2>2. asked'
    BY <2>1 DEF OrdersInv, Kept
  <2>3. Queued("DELETE") /\ UNCHANGED <<worker, request>> /\ deleteJob' = Nothing
    BY <1>6 DEF ExecuteDelete
  <2> QED
    BY <1>0, <2>2, <2>3, QueuedOrders
<1> QED
  BY <1>2, <1>3, <1>4, <1>5, <1>6

LEMMA OrdersStep ==
    ASSUME Types, MachineInv, CreateInv, CopiesInv, OrdersInv, Kept, [Next]_vars PROVE OrdersInv'
<1>1. \A r \in Requester : RequestStep(r) => OrdersInv'
  BY RequestOrders DEF RequestStep
<1>2. \A r \in Request, k \in Kind : ReceiveRequest(r, k) => OrdersInv'
  BY RequestOrders DEF Requester
<1>3. WorkerStep => OrdersInv'
  BY QueueOrders, RunOrders DEF WorkerStep
<1>4. ASSUME UNCHANGED <<worker, queue, commands, request, deleteJob>> PROVE OrdersInv'
  BY <1>4, OrdersKept, AsksKept
<1>5. CleanupStep \/ Settle \/ MachineChanges \/ UNCHANGED vars => OrdersInv'
  BY <1>4 DEF CleanupStep, LoadKnown, ListMachines, DeleteZombie, Settle, MachineChanges, vars,
              jobVars
<1>6. ASSUME Restart PROVE OrdersInv'
  <2>1. UNCHANGED commands /\ queue' = <<>> /\ worker' = Idle /\ deleteJob' = Nothing
    BY <1>6 DEF Restart
  <2>2. \A r \in Requester : request'[r].create # "DELETE"
    BY <1>6, NothingAssumption DEF Restart, Types, Unused, NoRequest, ActionType
  <2>3. ~Has(queue', "DELETE") /\ ~Has(worker'.writes, "DELETED") /\ worker'.pc # "cloud"
    BY <2>1 DEF Has, Idle
  <2> QED
    BY <2>1, <2>2, <2>3, OrdersKept, AsksKept
<1> QED
  BY <1>1, <1>2, <1>3, <1>5, <1>6, QueueOrders, JobOrders DEF Next, Requester

LEMMA CopiesInit == Init => CopiesInv /\ OrdersInv
<1> SUFFICES ASSUME Init PROVE CopiesInv /\ OrdersInv
  OBVIOUS
<1>1. RowOK(row)
  BY DEF Init, RowOK
<1>2. \A r \in Requester : request[r].saves = <<>> /\ request[r].create # "DELETE"
  BY DEF Init, Requester, Unused
<1>3. \A r \in Requester : DOMAIN request[r].saves = {}
  BY <1>2
<1>4. /\ worker.copy \notin Row /\ deleteJob \notin Row /\ \A j \in Job : stateJob[j] \notin Row
      /\ deleteJob = Nothing /\ worker.pc # "cloud"
  BY NothingAssumption DEF Init, Idle
<1>5. ~Has(commands, "DELETE") /\ ~Has(queue, "DELETE") /\ ~Has(worker.writes, "DELETED")
  BY DEF Init, Has, Idle
<1> QED
  BY <1>1, <1>2, <1>3, <1>4, <1>5 DEF CopiesInv, OrdersInv

\* IInv is an inductive invariant.
THEOREM LifecycleInvariance == Spec => []IInv
<1> DEFINE Inv == Types /\ MachineInv /\ CreateInv /\ CopiesInv /\ OrdersInv
<1>1. Init => Inv
  BY TypesInit, CreateInit, CopiesInit
<1>2. Inv /\ [Next]_vars => Inv'
  BY TypesStep, MachineChanged, MachineStep, CreateStep, KeptByAll, CopiesStep, OrdersStep
<1>3. Inv => IInv
  BY TypesFacts DEF IInv, Structure
<1> QED
  BY <1>1, <1>2, <1>3, PTL DEF Spec

\* The instance is declared deleted only when a user has asked for it, when its
\* machine is gone or when somebody has shelved it, whichever copy of the row is
\* saved last: whatever else happens to the machine, no row ends.
THEOREM DeletionHasAReason == Spec => []DeletedForAReason
<1>1. IInv => DeletedForAReason
  BY DEF IInv, CopiesInv, RowOK, Reason, DeletedForAReason
<1> QED
  BY <1>1, LifecycleInvariance, PTL

------------------------------------------------------------------------------
(* The abstract queue: what it sees of this module *)

Lifted(q) == [k \in DOMAIN q |-> [instance |-> "instance", actionType |-> q[k]]]

Queues(q) == [i \in {"instance"} |-> [k \in DOMAIN q |-> [instance |-> i, actionType |-> q[k]]]]

Servers(w) == IF w = Idle THEN {} ELSE {"instance"}

LEMMA QueuesAreLifted == \A q : Queues(q) = [i \in {"instance"} |-> Lifted(q)]
  BY DEF Queues, Lifted

LEMMA LiftedType ==
    ASSUME NEW q \in Seq(ActionType)
    PROVE  /\ Lifted(q) \in Seq(Command)
           /\ Len(Lifted(q)) = Len(q) /\ DOMAIN Lifted(q) = 1..Len(q)
           /\ \A k \in 1..Len(q) : Lifted(q)[k] = [instance |-> "instance", actionType |-> q[k]]
<1>1. Len(q) \in Nat /\ DOMAIN q = 1..Len(q) /\ \A k \in 1..Len(q) : q[k] \in ActionType
  OBVIOUS
<1>2. Lifted(q) \in [1..Len(q) -> Command]
  BY <1>1 DEF Lifted, Command
<1>3. Lifted(q) \in Seq(Command)
  BY <1>1, <1>2
<1> QED
  BY <1>1, <1>2, <1>3 DEF Lifted

LEMMA LiftedAppend ==
    ASSUME NEW q \in Seq(ActionType), NEW c \in ActionType
    PROVE  Lifted(Append(q, c)) = Append(Lifted(q), [instance |-> "instance", actionType |-> c])
<1> DEFINE e == [instance |-> "instance", actionType |-> c]
           p == Append(q, c)
           l == Append(Lifted(q), e)
<1>1. e \in Command
  BY DEF Command
<1>2. /\ p \in Seq(ActionType) /\ Len(p) = Len(q) + 1 /\ Len(q) \in Nat
      /\ \A k \in 1..Len(q) : p[k] = q[k]
      /\ p[Len(q) + 1] = c
  BY AppendProperties
<1>3. /\ l \in Seq(Command) /\ Len(l) = Len(q) + 1
      /\ \A k \in 1..Len(q) : l[k] = Lifted(q)[k]
      /\ l[Len(q) + 1] = e
  <2>1. Lifted(q) \in Seq(Command) /\ Len(Lifted(q)) = Len(q)
    BY LiftedType
  <2> HIDE DEF e
  <2> QED
    BY <1>1, <2>1, AppendProperties
<1> HIDE DEF p, l
<1>4. Lifted(p) \in Seq(Command) /\ Len(Lifted(p)) = Len(l)
  BY <1>2, <1>3, LiftedType
<1>5. ASSUME NEW k \in 1..Len(Lifted(p)) PROVE Lifted(p)[k] = l[k]
  <2>1. k \in 1..(Len(q) + 1)
    BY <1>3, <1>4
  <2>2. Lifted(p)[k] = [instance |-> "instance", actionType |-> p[k]]
    BY <1>2, <2>1, LiftedType
  <2>3. CASE k \in 1..Len(q)
    BY <1>2, <1>3, <2>2, <2>3, LiftedType
  <2>4. CASE k = Len(q) + 1
    BY <1>2, <1>3, <2>2, <2>4
  <2> QED
    BY <1>2, <2>1, <2>3, <2>4
<1>6. Lifted(p) = l
  BY <1>3, <1>4, <1>5, SeqEqual
<1> QED
  BY <1>6 DEF p, l

LEMMA LiftedTail ==
    ASSUME NEW q \in Seq(ActionType), q # <<>>
    PROVE  Lifted(q) # <<>> /\ Lifted(Tail(q)) = Tail(Lifted(q))
<1>1. Len(q) \in Nat /\ Len(q) # 0
  OBVIOUS
<1>2. Lifted(q) \in Seq(Command) /\ Len(Lifted(q)) = Len(q)
  BY LiftedType
<1>3. Lifted(q) # <<>>
  BY <1>1, <1>2
<1>4. /\ Tail(q) \in Seq(ActionType) /\ Len(Tail(q)) = Len(q) - 1
      /\ \A k \in 1..Len(Tail(q)) : Tail(q)[k] = q[k + 1]
  BY HeadTailProperties
<1>5. /\ Tail(Lifted(q)) \in Seq(Command) /\ Len(Tail(Lifted(q))) = Len(q) - 1
      /\ \A k \in 1..Len(Tail(Lifted(q))) : Tail(Lifted(q))[k] = Lifted(q)[k + 1]
  BY <1>2, <1>3, HeadTailProperties
<1>6. Lifted(Tail(q)) \in Seq(Command) /\ Len(Lifted(Tail(q))) = Len(q) - 1
  BY <1>4, LiftedType
<1>7. ASSUME NEW k \in 1..Len(Lifted(Tail(q))) PROVE Lifted(Tail(q))[k] = Tail(Lifted(q))[k]
  <2>1. k \in 1..(Len(q) - 1) /\ k + 1 \in 1..Len(q)
    BY <1>1, <1>6
  <2>2. Lifted(Tail(q))[k] = [instance |-> "instance", actionType |-> Tail(q)[k]]
    BY <1>4, <2>1, LiftedType
  <2>3. Lifted(q)[k + 1] = [instance |-> "instance", actionType |-> q[k + 1]]
    BY <2>1, LiftedType
  <2> QED
    BY <1>4, <1>5, <2>1, <2>2, <2>3
<1>8. Lifted(Tail(q)) = Tail(Lifted(q))
  BY <1>5, <1>6, <1>7, SeqEqual
<1> QED
  BY <1>3, <1>8

\* The mapped variables are these functions of queue and worker.
LEMMA Mapped ==
    /\ AbstractQueue!Init <=>
          Queues(queue) = [i \in {"instance"} |-> <<>>] /\ Servers(worker) = {}
    /\ \A c \in Command : AbstractQueue!Accept(c) <=>
          /\ \A k \in DOMAIN Queues(queue)[c.instance] :
                Queues(queue)[c.instance][k].actionType # c.actionType
          /\ Queues(queue') = [Queues(queue) EXCEPT ![c.instance] = Append(@, c)]
          /\ Servers(worker') = Servers(worker)
    /\ AbstractQueue!Begin("instance") <=>
          /\ Queues(queue)["instance"] # <<>> /\ "instance" \notin Servers(worker)
          /\ Servers(worker') = Servers(worker) \cup {"instance"}
          /\ Queues(queue') = Queues(queue)
    /\ AbstractQueue!End("instance") <=>
          /\ "instance" \in Servers(worker)
          /\ Servers(worker') = Servers(worker) \ {"instance"}
          /\ Queues(queue') = [Queues(queue) EXCEPT !["instance"] = Tail(@)]
    /\ AbstractQueue!Forget <=>
          Queues(queue') = [i \in {"instance"} |-> <<>>] /\ Servers(worker') = {}
    /\ UNCHANGED AbstractQueue!abstractVars <=>
          Queues(queue') = Queues(queue) /\ Servers(worker') = Servers(worker)
<1> USE DEF Queues, Servers, Idle
<1>1. AbstractQueue!Init <=>
          Queues(queue) = [i \in {"instance"} |-> <<>>] /\ Servers(worker) = {}
  BY DEF AbstractQueue!Init
<1>2. \A c \in Command : AbstractQueue!Accept(c) <=>
          /\ \A k \in DOMAIN Queues(queue)[c.instance] :
                Queues(queue)[c.instance][k].actionType # c.actionType
          /\ Queues(queue') = [Queues(queue) EXCEPT ![c.instance] = Append(@, c)]
          /\ Servers(worker') = Servers(worker)
  BY DEF AbstractQueue!Accept
<1>3. AbstractQueue!Begin("instance") <=>
          /\ Queues(queue)["instance"] # <<>> /\ "instance" \notin Servers(worker)
          /\ Servers(worker') = Servers(worker) \cup {"instance"}
          /\ Queues(queue') = Queues(queue)
  BY DEF AbstractQueue!Begin
<1>4. AbstractQueue!End("instance") <=>
          /\ "instance" \in Servers(worker)
          /\ Servers(worker') = Servers(worker) \ {"instance"}
          /\ Queues(queue') = [Queues(queue) EXCEPT !["instance"] = Tail(@)]
  BY DEF AbstractQueue!End
<1>5. AbstractQueue!Forget <=>
          Queues(queue') = [i \in {"instance"} |-> <<>>] /\ Servers(worker') = {}
  BY DEF AbstractQueue!Forget
<1>6. UNCHANGED AbstractQueue!abstractVars <=>
          Queues(queue') = Queues(queue) /\ Servers(worker') = Servers(worker)
  BY DEF AbstractQueue!abstractVars
<1> QED
  BY <1>1, <1>2, <1>3, <1>4, <1>5, <1>6

LEMMA Still ==
    ASSUME UNCHANGED <<queue, worker>> PROVE UNCHANGED AbstractQueue!abstractVars
<1>1. Queues(queue') = Queues(queue) /\ Servers(worker') = Servers(worker)
  BY DEF Queues, Servers
<1> QED
  BY <1>1, Mapped

LEMMA QueuedIsAccept ==
    ASSUME queue \in Seq(ActionType), UNCHANGED worker, NEW c \in ActionType, Queued(c)
    PROVE  AbstractQueue!Next \/ UNCHANGED AbstractQueue!abstractVars
<1> DEFINE e == [instance |-> "instance", actionType |-> c]
<1>1. CASE \E k \in DOMAIN queue : queue[k] = c
  BY <1>1, Still DEF Queued
<1>2. CASE \A k \in DOMAIN queue : queue[k] # c
  <2>1. Queues(queue)["instance"] = Lifted(queue)
    BY QueuesAreLifted
  <2>2. \A k \in DOMAIN Lifted(queue) : Lifted(queue)[k].actionType # c
    BY <1>2 DEF Lifted
  <2>3. Lifted(queue') = Append(Lifted(queue), e)
    BY <1>2, LiftedAppend DEF Queued
  <2>4. Queues(queue') = [Queues(queue) EXCEPT !["instance"] = Append(@, e)]
    BY <2>3, QueuesAreLifted
  <2>5. Servers(worker') = Servers(worker)
    BY DEF Servers
  <2>6. e \in Command /\ e.instance = "instance" /\ e.actionType = c
    BY DEF Command
  <2> HIDE DEF e
  <2>7. AbstractQueue!Accept(e)
    <3>1. \A k \in DOMAIN Queues(queue)[e.instance] :
             Queues(queue)[e.instance][k].actionType # e.actionType
      BY <2>1, <2>2, <2>6
    <3>2. Queues(queue') = [Queues(queue) EXCEPT ![e.instance] = Append(@, e)]
      BY <2>4, <2>6
    <3>3. AbstractQueue!Accept(e) <=>
             /\ \A k \in DOMAIN Queues(queue)[e.instance] :
                   Queues(queue)[e.instance][k].actionType # e.actionType
             /\ Queues(queue') = [Queues(queue) EXCEPT ![e.instance] = Append(@, e)]
             /\ Servers(worker') = Servers(worker)
      BY <2>6, Mapped
    <3> QED
      BY <2>5, <3>1, <3>2, <3>3
  <2> QED
    BY <2>6, <2>7 DEF AbstractQueue!Next
<1> QED
  BY <1>1, <1>2

\* Once it has started, a command is being served until EndCommand.
LEMMA RunIsServing ==
    ASSUME Types, RunAction \/ ReadAgain \/ SaveRow
    PROVE  UNCHANGED AbstractQueue!abstractVars
<1>1. worker.pc # "idle" /\ UNCHANGED queue
  BY DEF RunAction, CreateInstance, CreateInstanceFails, DeleteMachine, GetState, Operate,
         UpdateSecurityGroups, CloudCallFails, ReadAgain, SaveRow, Running, unchangedByRun
<1>2. \A states : Write(states) => worker'.pc # "idle"
  BY DEF Write, Done, Idle
<1>3. ASSUME NEW r, SaveCopy(r) PROVE worker'.pc # "idle"
  BY <1>3 DEF SaveCopy, Types, WorkerShape
<1>4. worker' = Done => worker'.pc # "idle"
  BY DEF Done
<1>5. ASSUME ReadAgain PROVE worker'.pc # "idle"
  <2>1. [worker EXCEPT !.writes = Tail(worker.writes)].pc = "read"
    BY <1>5 DEF ReadAgain, Types, WorkerShape
  <2> QED
    BY <1>4, <1>5, <2>1 DEF ReadAgain
<1>6. worker'.pc # "idle"
  BY <1>2, <1>3, <1>4, <1>5
     DEF RunAction, CreateInstance, CreateInstanceFails, DeleteMachine, GetState, Operate,
         UpdateSecurityGroups, CloudCallFails, SaveRow
<1>7. Servers(worker') = Servers(worker)
  BY <1>1, <1>6 DEF Servers, Idle
<1> QED
  BY <1>1, <1>7, Mapped

LEMMA StartIsBegin ==
    ASSUME Types, StartCommand PROVE AbstractQueue!Begin("instance")
<1>1. queue # <<>> /\ queue \in Seq(ActionType) /\ worker = Idle /\ UNCHANGED queue
  BY DEF StartCommand, Types
<1>2. Queues(queue)["instance"] # <<>>
  BY <1>1, LiftedTail, QueuesAreLifted
<1>3. worker'.pc # "idle"
  <2>1. [Idle EXCEPT !.pc = "cloud", !.copy = row].pc = "cloud"
    BY DEF Idle
  <2>2. [Idle EXCEPT !.pc = "read", !.writes = <<"DELETED">>].pc = "read"
    BY DEF Idle
  <2> QED
    BY <2>1, <2>2 DEF StartCommand, Done
<1>4. Servers(worker) = {} /\ Servers(worker') = {"instance"}
  BY <1>1, <1>3 DEF Servers, Idle
<1> QED
  BY <1>1, <1>2, <1>4, Mapped

LEMMA EndIsEnd ==
    ASSUME Types, EndCommand PROVE AbstractQueue!End("instance")
<1>1. /\ queue # <<>> /\ queue \in Seq(ActionType) /\ worker # Idle
      /\ queue' = Tail(queue) /\ worker' = Idle
  BY DEF EndCommand, Types, WorkerShape, Idle
<1>2. Lifted(queue') = Tail(Lifted(queue))
  BY <1>1, LiftedTail
<1>3. Queues(queue') = [Queues(queue) EXCEPT !["instance"] = Tail(@)]
  BY <1>2, QueuesAreLifted
<1>4. Servers(worker) = {"instance"} /\ Servers(worker') = {}
  BY <1>1 DEF Servers
<1> QED
  BY <1>3, <1>4, Mapped

LEMMA EmptyQueue ==
    ASSUME NEW q, NEW w, q = <<>>, w = Idle
    PROVE  Queues(q) = [i \in {"instance"} |-> <<>>] /\ Servers(w) = {}
<1>1. Lifted(<<>>) = <<>>
  <2>1. <<>> \in Seq(ActionType) /\ Len(<<>>) = 0
    OBVIOUS
  <2>2. Lifted(<<>>) \in Seq(Command) /\ Len(Lifted(<<>>)) = 0
    BY <2>1, LiftedType
  <2> QED
    BY <2>2, EmptySeq
<1> QED
  BY <1>1, QueuesAreLifted DEF Servers

\* Whatever requests, jobs and the cloud do, the commands of the instance are run by
\* one server, in order and without two of the same type.
THEOREM OneQueue == Spec => UsesOneQueue
<1>1. Init => AbstractQueue!Init
  BY EmptyQueue, Mapped DEF Init
<1>2. ASSUME Types, [Next]_vars PROVE [AbstractQueue!Next]_AbstractQueue!abstractVars
  <2>1. UNCHANGED <<queue, worker>> => UNCHANGED AbstractQueue!abstractVars
    BY Still
  <2>2. ASSUME NEW r \in Request, NEW k \in Kind, ReceiveRequest(r, k)
        PROVE  UNCHANGED AbstractQueue!abstractVars
    BY <2>1, <2>2 DEF ReceiveRequest
  <2>3. ASSUME NEW r \in Request \cup {Creator}, RequestStep(r)
        PROVE  UNCHANGED AbstractQueue!abstractVars
    BY <2>1, <2>3 DEF RequestStep, SaveOfRequest, CreateCommand
  <2>4. ASSUME ExecutePending PROVE [AbstractQueue!Next]_AbstractQueue!abstractVars
    BY <1>2, <2>4, HeadTailProperties, QueuedIsAccept DEF ExecutePending, Types
  <2>5. ASSUME WorkerStep PROVE [AbstractQueue!Next]_AbstractQueue!abstractVars
    BY <1>2, <2>5, StartIsBegin, RunIsServing, EndIsEnd DEF WorkerStep, AbstractQueue!Next
  <2>6. ASSUME NEW j \in Job, LoadForState(j) \/ HandleState(j)
        PROVE  [AbstractQueue!Next]_AbstractQueue!abstractVars
    BY <1>2, <2>1, <2>6, QueuedIsAccept DEF LoadForState, HandleState, Types, ActionType
  <2>7. ASSUME RequestSecurityGroups \/ LoadToDelete \/ SaveDeleting \/ ExecuteDelete
        PROVE  [AbstractQueue!Next]_AbstractQueue!abstractVars
    BY <1>2, <2>1, <2>7, QueuedIsAccept
       DEF RequestSecurityGroups, LoadToDelete, SaveDeleting, ExecuteDelete, Types, ActionType
  <2>8. CleanupStep \/ Settle \/ MachineChanges \/ UNCHANGED vars => UNCHANGED <<queue, worker>>
    BY DEF CleanupStep, LoadKnown, ListMachines, DeleteZombie, Settle, MachineChanges, vars
  <2>9. Restart => AbstractQueue!Forget
    BY EmptyQueue, Mapped DEF Restart
  <2> QED
    BY <1>2, <2>1, <2>2, <2>3, <2>4, <2>5, <2>6, <2>7, <2>8, <2>9 DEF Next, AbstractQueue!Next
<1>3. IInv => Types
  BY TypesFacts DEF IInv, Structure
<1> QED
  BY <1>1, <1>2, <1>3, LifecycleInvariance, PTL DEF Spec, UsesOneQueue, AbstractQueue!Spec
==============================================================================

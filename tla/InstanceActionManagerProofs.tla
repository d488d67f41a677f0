--------------------- MODULE InstanceActionManagerProofs ---------------------
(***************************************************************************)
(* Proofs about InstanceActionManager, for every set of instances and of   *)
(* commands, every size of the pool and any number of restarts: its safety *)
(* properties, and that it implements InstanceActionQueue, or              *)
(* InstanceActionQueueFailing when the database may refuse saves.          *)
(***************************************************************************)
EXTENDS InstanceActionManager, TLAPS

FailingNext == Next \/ SaveFailure

Busy(w) == pc[w] # "idle"

(***************************************************************************)
(* The inductive invariant.  OneActionPerInstance is not inductive: that   *)
(* no second thread takes a command of a busy instance holds because only  *)
(* the head of a queue is ever in the pool, once, and because no two       *)
(* commands of a queue have the same type, so that a command is in it once.*)
(***************************************************************************)

\* The queue of an instance holds commands of that instance, and the map has an
\* entry exactly for the instances whose queue is not empty.
QueuesInv ==
    \A i \in Instance :
        /\ i \in keys <=> actions[i] # <<>>
        /\ \A k \in DOMAIN actions[i] : /\ actions[i][k].instance = i
                                        /\ mem[actions[i][k]] # "CANCELLED"

\* A command in the pool is the head of its queue.
PoolInv ==
    /\ \A k \in DOMAIN submitted :
          LET q == actions[submitted[k].instance]
          IN  q # <<>> /\ submitted[k] = Head(q)
    /\ \A w \in Worker : Busy(w) =>
          LET q == actions[task[w].instance] IN q # <<>> /\ task[w] = Head(q)

\* The pool holds at most one command of each instance.
OncePerInstance ==
    /\ \A k, l \in DOMAIN submitted :
          submitted[k].instance = submitted[l].instance => k = l
    /\ \A v, w \in Worker :
          Busy(v) /\ Busy(w) /\ task[v].instance = task[w].instance => v = w
    /\ \A w \in Worker : \A k \in DOMAIN submitted :
          Busy(w) => task[w].instance # submitted[k].instance

Structure == QueuesInv /\ PoolInv /\ OncePerInstance /\ OnePerType

IInv == TypeOK /\ Structure

------------------------------------------------------------------------------
(* Sequences *)

LEMMA AppendFacts ==
    ASSUME NEW S, NEW q \in Seq(S), NEW e \in S
    PROVE  /\ Append(q, e) # <<>>
           /\ DOMAIN Append(q, e) = DOMAIN q \cup {Len(q) + 1}
           /\ Len(q) + 1 \notin DOMAIN q
           /\ Append(q, e)[Len(q) + 1] = e
           /\ \A k \in DOMAIN q : Append(q, e)[k] = q[k] /\ q[k] \in S
           /\ q # <<>> => Head(Append(q, e)) = Head(q)
           /\ q = <<>> => Append(q, e) = <<e>> /\ Head(Append(q, e)) = e
  <1>1. /\ Append(q, e) \in Seq(S)
        /\ Len(Append(q, e)) = Len(q) + 1
        /\ Len(q) \in Nat
        /\ DOMAIN q = 1..Len(q)
        /\ DOMAIN Append(q, e) = 1..(Len(q) + 1)
    OBVIOUS
  <1>2. Len(<<>>) = 0
    OBVIOUS
  <1>3. Append(q, e) # <<>>
    BY <1>1, <1>2
  <1>4. /\ Append(q, e)[Len(q) + 1] = e
        /\ \A k \in DOMAIN q : Append(q, e)[k] = q[k] /\ q[k] \in S
    BY <1>1
  <1>5. q # <<>> => Head(Append(q, e)) = Head(q)
    <2> SUFFICES ASSUME q # <<>> PROVE Head(Append(q, e)) = Head(q)
      OBVIOUS
    <2>1. Len(q) # 0
      OBVIOUS
    <2>2. Head(q) = q[1] /\ Head(Append(q, e)) = Append(q, e)[1]
      BY <1>1, <1>3
    <2> QED
      BY <2>1, <2>2, <1>1, <1>4
  <1>6. q = <<>> => Append(q, e) = <<e>> /\ Head(Append(q, e)) = e
    OBVIOUS
  <1>7. DOMAIN Append(q, e) = DOMAIN q \cup {Len(q) + 1} /\ Len(q) + 1 \notin DOMAIN q
    BY <1>1
  <1> QED
    BY <1>3, <1>4, <1>5, <1>6, <1>7

LEMMA TailFacts ==
    ASSUME NEW S, NEW q \in Seq(S), q # <<>>
    PROVE  /\ Head(q) = q[1] /\ 1 \in DOMAIN q
           /\ \A k \in DOMAIN Tail(q) : k + 1 \in DOMAIN q /\ Tail(q)[k] = q[k + 1]
           /\ \A k, l \in DOMAIN Tail(q) : k + 1 = l + 1 => k = l
           /\ \A k \in DOMAIN Tail(q) : k + 1 # 1
           /\ Tail(q) # <<>> => 2 \in DOMAIN q /\ Head(Tail(q)) = q[2]
  OBVIOUS

------------------------------------------------------------------------------
(* Types *)

LEMMA CommandFields ==
    ASSUME NEW c \in Command
    PROVE  c.instance \in Instance /\ c.actionType \in ActionType /\ c.id \in Nat
  BY CommandAssumption

LEMMA PutType ==
    ASSUME TypeOK, NEW c \in Command, Put(c)
    PROVE  /\ mem' \in [Command -> CommandState]
           /\ keys' \subseteq Instance
           /\ actions' \in [Instance -> Seq(Command)]
  BY CommandFields DEF Put, TypeOK, CommandState

LEMMA EnqueueType ==
    ASSUME TypeOK, NEW c \in Command, Enqueue(c)
    PROVE  /\ mem' \in [Command -> CommandState]
           /\ keys' \subseteq Instance
           /\ actions' \in [Instance -> Seq(Command)]
           /\ submitted' \in Seq(Command)
  <1>1. Put(c) /\ Submit(c)
    BY DEF Enqueue
  <1>2. submitted' \in Seq(Command)
    BY <1>1 DEF Submit, TypeOK
  <1> QED
    BY <1>1, <1>2, PutType

LEMMA HandleNextType ==
    ASSUME TypeOK, NEW i \in Instance, HandleNextActionForInstance(i)
    PROVE  /\ keys' \subseteq Instance
           /\ actions' \in [Instance -> Seq(Command)]
           /\ submitted' \in Seq(Command)
  <1> DEFINE rest == WithoutFirst(actions[i])
  <1>1. rest \in Seq(Command)
    BY DEF WithoutFirst, TypeOK
  <1>2. rest # <<>> => Head(rest) \in Command
    BY <1>1
  <1>3. CASE i \notin keys
    BY <1>3 DEF HandleNextActionForInstance, queueVars, TypeOK
  <1>4. CASE i \in keys
    <2>1. /\ actions' = [actions EXCEPT ![i] = rest]
          /\ keys' = IF rest = <<>> THEN keys \ {i} ELSE keys
          /\ submitted' = IF rest = <<>> THEN submitted
                                         ELSE Append(submitted, Head(rest))
      BY <1>4 DEF HandleNextActionForInstance, RunFirst
    <2> HIDE DEF rest
    <2> QED
      BY <2>1, <1>1, <1>2 DEF TypeOK
  <1> QED
    BY <1>3, <1>4

LEMMA InitType == Init => TypeOK
  BY CrashAssumption DEF Init, TypeOK, CommandState, Caller

\* The objects held in a queue are never CANCELLED, so that the command loaded
\* again by InstanceCommandService.cancel is equal to none of them.
LEMMA CancelKeepsQueue ==
    ASSUME TypeOK, QueuesInv, NEW c \in Command, Cancel(c)
    PROVE  UNCHANGED actions
  <1>1. c.instance \in Instance
    BY CommandFields
  <1>2. \A k \in DOMAIN actions[c.instance] :
            mem[actions[c.instance][k]] # "CANCELLED"
    BY <1>1 DEF QueuesInv
  <1> QED
    BY <1>2 DEF Cancel

LEMMA NextType == TypeOK /\ QueuesInv /\ [FailingNext]_vars => TypeOK'
  <1> SUFFICES ASSUME TypeOK, QueuesInv, [FailingNext]_vars
               PROVE  TypeOK'
    OBVIOUS
  <1> USE DEF queueVars, workerVars, callerVars
  <1>1. ASSUME NEW c \in Command, CreateCommand(c) PROVE TypeOK'
    BY <1>1 DEF CreateCommand, TypeOK, CommandState
  <1>2. ASSUME NEW c \in Command, CreateDelete(c) PROVE TypeOK'
    BY <1>2 DEF CreateDelete, TypeOK, CommandState, Caller
  <1>3. ASSUME NEW c \in Command, ExecuteSystem(c) PROVE TypeOK'
    BY <1>3, EnqueueType DEF ExecuteSystem, TypeOK
  <1>4. ASSUME NEW c \in Command, Cancel(c) PROVE TypeOK'
    BY <1>4, CancelKeepsQueue DEF Cancel, TypeOK, CommandState
  <1>5. CASE LoadPending
    BY <1>5 DEF LoadPending, TypeOK, Pending, Caller
  <1>6. ASSUME NEW j \in Caller, NEW c \in Command, Execute(j, c) PROVE TypeOK'
    <2>1. CASE Enqueue(c) /\ SaveInTransaction(j, c, "QUEUED")
      BY <1>6, <2>1, EnqueueType DEF Execute, SaveInTransaction, TypeOK, CommandState
    <2>2. CASE Merge(c) /\ SaveInTransaction(j, c, "TERMINATED")
      BY <1>6, <2>2 DEF Execute, Merge, SaveInTransaction, TypeOK, CommandState
    <2> QED
      BY <1>6, <2>1, <2>2 DEF Execute
  <1>7. ASSUME NEW j \in Caller, Commit(j) PROVE TypeOK'
    BY <1>7 DEF Commit, TypeOK
  <1>8. ASSUME NEW w \in Worker, Take(w) PROVE TypeOK'
    BY <1>8 DEF Take, Goto, Hand, TypeOK
  <1>9. ASSUME NEW w \in Worker, OnActionStart(w) PROVE TypeOK'
    BY <1>9 DEF OnActionStart, Goto, Save, TypeOK, CommandState
  <1>10. ASSUME NEW w \in Worker, RunAction(w) PROVE TypeOK'
    BY <1>10 DEF RunAction, Goto, TypeOK
  <1>11. ASSUME NEW w \in Worker, NEW from \in {"returned", "threw"},
                NEW final \in CommandState, Conclude(w, from, final)
         PROVE  TypeOK'
    <2> DEFINE c == task[w]
               s == IF HasRow(c) /\ db[c] = "CANCELLED" THEN "CANCELLED" ELSE final
    <2>1. c \in Command /\ s \in CommandState
      BY <1>11 DEF Conclude, Goto, TypeOK, CommandState
    <2>2. HandleNextActionForInstance(c.instance)
      BY <1>11 DEF Conclude
    <2>3. /\ keys' \subseteq Instance
          /\ actions' \in [Instance -> Seq(Command)]
          /\ submitted' \in Seq(Command)
      BY <2>1, <2>2, CommandFields, HandleNextType
    <2>4. /\ pc[w] = from
          /\ pc' = [pc EXCEPT ![w] = "idle"]
          /\ task' = [task EXCEPT ![w] = <<>>]
          /\ mem' = [mem EXCEPT ![c] = s]
          /\ db' = IF HasRow(c) THEN [db EXCEPT ![c] = s] ELSE db
          /\ UNCHANGED <<todo, uncommitted, started, crashes>>
      BY <1>11 DEF Conclude, Goto, Save
    <2> HIDE DEF c, s
    <2> QED
      BY <2>1, <2>3, <2>4 DEF TypeOK
  <1>12. CASE Restart
    BY <1>12 DEF Restart, TypeOK, CommandState
  <1>13. ASSUME NEW j \in Caller, NEW c \in Command, ExecuteSaveFails(j, c)
         PROVE  TypeOK'
    <2>1. CASE Put(c) /\ UNCHANGED submitted
      BY <1>13, <2>1, PutType DEF ExecuteSaveFails, TypeOK
    <2>2. CASE Merge(c)
      BY <1>13, <2>2 DEF ExecuteSaveFails, Merge, TypeOK
    <2> QED
      BY <1>13, <2>1, <2>2 DEF ExecuteSaveFails
  <1>14. ASSUME NEW j \in Caller, CommitFails(j) PROVE TypeOK'
    BY <1>14 DEF CommitFails, TypeOK
  <1>15. ASSUME NEW w \in Worker, StartSaveFails(w) PROVE TypeOK'
    BY <1>15 DEF StartSaveFails, Goto, TypeOK, CommandState
  <1>16. ASSUME NEW w \in Worker, ConcludeSaveFails(w) PROVE TypeOK'
    <2>1. task[w] \in Command
      BY <1>16 DEF ConcludeSaveFails, TypeOK
    <2> QED
      BY <1>16, <2>1 DEF ConcludeSaveFails, TypeOK, CommandState
  <1>17. CASE UNCHANGED vars
    BY <1>17 DEF vars, TypeOK
  <1> QED
    BY <1>1, <1>2, <1>3, <1>4, <1>5, <1>6, <1>7, <1>8, <1>9, <1>10, <1>11, <1>12,
       <1>13, <1>14, <1>15, <1>16, <1>17
       DEF FailingNext, Next, SaveFailure, WorkerStep, OnActionTerminated,
           OnActionFailed, CommandState

------------------------------------------------------------------------------
(* The structure of the queues and of the pool *)

\* Steps that leave the queues alone and give no thread a new command.
LEMMA Quiet ==
    ASSUME IInv, UNCHANGED queueVars,
           \A w \in Worker : Busy(w)' => Busy(w) /\ task'[w] = task[w],
           \A c \in Command : mem'[c] = mem[c] \/ mem'[c] # "CANCELLED"
    PROVE  Structure'
  <1> USE DEF queueVars
  <1>1. QueuesInv'
    <2> SUFFICES ASSUME NEW i \in Instance, NEW k \in DOMAIN actions[i]
                 PROVE  mem'[actions[i][k]] # "CANCELLED"
      BY DEF IInv, Structure, QueuesInv
    <2>1. actions[i][k] \in Command
      BY DEF IInv, TypeOK
    <2> QED
      BY <2>1 DEF IInv, Structure, QueuesInv
  <1>2. PoolInv'
    BY DEF IInv, Structure, PoolInv
  <1>3. OncePerInstance'
    BY DEF IInv, Structure, OncePerInstance
  <1>4. OnePerType'
    BY DEF IInv, Structure, OnePerType
  <1> QED
    BY <1>1, <1>2, <1>3, <1>4 DEF Structure

\* A new command at the end of its queue.
LEMMA PutQueues ==
    ASSUME IInv, NEW c \in Command, Put(c)
    PROVE  /\ QueuesInv' /\ OnePerType'
           /\ \A i \in Instance : actions[i] # <<>> =>
                 actions'[i] # <<>> /\ Head(actions'[i]) = Head(actions[i])
           /\ actions[c.instance] = <<>> => actions'[c.instance] = <<c>>
  <1> DEFINE j == c.instance
  <1>1. /\ j \in Instance
        /\ actions \in [Instance -> Seq(Command)]
        /\ mem \in [Command -> CommandState]
        /\ keys \subseteq Instance
    BY CommandFields DEF IInv, TypeOK
  <1>2. /\ actions' = [actions EXCEPT ![j] = Append(@, c)]
        /\ keys' = keys \cup {j}
        /\ mem' = [mem EXCEPT ![c] = "QUEUED"]
        /\ \A k \in DOMAIN actions[j] : actions[j][k].actionType # c.actionType
    BY DEF Put, SameType
  <1>3. /\ actions'[j] = Append(actions[j], c)
        /\ \A i \in Instance : i # j => actions'[i] = actions[i]
    BY <1>1, <1>2
  <1>4. /\ actions'[j] # <<>>
        /\ DOMAIN actions'[j] = DOMAIN actions[j] \cup {Len(actions[j]) + 1}
        /\ actions'[j][Len(actions[j]) + 1] = c
        /\ \A k \in DOMAIN actions[j] : actions'[j][k] = actions[j][k]
        /\ actions[j] # <<>> => Head(actions'[j]) = Head(actions[j])
        /\ actions[j] = <<>> => actions'[j] = <<c>>
    BY <1>1, <1>3, AppendFacts
  <1>5. \A i \in Instance : \A k \in DOMAIN actions'[i] :
            \/ k \in DOMAIN actions[i] /\ actions'[i][k] = actions[i][k]
            \/ i = j /\ k = Len(actions[j]) + 1 /\ actions'[i][k] = c
    BY <1>1, <1>3, <1>4
  <1>6. QueuesInv'
    <2> SUFFICES ASSUME NEW i \in Instance
                 PROVE  /\ i \in keys' <=> actions'[i] # <<>>
                        /\ \A k \in DOMAIN actions'[i] :
                              /\ actions'[i][k].instance = i
                              /\ mem'[actions'[i][k]] # "CANCELLED"
      BY DEF QueuesInv
    <2>1. i \in keys' <=> actions'[i] # <<>>
      BY <1>2, <1>3, <1>4 DEF IInv, Structure, QueuesInv
    <2>2. ASSUME NEW k \in DOMAIN actions'[i]
          PROVE  /\ actions'[i][k].instance = i
                 /\ mem'[actions'[i][k]] # "CANCELLED"
      <3>1. CASE k \in DOMAIN actions[i] /\ actions'[i][k] = actions[i][k]
        <4>1. actions[i][k] \in Command
          BY <3>1, <1>1
        <4> QED
          BY <4>1, <3>1, <1>1, <1>2 DEF IInv, Structure, QueuesInv
      <3>2. CASE i = j /\ actions'[i][k] = c
        BY <3>2, <1>1, <1>2
      <3> QED
        BY <3>1, <3>2, <1>5
    <2> QED
      BY <2>1, <2>2
  <1>7. OnePerType'
    <2> SUFFICES ASSUME NEW i \in Instance, NEW k \in DOMAIN actions'[i],
                        NEW l \in DOMAIN actions'[i],
                        actions'[i][k].actionType = actions'[i][l].actionType
                 PROVE  k = l
      BY DEF OnePerType
    <2> QED
      BY <1>2, <1>5 DEF IInv, Structure, OnePerType
  <1>8. \A i \in Instance : actions[i] # <<>> =>
            actions'[i] # <<>> /\ Head(actions'[i]) = Head(actions[i])
    BY <1>3, <1>4
  <1> QED
    BY <1>4, <1>6, <1>7, <1>8

\* A command that is queued without being submitted to the pool: another one is
\* ahead of it, or a refused save has left its queue without one.
LEMMA PutStructure ==
    ASSUME IInv, NEW c \in Command, Put(c), UNCHANGED <<submitted, pc, task>>
    PROVE  Structure'
  <1>1. /\ QueuesInv' /\ OnePerType'
        /\ \A i \in Instance : actions[i] # <<>> =>
              actions'[i] # <<>> /\ Head(actions'[i]) = Head(actions[i])
    BY PutQueues
  <1>2. /\ \A k \in DOMAIN submitted : submitted[k].instance \in Instance
        /\ \A w \in Worker : Busy(w) => task[w].instance \in Instance
    <2>1. \A k \in DOMAIN submitted : submitted[k] \in Command
      BY DEF IInv, TypeOK
    <2> QED
      BY <2>1, CommandFields DEF IInv, TypeOK, Busy
  <1>3. PoolInv'
    BY <1>1, <1>2 DEF IInv, Structure, PoolInv, Busy
  <1>4. OncePerInstance'
    BY DEF IInv, Structure, OncePerInstance, Busy
  <1> QED
    BY <1>1, <1>3, <1>4 DEF Structure

LEMMA EnqueueStructure ==
    ASSUME IInv, NEW c \in Command, Enqueue(c), UNCHANGED workerVars
    PROVE  Structure'
  <1>1. Put(c) /\ Submit(c) /\ UNCHANGED <<pc, task>>
    BY DEF Enqueue, workerVars
  <1>2. CASE c.instance \in keys
    BY <1>1, <1>2, PutStructure DEF Submit
  <1>3. CASE c.instance \notin keys
    <2> DEFINE n == Len(submitted) + 1
    <2>1. /\ c.instance \in Instance
          /\ submitted' = Append(submitted, c)
          /\ submitted \in Seq(Command)
      BY <1>1, <1>3, CommandFields DEF Submit, IInv, TypeOK
    <2>2. /\ DOMAIN submitted' = DOMAIN submitted \cup {n}
          /\ submitted'[n] = c
          /\ \A k \in DOMAIN submitted :
                submitted'[k] = submitted[k] /\ submitted[k] \in Command
      BY <2>1, AppendFacts
    <2> HIDE DEF n
    <2>3. /\ QueuesInv' /\ OnePerType'
          /\ \A i \in Instance : actions[i] # <<>> =>
                actions'[i] # <<>> /\ Head(actions'[i]) = Head(actions[i])
          /\ actions[c.instance] = <<>> => actions'[c.instance] = <<c>>
      BY <1>1, PutQueues
    <2>4. /\ actions[c.instance] = <<>>
          /\ actions'[c.instance] # <<>>
          /\ Head(actions'[c.instance]) = c
      <3>1. actions[c.instance] = <<>>
        BY <1>3, <2>1 DEF IInv, Structure, QueuesInv
      <3>2. <<c>> # <<>> /\ Head(<<c>>) = c
        OBVIOUS
      <3> QED
        BY <2>3, <3>1, <3>2
    <2>5. /\ \A k \in DOMAIN submitted : /\ submitted[k].instance \in Instance
                                         /\ submitted[k].instance # c.instance
          /\ \A w \in Worker : Busy(w) => /\ task[w].instance \in Instance
                                          /\ task[w].instance # c.instance
      BY <2>2, <2>4, CommandFields DEF IInv, Structure, PoolInv, TypeOK, Busy
    <2>6. PoolInv'
      BY <1>1, <2>2, <2>3, <2>4, <2>5 DEF IInv, Structure, PoolInv, Busy
    <2>7. OncePerInstance'
      BY <1>1, <2>2, <2>5 DEF IInv, Structure, OncePerInstance, Busy
    <2> QED
      BY <2>3, <2>6, <2>7 DEF Structure
  <1> QED
    BY <1>2, <1>3

LEMMA TakeStructure ==
    ASSUME IInv, NEW w \in Worker, Take(w)
    PROVE  Structure'
  <1> DEFINE c == Head(submitted)
  <1>1. /\ submitted \in Seq(Command) /\ submitted # <<>>
        /\ submitted' = Tail(submitted)
        /\ pc[w] = "idle" /\ pc' = [pc EXCEPT ![w] = "start"]
        /\ task' = [task EXCEPT ![w] = c]
        /\ UNCHANGED <<mem, keys, actions>>
    BY DEF Take, Goto, Hand, IInv, TypeOK
  <1>2. /\ c = submitted[1] /\ 1 \in DOMAIN submitted
        /\ \A k \in DOMAIN submitted' : /\ k + 1 \in DOMAIN submitted
                                        /\ k + 1 # 1
                                        /\ submitted'[k] = submitted[k + 1]
        /\ \A k, l \in DOMAIN submitted' : k + 1 = l + 1 => k = l
    BY <1>1, TailFacts
  <1>3. /\ \A v \in Worker : v # w => task'[v] = task[v] /\ (Busy(v)' <=> Busy(v))
        /\ task'[w] = c /\ ~Busy(w)
    BY <1>1 DEF IInv, TypeOK, Busy
  <1> HIDE DEF c
  <1>4. QueuesInv' /\ OnePerType'
    BY <1>1 DEF IInv, Structure, QueuesInv, OnePerType
  <1>5. PoolInv'
    BY <1>1, <1>2, <1>3 DEF IInv, Structure, PoolInv
  <1>6. OncePerInstance'
    <2>1. \A k, l \in DOMAIN submitted' :
              submitted'[k].instance = submitted'[l].instance => k = l
      BY <1>2 DEF IInv, Structure, OncePerInstance
    <2>2. \A u, v \in Worker :
              Busy(u)' /\ Busy(v)' /\ task'[u].instance = task'[v].instance => u = v
      BY <1>2, <1>3 DEF IInv, Structure, OncePerInstance
    <2>3. \A v \in Worker : \A k \in DOMAIN submitted' :
              Busy(v)' => task'[v].instance # submitted'[k].instance
      BY <1>2, <1>3 DEF IInv, Structure, OncePerInstance
    <2> QED
      BY <2>1, <2>2, <2>3 DEF OncePerInstance
  <1> QED
    BY <1>4, <1>5, <1>6 DEF Structure

LEMMA ConcludeStructure ==
    ASSUME IInv, NEW w \in Worker, NEW from \in {"returned", "threw"},
           NEW final \in CommandState, Conclude(w, from, final)
    PROVE  Structure'
  <1> DEFINE c == task[w]
             i == c.instance
             q == actions[i]
             rest == Tail(q)
  <1>1. /\ Busy(w) /\ c \in Command /\ i \in Instance
        /\ \E s \in CommandState : mem' = [mem EXCEPT ![c] = s]
        /\ mem \in [Command -> CommandState]
        /\ pc' = [pc EXCEPT ![w] = "idle"] /\ pc \in [Worker -> {"idle", "start", "run", "returned", "threw"}]
        /\ task' = [task EXCEPT ![w] = <<>>]
        /\ HandleNextActionForInstance(i)
    BY CommandFields DEF Conclude, Goto, IInv, TypeOK, Busy, CommandState
  <1>2. /\ \A v \in Worker : v # w => task'[v] = task[v] /\ (Busy(v)' <=> Busy(v))
        /\ ~Busy(w)'
    BY <1>1 DEF IInv, TypeOK, Busy
  <1>3. /\ actions \in [Instance -> Seq(Command)] /\ q \in Seq(Command)
        /\ q # <<>> /\ i \in keys /\ c = Head(q)
    BY <1>1 DEF IInv, TypeOK, Structure, PoolInv, QueuesInv
  <1>4. /\ c = q[1] /\ 1 \in DOMAIN q
        /\ rest \in Seq(Command)
        /\ \A k \in DOMAIN rest : /\ k + 1 \in DOMAIN q /\ k + 1 # 1
                                  /\ rest[k] = q[k + 1]
        /\ \A k, l \in DOMAIN rest : k + 1 = l + 1 => k = l
        /\ rest # <<>> => 1 \in DOMAIN rest /\ Head(rest) = rest[1]
    BY <1>3, TailFacts
  <1>5. /\ actions' = [actions EXCEPT ![i] = rest]
        /\ keys' = IF rest = <<>> THEN keys \ {i} ELSE keys
        /\ submitted' = IF rest = <<>> THEN submitted ELSE Append(submitted, Head(rest))
    BY <1>1, <1>3 DEF HandleNextActionForInstance, WithoutFirst, RunFirst
  <1> HIDE DEF rest
  <1>6. /\ actions'[i] = rest
        /\ \A j \in Instance : j # i => actions'[j] = actions[j]
    BY <1>3, <1>5, <1>1
  \* The concluded command is in no queue any more.
  <1>7. \A j \in Instance : \A k \in DOMAIN actions'[j] :
            actions'[j][k] \in Command /\ actions'[j][k] # c
    <2> SUFFICES ASSUME NEW j \in Instance, NEW k \in DOMAIN actions'[j]
                 PROVE  actions'[j][k] \in Command /\ actions'[j][k] # c
      OBVIOUS
    <2>1. CASE j = i
      <3>1. /\ k + 1 \in DOMAIN q /\ 1 \in DOMAIN q /\ k + 1 # 1
            /\ actions'[i][k] = q[k + 1] /\ c = q[1]
        BY <2>1, <1>4, <1>6
      <3>2. q[k + 1] # q[1]
        BY <3>1, <1>1 DEF IInv, Structure, OnePerType
      <3>3. q[k + 1] \in Command
        BY <3>1, <1>3
      <3> QED
        BY <2>1, <3>1, <3>2, <3>3
    <2>2. CASE j # i
      BY <2>2, <1>3, <1>6 DEF IInv, Structure, QueuesInv
    <2> QED
      BY <2>1, <2>2
  <1>8. QueuesInv'
    <2> SUFFICES ASSUME NEW j \in Instance
                 PROVE  /\ j \in keys' <=> actions'[j] # <<>>
                        /\ \A k \in DOMAIN actions'[j] :
                              /\ actions'[j][k].instance = j
                              /\ mem'[actions'[j][k]] # "CANCELLED"
      BY DEF QueuesInv
    <2>1. CASE j = i
      <3>1. i \in keys' <=> actions'[i] # <<>>
        BY <1>3, <1>5, <1>6
      <3>2. ASSUME NEW k \in DOMAIN actions'[i]
            PROVE  actions'[i][k].instance = i /\ mem'[actions'[i][k]] # "CANCELLED"
        <4>1. \E l \in DOMAIN q : actions'[i][k] = q[l]
          BY <3>2, <1>4, <1>6
        <4>2. actions'[i][k].instance = i /\ mem[actions'[i][k]] # "CANCELLED"
          BY <4>1, <1>1 DEF IInv, Structure, QueuesInv
        <4> QED
          BY <4>2, <1>1, <1>7
      <3> QED
        BY <2>1, <3>1, <3>2
    <2>2. CASE j # i
      BY <2>2, <1>1, <1>5, <1>6, <1>7 DEF IInv, Structure, QueuesInv
    <2> QED
      BY <2>1, <2>2
  <1>9. OnePerType'
    BY <1>1, <1>4, <1>6, SMTT(30) DEF IInv, Structure, OnePerType
  <1>10. /\ \A k \in DOMAIN submitted : /\ submitted[k] \in Command
                                        /\ submitted[k].instance \in Instance
                                        /\ submitted[k].instance # i
         /\ \A v \in Worker : v # w /\ Busy(v) => /\ task[v].instance \in Instance
                                                  /\ task[v].instance # i
    <2>1. /\ \A k \in DOMAIN submitted : submitted[k] \in Command
          /\ \A v \in Worker : Busy(v) => task[v] \in Command
      BY DEF IInv, TypeOK, Busy
    <2> QED
      BY <2>1, <1>1, CommandFields DEF IInv, Structure, OncePerInstance
  <1>11. CASE rest = <<>>
    <2>1. PoolInv'
      BY <1>11, <1>2, <1>5, <1>6, <1>10 DEF IInv, Structure, PoolInv
    <2>2. OncePerInstance'
      BY <1>11, <1>2, <1>5, <1>10 DEF IInv, Structure, OncePerInstance
    <2> QED
      BY <2>1, <2>2, <1>8, <1>9 DEF Structure
  <1>12. CASE rest # <<>>
    <2> DEFINE h == Head(rest)
               n == Len(submitted) + 1
    <2>1. h \in Command /\ h.instance = i
      BY <1>12, <1>1, <1>3, <1>4 DEF IInv, Structure, QueuesInv
    <2>2. /\ submitted \in Seq(Command)
          /\ submitted' = Append(submitted, h)
      BY <1>12, <1>5 DEF IInv, TypeOK
    <2> HIDE DEF h
    <2>3. /\ DOMAIN submitted' = DOMAIN submitted \cup {n}
          /\ submitted'[n] = h
          /\ \A k \in DOMAIN submitted : submitted'[k] = submitted[k]
      BY <2>1, <2>2, AppendFacts
    <2> HIDE DEF n
    <2>4. PoolInv'
      BY <1>12, <1>2, <1>6, <1>10, <2>1, <2>3 DEF IInv, Structure, PoolInv, h
    <2>5. OncePerInstance'
      BY <1>2, <1>10, <2>1, <2>3 DEF IInv, Structure, OncePerInstance
    <2> QED
      BY <2>4, <2>5, <1>8, <1>9 DEF Structure
  <1> QED
    BY <1>11, <1>12

LEMMA RestartStructure ==
    ASSUME Restart
    PROVE  Structure'
  <1>1. /\ actions' = [i \in Instance |-> <<>>] /\ keys' = {}
        /\ submitted' = <<>> /\ pc' = [w \in Worker |-> "idle"]
    BY DEF Restart
  <1> QED
    BY <1>1 DEF Structure, QueuesInv, PoolInv, OncePerInstance, OnePerType, Busy

------------------------------------------------------------------------------
(* The invariant and what follows from it *)

LEMMA InitInvariant == Init => IInv
  <1> SUFFICES ASSUME Init PROVE Structure
    BY InitType DEF IInv
  <1>1. /\ actions = [i \in Instance |-> <<>>] /\ keys = {}
        /\ submitted = <<>> /\ pc = [w \in Worker |-> "idle"]
    BY DEF Init
  <1> QED
    BY <1>1 DEF Structure, QueuesInv, PoolInv, OncePerInstance, OnePerType, Busy

LEMMA NextInvariant == IInv /\ [FailingNext]_vars => IInv'
  <1> SUFFICES ASSUME IInv, [FailingNext]_vars
               PROVE  Structure'
    BY NextType DEF IInv, Structure
  <1> USE DEF queueVars, workerVars
  <1>1. ASSUME NEW c \in Command, CreateCommand(c) PROVE Structure'
    BY <1>1, Quiet DEF CreateCommand, Busy
  <1>2. ASSUME NEW c \in Command, CreateDelete(c) PROVE Structure'
    BY <1>2, Quiet DEF CreateDelete, Busy
  <1>3. ASSUME NEW c \in Command, ExecuteSystem(c) PROVE Structure'
    BY <1>3, EnqueueStructure DEF ExecuteSystem
  <1>4. ASSUME NEW c \in Command, Cancel(c) PROVE Structure'
    BY <1>4, CancelKeepsQueue, Quiet DEF Cancel, IInv, Structure, Busy
  <1>5. CASE LoadPending
    BY <1>5, Quiet DEF LoadPending, Busy
  <1>6. ASSUME NEW j \in Caller, NEW c \in Command, Execute(j, c) PROVE Structure'
    <2>1. CASE Enqueue(c)
      BY <1>6, <2>1, EnqueueStructure DEF Execute
    <2>2. CASE Merge(c)
      BY <1>6, <2>2, Quiet DEF Execute, Merge, Busy
    <2> QED
      BY <1>6, <2>1, <2>2 DEF Execute
  <1>7. ASSUME NEW j \in Caller, Commit(j) PROVE Structure'
    BY <1>7, Quiet DEF Commit, Busy
  <1>8. ASSUME NEW w \in Worker, Take(w) PROVE Structure'
    BY <1>8, TakeStructure
  <1>9. ASSUME NEW w \in Worker, OnActionStart(w) PROVE Structure'
    <2>1. \A c \in Command : mem'[c] = mem[c] \/ mem'[c] # "CANCELLED"
      BY <1>9 DEF OnActionStart, IInv, TypeOK
    <2> QED
      BY <1>9, <2>1, Quiet DEF OnActionStart, Goto, Busy, IInv, TypeOK
  <1>10. ASSUME NEW w \in Worker, RunAction(w) PROVE Structure'
    BY <1>10, Quiet DEF RunAction, Goto, Busy, IInv, TypeOK
  <1>11. ASSUME NEW w \in Worker, OnActionTerminated(w) \/ OnActionFailed(w)
         PROVE  Structure'
    BY <1>11, ConcludeStructure DEF OnActionTerminated, OnActionFailed, CommandState
  <1>12. CASE Restart
    BY <1>12, RestartStructure
  <1>13. ASSUME NEW j \in Caller, NEW c \in Command, ExecuteSaveFails(j, c)
         PROVE  Structure'
    <2>1. CASE Put(c) /\ UNCHANGED submitted
      BY <1>13, <2>1, PutStructure DEF ExecuteSaveFails
    <2>2. CASE Merge(c)
      BY <1>13, <2>2, Quiet DEF ExecuteSaveFails, Merge, Busy
    <2> QED
      BY <1>13, <2>1, <2>2 DEF ExecuteSaveFails
  <1>14. ASSUME NEW j \in Caller, CommitFails(j) PROVE Structure'
    BY <1>14, Quiet DEF CommitFails, Busy
  <1>15. ASSUME NEW w \in Worker, StartSaveFails(w) PROVE Structure'
    <2>1. \A c \in Command : mem'[c] = mem[c] \/ mem'[c] # "CANCELLED"
      BY <1>15 DEF StartSaveFails, IInv, TypeOK
    <2>2. \A v \in Worker : Busy(v)' => Busy(v) /\ task'[v] = task[v]
      BY <1>15 DEF StartSaveFails, Goto, Busy, IInv, TypeOK
    <2> QED
      BY <1>15, <2>1, <2>2, Quiet DEF StartSaveFails
  <1>16. ASSUME NEW w \in Worker, ConcludeSaveFails(w) PROVE Structure'
    <2>1. \A v \in Worker : Busy(v)' => Busy(v) /\ task'[v] = task[v]
      BY <1>16 DEF ConcludeSaveFails, Busy, IInv, TypeOK
    <2> QED
      BY <1>16, <2>1, Quiet DEF ConcludeSaveFails
  <1>17. CASE UNCHANGED vars
    BY <1>17, Quiet DEF vars, Busy
  <1> QED
    BY <1>1, <1>2, <1>3, <1>4, <1>5, <1>6, <1>7, <1>8, <1>9, <1>10, <1>11, <1>12,
       <1>13, <1>14, <1>15, <1>16, <1>17
       DEF FailingNext, Next, SaveFailure, WorkerStep

\* The inductive invariant holds even when the database refuses saves.
THEOREM Invariance == FailingSpec => []IInv
  <1> USE DEF FailingNext
  <1> QED
    BY InitInvariant, NextInvariant, PTL DEF FailingSpec

THEOREM SpecInvariance == Spec => []IInv
  <1>1. IInv /\ [Next]_vars => IInv'
    BY NextInvariant DEF FailingNext
  <1> QED
    BY InitInvariant, <1>1, PTL DEF Spec

\* Every variable of the manager keeps its type.
THEOREM TypeCorrect == FailingSpec => []TypeOK
  BY Invariance, PTL DEF IInv

\* Two threads of the pool never work on the same instance, for a pool of any
\* size and whatever saves the database refuses.
THEOREM MutualExclusion == FailingSpec => []OneActionPerInstance
  <1>1. IInv => OneActionPerInstance
    BY DEF IInv, Structure, OncePerInstance, OneActionPerInstance, Serving, Busy
  <1> QED
    BY <1>1, Invariance, PTL

\* A command is served only at the head of its queue, whatever saves are refused.
THEOREM FirstInFirstServed == FailingSpec => []ServedIsHead
  <1>1. IInv => ServedIsHead
    BY DEF IInv, Structure, PoolInv, ServedIsHead, Serving, Busy
  <1> QED
    BY <1>1, Invariance, PTL

\* No two commands of the same type are in the queue of an instance.
THEOREM NoDuplicateTypes == Spec => []OnePerType
  <1>1. IInv => OnePerType
    BY DEF IInv, Structure
  <1> QED
    BY <1>1, SpecInvariance, PTL

\* InstanceCommandService.cancel never removes a command from a queue, whatever
\* is queued or refused: the command it loads again is CANCELLED before it is
\* compared with the queued ones, and equals compares the states.
THEOREM CancelRemovesNothing ==
    FailingSpec => [][\A c \in Command : Cancel(c) => UNCHANGED actions]_vars
  <1>1. IInv => (\A c \in Command : Cancel(c) => UNCHANGED actions)
    BY CancelKeepsQueue DEF IInv, Structure
  <1> QED
    BY <1>1, Invariance, PTL

------------------------------------------------------------------------------
(* No queue is left without a command in progress *)

\* Holds as long as no save is refused, that is, of Spec and not of FailingSpec.
InProgress ==
    \A i \in keys : \/ \E w \in Worker : Busy(w) /\ task[w].instance = i
                    \/ \E k \in DOMAIN submitted : submitted[k].instance = i

\* Steps that leave the queues and the commands of the threads alone.
LEMMA QuietProgress ==
    ASSUME InProgress, UNCHANGED queueVars,
           \A w \in Worker : Busy(w) => Busy(w)' /\ task'[w] = task[w]
    PROVE  InProgress'
  BY DEF InProgress, queueVars

LEMMA EnqueueProgress ==
    ASSUME IInv, InProgress, NEW c \in Command, Enqueue(c), UNCHANGED workerVars
    PROVE  InProgress'
  <1>1. /\ keys' = keys \cup {c.instance}
        /\ submitted' = IF c.instance \in keys THEN submitted ELSE Append(submitted, c)
        /\ UNCHANGED <<pc, task>>
    BY DEF Enqueue, Put, Submit, workerVars
  <1>2. /\ submitted \in Seq(Command)
        /\ LET n == Len(submitted) + 1
           IN  /\ DOMAIN Append(submitted, c) = DOMAIN submitted \cup {n}
               /\ Append(submitted, c)[n] = c
               /\ \A k \in DOMAIN submitted : Append(submitted, c)[k] = submitted[k]
    BY AppendFacts DEF IInv, TypeOK
  <1> QED
    BY <1>1, <1>2 DEF InProgress, Busy

LEMMA TakeProgress ==
    ASSUME IInv, InProgress, NEW w \in Worker, Take(w)
    PROVE  InProgress'
  <1>1. /\ submitted \in Seq(Command) /\ submitted # <<>>
        /\ submitted' = Tail(submitted) /\ keys' = keys
        /\ pc[w] = "idle"
    BY DEF Take, Goto, IInv, TypeOK
  <1>2. /\ Busy(w)' /\ task'[w] = submitted[1]
        /\ \A v \in Worker : Busy(v) => Busy(v)' /\ task'[v] = task[v]
    BY <1>1, TailFacts DEF Take, Goto, Hand, Busy, IInv, TypeOK
  <1>3. \A k \in DOMAIN submitted :
            \/ k = 1
            \/ k - 1 \in DOMAIN submitted' /\ submitted'[k - 1] = submitted[k]
    BY <1>1
  <1> SUFFICES ASSUME NEW i \in keys
               PROVE  \/ \E v \in Worker : Busy(v)' /\ task'[v].instance = i
                      \/ \E k \in DOMAIN submitted' : submitted'[k].instance = i
    BY <1>1 DEF InProgress
  <1>4. CASE \E v \in Worker : Busy(v) /\ task[v].instance = i
    BY <1>2, <1>4
  <1>5. ASSUME NEW k \in DOMAIN submitted, submitted[k].instance = i
        PROVE  \/ Busy(w)' /\ task'[w].instance = i
               \/ \E l \in DOMAIN submitted' : submitted'[l].instance = i
    BY <1>2, <1>3, <1>5
  <1> QED
    BY <1>4, <1>5 DEF InProgress

LEMMA ConcludeProgress ==
    ASSUME IInv, InProgress, NEW w \in Worker, NEW from \in {"returned", "threw"},
           NEW final \in CommandState, Conclude(w, from, final)
    PROVE  InProgress'
  <1> DEFINE i == task[w].instance
             rest == WithoutFirst(actions[i])
  <1>1. /\ Busy(w) /\ task[w] \in Command /\ i \in Instance
        /\ HandleNextActionForInstance(i)
        /\ \A v \in Worker : v # w /\ Busy(v) => Busy(v)' /\ task'[v] = task[v]
    BY CommandFields DEF Conclude, Goto, IInv, TypeOK, Busy
  <1>2. /\ i \in keys
        /\ actions[i] \in Seq(Command) /\ actions[i] # <<>>
        /\ rest = Tail(actions[i])
    BY <1>1 DEF IInv, TypeOK, Structure, PoolInv, QueuesInv, WithoutFirst
  <1>3. /\ keys' = IF rest = <<>> THEN keys \ {i} ELSE keys
        /\ submitted' = IF rest = <<>> THEN submitted ELSE Append(submitted, Head(rest))
    BY <1>1, <1>2 DEF HandleNextActionForInstance, RunFirst
  <1>4. rest # <<>> => Head(rest) \in Command /\ Head(rest).instance = i
    BY <1>1, <1>2, TailFacts DEF IInv, Structure, QueuesInv, TypeOK
  <1> HIDE DEF rest
  <1>5. CASE rest = <<>>
    BY <1>5, <1>1, <1>3 DEF InProgress
  <1>6. CASE rest # <<>>
    <2> DEFINE n == Len(submitted) + 1
    <2>1. /\ DOMAIN submitted' = DOMAIN submitted \cup {n}
          /\ submitted'[n] = Head(rest)
          /\ \A k \in DOMAIN submitted : submitted'[k] = submitted[k]
      BY <1>3, <1>4, <1>6, AppendFacts DEF IInv, TypeOK
    <2> HIDE DEF n
    <2> QED
      BY <2>1, <1>1, <1>3, <1>4, <1>6 DEF InProgress
  <1> QED
    BY <1>5, <1>6

LEMMA NextProgress == IInv /\ InProgress /\ [Next]_vars => InProgress'
  <1> SUFFICES ASSUME IInv, InProgress, [Next]_vars
               PROVE  InProgress'
    OBVIOUS
  <1> USE DEF queueVars, workerVars
  <1>1. ASSUME NEW c \in Command, CreateCommand(c) \/ CreateDelete(c)
        PROVE  InProgress'
    BY <1>1, QuietProgress DEF CreateCommand, CreateDelete, Busy
  <1>2. ASSUME NEW c \in Command, ExecuteSystem(c) PROVE InProgress'
    BY <1>2, EnqueueProgress DEF ExecuteSystem
  <1>3. ASSUME NEW c \in Command, Cancel(c) PROVE InProgress'
    BY <1>3, CancelKeepsQueue, QuietProgress DEF Cancel, IInv, Structure, Busy
  <1>4. CASE LoadPending
    BY <1>4, QuietProgress DEF LoadPending, Busy
  <1>5. ASSUME NEW j \in Caller, NEW c \in Command, Execute(j, c) PROVE InProgress'
    <2>1. CASE Enqueue(c)
      BY <1>5, <2>1, EnqueueProgress DEF Execute
    <2>2. CASE Merge(c)
      BY <1>5, <2>2, QuietProgress DEF Execute, Merge, Busy
    <2> QED
      BY <1>5, <2>1, <2>2 DEF Execute
  <1>6. ASSUME NEW j \in Caller, Commit(j) PROVE InProgress'
    BY <1>6, QuietProgress DEF Commit, Busy
  <1>7. ASSUME NEW w \in Worker, Take(w) PROVE InProgress'
    BY <1>7, TakeProgress
  <1>8. ASSUME NEW w \in Worker, OnActionStart(w) \/ RunAction(w) PROVE InProgress'
    BY <1>8, QuietProgress DEF OnActionStart, RunAction, Goto, Busy, IInv, TypeOK
  <1>9. ASSUME NEW w \in Worker, OnActionTerminated(w) \/ OnActionFailed(w)
        PROVE  InProgress'
    BY <1>9, ConcludeProgress DEF OnActionTerminated, OnActionFailed, CommandState
  <1>10. CASE Restart
    BY <1>10 DEF Restart, InProgress
  <1>11. CASE UNCHANGED vars
    BY <1>11, QuietProgress DEF vars, Busy
  <1> QED
    BY <1>1, <1>2, <1>3, <1>4, <1>5, <1>6, <1>7, <1>8, <1>9, <1>10, <1>11
       DEF Next, WorkerStep

\* As long as no save is refused, the pool holds exactly one command of each
\* instance that has a queue, the head of that queue: no wake-up is lost.
THEOREM NoLostWakeUp == Spec => []HeadIsDispatched
  <1>1. Init => InProgress
    BY DEF Init, InProgress
  <1>2. ASSUME IInv, InProgress
        PROVE  HeadIsDispatched
    <2> SUFFICES ASSUME NEW i \in Instance
                 PROVE  LET d == Dispatched(i)
                        IN  IF i \in keys
                            THEN \/ \E w \in d.threads :
                                       /\ d.threads = {w} /\ d.places = {}
                                       /\ actions[i] # <<>>
                                       /\ task[w] = Head(actions[i])
                                 \/ \E k \in d.places :
                                       /\ d.places = {k} /\ d.threads = {}
                                       /\ actions[i] # <<>>
                                       /\ submitted[k] = Head(actions[i])
                            ELSE d.threads = {} /\ d.places = {} /\ actions[i] = <<>>
      BY DEF HeadIsDispatched
    <2> DEFINE threads == {w \in Worker : pc[w] # "idle" /\ task[w].instance = i}
               places  == {k \in DOMAIN submitted : submitted[k].instance = i}
    <2>1. Dispatched(i).threads = threads /\ Dispatched(i).places = places
      BY DEF Dispatched
    <2>2. CASE i \notin keys
      <3>1. actions[i] = <<>>
        BY <2>2, <1>2 DEF IInv, Structure, QueuesInv
      <3>2. threads = {} /\ places = {}
        BY <3>1, <1>2 DEF IInv, Structure, PoolInv, Busy
      <3> QED
        BY <2>1, <2>2, <3>1, <3>2
    <2>3. ASSUME i \in keys, NEW w \in Worker, Busy(w), task[w].instance = i
          PROVE  /\ threads = {w} /\ places = {} /\ actions[i] # <<>>
                 /\ task[w] = Head(actions[i])
      BY <2>3, <1>2 DEF IInv, Structure, PoolInv, OncePerInstance, Busy
    <2>4. ASSUME i \in keys, NEW k \in DOMAIN submitted, submitted[k].instance = i
          PROVE  /\ places = {k} /\ threads = {} /\ actions[i] # <<>>
                 /\ submitted[k] = Head(actions[i])
      BY <2>4, <1>2 DEF IInv, Structure, PoolInv, OncePerInstance, Busy
    <2> HIDE DEF threads, places
    <2>5. CASE i \in keys
      BY <2>1, <2>3, <2>4, <2>5, <1>2 DEF InProgress
    <2> QED
      BY <2>2, <2>5
  <1> QED
    BY <1>1, <1>2, NextProgress, SpecInvariance, PTL DEF Spec

------------------------------------------------------------------------------
(* A command of a user is started once *)

User == {c \in Command : c.origin = "user"}

\* The job has loaded the command: it is new.
LoadedInv(c) ==
    /\ c \notin todo["deleteJob"]
    /\ c \in todo["executorJob"] => db[c] # "none" /\ c \notin started /\ ~InQueue(c)

\* A command in a queue that is still PENDING will not be loaded again, because the
\* job that queued it has first to commit.
PendingInv(c) ==
    InQueue(c) =>
        /\ db[c] # "none"
        /\ db[c] = "PENDING" =>
              \E u \in uncommitted : u.caller = "executorJob" /\ u.command = c

\* A command that was started is never PENDING again, and in a queue only as long
\* as it is served.
StartedInv(c) ==
    c \in started =>
        /\ db[c] \notin {"none", "PENDING"}
        /\ InQueue(c) => \E w \in Worker : Serving(w) /\ task[w] = c

SavesInv == \A u \in uncommitted : u.state \in {"QUEUED", "TERMINATED"}

CommandInv(c) == LoadedInv(c) /\ PendingInv(c) /\ StartedInv(c)

OnceInv == SavesInv /\ \A c \in User : CommandInv(c)

\* Steps that touch neither the queues nor what the job has loaded, and that only
\* write states other than PENDING.
LEMMA QuietOnce ==
    ASSUME IInv, OnceInv, NEW c \in User, UNCHANGED <<actions, todo, uncommitted, started>>,
           db'[c] = db[c] \/ db[c] = "none" \/ db'[c] \notin {"none", "PENDING"},
           db'[c] # "none" \/ db[c] = "none",
           \A w \in Worker : Serving(w) => Serving(w)' /\ task'[w] = task[w]
    PROVE  CommandInv(c)'
  <1>1. CommandInv(c) /\ InQueue(c)' = InQueue(c)
    BY DEF OnceInv, InQueue
  <1>2. LoadedInv(c)'
    BY <1>1 DEF CommandInv, LoadedInv
  <1>3. PendingInv(c)'
    BY <1>1 DEF CommandInv, PendingInv
  <1>4. StartedInv(c)'
    BY <1>1 DEF CommandInv, StartedInv
  <1> QED
    BY <1>2, <1>3, <1>4 DEF CommandInv

LEMMA LoadOnce ==
    ASSUME IInv, OnceInv, NEW c \in User, LoadPending
    PROVE  CommandInv(c)'
  <1>1. /\ UNCHANGED <<db, actions, uncommitted, started, pc, task>>
        /\ \A u \in uncommitted : u.caller # "executorJob"
        /\ todo' = [todo EXCEPT !["executorJob"] = Pending]
        /\ todo \in [Caller -> SUBSET Command]
    BY DEF LoadPending, Free, queueVars, workerVars, IInv, TypeOK
  <1>2. todo'["executorJob"] = Pending /\ todo'["deleteJob"] = todo["deleteJob"]
    BY <1>1 DEF Caller
  <1>3. CommandInv(c) /\ InQueue(c)' = InQueue(c)
    BY <1>1 DEF OnceInv, InQueue
  <1>4. c \in Pending => db[c] = "PENDING" /\ c \notin started /\ ~InQueue(c)
    BY <1>1, <1>3 DEF Pending, CommandInv, PendingInv, StartedInv
  <1>5. LoadedInv(c)'
    BY <1>1, <1>2, <1>3, <1>4 DEF CommandInv, LoadedInv
  <1>6. PendingInv(c)' /\ StartedInv(c)'
    BY <1>1, <1>3 DEF CommandInv, PendingInv, StartedInv, Serving
  <1> QED
    BY <1>5, <1>6 DEF CommandInv

\* What is in a queue after a command has been put into one.
LEMMA EnqueueMember ==
    ASSUME IInv, NEW c \in Command, NEW d \in Command, Enqueue(d)
    PROVE  InQueue(c)' => InQueue(c) \/ c = d
  <1>1. /\ actions \in [Instance -> Seq(Command)]
        /\ actions' = [actions EXCEPT ![d.instance] = Append(@, d)]
        /\ c.instance \in Instance /\ d.instance \in Instance
    BY CommandFields DEF Enqueue, Put, IInv, TypeOK
  <1>2. CASE c.instance # d.instance
    BY <1>1, <1>2 DEF InQueue
  <1>3. CASE c.instance = d.instance
    <2> DEFINE q == actions[c.instance]
    <2>1. actions'[c.instance] = Append(q, d) /\ q \in Seq(Command)
      BY <1>1, <1>3
    <2> HIDE DEF q
    <2>2. \A k \in DOMAIN Append(q, d) :
             Append(q, d)[k] = d \/ (k \in DOMAIN q /\ Append(q, d)[k] = q[k])
      BY <2>1, AppendFacts
    <2> QED
      BY <2>1, <2>2 DEF InQueue, q
  <1> QED
    BY <1>2, <1>3

LEMMA SystemOnce ==
    ASSUME IInv, OnceInv, NEW c \in User, NEW d \in Command, ExecuteSystem(d)
    PROVE  CommandInv(c)'
  <1>1. UNCHANGED <<db, todo, uncommitted, started, pc, task>> /\ Enqueue(d) /\ c # d
    BY DEF ExecuteSystem, workerVars, callerVars, User
  <1>2. CommandInv(c) /\ (InQueue(c)' => InQueue(c))
    BY <1>1, EnqueueMember DEF OnceInv, User
  <1> QED
    BY <1>1, <1>2 DEF CommandInv, LoadedInv, PendingInv, StartedInv, Serving

LEMMA ExecuteOnce ==
    ASSUME IInv, OnceInv, NEW c \in User, NEW j \in Caller, NEW d \in Command, Execute(j, d)
    PROVE  CommandInv(c)'
  <1>1. /\ UNCHANGED <<db, started, pc, task>>
        /\ d \in todo[j] /\ todo' = [todo EXCEPT ![j] = todo[j] \ {d}]
        /\ todo \in [Caller -> SUBSET Command]
        /\ \A u \in uncommitted : u.caller # j
    BY DEF Execute, Turn, workerVars, IInv, TypeOK
  <1>2. \A i \in Caller : todo'[i] \subseteq todo[i]
    BY <1>1
  <1>3. d \notin todo'[j]
    BY <1>1
  <1>4. PICK s \in {"QUEUED", "TERMINATED"} :
           /\ uncommitted' = IF db[d] = s THEN uncommitted
                             ELSE uncommitted \cup {[caller |-> j, command |-> d, state |-> s]}
           /\ InQueue(c)' => InQueue(c) \/ c = d
    <2>1. ASSUME Enqueue(d), SaveInTransaction(j, d, "QUEUED")
          PROVE  InQueue(c)' => InQueue(c) \/ c = d
      BY <2>1, EnqueueMember DEF User
    <2>2. ASSUME Merge(d) PROVE InQueue(c)' = InQueue(c)
      BY <2>2 DEF Merge, queueVars, InQueue
    <2> QED
      BY <2>1, <2>2 DEF Execute, SaveInTransaction
  <1>6. CommandInv(c)
    BY DEF OnceInv
  <1>7. c = d => /\ j = "executorJob" /\ db[c] # "none" /\ c \notin started
                 /\ c \notin todo'["executorJob"]
    BY <1>1, <1>3, <1>6 DEF CommandInv, LoadedInv, Caller
  <1>8. c = d /\ db[c] = "PENDING" =>
           \E u \in uncommitted' : u.caller = "executorJob" /\ u.command = c
    <2> DEFINE u == [caller |-> j, command |-> d, state |-> s]
    <2>1. db[d] = "PENDING" => u \in uncommitted'
      BY <1>4
    <2>2. u.caller = j /\ u.command = d
      OBVIOUS
    <2> QED
      BY <1>7, <2>1, <2>2
  <1>9. uncommitted \subseteq uncommitted'
    BY <1>4
  <1>10. LoadedInv(c)'
    <2>1. c \notin todo'["deleteJob"]
      BY <1>2, <1>6 DEF CommandInv, LoadedInv, Caller
    <2>2. c \in todo'["executorJob"] =>
             c # d /\ c \in todo["executorJob"] /\ ~InQueue(c)'
      BY <1>2, <1>4, <1>6, <1>7 DEF CommandInv, LoadedInv, Caller
    <2> QED
      BY <1>1, <1>6, <2>1, <2>2 DEF CommandInv, LoadedInv
  <1>11. PendingInv(c)'
    <2>1. CASE c = d
      BY <1>1, <1>7, <1>8, <2>1 DEF PendingInv
    <2>2. CASE c # d
      BY <1>1, <1>4, <1>6, <1>9, <2>2 DEF CommandInv, PendingInv
    <2> QED
      BY <2>1, <2>2
  <1>12. StartedInv(c)'
    BY <1>1, <1>4, <1>6, <1>7 DEF CommandInv, StartedInv, Serving
  <1> QED
    BY <1>10, <1>11, <1>12 DEF CommandInv

LEMMA CommitOnce ==
    ASSUME IInv, OnceInv, NEW c \in User, NEW j \in Caller, Commit(j)
    PROVE  CommandInv(c)'
  <1>1. PICK u \in uncommitted :
           /\ db' = [db EXCEPT ![u.command] = u.state]
           /\ uncommitted' = uncommitted \ {u}
           /\ UNCHANGED <<actions, todo, started, pc, task>>
    BY DEF Commit, queueVars, workerVars
  <1>2. u.state \in {"QUEUED", "TERMINATED"} /\ db \in [Command -> CommandState \cup {"none"}]
    BY DEF OnceInv, SavesInv, IInv, TypeOK
  <1>4. CommandInv(c) /\ InQueue(c)' = InQueue(c)
    BY <1>1 DEF OnceInv, InQueue
  <1>5. CASE u.command = c
    <2>1. db'[c] \notin {"none", "PENDING"}
      BY <1>1, <1>2, <1>5 DEF User
    <2> QED
      BY <1>1, <1>4, <2>1 DEF CommandInv, LoadedInv, PendingInv, StartedInv, Serving
  <1>6. CASE u.command # c
    <2>1. db'[c] = db[c]
      BY <1>1, <1>2, <1>6 DEF User
    <2>2. \A v \in uncommitted : v.command = c => v \in uncommitted'
      BY <1>1, <1>6
    <2> QED
      BY <1>1, <1>4, <2>1, <2>2 DEF CommandInv, LoadedInv, PendingInv, StartedInv, Serving
  <1> QED
    BY <1>5, <1>6

LEMMA StartOnce ==
    ASSUME IInv, OnceInv, NEW c \in User, NEW w \in Worker, OnActionStart(w)
    PROVE  CommandInv(c)'
  <1>1. /\ pc[w] = "start" /\ pc' = [pc EXCEPT ![w] = "run"]
        /\ UNCHANGED <<actions, task, todo, uncommitted>>
        /\ task[w] \in Command /\ pc \in [Worker -> {"idle", "start", "run", "returned", "threw"}]
        /\ started' = IF HasRow(task[w]) THEN started \cup {task[w]} ELSE started
        /\ db' = IF HasRow(task[w]) THEN [db EXCEPT ![task[w]] = "RUNNING"] ELSE db
        /\ db \in [Command -> CommandState \cup {"none"}]
    BY DEF OnActionStart, Goto, Save, queueVars, callerVars, IInv, TypeOK
  <1>2. CommandInv(c) /\ InQueue(c)' = InQueue(c)
    BY <1>1 DEF OnceInv, InQueue
  <1>3. Serving(w)' /\ \A v \in Worker : Serving(v) => Serving(v)'
    BY <1>1 DEF Serving
  <1>4. CASE c = task[w]
    <2>1. /\ actions[c.instance] # <<>> /\ c = Head(actions[c.instance])
          /\ actions[c.instance] \in Seq(Command)
      BY <1>1, <1>4, CommandFields DEF IInv, TypeOK, Structure, PoolInv, Busy
    <2>2. InQueue(c)
      BY <2>1, TailFacts DEF InQueue
    <2>3. c \notin todo["executorJob"] /\ c \notin todo["deleteJob"]
      BY <1>2, <2>2 DEF CommandInv, LoadedInv
    <2>4. db'[c] = "RUNNING"
      BY <1>1, <1>4 DEF HasRow, User
    <2> QED
      BY <1>1, <1>3, <1>4, <2>3, <2>4 DEF CommandInv, LoadedInv, PendingInv, StartedInv
  <1>5. CASE c # task[w]
    <2>1. db'[c] = db[c] /\ (c \in started' <=> c \in started)
      BY <1>1, <1>5 DEF User
    <2> QED
      BY <1>1, <1>2, <1>3, <2>1 DEF CommandInv, LoadedInv, PendingInv, StartedInv
  <1> QED
    BY <1>4, <1>5

\* A command that ends is in no queue any more: no other entry of its queue has its
\* type.
LEMMA ConcludeMember ==
    ASSUME IInv, NEW w \in Worker, NEW from \in {"returned", "threw"},
           NEW final \in CommandState, Conclude(w, from, final), NEW c \in Command
    PROVE  InQueue(c)' => InQueue(c) /\ c # task[w]
  <1> DEFINE i == task[w].instance
             q == actions[i]
  <1>1. /\ Busy(w) /\ task[w] \in Command /\ i \in Instance
        /\ HandleNextActionForInstance(i)
    BY CommandFields DEF Conclude, Goto, IInv, TypeOK, Busy
  <1>2. q \in Seq(Command) /\ q # <<>> /\ task[w] = Head(q) /\ i \in keys
    BY <1>1 DEF IInv, TypeOK, Structure, PoolInv, QueuesInv
  <1>3. actions' = [actions EXCEPT ![i] = Tail(q)] /\ actions \in [Instance -> Seq(Command)]
    BY <1>1, <1>2 DEF HandleNextActionForInstance, WithoutFirst, IInv, TypeOK
  <1>4. \A k, l \in DOMAIN q : q[k].actionType = q[l].actionType => k = l
    BY <1>1 DEF IInv, Structure, OnePerType
  <1>5. /\ Head(q) = q[1] /\ 1 \in DOMAIN q
        /\ \A k \in DOMAIN Tail(q) : k + 1 \in DOMAIN q /\ k + 1 # 1 /\ Tail(q)[k] = q[k + 1]
    BY <1>2, TailFacts
  <1> HIDE DEF q
  <1>6. \A k \in DOMAIN Tail(q) : Tail(q)[k] # task[w]
    BY <1>2, <1>4, <1>5
  <1>7. CASE c.instance = i
    BY <1>1, <1>3, <1>5, <1>6, <1>7 DEF InQueue, q
  <1>8. CASE c.instance # i
    BY <1>3, <1>8, CommandFields DEF InQueue
  <1> QED
    BY <1>7, <1>8

LEMMA ConcludeOnce ==
    ASSUME IInv, OnceInv, NEW c \in User, NEW w \in Worker, NEW from \in {"returned", "threw"},
           NEW final \in {"TERMINATED", "FAILED"}, Conclude(w, from, final)
    PROVE  CommandInv(c)'
  <1>1. /\ UNCHANGED <<todo, uncommitted, started>>
        /\ pc' = [pc EXCEPT ![w] = "idle"] /\ task' = [task EXCEPT ![w] = <<>>]
        /\ pc[w] = from /\ task[w] \in Command
        /\ db \in [Command -> CommandState \cup {"none"}]
    BY DEF Conclude, Goto, callerVars, IInv, TypeOK
  <1>2. InQueue(c)' => InQueue(c) /\ c # task[w]
    BY ConcludeMember DEF CommandState, User
  <1>3. PICK s \in {"TERMINATED", "FAILED", "CANCELLED"} : Save(task[w], s)
    <2> DEFINE s == IF HasRow(task[w]) /\ db[task[w]] = "CANCELLED" THEN "CANCELLED" ELSE final
    <2>1. Save(task[w], s)
      BY DEF Conclude
    <2>2. s \in {"TERMINATED", "FAILED", "CANCELLED"}
      OBVIOUS
    <2> QED
      BY <2>1, <2>2
  <1>4. db'[c] = db[c] \/ (c = task[w] /\ db'[c] \notin {"none", "PENDING"})
    BY <1>1, <1>3 DEF Save, User
  <1>5. \A v \in Worker : v # w /\ Serving(v) => Serving(v)' /\ task'[v] = task[v]
    BY <1>1 DEF Serving, IInv, TypeOK
  <1>6. CommandInv(c)
    BY DEF OnceInv
  <1>7. LoadedInv(c)'
    BY <1>1, <1>2, <1>4, <1>6 DEF CommandInv, LoadedInv
  <1>8. PendingInv(c)'
    BY <1>1, <1>2, <1>4, <1>6 DEF CommandInv, PendingInv
  <1>9. StartedInv(c)'
    BY <1>1, <1>2, <1>4, <1>5, <1>6 DEF CommandInv, StartedInv
  <1> QED
    BY <1>7, <1>8, <1>9 DEF CommandInv

LEMMA RestartOnce ==
    ASSUME IInv, OnceInv, NEW c \in User, Restart
    PROVE  CommandInv(c)'
  <1>1. /\ UNCHANGED <<db, started>> /\ uncommitted' = {}
        /\ todo' = [k \in Caller |-> {}] /\ actions' = [i \in Instance |-> <<>>]
    BY DEF Restart
  <1>2. ~InQueue(c)'
    BY <1>1, CommandFields DEF InQueue, User
  <1> QED
    BY <1>1, <1>2 DEF OnceInv, CommandInv, LoadedInv, PendingInv, StartedInv, Caller

\* execute saves QUEUED or TERMINATED, and nothing else is committed later.
LEMMA NextSaves == SavesInv /\ [Next]_vars => SavesInv'
  <1> SUFFICES ASSUME SavesInv, [Next]_vars PROVE SavesInv'
    OBVIOUS
  <1>1. ASSUME NEW j \in Caller, NEW c \in Command, Execute(j, c) PROVE SavesInv'
    <2>1. PICK s \in {"QUEUED", "TERMINATED"} : SaveInTransaction(j, c, s)
      BY <1>1 DEF Execute
    <2> QED
      BY <2>1 DEF SaveInTransaction, SavesInv
  <1>2. uncommitted' \subseteq uncommitted => SavesInv'
    BY DEF SavesInv
  <1>3. ASSUME NEW c \in Command, CreateCommand(c) \/ CreateDelete(c) \/ ExecuteSystem(c) \/ Cancel(c)
        PROVE  SavesInv'
    BY <1>2, <1>3 DEF CreateCommand, CreateDelete, ExecuteSystem, Cancel, callerVars
  <1>4. ASSUME NEW j \in Caller, Commit(j) PROVE SavesInv'
    BY <1>2, <1>4 DEF Commit
  <1>5. ASSUME NEW w \in Worker, Take(w) \/ WorkerStep(w) PROVE SavesInv'
    BY <1>2, <1>5 DEF Take, WorkerStep, OnActionStart, RunAction, OnActionTerminated,
                      OnActionFailed, Conclude, callerVars
  <1>6. LoadPending \/ Restart \/ UNCHANGED vars => SavesInv'
    BY <1>2 DEF LoadPending, Restart, vars, callerVars
  <1> QED
    BY <1>1, <1>3, <1>4, <1>5, <1>6 DEF Next

LEMMA NextOnce == IInv /\ OnceInv /\ [Next]_vars => OnceInv'
  <1> SUFFICES ASSUME IInv, OnceInv, [Next]_vars, NEW c \in User
               PROVE  CommandInv(c)'
    BY NextSaves DEF OnceInv
  <1> USE DEF queueVars, workerVars, callerVars
  <1>0. /\ db \in [Command -> CommandState \cup {"none"}] /\ c \in Command
        /\ pc \in [Worker -> {"idle", "start", "run", "returned", "threw"}]
    BY DEF IInv, TypeOK, User
  <1>1. ASSUME NEW d \in Command, CreateCommand(d) PROVE CommandInv(c)'
    BY <1>0, <1>1, QuietOnce DEF CreateCommand, Serving
  <1>2. ASSUME NEW d \in Command, CreateDelete(d) PROVE CommandInv(c)'
    <2>1. /\ UNCHANGED <<actions, uncommitted, started, pc, task>>
          /\ db' = [db EXCEPT ![d] = "PENDING"] /\ d # c
          /\ todo' = [todo EXCEPT !["deleteJob"] = {d}] /\ todo \in [Caller -> SUBSET Command]
      BY <1>2 DEF CreateDelete, User, IInv, TypeOK
    <2>2. /\ db'[c] = db[c] /\ todo'["executorJob"] = todo["executorJob"]
          /\ c \notin todo'["deleteJob"]
      BY <1>0, <2>1 DEF Caller
    <2>3. CommandInv(c) /\ InQueue(c)' = InQueue(c)
      BY <2>1 DEF OnceInv, InQueue
    <2> QED
      BY <1>0, <2>1, <2>2, <2>3 DEF CommandInv, LoadedInv, PendingInv, StartedInv, Serving
  <1>3. ASSUME NEW d \in Command, ExecuteSystem(d) PROVE CommandInv(c)'
    BY <1>0, <1>3, SystemOnce DEF ExecuteSystem
  <1>4. ASSUME NEW d \in Command, Cancel(d) PROVE CommandInv(c)'
    <2>1. UNCHANGED actions
      BY <1>4, CancelKeepsQueue DEF IInv, Structure
    <2>2. UNCHANGED <<todo, uncommitted, started, pc, task>> /\ db' = [db EXCEPT ![d] = "CANCELLED"]
      BY <1>4 DEF Cancel
    <2> QED
      BY <1>0, <2>1, <2>2, QuietOnce DEF Serving
  <1>5. CASE LoadPending
    BY <1>0, <1>5, LoadOnce DEF LoadPending
  <1>6. ASSUME NEW j \in Caller, NEW d \in Command, Execute(j, d)
        PROVE  CommandInv(c)'
    BY <1>6, ExecuteOnce
  <1>7. ASSUME NEW j \in Caller, Commit(j) PROVE CommandInv(c)'
    BY <1>7, CommitOnce
  <1>8. ASSUME NEW w \in Worker, Take(w) \/ RunAction(w) PROVE CommandInv(c)'
    <2>1. UNCHANGED <<db, actions, todo, uncommitted, started>>
      BY <1>8 DEF Take, RunAction
    <2>2. \A v \in Worker : Serving(v) => Serving(v)' /\ task'[v] = task[v]
      BY <1>0, <1>8 DEF Take, RunAction, Goto, Hand, Serving, IInv, TypeOK
    <2> QED
      BY <1>0, <2>1, <2>2, QuietOnce
  <1>9. ASSUME NEW w \in Worker, OnActionStart(w) PROVE CommandInv(c)'
    BY <1>0, <1>9, StartOnce DEF OnActionStart
  <1>10. ASSUME NEW w \in Worker, OnActionTerminated(w) \/ OnActionFailed(w)
         PROVE  CommandInv(c)'
    <2>1. PICK from \in {"returned", "threw"}, final \in {"TERMINATED", "FAILED"} :
             Conclude(w, from, final)
      BY <1>10 DEF OnActionTerminated, OnActionFailed
    <2> QED
      BY <2>1, ConcludeOnce
  <1>11. CASE Restart
    BY <1>11, RestartOnce
  <1>12. CASE UNCHANGED vars
    BY <1>0, <1>12, QuietOnce DEF vars, Serving
  <1> QED
    BY <1>1, <1>2, <1>3, <1>4, <1>5, <1>6, <1>7, <1>8, <1>9, <1>10, <1>11, <1>12
       DEF Next, WorkerStep

\* A command created by a request is started at most once, whatever restarts,
\* cancellations and late commits there are.
THEOREM NeverStartedAgain == Spec => []StartedOnce
  <1>1. Init => OnceInv
    BY CommandFields DEF Init, OnceInv, SavesInv, CommandInv, LoadedInv, PendingInv, StartedInv,
       InQueue, User, Caller
  <1>2. ASSUME IInv, OnceInv PROVE StartedOnce
    <2> SUFFICES ASSUME NEW w \in Worker, pc[w] = "start", task[w].origin = "user",
                        task[w] \in started
                 PROVE  FALSE
      BY DEF StartedOnce
    <2> DEFINE c == task[w]
    <2>1. c \in User /\ Busy(w) /\ c.instance \in Instance
      BY <1>2, CommandFields DEF User, Busy, IInv, TypeOK
    <2>2. actions[c.instance] \in Seq(Command) /\ actions[c.instance] # <<>>
          /\ c = Head(actions[c.instance])
      BY <1>2, <2>1 DEF IInv, TypeOK, Structure, PoolInv
    <2>3. InQueue(c)
      BY <2>2, TailFacts DEF InQueue
    <2>4. PICK v \in Worker : Serving(v) /\ task[v] = c
      BY <1>2, <2>1, <2>3 DEF OnceInv, CommandInv, StartedInv
    <2>5. v = w
      BY <1>2, <2>1, <2>4 DEF IInv, Structure, OncePerInstance, Serving, Busy
    <2> QED
      BY <2>4, <2>5 DEF Serving
  <1> QED
    BY <1>1, <1>2, NextOnce, SpecInvariance, PTL DEF Spec

------------------------------------------------------------------------------
(* The manager implements one serial queue for each instance *)

Served == {task[w].instance : w \in {v \in Worker : Serving(v)}}

\* Steps that the abstract queues do not see.
LEMMA Unseen ==
    ASSUME UNCHANGED actions,
           \A w \in Worker : Serving(w)' <=> Serving(w),
           \A w \in Worker : Serving(w) => task'[w] = task[w]
    PROVE  UNCHANGED AbstractQueue!abstractVars
  <1>1. Served' = Served
    BY DEF Served
  <1> QED
    BY <1>1 DEF AbstractQueue!abstractVars, Served

LEMMA EnqueueIsAccept ==
    ASSUME NEW c \in Command, Enqueue(c), UNCHANGED workerVars
    PROVE  AbstractQueue!Accept(c)
  <1>1. Served' = Served
    BY DEF Served, Serving, workerVars
  <1> QED
    BY <1>1 DEF Enqueue, Put, SameType, AbstractQueue!Accept, Served

LEMMA StartIsBegin ==
    ASSUME IInv, NEW w \in Worker, OnActionStart(w)
    PROVE  AbstractQueue!Begin(task[w].instance)
  <1>1. /\ pc[w] = "start" /\ pc' = [pc EXCEPT ![w] = "run"]
        /\ UNCHANGED <<actions, task>>
        /\ Busy(w) /\ ~Serving(w)
    BY DEF OnActionStart, Goto, queueVars, Busy, Serving
  <1>2. \A v \in Worker : Serving(v)' <=> Serving(v) \/ v = w
    BY <1>1 DEF Serving, IInv, TypeOK
  <1>3. task[w].instance \notin Served
    BY <1>1 DEF Served, IInv, Structure, OncePerInstance, Serving, Busy
  <1>4. Served' = Served \cup {task[w].instance}
    BY <1>1, <1>2 DEF Served
  <1>5. actions[task[w].instance] # <<>>
    BY <1>1 DEF IInv, Structure, PoolInv
  <1> QED
    BY <1>1, <1>3, <1>4, <1>5 DEF AbstractQueue!Begin, Served

LEMMA ConcludeIsEnd ==
    ASSUME IInv, NEW w \in Worker, NEW from \in {"returned", "threw"},
           NEW final \in CommandState, Conclude(w, from, final)
    PROVE  AbstractQueue!End(task[w].instance)
  <1> DEFINE i == task[w].instance
  <1>1. /\ pc[w] = from /\ pc' = [pc EXCEPT ![w] = "idle"]
        /\ task' = [task EXCEPT ![w] = <<>>]
        /\ HandleNextActionForInstance(i)
        /\ Busy(w) /\ Serving(w)
    BY DEF Conclude, Goto, Busy, Serving
  <1>2. \A v \in Worker : /\ Serving(v)' <=> Serving(v) /\ v # w
                          /\ v # w => task'[v] = task[v]
    BY <1>1 DEF Serving, IInv, TypeOK
  <1>3. \A v \in Worker : Serving(v) /\ v # w => task[v].instance # i
    BY <1>1 DEF IInv, Structure, OncePerInstance, Serving, Busy
  <1>4. i \in Served /\ Served' = Served \ {i}
    BY <1>1, <1>2, <1>3 DEF Served
  <1>5. i \in keys /\ actions[i] # <<>>
    BY <1>1, CommandFields DEF IInv, TypeOK, Structure, QueuesInv, PoolInv, Busy
  <1>6. actions' = [actions EXCEPT ![i] = Tail(@)]
    BY <1>1, <1>5 DEF HandleNextActionForInstance, WithoutFirst
  <1> QED
    BY <1>4, <1>6 DEF AbstractQueue!End, Served

LEMMA RestartIsForget ==
    ASSUME Restart PROVE AbstractQueue!Forget
  <1>1. Served' = {}
    BY DEF Restart, Served, Serving
  <1> QED
    BY <1>1 DEF Restart, AbstractQueue!Forget, Served

\* Every behaviour of the manager, its pool and its jobs is a behaviour of one
\* serial queue for each instance.
THEOREM Refinement == Spec => ImplementsQueue
  <1>1. Init => AbstractQueue!Init
    <2> SUFFICES ASSUME Init PROVE AbstractQueue!Init
      OBVIOUS
    <2>1. Served = {}
      BY DEF Init, Served, Serving
    <2> QED
      BY <2>1 DEF Init, AbstractQueue!Init, Served
  <1>2. IInv /\ [Next]_vars => [AbstractQueue!Next]_AbstractQueue!abstractVars
    <2> SUFFICES ASSUME IInv, [Next]_vars
                 PROVE  AbstractQueue!Next \/ UNCHANGED AbstractQueue!abstractVars
      OBVIOUS
    <2> USE DEF queueVars, workerVars
    <2>1. ASSUME NEW c \in Command, CreateCommand(c) \/ CreateDelete(c)
          PROVE  UNCHANGED AbstractQueue!abstractVars
      BY <2>1, Unseen DEF CreateCommand, CreateDelete, Serving
    <2>2. ASSUME NEW c \in Command, ExecuteSystem(c)
          PROVE  AbstractQueue!Accept(c)
      BY <2>2, EnqueueIsAccept DEF ExecuteSystem
    <2>3. ASSUME NEW c \in Command, Cancel(c)
          PROVE  UNCHANGED AbstractQueue!abstractVars
      BY <2>3, Unseen, CancelKeepsQueue DEF Cancel, Serving, IInv, Structure
    <2>4. CASE LoadPending
      BY <2>4, Unseen DEF LoadPending, Serving
    <2>5. ASSUME NEW j \in Caller, NEW c \in Command, Execute(j, c)
          PROVE  AbstractQueue!Accept(c) \/ UNCHANGED AbstractQueue!abstractVars
      <3>1. CASE Enqueue(c)
        BY <2>5, <3>1, EnqueueIsAccept DEF Execute
      <3>2. CASE Merge(c)
        BY <2>5, <3>2, Unseen DEF Execute, Merge, Serving
      <3> QED
        BY <2>5, <3>1, <3>2 DEF Execute
    <2>6. ASSUME NEW j \in Caller, Commit(j)
          PROVE  UNCHANGED AbstractQueue!abstractVars
      BY <2>6, Unseen DEF Commit, Serving
    <2>7. ASSUME NEW w \in Worker, Take(w)
          PROVE  UNCHANGED AbstractQueue!abstractVars
      <3>1. /\ \A v \in Worker : Serving(v)' <=> Serving(v)
            /\ \A v \in Worker : Serving(v) => task'[v] = task[v]
        BY <2>7 DEF Take, Goto, Hand, Serving, IInv, TypeOK
      <3> QED
        BY <2>7, <3>1, Unseen DEF Take
    <2>8. ASSUME NEW w \in Worker, OnActionStart(w)
          PROVE  AbstractQueue!Next
      <3>1. task[w].instance \in Instance
        BY <2>8, CommandFields DEF OnActionStart, Goto, IInv, TypeOK
      <3>2. AbstractQueue!Begin(task[w].instance)
        BY <2>8, StartIsBegin
      <3> QED
        BY <3>1, <3>2 DEF AbstractQueue!Next, AbstractQueue!Begin
    <2>9. ASSUME NEW w \in Worker, RunAction(w)
          PROVE  UNCHANGED AbstractQueue!abstractVars
      <3>1. \A v \in Worker : Serving(v)' <=> Serving(v)
        BY <2>9 DEF RunAction, Goto, Serving, IInv, TypeOK
      <3> QED
        BY <2>9, <3>1, Unseen DEF RunAction
    <2>10. ASSUME NEW w \in Worker, NEW from \in {"returned", "threw"},
                  NEW final \in CommandState, Conclude(w, from, final)
           PROVE  AbstractQueue!Next
      <3>1. task[w].instance \in Instance
        BY <2>10, CommandFields DEF Conclude, Goto, IInv, TypeOK
      <3>2. AbstractQueue!End(task[w].instance)
        BY <2>10, ConcludeIsEnd
      <3> QED
        BY <3>1, <3>2 DEF AbstractQueue!Next, AbstractQueue!End
    <2>11. CASE Restart
      BY <2>11, RestartIsForget DEF AbstractQueue!Next
    <2>12. CASE UNCHANGED vars
      BY <2>12, Unseen DEF vars, Serving
    <2> QED
      BY <2>1, <2>2, <2>3, <2>4, <2>5, <2>6, <2>7, <2>8, <2>9, <2>10, <2>11, <2>12
         DEF Next, WorkerStep, OnActionTerminated, OnActionFailed, CommandState,
             AbstractQueue!Next
  <1> QED
    BY <1>1, <1>2, SpecInvariance, PTL DEF Spec, ImplementsQueue, AbstractQueue!Spec

------------------------------------------------------------------------------
(* With refused saves: an instance may get stuck, and stays stuck *)

\* Neither a thread nor the work queue of the pool holds a command of i.
Unheld(i) ==
    /\ \A w \in Worker : Busy(w) => task[w].instance # i
    /\ \A k \in DOMAIN submitted : submitted[k].instance # i

Stuck == {i \in Instance : actions[i] # <<>> /\ Unheld(i)}

\* What the refinement substitutes for the stuck instances is Stuck.
LEMMA StuckMapping ==
    /\ {i \in Instance : /\ actions[i] # <<>>
                         /\ Dispatched(i).threads = {}
                         /\ Dispatched(i).places = {}} = Stuck
    /\ {i \in Instance : /\ actions[i] # <<>>
                         /\ Dispatched(i).threads = {}
                         /\ Dispatched(i).places = {}}' = Stuck'
  <1>1. \A i \in Instance :
            /\ Dispatched(i).threads = {}
               <=> \A w \in Worker : Busy(w) => task[w].instance # i
            /\ Dispatched(i).places = {}
               <=> \A k \in DOMAIN submitted : submitted[k].instance # i
    BY DEF Dispatched, Busy
  <1>2. \A i \in Instance :
            /\ Dispatched(i)'.threads = {}
               <=> \A w \in Worker : Busy(w)' => task'[w].instance # i
            /\ Dispatched(i)'.places = {}
               <=> \A k \in DOMAIN submitted' : submitted'[k].instance # i
    BY DEF Dispatched, Busy
  <1> QED
    BY <1>1, <1>2 DEF Stuck, Unheld

\* The pool holds as many commands of each instance as before.
LEMMA KeepsStuck ==
    ASSUME UNCHANGED <<actions, submitted, task>>,
           \A w \in Worker : Busy(w)' <=> Busy(w)
    PROVE  UNCHANGED Stuck
  BY DEF Stuck, Unheld

\* An instance of which the pool holds a command is not stuck.
LEMMA HeldIsNotStuck ==
    ASSUME NEW w \in Worker, Busy(w)
    PROVE  task[w].instance \notin Stuck
  BY DEF Stuck, Unheld

\* A command put behind another one changes nothing for the pool; put into an
\* empty queue and not submitted, it is stuck there.
LEMMA PutSticks ==
    ASSUME IInv, NEW c \in Command, Put(c), UNCHANGED <<submitted, pc, task>>
    PROVE  Stuck' = IF c.instance \in keys THEN Stuck ELSE Stuck \cup {c.instance}
  <1>1. /\ c.instance \in Instance
        /\ c.instance \in keys <=> actions[c.instance] # <<>>
        /\ actions \in [Instance -> Seq(Command)]
    BY CommandFields DEF IInv, TypeOK, Structure, QueuesInv
  <1>2. /\ actions'[c.instance] # <<>>
        /\ \A i \in Instance : i # c.instance => actions'[i] = actions[i]
    BY <1>1, AppendFacts DEF Put
  <1>3. \A i \in Instance : Unheld(i)' <=> Unheld(i)
    BY DEF Unheld, Busy
  <1>4. c.instance \notin keys => Unheld(c.instance)
    BY <1>1 DEF Unheld, IInv, Structure, PoolInv
  <1> QED
    BY <1>1, <1>2, <1>3, <1>4 DEF Stuck

LEMMA EnqueueKeepsStuck ==
    ASSUME IInv, NEW c \in Command, Enqueue(c), UNCHANGED workerVars
    PROVE  UNCHANGED Stuck
  <1>1. Put(c) /\ Submit(c) /\ UNCHANGED <<pc, task>>
    BY DEF Enqueue, workerVars
  <1>2. CASE c.instance \in keys
    BY <1>1, <1>2, PutSticks DEF Submit
  <1>3. CASE c.instance \notin keys
    <2> DEFINE n == Len(submitted) + 1
    <2>1. /\ c.instance \in Instance
          /\ actions \in [Instance -> Seq(Command)]
          /\ submitted \in Seq(Command)
          /\ submitted' = Append(submitted, c)
          /\ actions[c.instance] = <<>>
      BY <1>1, <1>3, CommandFields
         DEF Submit, IInv, TypeOK, Structure, QueuesInv
    <2>2. /\ DOMAIN submitted' = DOMAIN submitted \cup {n}
          /\ submitted'[n] = c
          /\ \A k \in DOMAIN submitted : submitted'[k] = submitted[k]
      BY <2>1, AppendFacts
    <2> HIDE DEF n
    <2>3. \A i \in Instance : i # c.instance =>
              actions'[i] = actions[i] /\ (Unheld(i)' <=> Unheld(i))
      BY <1>1, <2>1, <2>2 DEF Put, Unheld, Busy
    <2>4. ~Unheld(c.instance)'
      BY <2>2 DEF Unheld
    <2> QED
      BY <2>1, <2>3, <2>4 DEF Stuck
  <1> QED
    BY <1>2, <1>3

LEMMA TakeKeepsStuck ==
    ASSUME IInv, NEW w \in Worker, Take(w)
    PROVE  UNCHANGED Stuck
  <1> DEFINE c == Head(submitted)
  <1>1. /\ submitted \in Seq(Command) /\ submitted # <<>>
        /\ submitted' = Tail(submitted)
        /\ pc[w] = "idle" /\ pc' = [pc EXCEPT ![w] = "start"]
        /\ task' = [task EXCEPT ![w] = c]
        /\ UNCHANGED actions
    BY DEF Take, Goto, Hand, IInv, TypeOK
  <1>2. /\ c = submitted[1] /\ 1 \in DOMAIN submitted
        /\ \A k \in DOMAIN submitted' : /\ k + 1 \in DOMAIN submitted
                                        /\ submitted'[k] = submitted[k + 1]
    BY <1>1, TailFacts
  <1>3. \A k \in DOMAIN submitted :
            k = 1 \/ \E l \in DOMAIN submitted' : submitted'[l] = submitted[k]
    <2> SUFFICES ASSUME NEW k \in DOMAIN submitted, k # 1
                 PROVE  k - 1 \in DOMAIN submitted' /\ submitted'[k - 1] = submitted[k]
      OBVIOUS
    <2> QED
      BY <1>1
  <1>4. /\ \A v \in Worker : v # w => task'[v] = task[v] /\ (Busy(v)' <=> Busy(v))
        /\ task'[w] = c /\ Busy(w)' /\ ~Busy(w)
    BY <1>1 DEF IInv, TypeOK, Busy
  <1> HIDE DEF c
  <1>5. ASSUME NEW i \in Instance PROVE Unheld(i)' <=> Unheld(i)
    BY <1>2, <1>3, <1>4 DEF Unheld
  <1> QED
    BY <1>1, <1>5 DEF Stuck

LEMMA ConcludeKeepsStuck ==
    ASSUME IInv, NEW w \in Worker, NEW from \in {"returned", "threw"},
           NEW final \in CommandState, Conclude(w, from, final)
    PROVE  UNCHANGED Stuck
  <1>0. PICK i \in Instance : i = task[w].instance
    BY CommandFields DEF Conclude, Goto, IInv, TypeOK
  <1> DEFINE rest == Tail(actions[i])
  <1>1. /\ pc[w] = from /\ pc' = [pc EXCEPT ![w] = "idle"]
        /\ task' = [task EXCEPT ![w] = <<>>]
        /\ HandleNextActionForInstance(i)
        /\ Busy(w) /\ task[w] \in Command
    BY <1>0 DEF Conclude, Goto, Busy, IInv, TypeOK
  <1>2. /\ i \in Instance /\ i \in keys
        /\ actions \in [Instance -> Seq(Command)] /\ actions[i] # <<>>
    BY <1>0, <1>1 DEF IInv, TypeOK, Structure, QueuesInv, PoolInv
  <1>3. /\ actions' = [actions EXCEPT ![i] = rest]
        /\ submitted' = IF rest = <<>> THEN submitted ELSE Append(submitted, Head(rest))
        /\ submitted \in Seq(Command)
        /\ rest \in Seq(Command)
    BY <1>1, <1>2 DEF HandleNextActionForInstance, WithoutFirst, RunFirst, IInv, TypeOK
  <1>4. \A v \in Worker : v # w => task'[v] = task[v] /\ (Busy(v)' <=> Busy(v))
    BY <1>1 DEF IInv, TypeOK, Busy
  <1>5. ~Busy(w)'
    BY <1>1 DEF IInv, TypeOK, Busy
  <1>6. i \notin Stuck
    BY <1>0, <1>1, HeldIsNotStuck
  <1>7. CASE rest = <<>>
    <2>1. i \notin Stuck'
      BY <1>2, <1>3, <1>7 DEF Stuck
    <2>2. \A j \in Instance : j # i =>
              actions'[j] = actions[j] /\ (Unheld(j)' <=> Unheld(j))
      BY <1>0, <1>2, <1>3, <1>4, <1>5, <1>7 DEF Unheld
    <2> QED
      BY <1>6, <2>1, <2>2 DEF Stuck
  <1>8. CASE rest # <<>>
    <2> DEFINE h == Head(rest)
               n == Len(submitted) + 1
    <2>1. h \in Command /\ h.instance = i
      <3>1. 2 \in DOMAIN actions[i] /\ h = actions[i][2]
        BY <1>2, <1>8, TailFacts
      <3>2. h \in Command
        BY <1>3, <1>8
      <3> QED
        BY <1>2, <3>1, <3>2 DEF IInv, Structure, QueuesInv
    <2>2. submitted' = Append(submitted, h)
      BY <1>3, <1>8
    <2> HIDE DEF h
    <2>3. /\ DOMAIN submitted' = DOMAIN submitted \cup {n}
          /\ submitted'[n] = h
          /\ \A k \in DOMAIN submitted : submitted'[k] = submitted[k]
      BY <1>3, <2>1, <2>2, AppendFacts
    <2> HIDE DEF n
    <2>4. ~Unheld(i)'
      BY <2>1, <2>3 DEF Unheld
    <2>5. \A j \in Instance : j # i =>
              actions'[j] = actions[j] /\ (Unheld(j)' <=> Unheld(j))
      BY <1>0, <1>2, <1>3, <1>4, <1>5, <2>1, <2>3 DEF Unheld
    <2> QED
      BY <1>6, <2>4, <2>5 DEF Stuck
  <1> QED
    BY <1>7, <1>8

\* A thread whose runner ended with an exception leaves the head stuck.
LEMMA LettingGoIsAbandon ==
    ASSUME IInv, NEW w \in Worker, Busy(w),
           pc' = [pc EXCEPT ![w] = "idle"], task' = [task EXCEPT ![w] = <<>>],
           UNCHANGED <<actions, submitted>>
    PROVE  /\ AbstractFailingQueue!Abandon(task[w].instance)
           /\ task[w].instance \in Instance
  <1>0. PICK i \in Instance : i = task[w].instance
    BY CommandFields DEF IInv, TypeOK, Busy
  <1>1. actions[i] # <<>>
    BY <1>0 DEF IInv, Structure, PoolInv
  <1>2. /\ \A v \in Worker : v # w => /\ task'[v] = task[v]
                                      /\ Busy(v)' <=> Busy(v)
                                      /\ Serving(v)' <=> Serving(v)
        /\ ~Busy(w)' /\ ~Serving(w)'
    BY DEF IInv, TypeOK, Busy, Serving
  <1>3. /\ \A v \in Worker : v # w /\ Busy(v) => task[v].instance # i
        /\ \A k \in DOMAIN submitted : submitted[k].instance # i
    BY <1>0 DEF IInv, Structure, OncePerInstance
  <1>4. i \notin Stuck
    BY <1>0, HeldIsNotStuck
  <1>5. /\ \A v \in Worker : Busy(v)' => task'[v].instance # i
        /\ \A k \in DOMAIN submitted' : submitted'[k].instance # i
    BY <1>2, <1>3
  <1>6. \A j \in Instance : j # i => (Unheld(j)' <=> Unheld(j))
    BY <1>0, <1>2 DEF Unheld
  <1>7. Stuck' = Stuck \cup {i}
    <2>1. i \in Stuck'
      BY <1>1, <1>5 DEF Stuck, Unheld
    <2>2. \A j \in Instance : j # i => (j \in Stuck' <=> j \in Stuck)
      BY <1>6 DEF Stuck
    <2> QED
      BY <2>1, <2>2 DEF Stuck
  <1>8. Served' = Served \ {i}
    BY <1>0, <1>2, <1>3 DEF Served, Serving, Busy
  <1> QED
    BY <1>0, <1>1, <1>4, <1>7, <1>8, StuckMapping
       DEF AbstractFailingQueue!Abandon, Served

\* Also when the database refuses any save, and whatever the number of threads,
\* the manager serves one command of an instance at a time in the order in which
\* they were accepted; a command that a refused save leaves at the head of its
\* queue is neither served again nor overtaken before a restart, and the other
\* instances do not notice.
THEOREM FailingRefinement == FailingSpec => ImplementsFailingQueue
  <1>1. Init => AbstractFailingQueue!FailingInit
    <2> SUFFICES ASSUME Init PROVE AbstractFailingQueue!FailingInit
      OBVIOUS
    <2>1. Served = {} /\ Stuck = {}
      BY DEF Init, Served, Serving, Stuck
    <2> QED
      BY <2>1, StuckMapping
         DEF Init, AbstractFailingQueue!FailingInit, AbstractFailingQueue!Init, Served
  <1>2. IInv /\ [FailingNext]_vars
        => [AbstractFailingQueue!FailingNext]_AbstractFailingQueue!failingVars
    <2> SUFFICES ASSUME IInv, [FailingNext]_vars
                 PROVE  \/ AbstractFailingQueue!FailingNext
                        \/ UNCHANGED AbstractFailingQueue!failingVars
      OBVIOUS
    <2> USE DEF queueVars, workerVars
    <2>1. ASSUME UNCHANGED <<actions, submitted, task>>,
                 \A w \in Worker : /\ Serving(w)' <=> Serving(w)
                                   /\ Busy(w)' <=> Busy(w)
          PROVE  UNCHANGED AbstractFailingQueue!failingVars
      <3>1. UNCHANGED AbstractQueue!abstractVars
        BY <2>1, Unseen
      <3>2. UNCHANGED Stuck
        BY <2>1, KeepsStuck
      <3> QED
        BY <3>1, <3>2, StuckMapping
           DEF AbstractQueue!abstractVars, AbstractFailingQueue!abstractVars,
               AbstractFailingQueue!failingVars
    <2>2. ASSUME NEW c \in Command, Enqueue(c), UNCHANGED workerVars
          PROVE  AbstractFailingQueue!AcceptInOrder(c)
      BY <2>2, EnqueueIsAccept, EnqueueKeepsStuck, StuckMapping
         DEF AbstractQueue!Accept, AbstractFailingQueue!Accept,
             AbstractFailingQueue!AcceptInOrder
    <2>3. ASSUME NEW c \in Command, CreateCommand(c) \/ CreateDelete(c)
          PROVE  UNCHANGED AbstractFailingQueue!failingVars
      BY <2>1, <2>3 DEF CreateCommand, CreateDelete, Serving, Busy
    <2>4. ASSUME NEW c \in Command, ExecuteSystem(c)
          PROVE  AbstractFailingQueue!AcceptInOrder(c)
      BY <2>2, <2>4 DEF ExecuteSystem
    <2>5. ASSUME NEW c \in Command, Cancel(c)
          PROVE  UNCHANGED AbstractFailingQueue!failingVars
      BY <2>1, <2>5, CancelKeepsQueue DEF Cancel, Serving, Busy, IInv, Structure
    <2>6. CASE LoadPending
      BY <2>1, <2>6 DEF LoadPending, Serving, Busy
    <2>7. ASSUME NEW j \in Caller, NEW c \in Command, Execute(j, c)
          PROVE  \/ AbstractFailingQueue!AcceptInOrder(c)
                 \/ UNCHANGED AbstractFailingQueue!failingVars
      <3>1. CASE Enqueue(c)
        BY <2>2, <2>7, <3>1 DEF Execute
      <3>2. CASE Merge(c)
        BY <2>1, <2>7, <3>2 DEF Execute, Merge, Serving, Busy
      <3> QED
        BY <2>7, <3>1, <3>2 DEF Execute
    <2>8. ASSUME NEW j \in Caller, Commit(j) \/ CommitFails(j)
          PROVE  UNCHANGED AbstractFailingQueue!failingVars
      BY <2>1, <2>8 DEF Commit, CommitFails, Serving, Busy
    <2>9. ASSUME NEW w \in Worker, Take(w)
          PROVE  UNCHANGED AbstractFailingQueue!failingVars
      <3>1. /\ UNCHANGED actions
            /\ \A v \in Worker : Serving(v)' <=> Serving(v)
            /\ \A v \in Worker : Serving(v) => task'[v] = task[v]
        BY <2>9 DEF Take, Goto, Hand, Serving, IInv, TypeOK
      <3>2. UNCHANGED AbstractQueue!abstractVars
        BY <3>1, Unseen
      <3>3. UNCHANGED Stuck
        BY <2>9, TakeKeepsStuck
      <3> QED
        BY <3>2, <3>3, StuckMapping
           DEF AbstractQueue!abstractVars, AbstractFailingQueue!abstractVars,
               AbstractFailingQueue!failingVars
    <2>10. ASSUME NEW w \in Worker, OnActionStart(w)
           PROVE  AbstractFailingQueue!FailingNext
      <3> DEFINE i == task[w].instance
      <3>1. /\ i \in Instance /\ Busy(w)
            /\ UNCHANGED <<actions, submitted, task>>
            /\ \A v \in Worker : Busy(v)' <=> Busy(v)
        BY <2>10, CommandFields DEF OnActionStart, Goto, IInv, TypeOK, Busy
      <3>2. AbstractQueue!Begin(i)
        BY <2>10, StartIsBegin
      <3>3. i \notin Stuck /\ UNCHANGED Stuck
        BY <3>1, KeepsStuck, HeldIsNotStuck
      <3>4. AbstractFailingQueue!BeginUnstuck(i)
        BY <3>2, <3>3, StuckMapping
           DEF AbstractQueue!Begin, AbstractFailingQueue!Begin,
               AbstractFailingQueue!BeginUnstuck
      <3> QED
        BY <3>1, <3>4 DEF AbstractFailingQueue!FailingNext,
                          AbstractFailingQueue!BeginUnstuck,
                          AbstractFailingQueue!Begin
    <2>11. ASSUME NEW w \in Worker, RunAction(w)
           PROVE  UNCHANGED AbstractFailingQueue!failingVars
      <3>1. \A v \in Worker : (Serving(v)' <=> Serving(v)) /\ (Busy(v)' <=> Busy(v))
        BY <2>11 DEF RunAction, Goto, Serving, Busy, IInv, TypeOK
      <3> QED
        BY <2>1, <2>11, <3>1 DEF RunAction
    <2>12. ASSUME NEW w \in Worker, NEW from \in {"returned", "threw"},
                  NEW final \in CommandState, Conclude(w, from, final)
           PROVE  AbstractFailingQueue!FailingNext
      <3> DEFINE i == task[w].instance
      <3>1. i \in Instance /\ Busy(w)
        BY <2>12, CommandFields DEF Conclude, Goto, IInv, TypeOK, Busy
      <3>2. AbstractQueue!End(i)
        BY <2>12, ConcludeIsEnd
      <3>3. i \notin Stuck /\ UNCHANGED Stuck
        BY <2>12, <3>1, ConcludeKeepsStuck, HeldIsNotStuck
      <3>4. AbstractFailingQueue!EndUnstuck(i)
        BY <3>2, <3>3, StuckMapping
           DEF AbstractQueue!End, AbstractFailingQueue!End,
               AbstractFailingQueue!EndUnstuck
      <3> QED
        BY <3>1, <3>4 DEF AbstractFailingQueue!FailingNext,
                          AbstractFailingQueue!EndUnstuck,
                          AbstractFailingQueue!End
    <2>13. CASE Restart
      <3>1. AbstractQueue!Forget
        BY <2>13, RestartIsForget
      <3>2. Stuck' = {}
        BY <2>13 DEF Restart, Stuck
      <3> QED
        BY <3>1, <3>2, StuckMapping
           DEF AbstractQueue!Forget, AbstractFailingQueue!Forget,
               AbstractFailingQueue!ForgetAll, AbstractFailingQueue!FailingNext
    <2>14. ASSUME NEW j \in Caller, NEW c \in Command, ExecuteSaveFails(j, c)
           PROVE  \/ AbstractFailingQueue!AcceptInOrder(c)
                  \/ AbstractFailingQueue!AcceptStuck(c)
                  \/ UNCHANGED AbstractFailingQueue!failingVars
      <3>1. CASE Put(c) /\ UNCHANGED submitted
        <4>1. UNCHANGED <<pc, task>>
          BY <2>14 DEF ExecuteSaveFails
        <4>2. Served' = Served
          BY <4>1 DEF Served, Serving
        <4>3. AbstractFailingQueue!Accept(c)
          BY <3>1, <4>2 DEF Put, SameType, AbstractFailingQueue!Accept, Served
        <4>4. c.instance \notin keys <=> actions[c.instance] = <<>>
          BY CommandFields DEF IInv, Structure, QueuesInv
        <4>5. Stuck' = IF c.instance \in keys THEN Stuck ELSE Stuck \cup {c.instance}
          BY <3>1, <4>1, PutSticks
        <4> QED
          BY <4>3, <4>4, <4>5, StuckMapping
             DEF AbstractFailingQueue!AcceptInOrder, AbstractFailingQueue!AcceptStuck
      <3>2. CASE Merge(c)
        BY <2>1, <2>14, <3>2 DEF ExecuteSaveFails, Merge, Serving, Busy
      <3> QED
        BY <2>14, <3>1, <3>2 DEF ExecuteSaveFails
    <2>15. ASSUME NEW w \in Worker, StartSaveFails(w) \/ ConcludeSaveFails(w)
           PROVE  \/ AbstractFailingQueue!FailingNext
                  \/ UNCHANGED AbstractFailingQueue!failingVars
      <3>1. CASE pc[w] = "returned"
        <4>1. pc' = [pc EXCEPT ![w] = "threw"] /\ UNCHANGED <<actions, submitted, task>>
          BY <2>15, <3>1 DEF StartSaveFails, ConcludeSaveFails, Goto
        <4>2. \A v \in Worker : (Serving(v)' <=> Serving(v)) /\ (Busy(v)' <=> Busy(v))
          BY <3>1, <4>1 DEF Serving, Busy, IInv, TypeOK
        <4> QED
          BY <2>1, <4>1, <4>2
      <3>2. CASE pc[w] # "returned"
        <4>1. /\ Busy(w) /\ pc' = [pc EXCEPT ![w] = "idle"]
              /\ task' = [task EXCEPT ![w] = <<>>]
              /\ UNCHANGED <<actions, submitted>>
          BY <2>15, <3>2 DEF StartSaveFails, ConcludeSaveFails, Goto, Busy, IInv, TypeOK
        <4>2. /\ AbstractFailingQueue!Abandon(task[w].instance)
              /\ task[w].instance \in Instance
          BY <4>1, LettingGoIsAbandon
        <4> QED
          BY <4>2 DEF AbstractFailingQueue!FailingNext, AbstractFailingQueue!Abandon
      <3> QED
        BY <3>1, <3>2
    <2>16. CASE UNCHANGED vars
      BY <2>1, <2>16 DEF vars, Serving, Busy
    <2> QED
      BY <2>3, <2>4, <2>5, <2>6, <2>7, <2>8, <2>9, <2>10, <2>11, <2>12, <2>13,
         <2>14, <2>15, <2>16
         DEF FailingNext, Next, SaveFailure, WorkerStep, OnActionTerminated,
             OnActionFailed, CommandState, AbstractFailingQueue!FailingNext
  <1> QED
    BY <1>1, <1>2, Invariance, PTL
       DEF FailingSpec, FailingNext, ImplementsFailingQueue,
           AbstractFailingQueue!FailingSpec
==============================================================================

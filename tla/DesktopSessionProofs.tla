-------------------------- MODULE DesktopSessionProofs --------------------------
(***************************************************************************)
(* Proofs about the sessions and the revocations of DesktopRoom: the       *)
(* variables keep their types, there are never more sessions than clients, *)
(* a revocation reaches every client that it is meant for, and so does the *)
(* closure of the room.                                                    *)
(*                                                                         *)
(* The lemmas speak of any set M of events that holds those of the room,   *)
(* and of a set G of clients that have not been let in, so that they are   *)
(* of use for DesktopAccess too.                                           *)
(***************************************************************************)
EXTENDS DesktopRoom, FiniteSetTheorems, WellFoundedInduction, TLAPS

------------------------------------------------------------------------------
(* Numbers and sequences *)

LEMMA LargestExists ==
    ASSUME NEW n \in Nat, NEW S \in SUBSET (1..n), S # {}
    PROVE  \E i \in S : \A j \in S : j <= i
<1> DEFINE R == OpToRel(<, Nat)
           T == {n - i : i \in S}
<1>1. \A x, y \in Nat : <<x, y>> \in R <=> x < y
  BY DEF OpToRel
<1>2. \A i \in S : n - i \in Nat
  OBVIOUS
<1>3. T \subseteq Nat
  BY <1>2
<1>4. T # {}
  <2>1. PICK i \in S : TRUE
    OBVIOUS
  <2>2. n - i \in T
    OBVIOUS
  <2> QED
    BY <2>2
<1>5. IsWellFoundedOn(R, Nat)
  BY NatLessThanWellFounded
<1>6. \A i \in S : n - i \in T
  OBVIOUS
<1> HIDE DEF R
<1>7. PICK x \in T : \A y \in T : <<y, x>> \notin R
  BY <1>3, <1>4, <1>5, WFMin
<1>8. PICK i \in S : x = n - i
  OBVIOUS
<1> HIDE DEF T
<1>9. \A j \in S : ~(n - j < n - i)
  BY <1>1, <1>3, <1>6, <1>7, <1>8
<1> QED
  BY <1>9

\* What is in a queue stays there when something is added, and when what is taken
\* out is something else.
LEMMA KeptByAppend ==
    ASSUME NEW M, NEW q \in Seq(M), NEW e, NEW k \in DOMAIN q, q[k] = e, NEW f \in M
    PROVE  \E l \in DOMAIN Append(q, f) : Append(q, f)[l] = e
<1>1. k \in DOMAIN Append(q, f) /\ Append(q, f)[k] = e
  OBVIOUS
<1> QED
  BY <1>1

LEMMA KeptByConcat ==
    ASSUME NEW M, NEW q \in Seq(M), NEW e, NEW k \in DOMAIN q, q[k] = e, NEW r \in Seq(M)
    PROVE  \E l \in DOMAIN (q \o r) : (q \o r)[l] = e
<1>1. k \in DOMAIN (q \o r) /\ (q \o r)[k] = e
  OBVIOUS
<1> QED
  BY <1>1

LEMMA KeptByTail ==
    ASSUME NEW M, NEW q \in Seq(M), NEW e, NEW k \in DOMAIN q, q[k] = e, e # Head(q)
    PROVE  \E l \in DOMAIN Tail(q) : Tail(q)[l] = e
<1>1. k # 1 /\ k \in 1..Len(q) /\ Len(q) \in Nat
  OBVIOUS
<1>2. k - 1 \in DOMAIN Tail(q) /\ Tail(q)[k - 1] = e
  BY <1>1
<1> QED
  BY <1>2

------------------------------------------------------------------------------
(* The inductive invariant *)

Connecting == [pc : {"idle", "socket", "join", "session", "owner", "member", "unlock"},
               role : Role, session : 0..created, unlock : BOOLEAN]
Leaving ==
    {h \in [pc : {"idle", "session", "check", "commit", "owner", "close", "lock"},
            session : 0..created, write : {"keep", "end", "revive"}] :
        h.pc \in {"check", "commit"} => h.session # 0}

Types(M) ==
    /\ policy \in Policy
    /\ channel \in [Client -> {"new", "open", "gone"}]
    /\ told \subseteq Client
    /\ created \in Nat
    /\ connect \in [Client -> Connecting]
    /\ leave \in [Client -> Leaving]
    /\ connection \in [Client -> [role : Role, locked : BOOLEAN]]
    /\ room \subseteq Client
    /\ current \subseteq 1..created
    /\ member \in [Client -> 0..created]
    /\ inbox \in [Server -> Seq(M)]
    /\ revoked \subseteq Client
    /\ faults \in 0..MaxFaults
    /\ crashes \in 0..MaxCrashes

\* Only a client that has come and has been let in is being connected.
Started(G) == \A c \in Client : connect[c].pc # "idle" => channel[c] # "new" /\ c \notin G

\* Who has a row, or had one when it was revoked, has joined the room before.
Joined(G) ==
    \A c \in Client : member[c] # 0 \/ c \in revoked =>
        channel[c] # "new" /\ c \notin G /\ connect[c].pc \notin {"socket", "join"}

\* Every client opens one session at most.
Spent(G) == {c \in Client \ G : channel[c] # "new" /\ connect[c].pc # "socket"}
Counted(G) == created <= Cardinality(Spent(G))

SInv(M, G) == Types(M) /\ Started(G) /\ Joined(G) /\ Counted(G) /\ RevocationReaches

LEMMA CurrentType == ASSUME created \in Nat, current \subseteq 1..created PROVE Current \in 0..created
<1>1. CASE current = {}
  BY <1>1 DEF Current
<1>2. CASE current # {}
  <2>1. \E i \in current : \A j \in current : j <= i
    BY <1>2, LargestExists
  <2>2. Current \in current
    BY <1>2, <2>1 DEF Current
  <2> QED
    BY <2>2
<1> QED
  BY <1>1, <1>2

LEMMA SpentFinite == ASSUME NEW G PROVE IsFiniteSet(Spent(G)) /\ Cardinality(Spent(G)) <= Cardinality(Client)
<1>1. Spent(G) \subseteq Client
  BY DEF Spent
<1> QED
  BY <1>1, ClientAssumption, FS_Subset

\* Steps that open no session, and let nobody begin anew.
LEMMA CountKept ==
    ASSUME NEW G, Counted(G), created \in Nat, created' = created, Spent(G) \subseteq Spent(G)'
    PROVE  Counted(G)'
<1> DEFINE A == Spent(G)
           B == Spent(G)'
<1>1. B \subseteq Client
  BY DEF Spent
<1>2. IsFiniteSet(B)
  BY <1>1, ClientAssumption, FS_Subset
<1>3. A \in SUBSET B
  OBVIOUS
<1> HIDE DEF A, B
<1>4. Cardinality(A) <= Cardinality(B)
  BY <1>2, <1>3, FS_Subset
<1>5. Cardinality(A) \in Nat /\ Cardinality(B) \in Nat
  BY <1>2, <1>3, FS_Subset, FS_CardinalityType
<1> QED
  BY <1>4, <1>5 DEF Counted, A, B

\* Steps of handlers that open no session: a client that joins or asks to be connected
\* was about to, a row is made for one that has joined, and what is on its way to a
\* client that has been revoked and stays in the room arrives there.
LEMMA SessionStep ==
    ASSUME NEW M, NEW G, SInv(M, G), Types(M)', created' = created, UNCHANGED revoked,
           \A c \in Client :
              /\ channel'[c] = "new" => channel[c] = "new"
              /\ connect'[c].pc # "idle" => connect[c].pc # "idle"
              /\ connect'[c].pc \in {"socket", "join"} => connect[c].pc \in {"socket", "join"}
              /\ connect'[c].pc = "socket" => connect[c].pc = "socket"
              /\ member'[c] # 0 => member[c] # 0 \/ connect[c].pc = "member",
           \A c \in Client : c \in revoked /\ c \in room' =>
              /\ c \in room
              /\ c \in told => c \in told'
              /\ OnItsWay(c) => c \in told' \/ OnItsWay(c)'
    PROVE  SInv(M, G)'
<1> USE DEF SInv
<1>1. Started(G)'
  BY DEF Started
<1>2. Joined(G)'
  BY DEF Joined, Started
<1>3. Spent(G) \subseteq Spent(G)'
  BY DEF Spent
<1>4. Counted(G)'
  BY <1>3, CountKept DEF Types
<1>5. RevocationReaches'
  BY DEF RevocationReaches, Types
<1> QED
  BY <1>1, <1>2, <1>4, <1>5

LEMMA PublishFacts ==
    ASSUME NEW M, inbox \in [Server -> Seq(M)], NEW s, NEW e \in M, Publish(s, e)
    PROVE  /\ inbox' \in [Server -> Seq(M)]
           /\ \A c \in Client : OnItsWay(c) => OnItsWay(c)'
<1>1. \A t \in Server : inbox'[t] = inbox[t] \/ inbox'[t] = Append(inbox[t], e)
  BY DEF Publish
<1>2. inbox' \in [Server -> Seq(M)]
  BY DEF Publish
<1>3. ASSUME NEW c \in Client, OnItsWay(c) PROVE OnItsWay(c)'
  <2> DEFINE v == [event |-> "ACCESS_REVOKED", client |-> c]
             q == inbox[home[c]]
             r == inbox'[home[c]]
  <2>1. q \in Seq(M)
    BY ClientAssumption
  <2>2. PICK k \in DOMAIN q : q[k] = v
    BY <1>3 DEF OnItsWay
  <2>3. r = q \/ r = Append(q, e)
    BY <1>1, ClientAssumption
  <2>4. ASSUME r = q \/ r = Append(q, e) PROVE \E l \in DOMAIN r : r[l] = v
    <3> HIDE DEF v, q, r
    <3>1. CASE r = q
      BY <2>2, <3>1
    <3>2. CASE r = Append(q, e)
      BY <2>1, <2>2, <3>2, KeptByAppend
    <3> QED
      BY <2>4, <3>1, <3>2
  <2> QED
    BY <2>3, <2>4 DEF OnItsWay
<1> QED
  BY <1>2, <1>3

\* Locking and unlocking keep the type of the connections.
LEMMA RelockedType ==
    ASSUME connection \in [Client -> [role : Role, locked : BOOLEAN]],
           NEW s, NEW b \in BOOLEAN, NEW f \in Relocked(s, b)
    PROVE  f \in [Client -> [role : Role, locked : BOOLEAN]]
<1>1. PICK done : f = [c \in Client |-> IF c \in done THEN [connection[c] EXCEPT !.locked = b]
                                        ELSE connection[c]]
  BY DEF Relocked
<1> QED
  BY <1>1

LEMMA SessionInit == ASSUME NEW M, NEW G, Init PROVE SInv(M, G)
<1> USE DEF Init
<1>1. Types(M)
  BY PolicyAssumption, BoundAssumption DEF Types, Connecting, Leaving, Idle, Staying, NoConnection, Role
<1>2. Started(G) /\ Joined(G)
  BY DEF Started, Joined, Idle
<1>3. Counted(G)
  <2>1. IsFiniteSet(Spent(G))
    BY SpentFinite
  <2>2. Cardinality(Spent(G)) \in Nat
    BY <2>1, FS_CardinalityType
  <2> QED
    BY <2>2 DEF Counted
<1> QED
  BY <1>1, <1>2, <1>3 DEF SInv, RevocationReaches

------------------------------------------------------------------------------
(* createDesktopConnection *)

\* A client that has not been let in yet begins to be connected.
LEMMA BeginKeeps ==
    ASSUME NEW M, NEW G, SInv(M, G), NEW c \in Client, channel[c] = "new" \/ c \in G,
           NEW r \in Role, Begin(c, r),
           channel' \in [Client -> {"new", "open", "gone"}], channel'[c] # "new",
           \A d \in Client \ {c} : channel'[d] = channel[d],
           UNCHANGED <<policy, leave, memoryVars, sessionVars, revoked, boundVars>>,
           inbox' \in [Server -> Seq(M)],
           \A d \in Client : d \in revoked /\ d \in room /\ OnItsWay(d) => OnItsWay(d)',
           NEW H, H = G \ {c} \/ (r = "NONE" /\ H = G)
    PROVE  SInv(M, H)'
<1> USE DEF SInv, Types
<1> DEFINE h == [Idle EXCEPT !.pc = "socket", !.role = r, !.session = Current]
<1>1. Current \in 0..created
  BY CurrentType
<1>2. h \in Connecting /\ h.pc = "socket"
  BY <1>1 DEF Idle, Connecting
<1>3. \/ told' = told \cup {c} /\ UNCHANGED connect
      \/ told' = told /\ r # "NONE" /\ connect' = [connect EXCEPT ![c] = h]
  BY DEF Begin
<1> HIDE DEF h
<1>4. member[c] = 0 /\ c \notin revoked /\ connect[c].pc = "idle" /\ c \notin Spent(G)
  BY DEF Joined, Started, Spent
<1>5. Types(M)'
  <2>1. connect' \in [Client -> Connecting]
    BY <1>2, <1>3
  <2> QED
    BY <1>3, <2>1 DEF memoryVars, sessionVars, boundVars, Connecting, Leaving
<1>6. Started(H)'
  BY <1>3 DEF Started
<1>7. Joined(H)'
  <2>1. \A d \in Client : UNCHANGED <<member[d], revoked>>
    BY DEF sessionVars
  <2>2. \A d \in Client \ {c} : connect'[d] = connect[d]
    BY <1>3
  <2> QED
    BY <1>4, <2>1, <2>2 DEF Joined
<1>8. Counted(H)'
  <2>1. Spent(G) \subseteq Spent(H)'
    BY <1>3, <1>4 DEF Spent
  <2>2. Spent(H)' \subseteq Client
    BY DEF Spent
  <2>3. Spent(G) \subseteq Client
    BY DEF Spent
  <2>4. IsFiniteSet(Spent(H)')
    BY <2>2, ClientAssumption, FS_Subset
  <2>5. /\ Cardinality(Spent(G)) <= Cardinality(Spent(H)')
        /\ Cardinality(Spent(G)) \in Nat /\ Cardinality(Spent(H)') \in Nat
    BY <2>1, <2>4, FS_Subset, FS_CardinalityType
  <2> QED
    BY <2>5 DEF Counted, sessionVars
<1>9. RevocationReaches'
  BY <1>3 DEF RevocationReaches, memoryVars
<1> QED
  BY <1>5, <1>6, <1>7, <1>8, <1>9

\* The step of a handler h that connects c, when nothing but the handler changes in
\* what is counted.
LEMMA HandlerKeeps ==
    ASSUME NEW M, NEW G, SInv(M, G), NEW c \in Client, connect[c].pc # "idle",
           NEW h \in Connecting, connect' = [connect EXCEPT ![c] = h],
           h.pc \in {"socket", "join"} => connect[c].pc \in {"socket", "join"},
           h.pc = "socket" => connect[c].pc = "socket",
           UNCHANGED <<policy, channel, leave, created, revoked, crashes>>,
           told \subseteq told', told' \subseteq Client,
           connection' \in [Client -> [role : Role, locked : BOOLEAN]],
           room' \subseteq Client, room' \cap revoked \subseteq room,
           current' \subseteq 1..created,
           member' \in [Client -> 0..created],
           \A d \in Client : member'[d] # 0 => member[d] # 0 \/ connect[d].pc = "member",
           inbox' \in [Server -> Seq(M)], \A d \in Client : OnItsWay(d) => OnItsWay(d)',
           faults' \in 0..MaxFaults
    PROVE  SInv(M, G)'
<1>1. connect \in [Client -> Connecting]
  BY DEF SInv, Types
<1>2. connect' \in [Client -> Connecting]
  BY <1>1
<1>3. Types(M)'
  <2>1. Connecting' = Connecting /\ Leaving' = Leaving
    BY DEF Connecting, Leaving
  <2> QED
    BY <1>2, <2>1 DEF SInv, Types
<1>4. \A d \in Client : d # c => connect'[d] = connect[d]
  BY <1>1
<1>5. connect'[c] = h
  BY <1>1
<1> QED
  BY <1>3, <1>4, <1>5, SessionStep

LEMMA CreateSessionKeeps ==
    ASSUME NEW M, NEW G, SInv(M, G), NEW c \in Client, CreateSession(c), MayCreate(c)
    PROVE  SInv(M, G)'
<1> USE DEF SInv
<1> DEFINE h == [connect[c] EXCEPT !.pc = "join"]
<1>1. /\ connect[c].pc = "socket" /\ connect' = [connect EXCEPT ![c] = h]
      /\ created' = created + 1 /\ current' = current \cup {created + 1}
      /\ UNCHANGED <<policy, channel, told, leave, connection, room, member, inbox, revoked, faults, crashes>>
  BY DEF CreateSession, memoryVars, boundVars
<1>2. connect \in [Client -> Connecting] /\ created \in Nat
  BY DEF Types
<1>3. h \in Connecting /\ h.pc = "join"
  BY <1>2 DEF Connecting
<1> HIDE DEF h
<1>4. connect' \in [Client -> Connecting]
  BY <1>1, <1>2, <1>3
<1>5. 0..created \subseteq 0..created' /\ 1..created \subseteq 1..created' /\ created + 1 \in 1..created'
  BY <1>1, <1>2
<1>6. Connecting \subseteq Connecting' /\ Leaving \subseteq Leaving'
  BY <1>5 DEF Connecting, Leaving
<1>7. Types(M)'
  <2>1. connect' \in [Client -> Connecting'] /\ leave' \in [Client -> Leaving']
    BY <1>1, <1>4, <1>6 DEF Types
  <2>2. member' \in [Client -> 0..created']
    BY <1>1, <1>5 DEF Types
  <2>3. current' \subseteq 1..created' /\ created' \in Nat
    BY <1>1, <1>2, <1>5 DEF Types
  <2> QED
    BY <1>1, <2>1, <2>2, <2>3 DEF Types
<1>8. Started(G)' /\ Joined(G)'
  BY <1>1, <1>2, <1>3 DEF Started, Joined
<1>9. Counted(G)'
  <2> DEFINE S == Spent(G)
  <2>1. c \notin S /\ S' = S \cup {c}
    BY <1>1, <1>2, <1>3 DEF Spent, Started
  <2>2. IsFiniteSet(S)
    BY SpentFinite
  <2> HIDE DEF S
  <2>3. Cardinality(S \cup {c}) = Cardinality(S) + 1 /\ Cardinality(S) \in Nat
    BY <2>1, <2>2, FS_AddElement, FS_CardinalityType
  <2>4. created <= Cardinality(S)
    BY DEF Counted, S
  <2> QED
    BY <1>1, <1>2, <2>1, <2>3, <2>4 DEF Counted, S
<1>10. RevocationReaches'
  BY <1>1 DEF RevocationReaches, OnItsWay
<1> QED
  BY <1>7, <1>8, <1>9, <1>10

LEMMA ConnectStepKeepsSessions ==
    ASSUME NEW M, RoomEvent \subseteq M, NEW G, SInv(M, G), NEW c \in Client, ConnectStep(c)
    PROVE  SInv(M, G)'
<1> USE DEF SInv
<1>a. /\ Types(M) /\ connect \in [Client -> Connecting] /\ connect[c] \in Connecting
      /\ created \in Nat /\ current \subseteq 1..created
  BY DEF Types
<1>b. \A p \in {"session", "owner", "member", "unlock", "join"} :
         [connect[c] EXCEPT !.pc = p] \in Connecting /\ [connect[c] EXCEPT !.pc = p].pc = p
  BY <1>a DEF Connecting
<1>c. Idle \in Connecting /\ Idle.pc = "idle"
  BY <1>a DEF Idle, Connecting, Role
<1>d. ASSUME UNCHANGED inbox PROVE \A d \in Client : OnItsWay(d) => OnItsWay(d)'
  BY <1>d DEF OnItsWay
<1>1. CASE CreateSession(c)
  <2>1. CASE ~MayCreate(c)
    <3>1. /\ connect' = [connect EXCEPT ![c] = Idle]
          /\ told' = IF channel[c] = "open" THEN told \cup {c} ELSE told
          /\ UNCHANGED <<policy, channel, leave, created, current, member, connection, room, inbox, revoked, faults, crashes>>
          /\ connect[c].pc = "socket"
      BY <1>1, <2>1 DEF CreateSession, Refuse, memoryVars, boundVars
    <3> QED
      BY <3>1, <1>a, <1>c, <1>d, HandlerKeeps DEF Types
  <2> QED
    BY <1>1, <2>1, CreateSessionKeeps
<1>2. CASE UseSession(c)
  <2> DEFINE h == [connect[c] EXCEPT !.pc = "join"]
  <2>1. /\ connect' = [connect EXCEPT ![c] = h] /\ connect[c].pc = "socket"
        /\ UNCHANGED <<policy, channel, told, leave, created, current, member, connection, room, inbox, revoked, faults, crashes>>
    BY <1>2 DEF UseSession, memoryVars, sessionVars, boundVars
  <2>2. h \in Connecting /\ h.pc = "join"
    BY <1>b
  <2> HIDE DEF h
  <2> QED
    BY <2>1, <2>2, <1>a, <1>d, HandlerKeeps DEF Types
<1>3. CASE SocketFails(c)
  <2>0. faults' \in 0..MaxFaults
    BY <1>3, BoundAssumption DEF SocketFails, Types
  <2>1. CASE connect[c].session # 0
    <3> DEFINE h == [connect[c] EXCEPT !.session = 0]
    <3>1. /\ connect' = [connect EXCEPT ![c] = h] /\ connect[c].pc = "socket"
          /\ current' \subseteq current
          /\ UNCHANGED <<policy, channel, told, leave, created, member, connection, room, inbox, revoked, crashes>>
      BY <1>3, <2>1 DEF SocketFails, memoryVars
    <3>2. h \in Connecting /\ h.pc = "socket"
      BY <1>a, <3>1 DEF Connecting
    <3> HIDE DEF h
    <3> QED
      BY <3>1, <3>2, <2>0, <1>a, <1>d, HandlerKeeps DEF Types
  <2>2. CASE connect[c].session = 0
    <3>1. /\ connect' = [connect EXCEPT ![c] = Idle] /\ connect[c].pc = "socket"
          /\ told' = IF channel[c] = "open" THEN told \cup {c} ELSE told
          /\ UNCHANGED <<policy, channel, leave, created, current, member, connection, room, inbox, revoked, crashes>>
      BY <1>3, <2>2 DEF SocketFails, Refuse, memoryVars
    <3> QED
      BY <3>1, <2>0, <1>a, <1>c, <1>d, HandlerKeeps DEF Types
  <2> QED
    BY <2>1, <2>2
<1>4. CASE JoinRoom(c)
  <2> DEFINE h == [connect[c] EXCEPT !.pc = "session"]
  <2>1. /\ connect' = [connect EXCEPT ![c] = h] /\ connect[c].pc = "join"
        /\ connection' = [connection EXCEPT ![c] = [role |-> connect[c].role, locked |-> FALSE]]
        /\ room' \subseteq room \cup {c}
        /\ UNCHANGED <<policy, channel, told, leave, created, current, member, inbox, revoked, faults, crashes>>
    BY <1>4 DEF JoinRoom, sessionVars, boundVars
  <2>2. h \in Connecting /\ h.pc = "session"
    BY <1>b
  <2> HIDE DEF h
  <2>3. c \notin revoked
    BY <2>1 DEF Joined
  <2>4. room' \subseteq Client /\ room' \cap revoked \subseteq room
    BY <2>1, <2>3 DEF Types
  <2>5. connection' \in [Client -> [role : Role, locked : BOOLEAN]]
    <3>1. connect[c].role \in Role
      BY <1>a DEF Connecting
    <3> QED
      BY <2>1, <3>1 DEF Types
  <2> QED
    BY <2>1, <2>2, <2>4, <2>5, <1>a, <1>d, HandlerKeeps DEF Types
<1>5. CASE ReadSession(c)
  <2>1. PICK p \in {"owner", "member"} :
           /\ connect' = [connect EXCEPT ![c].session = Current, ![c].pc = p]
           /\ connect[c].pc = "session"
           /\ UNCHANGED <<policy, channel, told, leave, created, current, member, connection, room, inbox, revoked, faults, crashes>>
    BY <1>5 DEF ReadSession, memoryVars, sessionVars, boundVars
  <2> DEFINE h == [connect[c] EXCEPT !.session = Current, !.pc = p]
  <2>2. connect' = [connect EXCEPT ![c] = h]
    BY <2>1
  <2>3. Current \in 0..created
    BY <1>a, CurrentType
  <2>4. h \in Connecting /\ h.pc = p
    BY <1>a, <2>3 DEF Connecting
  <2> HIDE DEF h
  <2> QED
    BY <2>1, <2>2, <2>4, <1>a, <1>d, HandlerKeeps DEF Types
<1>6. CASE ReadOwner(c)
  <2>1. PICK b \in BOOLEAN :
           /\ connect' = [connect EXCEPT ![c].unlock = b, ![c].pc = "member"]
           /\ connect[c].pc = "owner"
           /\ UNCHANGED <<policy, channel, told, leave, created, current, member, connection, room, inbox, revoked, faults, crashes>>
    BY <1>6 DEF ReadOwner, memoryVars, sessionVars, boundVars
  <2> DEFINE h == [connect[c] EXCEPT !.unlock = b, !.pc = "member"]
  <2>2. connect' = [connect EXCEPT ![c] = h]
    BY <2>1
  <2>3. h \in Connecting /\ h.pc = "member"
    BY <1>a DEF Connecting
  <2> HIDE DEF h
  <2> QED
    BY <2>1, <2>2, <2>3, <1>a, <1>d, HandlerKeeps DEF Types
<1>7. CASE AddMember(c)
  <2>1. PICK h : /\ connect' = [connect EXCEPT ![c] = h]
                 /\ h = Idle \/ h = [connect[c] EXCEPT !.pc = "unlock"]
                 /\ connect[c].pc = "member"
                 /\ member' = [member EXCEPT ![c] = connect[c].session]
                 /\ UNCHANGED <<policy, channel, told, leave, created, current, connection, room, inbox, revoked, faults, crashes>>
    BY <1>7 DEF AddMember, memoryVars, boundVars
  <2>2. h \in Connecting /\ h.pc \in {"idle", "unlock"}
    BY <2>1, <1>b, <1>c
  <2>3. connect[c].session \in 0..created
    BY <1>a DEF Connecting
  <2>4. /\ member' \in [Client -> 0..created]
        /\ \A d \in Client : member'[d] # 0 => member[d] # 0 \/ connect[d].pc = "member"
    BY <2>1, <2>3 DEF Types
  <2> QED
    BY <2>1, <2>2, <2>4, <1>a, <1>d, HandlerKeeps DEF Types
<1>8. CASE UnlockRoom(c)
  <2> DEFINE e == [event |-> "ROOM_UNLOCKED"]
  <2>1. /\ connect' = [connect EXCEPT ![c] = Idle] /\ connect[c].pc = "unlock"
        /\ connection' \in Relocked(home[c], FALSE) /\ Publish(home[c], e)
        /\ UNCHANGED <<policy, channel, told, leave, created, current, member, room, revoked, faults, crashes>>
    BY <1>8 DEF UnlockRoom, sessionVars, boundVars
  <2>2. connection' \in [Client -> [role : Role, locked : BOOLEAN]]
    BY <2>1, RelockedType DEF Types
  <2>3. e \in M
    BY DEF RoomEvent
  <2> HIDE DEF e
  <2>4. inbox' \in [Server -> Seq(M)] /\ \A d \in Client : OnItsWay(d) => OnItsWay(d)'
    BY <2>1, <2>3, PublishFacts DEF Types
  <2> QED
    BY <2>1, <2>2, <2>4, <1>a, <1>c, HandlerKeeps DEF Types
<1> QED
  BY <1>1, <1>2, <1>3, <1>4, <1>5, <1>6, <1>7, <1>8 DEF ConnectStep

------------------------------------------------------------------------------
(* onDisconnect *)

\* What is on its way to a client that leaves need not arrive.
LEMMA CloseKeepsSessions ==
    ASSUME NEW M, NEW G, SInv(M, G), NEW c \in Client, Close(c),
           inbox' \in [Server -> Seq(M)], \A d \in Client : OnItsWay(d) => OnItsWay(d)'
    PROVE  SInv(M, G)'
<1> USE DEF SInv
<1>1. /\ channel' = [channel EXCEPT ![c] = "gone"] /\ told' = told \ {c} /\ room' = room \ {c}
      /\ \E p \in {"session", "idle"} : leave' = [leave EXCEPT ![c].pc = p]
      /\ UNCHANGED <<policy, connect, connection, created, current, member, revoked, faults, crashes>>
  BY DEF Close, sessionVars, boundVars
<1>2. Types(M)'
  <2>1. leave' \in [Client -> Leaving]
    <3>1. PICK p \in {"session", "idle"} : leave' = [leave EXCEPT ![c].pc = p]
      BY <1>1
    <3>2. leave[c] \in Leaving
      BY DEF Types
    <3>3. [leave[c] EXCEPT !.pc = p] \in Leaving
      BY <3>2 DEF Leaving
    <3> QED
      BY <3>1, <3>3 DEF Types
  <2>2. channel' \in [Client -> {"new", "open", "gone"}]
    BY <1>1 DEF Types
  <2> QED
    BY <1>1, <2>1, <2>2 DEF Types, Connecting, Leaving
<1>3. \A d \in Client : channel'[d] = "new" => channel[d] = "new"
  BY <1>1 DEF Types
<1> QED
  BY <1>1, <1>2, <1>3, SessionStep

\* A step of onDisconnect, from the values that it may write.
LEMMA LeaverKeeps ==
    ASSUME NEW M, NEW G, SInv(M, G), NEW c \in Client,
           NEW h \in Leaving, leave' = [leave EXCEPT ![c] = h],
           UNCHANGED <<policy, channel, connect, created, revoked, room, faults, crashes>>,
           told \subseteq told', told' \subseteq Client,
           connection' \in [Client -> [role : Role, locked : BOOLEAN]],
           current' \subseteq 1..created,
           member' = member \/ member' = [member EXCEPT ![c] = 0],
           inbox' \in [Server -> Seq(M)], \A d \in Client : OnItsWay(d) => OnItsWay(d)'
    PROVE  SInv(M, G)'
<1>1. Types(M)'
  <2>1. leave' \in [Client -> Leaving] /\ member' \in [Client -> 0..created]
    BY DEF SInv, Types
  <2> QED
    BY <2>1 DEF SInv, Types, Connecting, Leaving
<1>2. \A d \in Client : member'[d] # 0 => member[d] # 0
  BY DEF SInv, Types
<1> QED
  BY <1>1, <1>2, SessionStep

LEMMA LeaveStepKeepsSessions ==
    ASSUME NEW M, RoomEvent \subseteq M, NEW G, SInv(M, G), NEW c \in Client, LeaveStep(c)
    PROVE  SInv(M, G)'
<1> USE DEF SInv
<1>a. /\ Types(M) /\ leave \in [Client -> Leaving] /\ leave[c] \in Leaving
      /\ created \in Nat /\ current \subseteq 1..created
  BY DEF Types
<1>b. ASSUME UNCHANGED inbox PROVE \A d \in Client : OnItsWay(d) => OnItsWay(d)'
  BY <1>b DEF OnItsWay
<1>c. Staying \in Leaving
  BY <1>a DEF Staying, Leaving
<1>d. connection' = [connection EXCEPT ![c] = NoConnection] =>
         connection' \in [Client -> [role : Role, locked : BOOLEAN]]
  BY DEF Types, NoConnection, Role
<1>e. RoomClients(home[c]) \subseteq Client
  BY DEF RoomClients, Types
<1>1. CASE LeaveSession(c)
  <2>1. PICK p \in {"close", "check"} :
           /\ p = "check" => Current # 0
           /\ leave' = [leave EXCEPT ![c].session = Current, ![c].pc = p]
           /\ UNCHANGED <<policy, channel, told, connect, connection, room, created, current, member, inbox, revoked, faults, crashes>>
    BY <1>1 DEF LeaveSession, memoryVars, sessionVars, boundVars
  <2> DEFINE h == [leave[c] EXCEPT !.session = Current, !.pc = p]
  <2>2. leave' = [leave EXCEPT ![c] = h]
    BY <2>1
  <2>3. Current \in 0..created
    BY <1>a, CurrentType
  <2>4. h \in Leaving
    BY <1>a, <2>1, <2>3 DEF Leaving
  <2> HIDE DEF h
  <2> QED
    BY <2>1, <2>2, <2>4, <1>a, <1>b, LeaverKeeps DEF Types
<1>2. CASE CheckMember(c)
  <2>1. PICK p \in {"commit", "owner"}, w \in {"keep", "end", "revive"} :
           /\ leave[c].pc = "check"
           /\ leave' = [leave EXCEPT ![c].pc = p, ![c].write = w]
           /\ UNCHANGED <<policy, channel, told, connect, connection, room, created, current, member, inbox, revoked, faults, crashes>>
    BY <1>2 DEF CheckMember, memoryVars, sessionVars, boundVars
  <2> DEFINE h == [leave[c] EXCEPT !.pc = p, !.write = w]
  <2>2. leave' = [leave EXCEPT ![c] = h]
    BY <2>1
  <2>3. h \in Leaving
    BY <1>a, <2>1 DEF Leaving
  <2> HIDE DEF h
  <2> QED
    BY <2>1, <2>2, <2>3, <1>a, <1>b, LeaverKeeps DEF Types
<1>3. CASE CommitMember(c)
  <2> DEFINE h == [leave[c] EXCEPT !.pc = "owner", !.write = "keep"]
  <2>1. /\ leave' = [leave EXCEPT ![c] = h] /\ member' = [member EXCEPT ![c] = 0]
        /\ leave[c].pc = "commit"
        /\ UNCHANGED <<policy, channel, told, connect, connection, room, created, inbox, revoked, faults, crashes>>
    BY <1>3 DEF CommitMember, memoryVars, boundVars
  <2>2. h \in Leaving
    BY <1>a DEF Leaving
  <2> HIDE DEF h
  <2>3. current' \subseteq 1..created
    <3>1. leave[c].write \in {"keep", "end", "revive"} /\ leave[c].session \in 0..created
      BY <1>a DEF Leaving
    <3>2. leave[c].session # 0
      BY <1>a, <2>1 DEF Leaving
    <3> QED
      BY <1>3, <1>a, <3>1, <3>2 DEF CommitMember
  <2> QED
    BY <2>1, <2>2, <2>3, <1>a, <1>b, LeaverKeeps DEF Types
<1>4. CASE LeaveOwner(c)
  <2>1. CASE StaysOpen(c)
    <3>1. /\ leave' = [leave EXCEPT ![c] = Staying]
          /\ connection' = [connection EXCEPT ![c] = NoConnection]
          /\ UNCHANGED <<policy, channel, told, connect, room, created, current, member, inbox, revoked, faults, crashes>>
      BY <1>4, <2>1 DEF LeaveOwner, sessionVars, boundVars
    <3> QED
      BY <3>1, <1>a, <1>b, <1>c, <1>d, LeaverKeeps DEF Types
  <2>2. CASE ~StaysOpen(c)
    <3>1. PICK p \in {"lock", "close"} :
             /\ leave' = [leave EXCEPT ![c].pc = p]
             /\ UNCHANGED <<policy, channel, told, connect, connection, room, created, current, member, inbox, revoked, faults, crashes>>
      BY <1>4, <2>2 DEF LeaveOwner, sessionVars, boundVars
    <3> DEFINE h == [leave[c] EXCEPT !.pc = p]
    <3>2. leave' = [leave EXCEPT ![c] = h]
      BY <3>1
    <3>3. h \in Leaving
      BY <1>a DEF Leaving
    <3> HIDE DEF h
    <3> QED
      BY <3>1, <3>2, <3>3, <1>a, <1>b, LeaverKeeps DEF Types
  <2> QED
    BY <2>1, <2>2
<1>5. CASE CloseRoom(c)
  <2> DEFINE e == [event |-> "ROOM_CLOSED"]
  <2>1. /\ leave' = [leave EXCEPT ![c] = Staying]
        /\ connection' = [connection EXCEPT ![c] = NoConnection]
        /\ told' = told \cup RoomClients(home[c]) /\ Publish(home[c], e)
        /\ UNCHANGED <<policy, channel, connect, room, created, current, member, revoked, faults, crashes>>
    BY <1>5 DEF CloseRoom, sessionVars, boundVars
  <2>2. e \in M
    BY DEF RoomEvent
  <2> HIDE DEF e
  <2>3. inbox' \in [Server -> Seq(M)] /\ \A d \in Client : OnItsWay(d) => OnItsWay(d)'
    BY <2>1, <2>2, PublishFacts DEF Types
  <2> QED
    BY <2>1, <2>3, <1>a, <1>c, <1>d, <1>e, LeaverKeeps DEF Types
<1>6. CASE LockRoom(c)
  <2> DEFINE e == [event |-> "ROOM_LOCKED"]
  <2>1. /\ leave' = [leave EXCEPT ![c] = Staying] /\ Publish(home[c], e)
        /\ UNCHANGED <<policy, channel, told, connect, room, created, current, member, revoked, faults, crashes>>
    BY <1>6 DEF LockRoom, sessionVars, boundVars
  <2>2. connection' \in [Client -> [role : Role, locked : BOOLEAN]]
    <3>1. PICK f \in Relocked(home[c], TRUE) :
             connection' = f \/ connection' = [f EXCEPT ![c] = NoConnection]
      BY <1>6 DEF LockRoom
    <3>2. f \in [Client -> [role : Role, locked : BOOLEAN]]
      BY <3>1, RelockedType DEF Types
    <3>3. NoConnection \in [role : Role, locked : BOOLEAN]
      BY DEF NoConnection, Role
    <3> QED
      BY <3>1, <3>2, <3>3
  <2>3. e \in M
    BY DEF RoomEvent
  <2> HIDE DEF e
  <2>4. inbox' \in [Server -> Seq(M)] /\ \A d \in Client : OnItsWay(d) => OnItsWay(d)'
    BY <2>1, <2>3, PublishFacts DEF Types
  <2> QED
    BY <2>1, <2>2, <2>4, <1>a, <1>c, LeaverKeeps DEF Types
<1> QED
  BY <1>1, <1>2, <1>3, <1>4, <1>5, <1>6 DEF LeaveStep

------------------------------------------------------------------------------
(* Revocations, events and restarts *)

\* What is left of a queue when its first event has been taken.
LEMMA TakeFacts ==
    ASSUME NEW M, inbox \in [Server -> Seq(M)], NEW s \in Server, inbox[s] # <<>>,
           inbox' = [inbox EXCEPT ![s] = Tail(inbox[s])]
    PROVE  /\ Head(inbox[s]) \in M /\ inbox' \in [Server -> Seq(M)]
           /\ \A c \in Client : OnItsWay(c) =>
                 \/ OnItsWay(c)'
                 \/ home[c] = s /\ Head(inbox[s]) = [event |-> "ACCESS_REVOKED", client |-> c]
<1>1. Head(inbox[s]) \in M /\ inbox' \in [Server -> Seq(M)]
  OBVIOUS
<1>2. ASSUME NEW c \in Client, OnItsWay(c),
             ~(home[c] = s /\ Head(inbox[s]) = [event |-> "ACCESS_REVOKED", client |-> c])
      PROVE  OnItsWay(c)'
  <2> DEFINE v == [event |-> "ACCESS_REVOKED", client |-> c]
             q == inbox[home[c]]
             r == inbox'[home[c]]
  <2>1. q \in Seq(M)
    BY ClientAssumption
  <2>2. PICK k \in DOMAIN q : q[k] = v
    BY <1>2 DEF OnItsWay
  <2>3. r = q \/ (r = Tail(q) /\ v # Head(q))
    BY <1>2, ClientAssumption
  <2>4. ASSUME r = q \/ (r = Tail(q) /\ v # Head(q)) PROVE \E l \in DOMAIN r : r[l] = v
    <3> HIDE DEF v, q, r
    <3>1. CASE r = q
      BY <2>2, <3>1
    <3>2. CASE r = Tail(q) /\ v # Head(q)
      BY <2>1, <2>2, <3>2, KeptByTail
    <3> QED
      BY <2>4, <3>1, <3>2
  <2> QED
    BY <2>3, <2>4 DEF OnItsWay
<1> QED
  BY <1>1, <1>2

LEMMA ReceiveKeepsSessions ==
    ASSUME NEW M, NEW G, SInv(M, G), NEW s \in Server, Receive(s)
    PROVE  SInv(M, G)'
<1> USE DEF SInv
<1> DEFINE e == Head(inbox[s])
<1>1. /\ inbox[s] # <<>> /\ inbox' = [inbox EXCEPT ![s] = Tail(inbox[s])]
      /\ UNCHANGED <<policy, channel, connect, leave, room, created, current, member, revoked, faults, crashes>>
  BY DEF Receive, sessionVars, boundVars
<1>2. /\ inbox' \in [Server -> Seq(M)]
      /\ \A c \in Client : OnItsWay(c) =>
            \/ OnItsWay(c)'
            \/ home[c] = s /\ e = [event |-> "ACCESS_REVOKED", client |-> c]
  BY <1>1, TakeFacts DEF Types
<1>3. /\ told \subseteq told' /\ told' \subseteq Client
      /\ connection' \in [Client -> [role : Role, locked : BOOLEAN]]
  <2>1. RoomClients(s) \subseteq Client
    BY DEF RoomClients, Types
  <2>2. \/ told' = told /\ \E b \in BOOLEAN : connection' \in Relocked(s, b)
        \/ \E x : told' = told \cup (RoomClients(s) \cap x) /\ UNCHANGED connection
    BY DEF Receive
  <2>3. CASE told' = told /\ \E b \in BOOLEAN : connection' \in Relocked(s, b)
    BY <2>3, RelockedType DEF Types
  <2>4. CASE \E x : told' = told \cup (RoomClients(s) \cap x) /\ UNCHANGED connection
    BY <2>1, <2>4 DEF Types
  <2> QED
    BY <2>2, <2>3, <2>4
<1>4. ASSUME NEW c \in room', home[c] = s, e = [event |-> "ACCESS_REVOKED", client |-> c]
      PROVE  c \in told'
  <2>1. e.event = "ACCESS_REVOKED" /\ e.client = c
    BY <1>4
  <2>2. told' = told \cup (RoomClients(s) \cap {e.client})
    BY <2>1 DEF Receive
  <2>3. c \in RoomClients(s)
    BY <1>1, <1>4 DEF RoomClients
  <2> QED
    BY <2>1, <2>2, <2>3
<1>5. Types(M)'
  BY <1>1, <1>2, <1>3 DEF Types, Connecting, Leaving
<1> HIDE DEF e
<1>6. \A c \in Client : c \in revoked /\ c \in room' =>
         /\ c \in room
         /\ c \in told => c \in told'
         /\ OnItsWay(c) => c \in told' \/ OnItsWay(c)'
  BY <1>1, <1>2, <1>3, <1>4
<1> QED
  BY <1>1, <1>5, <1>6, SessionStep

LEMMA RestartKeepsSessions ==
    ASSUME NEW M, NEW G, SInv(M, G), NEW s \in Server, Restart(s)
    PROVE  SInv(M, G)'
<1> USE DEF SInv, Types
<1> DEFINE lost == {c \in Client : home[c] = s}
<1>1. /\ channel' = [c \in Client |-> IF c \in lost /\ channel[c] = "open" THEN "gone" ELSE channel[c]]
      /\ told' = told \ lost /\ room' = room \ lost
      /\ connect' = [c \in Client |-> IF c \in lost THEN Idle ELSE connect[c]]
      /\ leave' = [c \in Client |-> IF c \in lost THEN Staying ELSE leave[c]]
      /\ connection' = [c \in Client |-> IF c \in lost THEN NoConnection ELSE connection[c]]
      /\ member' = [c \in Client |-> 0] \/ member' = member
      /\ current' = {} \/ current' = current
      /\ inbox' = [inbox EXCEPT ![s] = <<>>]
      /\ crashes' = crashes + 1 /\ crashes < MaxCrashes
      /\ UNCHANGED <<policy, created, revoked, faults>>
  BY DEF Restart
<1> HIDE DEF lost
<1>2. Types(M)'
  <2>1. Idle \in Connecting /\ Staying \in Leaving
    BY DEF Idle, Staying, Connecting, Leaving, Role
  <2>2. connect' \in [Client -> Connecting] /\ leave' \in [Client -> Leaving]
    BY <1>1, <2>1
  <2>3. NoConnection \in [role : Role, locked : BOOLEAN]
    BY DEF NoConnection, Role
  <2>4. connection' \in [Client -> [role : Role, locked : BOOLEAN]]
    BY <1>1, <2>3
  <2>5. channel' \in [Client -> {"new", "open", "gone"}]
    <3>1. \A c \in Client : channel'[c] \in {"new", "open", "gone"}
      BY <1>1
    <3>2. channel' = [c \in Client |-> channel'[c]]
      BY <1>1
    <3> QED
      BY <3>1, <3>2
  <2>6. member' \in [Client -> 0..created]
    <3>1. 0 \in 0..created
      OBVIOUS
    <3>2. CASE member' = [c \in Client |-> 0]
      BY <3>1, <3>2
    <3> QED
      BY <1>1, <3>2
  <2>9. current' \subseteq 1..created
    BY <1>1
  <2>7. inbox' \in [Server -> Seq(M)]
    BY <1>1
  <2>8. crashes' \in 0..MaxCrashes
    BY <1>1, BoundAssumption
  <2> QED
    BY <1>1, <2>2, <2>4, <2>5, <2>6, <2>7, <2>8, <2>9 DEF Connecting, Leaving
<1>3. \A c \in Client : /\ channel'[c] = "new" => channel[c] = "new"
                        /\ connect'[c] = connect[c] \/ connect'[c].pc = "idle"
                        /\ member'[c] # 0 => member[c] # 0
  BY <1>1 DEF Idle
<1>4. ASSUME NEW c \in Client, c \in room'
      PROVE  /\ c \in room /\ (c \in told => c \in told')
             /\ OnItsWay(c) => OnItsWay(c)'
  <2>1. c \in room /\ c \notin lost
    BY <1>1, <1>4
  <2>2. inbox'[home[c]] = inbox[home[c]]
    BY <1>1, <2>1, ClientAssumption DEF lost
  <2> QED
    BY <1>1, <2>1, <2>2 DEF OnItsWay
<1> HIDE DEF Types, SInv
<1>5. created' = created /\ UNCHANGED revoked
  BY <1>1
<1> QED
  BY <1>2, <1>3, <1>4, <1>5, SessionStep

LEMMA RevokeKeepsSessions ==
    ASSUME NEW M, RoomEvent \subseteq M, NEW G, SInv(M, G), NEW o \in Client, NEW u, RevokeAccess(o, u)
    PROVE  SInv(M, G)'
<1> USE DEF SInv
<1> DEFINE elsewhere == ToRevoke(u) \ RoomClients(home[o])
           event(c) == [event |-> "ACCESS_REVOKED", client |-> c]
<1>1. /\ revoked' = revoked \cup ToRevoke(u)
      /\ told' = told \cup (ToRevoke(u) \cap RoomClients(home[o]))
      /\ UNCHANGED <<policy, channel, connect, leave, connection, room, created, current, member, faults, crashes>>
  BY DEF RevokeAccess, Revokes, memoryVars, sessionVars, boundVars
<1>2. ToRevoke(u) \subseteq Client
  BY DEF ToRevoke
<1>3. Cardinality(elsewhere) \in Nat
  <2>1. elsewhere \subseteq Client
    BY <1>2
  <2> QED
    BY <2>1, ClientAssumption, FS_Subset, FS_CardinalityType
<1>4. PICK order \in [1..Cardinality(elsewhere) -> elsewhere] :
         /\ elsewhere = {order[k] : k \in DOMAIN order}
         /\ inbox' = [s \in Server |-> IF s = home[o] THEN inbox[s] ELSE
                        inbox[s] \o [k \in DOMAIN order |-> event(order[k])]]
  BY DEF RevokeAccess
<1> DEFINE r == [k \in DOMAIN order |-> event(order[k])]
<1>5. r \in Seq(M)
  <2>1. DOMAIN order = 1..Cardinality(elsewhere) /\ r = [k \in 1..Cardinality(elsewhere) |-> event(order[k])]
    OBVIOUS
  <2>2. \A k \in DOMAIN order : order[k] \in Client
    BY <1>2
  <2>3. \A k \in DOMAIN order : event(order[k]) \in M
    BY <2>2 DEF RoomEvent
  <2> HIDE DEF event, elsewhere, r
  <2> QED
    BY <1>3, <2>1, <2>3
<1> HIDE DEF elsewhere, r
<1>6. \A s \in Server : /\ inbox[s] \in Seq(M)
                        /\ inbox'[s] = IF s = home[o] THEN inbox[s] ELSE inbox[s] \o r
  BY <1>4 DEF Types, r
<1>7. inbox' \in [Server -> Seq(M)]
  <2>1. \A s \in Server : inbox'[s] \in Seq(M)
    <3>1. \A q \in Seq(M) : q \o r \in Seq(M)
      BY <1>5
    <3> QED
      BY <1>6, <3>1
  <2>2. inbox' = [s \in Server |-> inbox'[s]]
    BY <1>4
  <2> QED
    BY <2>1, <2>2
<1>8. ASSUME NEW c \in Client, OnItsWay(c) PROVE OnItsWay(c)'
  <2> DEFINE q == inbox[home[c]]
             p == inbox'[home[c]]
             v == event(c)
  <2>1. q \in Seq(M) /\ (p = q \/ p = q \o r)
    BY <1>6, ClientAssumption
  <2>2. PICK k \in DOMAIN q : q[k] = v
    BY <1>8 DEF OnItsWay
  <2> HIDE DEF q, p, v
  <2>3. \E l \in DOMAIN p : p[l] = v
    <3>1. CASE p = q
      BY <2>2, <3>1
    <3>2. CASE p = q \o r
      BY <1>5, <2>1, <2>2, <3>2, KeptByConcat
    <3> QED
      BY <2>1, <3>1, <3>2
  <2> QED
    BY <2>3 DEF OnItsWay, p, v
<1>9. ASSUME NEW c \in elsewhere, home[c] # home[o] PROVE OnItsWay(c)'
  <2>0. c \in Client
    BY <1>2, <1>9 DEF elsewhere
  <2> DEFINE q == inbox[home[c]]
             p == inbox'[home[c]]
  <2>1. q \in Seq(M) /\ p = q \o r
    BY <1>6, <1>9, <2>0, ClientAssumption
  <2>2. PICK k \in DOMAIN r : r[k] = event(c)
    BY <1>4, <1>9 DEF r
  <2>3. Len(q) + k \in DOMAIN p /\ p[Len(q) + k] = r[k]
    <3> HIDE DEF q, p
    <3> QED
      BY <1>5, <2>1, <2>2
  <2> QED
    BY <2>2, <2>3 DEF OnItsWay
<1>10. Types(M)'
  <2>1. RoomClients(home[o]) \subseteq Client
    BY DEF RoomClients, Types
  <2> QED
    BY <1>1, <1>2, <1>7, <2>1 DEF Types, Connecting, Leaving
<1>11. Started(G)' /\ Counted(G)'
  BY <1>1 DEF Started, Counted, Spent
<1>12. Joined(G)'
  BY <1>1 DEF Joined, ToRevoke
<1>13. RevocationReaches'
  <2> SUFFICES ASSUME NEW c \in (revoked \cap room)' PROVE (c \in told \/ OnItsWay(c))'
    BY DEF RevocationReaches
  <2>1. c \in Client /\ c \in room
    BY <1>1 DEF Types
  <2>2. CASE c \in revoked
    BY <1>1, <1>8, <2>1, <2>2 DEF RevocationReaches
  <2>3. CASE c \in ToRevoke(u) /\ home[c] = home[o]
    BY <1>1, <2>1, <2>3 DEF RoomClients
  <2>4. CASE c \in ToRevoke(u) /\ home[c] # home[o]
    <3>1. c \in elsewhere
      BY <2>4 DEF elsewhere, RoomClients
    <3> QED
      BY <1>9, <2>4, <3>1
  <2> QED
    BY <1>1, <2>2, <2>3, <2>4
<1> QED
  BY <1>10, <1>11, <1>12, <1>13

------------------------------------------------------------------------------

\* The invariant of DesktopRoom, where nobody has to be let in.
RoomInv == SInv(RoomEvent, {})

LEMMA RoomInvInit == Init => RoomInv
BY SessionInit DEF RoomInv

LEMMA RoomInvNext == RoomInv /\ [Next]_vars => RoomInv'
<1> SUFFICES ASSUME RoomInv, [Next]_vars PROVE RoomInv'
  OBVIOUS
<1>1. ASSUME UNCHANGED vars PROVE RoomInv'
  BY <1>1 DEF RoomInv, vars, handlerVars, memoryVars, sessionVars, boundVars, SInv, Types, Started, Joined,
              Counted, Spent, RevocationReaches, OnItsWay, Connecting, Leaving
<1>2. ASSUME NEW c \in Client, Connect(c) PROVE RoomInv'
  <2>1. /\ channel[c] = "new" /\ channel' = [channel EXCEPT ![c] = "open"] /\ Begin(c, role[c])
        /\ UNCHANGED <<policy, leave, memoryVars, sessionVars, inbox, revoked, boundVars>>
    BY <1>2 DEF Connect
  <2>2. /\ channel' \in [Client -> {"new", "open", "gone"}] /\ channel'[c] # "new"
        /\ \A d \in Client \ {c} : channel'[d] = channel[d]
    BY <2>1 DEF RoomInv, SInv, Types
  <2>3. inbox' \in [Server -> Seq(RoomEvent)] /\ \A d \in Client : OnItsWay(d) => OnItsWay(d)'
    BY <2>1 DEF RoomInv, SInv, Types, OnItsWay
  <2>4. role[c] \in Role /\ {} = {} \ {c}
    BY ClientAssumption
  <2> QED
    BY <2>1, <2>2, <2>3, <2>4, BeginKeeps DEF RoomInv
<1>3. ASSUME NEW c \in Client, Disconnect(c) PROVE RoomInv'
  BY <1>3, CloseKeepsSessions DEF Disconnect, RoomInv, SInv, Types, OnItsWay
<1> QED
  BY <1>1, <1>2, <1>3, ConnectStepKeepsSessions, LeaveStepKeepsSessions, ReceiveKeepsSessions,
     RestartKeepsSessions, RevokeKeepsSessions DEF RoomInv, Next, HandlerStep

\* However clients come, leave, fail and lose their servers, each opens one session at
\* most, and the handlers never hold the id of a session that does not exist.
THEOREM RoomTypeCorrect == Spec => []TypeOK
<1>1. RoomInv => TypeOK
  <2> SUFFICES ASSUME RoomInv PROVE TypeOK
    OBVIOUS
  <2> DEFINE N == Cardinality(Client)
  <2>1. N \in Nat /\ created \in Nat /\ created <= N
    <3>1. /\ Cardinality(Spent({})) <= N /\ Cardinality(Spent({})) \in Nat /\ N \in Nat
          /\ created <= Cardinality(Spent({})) /\ created \in Nat
      BY SpentFinite, ClientAssumption, FS_CardinalityType DEF RoomInv, SInv, Counted, Types
    <3> HIDE DEF N
    <3> QED
      BY <3>1
  <2>2. 0..created \subseteq SessionId /\ 1..created \subseteq SessionId \ {0} /\ created \in SessionId
    BY <2>1 DEF SessionId
  <2> QED
    BY <2>2 DEF RoomInv, SInv, Types, Connecting, Leaving, TypeOK, RoomTypeOK
<1> QED
  BY <1>1, RoomInvInit, RoomInvNext, PTL DEF Spec

\* Whatever happens between the command of the owner and its arrival on the server of a
\* client that it is meant for, the client is told to go: none is forgotten because it
\* is just connecting, or because another server starts and ends its session.
THEOREM RevocationIsComplete == Spec => []RevocationReaches
<1>1. RoomInv => RevocationReaches
  BY DEF RoomInv, SInv
<1> QED
  BY <1>1, RoomInvInit, RoomInvNext, PTL DEF Spec

------------------------------------------------------------------------------
(* Closing the room *)

\* A client has been told to go, or its server is still to be.
ToldOnItsWay(c) == \E k \in DOMAIN inbox[home[c]] : inbox[home[c]][k] = [event |-> "ROOM_CLOSED"]
MustGo(c) == c \in told \/ ToldOnItsWay(c)

\* Nobody escapes: who has to go leaves the room or still has to go.
StillMustGo == \A c \in room : MustGo(c) => c \notin room' \/ MustGo(c)'

ClosureReaches == StillMustGo /\ \A c \in Client : CloseRoom(c) => \A d \in room : MustGo(d)'

\* No event that is on its way is taken out.
NothingTaken ==
    \A s \in Server : \A k \in DOMAIN inbox[s] :
        \E l \in DOMAIN inbox'[s] : inbox'[s][l] = inbox[s][k]

LEMMA AddingKeepsCalls ==
    ASSUME NothingTaken, room \subseteq Client, told \cap room' \subseteq told'
    PROVE  StillMustGo
<1> SUFFICES ASSUME NEW c \in room, c \in room', MustGo(c) PROVE MustGo(c)'
  BY DEF StillMustGo
<1>1. home[c] \in Server
  BY ClientAssumption
<1>2. ASSUME ToldOnItsWay(c) PROVE ToldOnItsWay(c)'
  <2>1. PICK k \in DOMAIN inbox[home[c]] : inbox[home[c]][k] = [event |-> "ROOM_CLOSED"]
    BY <1>2 DEF ToldOnItsWay
  <2>2. PICK l \in DOMAIN inbox'[home[c]] : inbox'[home[c]][l] = inbox[home[c]][k]
    BY <1>1, <2>1 DEF NothingTaken
  <2> QED
    BY <2>1, <2>2 DEF ToldOnItsWay
<1> QED
  BY <1>2 DEF MustGo

LEMMA UntouchedTakesNothing == ASSUME UNCHANGED inbox PROVE NothingTaken
BY DEF NothingTaken

LEMMA PublishTakesNothing ==
    ASSUME NEW M, inbox \in [Server -> Seq(M)], NEW s, NEW e \in M, Publish(s, e)
    PROVE  NothingTaken
<1> SUFFICES ASSUME NEW t \in Server, NEW k \in DOMAIN inbox[t]
             PROVE  \E l \in DOMAIN inbox'[t] : inbox'[t][l] = inbox[t][k]
  BY DEF NothingTaken
<1> DEFINE q == inbox[t]
           r == inbox'[t]
<1>1. q \in Seq(M) /\ k \in DOMAIN q /\ (r = q \/ r = Append(q, e))
  BY DEF Publish
<1> HIDE DEF q, r
<1>2. \E l \in DOMAIN r : r[l] = q[k]
  <2>1. CASE r = q
    BY <1>1, <2>1
  <2>2. CASE r = Append(q, e)
    <3>1. k \in DOMAIN Append(q, e) /\ Append(q, e)[k] = q[k]
      BY <1>1
    <3> QED
      BY <2>2, <3>1
  <2> QED
    BY <1>1, <2>1, <2>2
<1> QED
  BY <1>2 DEF q, r

LEMMA RevokeTakesNothing ==
    ASSUME NEW M, inbox \in [Server -> Seq(M)], RoomEvent \subseteq M,
           NEW o \in Client, NEW u, RevokeAccess(o, u)
    PROVE  NothingTaken
<1> DEFINE elsewhere == ToRevoke(u) \ RoomClients(home[o])
           event(c) == [event |-> "ACCESS_REVOKED", client |-> c]
           n == Cardinality(elsewhere)
<1>1. elsewhere \subseteq Client /\ n \in Nat
  <2>1. elsewhere \subseteq Client
    BY DEF ToRevoke
  <2> QED
    BY <2>1, ClientAssumption, FS_Subset, FS_CardinalityType
<1>2. PICK order \in [1..n -> elsewhere] :
         inbox' = [s \in Server |-> IF s = home[o] THEN inbox[s] ELSE
                     inbox[s] \o [k \in DOMAIN order |-> event(order[k])]]
  BY DEF RevokeAccess
<1> DEFINE r == [k \in DOMAIN order |-> event(order[k])]
<1>3. r \in Seq(M)
  <2>1. DOMAIN order = 1..n /\ r = [k \in 1..n |-> event(order[k])]
    OBVIOUS
  <2>2. \A k \in DOMAIN order : event(order[k]) \in M
    BY <1>1 DEF RoomEvent
  <2> HIDE DEF event, elsewhere, n, r
  <2> QED
    BY <1>1, <2>1, <2>2
<1> HIDE DEF r
<1> SUFFICES ASSUME NEW t \in Server, NEW k \in DOMAIN inbox[t]
             PROVE  \E l \in DOMAIN inbox'[t] : inbox'[t][l] = inbox[t][k]
  BY DEF NothingTaken
<1> DEFINE q == inbox[t]
           p == inbox'[t]
<1>4. q \in Seq(M) /\ k \in DOMAIN q /\ (p = q \/ p = q \o r)
  BY <1>2 DEF r
<1> HIDE DEF q, p
<1>5. \E l \in DOMAIN p : p[l] = q[k]
  <2>1. CASE p = q
    BY <1>4, <2>1
  <2>2. CASE p = q \o r
    <3>1. k \in DOMAIN (q \o r) /\ (q \o r)[k] = q[k]
      BY <1>3, <1>4
    <3> QED
      BY <2>2, <3>1
  <2> QED
    BY <1>4, <2>1, <2>2
<1> QED
  BY <1>5 DEF q, p

\* The event of a closure is taken by a server that tells all its clients.
LEMMA TakingKeepsCalls ==
    ASSUME NEW M, inbox \in [Server -> Seq(M)], NEW s \in Server, inbox[s] # <<>>,
           inbox' = [inbox EXCEPT ![s] = Tail(inbox[s])],
           room \subseteq Client, room' = room, told \subseteq told',
           Head(inbox[s]) = [event |-> "ROOM_CLOSED"] => RoomClients(s) \subseteq told'
    PROVE  StillMustGo
<1> SUFFICES ASSUME NEW c \in room, ToldOnItsWay(c), c \notin told' PROVE ToldOnItsWay(c)'
  BY DEF StillMustGo, MustGo
<1> DEFINE v == [event |-> "ROOM_CLOSED"]
           q == inbox[home[c]]
           r == inbox'[home[c]]
<1>1. q \in Seq(M)
  BY ClientAssumption
<1>2. PICK k \in DOMAIN q : q[k] = v
  BY DEF ToldOnItsWay
<1>3. home[c] = s => Head(inbox[s]) # v
  BY DEF RoomClients
<1>4. r = q \/ (r = Tail(q) /\ v # Head(q))
  BY <1>3, ClientAssumption
<1>5. ASSUME r = q \/ (r = Tail(q) /\ v # Head(q)) PROVE \E l \in DOMAIN r : r[l] = v
  <2> HIDE DEF v, q, r
  <2>1. CASE r = q
    BY <1>2, <2>1
  <2>2. CASE r = Tail(q) /\ v # Head(q)
    BY <1>1, <1>2, <2>2, KeptByTail
  <2> QED
    BY <1>5, <2>1, <2>2
<1> QED
  BY <1>4, <1>5 DEF ToldOnItsWay

LEMMA ConnectingKeepsCalls ==
    ASSUME NEW M, RoomEvent \subseteq M, inbox \in [Server -> Seq(M)], room \subseteq Client,
           NEW c \in Client, Connect(c) \/ ConnectStep(c)
    PROVE  StillMustGo
<1>1. told \subseteq told'
  BY DEF Connect, Begin, ConnectStep, CreateSession, UseSession, SocketFails, JoinRoom, ReadSession,
         ReadOwner, AddMember, UnlockRoom, Refuse
<1>2. CASE UNCHANGED inbox
  BY <1>1, <1>2, UntouchedTakesNothing, AddingKeepsCalls
<1>3. CASE UnlockRoom(c)
  <2>1. [event |-> "ROOM_UNLOCKED"] \in M /\ Publish(home[c], [event |-> "ROOM_UNLOCKED"])
    BY <1>3 DEF UnlockRoom, RoomEvent
  <2> QED
    BY <1>1, <2>1, PublishTakesNothing, AddingKeepsCalls
<1> QED
  BY <1>2, <1>3 DEF Connect, ConnectStep, CreateSession, UseSession, SocketFails, JoinRoom,
                    ReadSession, ReadOwner, AddMember

LEMMA LeavingKeepsCalls ==
    ASSUME NEW M, RoomEvent \subseteq M, inbox \in [Server -> Seq(M)], room \subseteq Client,
           NEW c \in Client, LeaveStep(c)
    PROVE  StillMustGo
<1>1. told \subseteq told'
  BY DEF LeaveStep, LeaveSession, CheckMember, CommitMember, LeaveOwner, CloseRoom, LockRoom
<1>2. CASE UNCHANGED inbox
  BY <1>1, <1>2, UntouchedTakesNothing, AddingKeepsCalls
<1>3. CASE CloseRoom(c) \/ LockRoom(c)
  <2>1. \E e \in M : Publish(home[c], e)
    BY <1>3 DEF CloseRoom, LockRoom, RoomEvent
  <2> QED
    BY <1>1, <2>1, PublishTakesNothing, AddingKeepsCalls
<1> QED
  BY <1>2, <1>3 DEF LeaveStep, LeaveSession, CheckMember, CommitMember, LeaveOwner

LEMMA ReceivingKeepsCalls ==
    ASSUME NEW M, inbox \in [Server -> Seq(M)], room \subseteq Client, NEW s \in Server, Receive(s)
    PROVE  StillMustGo
<1>1. /\ inbox[s] # <<>> /\ inbox' = [inbox EXCEPT ![s] = Tail(inbox[s])]
      /\ room' = room /\ told \subseteq told'
  BY DEF Receive
<1>2. ASSUME Head(inbox[s]) = [event |-> "ROOM_CLOSED"] PROVE RoomClients(s) \subseteq told'
  BY <1>2 DEF Receive
<1> QED
  BY <1>1, <1>2, TakingKeepsCalls

LEMMA RestartingKeepsCalls ==
    ASSUME NEW M, inbox \in [Server -> Seq(M)], room \subseteq Client, NEW s \in Server, Restart(s)
    PROVE  StillMustGo
<1>1. /\ told' = told \ {c \in Client : home[c] = s}
      /\ room' = room \ {c \in Client : home[c] = s}
      /\ inbox' = [inbox EXCEPT ![s] = <<>>]
  BY DEF Restart
<1> SUFFICES ASSUME NEW c \in room, c \in room', MustGo(c) PROVE MustGo(c)'
  BY DEF StillMustGo
<1>2. home[c] # s /\ home[c] \in Server
  BY <1>1, ClientAssumption
<1>3. inbox'[home[c]] = inbox[home[c]]
  BY <1>1, <1>2
<1> QED
  BY <1>1, <1>2, <1>3 DEF MustGo, ToldOnItsWay

\* The closure itself is addressed to everybody in the room, on any server.
LEMMA ClosingCallsAll ==
    ASSUME NEW M, inbox \in [Server -> Seq(M)], room \subseteq Client, NEW c \in Client, CloseRoom(c),
           NEW d \in room
    PROVE  MustGo(d)'
<1> DEFINE v == [event |-> "ROOM_CLOSED"]
           q == inbox[home[d]]
<1>1. CASE home[d] = home[c]
  BY <1>1 DEF CloseRoom, RoomClients, MustGo
<1>2. CASE home[d] # home[c]
  <2>1. q \in Seq(M) /\ inbox'[home[d]] = Append(q, v)
    BY <1>2, ClientAssumption DEF CloseRoom, Publish
  <2>2. Len(q) + 1 \in DOMAIN Append(q, v) /\ Append(q, v)[Len(q) + 1] = v
    <3> HIDE DEF q, v
    <3> QED
      BY <2>1
  <2> QED
    BY <2>1, <2>2 DEF MustGo, ToldOnItsWay
<1> QED
  BY <1>1, <1>2

\* When a server closes the room, whoever is in it is told to go or will be told by its
\* own server, and nothing that happens afterwards, no other event, no restart and no
\* client that comes meanwhile, lets it stay: ClosedRoomEmpties without the fairness that
\* delivers the events and lets the told leave.
THEOREM ClosureIsAnnounced == Spec => [][ClosureReaches]_vars
<1>1. ASSUME RoomInv, Next PROVE ClosureReaches
  <2>1. inbox \in [Server -> Seq(RoomEvent)] /\ room \subseteq Client
    BY <1>1 DEF RoomInv, SInv, Types
  <2>2. ASSUME NEW c \in Client, Disconnect(c) PROVE StillMustGo
    <3>1. UNCHANGED inbox /\ told \cap room' \subseteq told'
      BY <2>2 DEF Disconnect, Close
    <3> QED
      BY <2>1, <3>1, UntouchedTakesNothing, AddingKeepsCalls
  <2>3. ASSUME NEW o \in Client, NEW u \in Revocable, RevokeAccess(o, u) PROVE StillMustGo
    <3>1. told \subseteq told'
      BY <2>3 DEF RevokeAccess, Revokes
    <3> QED
      BY <2>1, <2>3, <3>1, RevokeTakesNothing, AddingKeepsCalls
  <2>4. StillMustGo
    BY <1>1, <2>1, <2>2, <2>3, ConnectingKeepsCalls, LeavingKeepsCalls, ReceivingKeepsCalls,
       RestartingKeepsCalls DEF Next, HandlerStep
  <2> QED
    BY <2>1, <2>4, ClosingCallsAll DEF ClosureReaches
<1> QED
  BY <1>1, RoomInvInit, RoomInvNext, PTL DEF Spec
==============================================================================

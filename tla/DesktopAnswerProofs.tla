-------------------------- MODULE DesktopAnswerProofs --------------------------
(***************************************************************************)
(* Proofs about the composition of DesktopAccess with DesktopRoom: the     *)
(* types, that a candidate gets no other role than one it was granted,     *)
(* that no answer of an owner is lost, and that revocations and closures   *)
(* stay complete.                                                          *)
(*                                                                         *)
(* The part about sessions is that of DesktopSessionProofs, for the        *)
(* candidates that have not been let in yet; that no candidate is let in   *)
(* twice is taken from DesktopAccessProofs.                                *)
(***************************************************************************)
EXTENDS DesktopAccessProofs, DesktopSessionProofs

------------------------------------------------------------------------------
(* The inductive invariant *)

AllEvent == RoomEvent \cup AccessEvent

AccessTypes ==
    /\ ask \in [Candidate -> {"idle", "join", "seek"}]
    /\ candidates \subseteq Candidate
    /\ tokens \subseteq Server \X Candidate
    /\ shown \in [Owner -> SUBSET Candidate]
    /\ replying \in [Candidate -> Owner \cup Server]
    /\ answers \in [Candidate -> SUBSET Reply]

\* The sessions, with the candidates that have not been let in set apart.
Ungranted == {c \in Candidate : grants[c] = 0}
Sessions == \E G : G = Ungranted /\ SInv(AllEvent, G)

\* The roles that the answers of the owner allow.
Allowed(c) ==
    {r \in Role : \/ r = "NONE"
                  \/ r = "GUEST" /\ "GUEST" \in answers[c]
                  \/ r = "USER" /\ "SUPPORT" \in answers[c]}

OnlyAllowed ==
    \A c \in Candidate : connect[c].role \in Allowed(c) /\ connection[c].role \in Allowed(c)

\* Before a candidate has asked nobody knows of it.
Asked(c) == channel[c] # "new" /\ ask[c] # "join"

Unknown ==
    \A c \in Candidate : ~Asked(c) => answers[c] = {} /\ \A s \in Server : <<s, c>> \notin tokens

\* What is on its way was answered, or asked.
Genuine(e) ==
    /\ e.event = "ACCESS_REPLY" => e.reply \in answers[e.client]
    /\ e.event = "ACCESS_CANDIDATE" => Asked(e.client)

EventsAreGenuine == \A s \in Server : \A k \in DOMAIN inbox[s] : Genuine(inbox[s][k])

\* A candidate that has asked and does not wait any more has been served.
Waiting ==
    \A c \in Candidate : Asked(c) /\ channel[c] = "open" =>
        c \in candidates \/ c \in told \/ grants[c] > 0

AInv ==
    /\ WaitsOnce /\ AccessTypes /\ Sessions /\ OnlyAllowed
    /\ Unknown /\ EventsAreGenuine /\ Waiting /\ AnswerIsNotLost

------------------------------------------------------------------------------
(* Events *)

LEMMA EventFacts ==
    ASSUME NEW e \in AllEvent
    PROVE  /\ e \notin RoomEvent => e \in AccessEvent
           /\ e \in AccessEvent => e.client \in Candidate
           /\ e.event = "ACCESS_REPLY" => e \notin RoomEvent /\ e.reply \in Reply
           /\ e \in RoomEvent => e.event \notin {"ACCESS_REPLY", "ACCESS_CANDIDATE"}
<1>1. CASE e \in RoomEvent
  <2>1. e.event \in {"ROOM_CLOSED", "ROOM_LOCKED", "ROOM_UNLOCKED", "ACCESS_REVOKED"}
    BY <1>1 DEF RoomEvent
  <2>2. e \notin AccessEvent
    BY <2>1 DEF AccessEvent
  <2> QED
    BY <1>1, <2>1, <2>2
<1>2. CASE e \in AccessEvent
  <2>1. e.event \in {"ACCESS_CANDIDATE", "ACCESS_CANCELLATION", "ACCESS_REPLY"} /\ e.client \in Candidate
    BY <1>2 DEF AccessEvent
  <2>2. e \notin RoomEvent
    BY <2>1 DEF RoomEvent
  <2>3. e.event = "ACCESS_REPLY" => e.reply \in Reply
    BY <1>2 DEF AccessEvent
  <2> QED
    BY <1>2, <2>1, <2>2, <2>3
<1> QED
  BY <1>1, <1>2 DEF AllEvent

\* The queues hold nothing new but events of E.
NothingBut(E) ==
    \A s \in Server : \A k \in DOMAIN inbox'[s] :
        inbox'[s][k] \in E \/ \E l \in DOMAIN inbox[s] : inbox[s][l] = inbox'[s][k]

LEMMA AppendFacts ==
    ASSUME NEW M, NEW q \in Seq(M), NEW f \in M
    PROVE  \A k \in DOMAIN Append(q, f) :
              Append(q, f)[k] = f \/ \E l \in DOMAIN q : q[l] = Append(q, f)[k]
<1> SUFFICES ASSUME NEW k \in DOMAIN Append(q, f)
             PROVE  Append(q, f)[k] = f \/ \E l \in DOMAIN q : q[l] = Append(q, f)[k]
  OBVIOUS
<1>1. k \in 1..(Len(q) + 1) /\ Len(q) \in Nat
  OBVIOUS
<1>2. CASE k = Len(q) + 1
  BY <1>2
<1>3. CASE k # Len(q) + 1
  <2>1. k \in DOMAIN q /\ q[k] = Append(q, f)[k]
    BY <1>1, <1>3
  <2> QED
    BY <2>1
<1> QED
  BY <1>2, <1>3

LEMMA ConcatFacts ==
    ASSUME NEW M, NEW q \in Seq(M), NEW r \in Seq(M)
    PROVE  \A k \in DOMAIN (q \o r) :
              \/ \E l \in DOMAIN r : r[l] = (q \o r)[k]
              \/ \E l \in DOMAIN q : q[l] = (q \o r)[k]
<1> SUFFICES ASSUME NEW k \in DOMAIN (q \o r)
             PROVE  \/ \E l \in DOMAIN r : r[l] = (q \o r)[k]
                    \/ \E l \in DOMAIN q : q[l] = (q \o r)[k]
  OBVIOUS
<1>1. k \in 1..(Len(q) + Len(r)) /\ Len(q) \in Nat /\ Len(r) \in Nat
  OBVIOUS
<1>2. CASE k > Len(q)
  <2>1. k - Len(q) \in DOMAIN r /\ r[k - Len(q)] = (q \o r)[k]
    BY <1>1, <1>2
  <2> QED
    BY <2>1
<1>3. CASE k <= Len(q)
  <2>1. k \in DOMAIN q /\ q[k] = (q \o r)[k]
    BY <1>1, <1>3
  <2> QED
    BY <2>1
<1> QED
  BY <1>1, <1>2, <1>3

LEMMA PublishNews ==
    ASSUME NEW M, inbox \in [Server -> Seq(M)], NEW s, NEW e \in M, Publish(s, e)
    PROVE  NothingBut({e}) /\ NothingTaken
<1> SUFFICES ASSUME NEW t \in Server
             PROVE  /\ \A k \in DOMAIN inbox'[t] : inbox'[t][k] \in {e} \/
                          \E l \in DOMAIN inbox[t] : inbox[t][l] = inbox'[t][k]
                    /\ \A k \in DOMAIN inbox[t] :
                          \E l \in DOMAIN inbox'[t] : inbox'[t][l] = inbox[t][k]
  BY DEF NothingBut, NothingTaken
<1> DEFINE q == inbox[t]
           r == inbox'[t]
<1>1. q \in Seq(M) /\ (r = q \/ r = Append(q, e))
  BY DEF Publish
<1> HIDE DEF q, r
<1>2. \A k \in DOMAIN r : r[k] \in {e} \/ \E l \in DOMAIN q : q[l] = r[k]
  <2>1. CASE r = q
    BY <2>1
  <2>2. CASE r = Append(q, e)
    <3>1. \A k \in DOMAIN Append(q, e) :
             Append(q, e)[k] = e \/ \E l \in DOMAIN q : q[l] = Append(q, e)[k]
      BY <1>1, AppendFacts
    <3> QED
      BY <2>2, <3>1
  <2> QED
    BY <1>1, <2>1, <2>2
<1>3. \A k \in DOMAIN q : \E l \in DOMAIN r : r[l] = q[k]
  <2>1. CASE r = q
    BY <2>1
  <2>2. CASE r = Append(q, e)
    <3>1. \A k \in DOMAIN q : k \in DOMAIN Append(q, e) /\ Append(q, e)[k] = q[k]
      BY <1>1
    <3> QED
      BY <2>2, <3>1
  <2> QED
    BY <1>1, <2>1, <2>2
<1> QED
  BY <1>2, <1>3 DEF q, r

\* Taking the first event of a queue.
LEMMA TakeNews ==
    ASSUME NEW M, inbox \in [Server -> Seq(M)], NEW s \in Server, inbox[s] # <<>>,
           inbox' = [inbox EXCEPT ![s] = Tail(inbox[s])]
    PROVE  /\ NothingBut({})
           /\ \E k \in DOMAIN inbox[s] : inbox[s][k] = Head(inbox[s])
           /\ \A c \in Client : ReplyOnItsWay(c) =>
                 \/ ReplyOnItsWay(c)'
                 \/ /\ home[c] = s
                    /\ Head(inbox[s]).event = "ACCESS_REPLY" /\ Head(inbox[s]).client = c
<1>1. NothingBut({})
  <2> SUFFICES ASSUME NEW t \in Server
               PROVE  \A k \in DOMAIN inbox'[t] : \E l \in DOMAIN inbox[t] : inbox[t][l] = inbox'[t][k]
    BY DEF NothingBut
  <2> DEFINE q == inbox[t]
             r == inbox'[t]
  <2>1. q \in Seq(M) /\ (r = q \/ (r = Tail(q) /\ q # <<>>))
    OBVIOUS
  <2> HIDE DEF q, r
  <2>2. ASSUME NEW k \in DOMAIN r PROVE \E l \in DOMAIN q : q[l] = r[k]
    <3>1. CASE r = q
      BY <3>1
    <3>2. CASE r = Tail(q) /\ q # <<>>
      <4>1. k + 1 \in DOMAIN q /\ q[k + 1] = r[k]
        BY <2>1, <3>2
      <4> QED
        BY <4>1
    <3> QED
      BY <2>1, <3>1, <3>2
  <2> QED
    BY <2>2 DEF q, r
<1>2. 1 \in DOMAIN inbox[s] /\ inbox[s][1] = Head(inbox[s])
  <2> DEFINE q == inbox[s]
  <2>1. q \in Seq(M) /\ q # <<>>
    OBVIOUS
  <2> HIDE DEF q
  <2>2. 1 \in DOMAIN q /\ q[1] = Head(q)
    BY <2>1
  <2> QED
    BY <2>2 DEF q
<1>3. ASSUME NEW c \in Client, ReplyOnItsWay(c),
             ~(home[c] = s /\ Head(inbox[s]).event = "ACCESS_REPLY" /\ Head(inbox[s]).client = c)
      PROVE  ReplyOnItsWay(c)'
  <2> DEFINE q == inbox[home[c]]
             r == inbox'[home[c]]
  <2>1. q \in Seq(M)
    BY ClientAssumption
  <2>2. PICK k \in DOMAIN q : q[k].event = "ACCESS_REPLY" /\ q[k].client = c
    BY <1>3 DEF ReplyOnItsWay
  <2>3. r = q \/ (r = Tail(q) /\ q[k] # Head(q))
    BY <1>3, <2>2, ClientAssumption
  <2>4. ASSUME r = q \/ (r = Tail(q) /\ q[k] # Head(q)) PROVE \E l \in DOMAIN r : r[l] = q[k]
    <3> DEFINE v == q[k]
    <3>1. q[k] = v
      OBVIOUS
    <3> HIDE DEF v, q, r
    <3>2. CASE r = q
      BY <2>2, <3>2
    <3>3. CASE r = Tail(q) /\ v # Head(q)
      BY <2>1, <2>2, <3>1, <3>3, KeptByTail
    <3> QED
      BY <2>4, <3>1, <3>2, <3>3
  <2> QED
    BY <2>2, <2>3, <2>4 DEF ReplyOnItsWay
<1> QED
  BY <1>1, <1>2, <1>3

------------------------------------------------------------------------------
(* Kinds of steps *)

LEMMA Candidates == Candidate \subseteq Client /\ Candidate' = Candidate /\ Owner' = Owner
BY DEF Candidate, Owner, MustAsk

\* Replies on their way stay there when nothing is taken out.
LEMMA RepliesKept ==
    ASSUME NothingTaken, NEW c \in Client, ReplyOnItsWay(c) PROVE ReplyOnItsWay(c)'
<1>1. PICK k \in DOMAIN inbox[home[c]] :
         inbox[home[c]][k].event = "ACCESS_REPLY" /\ inbox[home[c]][k].client = c
  BY DEF ReplyOnItsWay
<1>2. PICK l \in DOMAIN inbox'[home[c]] : inbox'[home[c]][l] = inbox[home[c]][k]
  BY ClientAssumption DEF NothingTaken
<1> QED
  BY <1>1, <1>2 DEF ReplyOnItsWay

\* Steps that neither answer nor serve a request: whoever has asked has, and what it
\* waits with, or was told, is kept as long as it is there.
LEMMA QuietAccessStep ==
    ASSUME AInv, UNCHANGED <<answers, grants>>, AccessTypes',
           NEW E, NothingBut(E), \A e \in E : Genuine(e)',
           \A c \in Candidate :
              /\ Asked(c) => Asked(c)'
              /\ Asked(c)' /\ channel'[c] = "open" =>
                    (Asked(c) /\ channel[c] = "open") \/ c \in candidates' \/ c \in told'
              /\ channel'[c] = "open" => channel[c] \in {"new", "open"}
              /\ channel'[c] = "open" =>
                    /\ c \in candidates => c \in candidates'
                    /\ c \in told => c \in told'
                    /\ c \in candidates /\ ReplyOnItsWay(c) => ReplyOnItsWay(c)'
              /\ connect'[c].role \in {connect[c].role, "NONE"}
              /\ connection'[c].role \in {connection[c].role, connect[c].role, "NONE"}
              /\ \A s \in Server : <<s, c>> \in tokens' => <<s, c>> \in tokens \/ Asked(c)
    PROVE  OnlyAllowed' /\ Unknown' /\ EventsAreGenuine' /\ Waiting' /\ AnswerIsNotLost'
<1> USE DEF AInv
<1>0. Candidate' = Candidate
  BY Candidates
<1>1. OnlyAllowed'
  BY <1>0 DEF OnlyAllowed, Allowed, Role
<1>2. Unknown'
  BY <1>0 DEF Unknown
<1>3. EventsAreGenuine'
  <2>1. ASSUME NEW s \in Server, NEW k \in DOMAIN inbox'[s], NEW e, e = inbox'[s][k]
        PROVE  Genuine(e)'
    <3>1. CASE e \in E
      BY <3>1
    <3>2. CASE \E l \in DOMAIN inbox[s] : inbox[s][l] = e
      <4>1. PICK l \in DOMAIN inbox[s] : inbox[s][l] = e
        BY <3>2
      <4>2. inbox \in [Server -> Seq(AllEvent)]
        BY DEF Sessions, SInv, Types
      <4>3. inbox[s] \in Seq(AllEvent)
        BY <4>2
      <4>4. e \in AllEvent
        BY <4>1, <4>3
      <4>5. e.event = "ACCESS_CANDIDATE" => e.client \in Candidate
        BY <4>4, EventFacts
      <4>6. Genuine(e)
        BY <4>1 DEF EventsAreGenuine
      <4> QED
        BY <4>5, <4>6 DEF Genuine
    <3> QED
      BY <2>1, <3>1, <3>2 DEF NothingBut
  <2>2. \A s \in Server : \A k \in DOMAIN inbox'[s] : \A e : e = inbox'[s][k] => Genuine(e)'
    BY <2>1
  <2> QED
    BY <2>2 DEF EventsAreGenuine, Genuine, Asked
<1>4. Waiting'
  BY <1>0 DEF Waiting
<1>5. AnswerIsNotLost'
  <2> SUFFICES ASSUME NEW c \in Candidate, answers[c] # {}, channel'[c] = "open"
               PROVE  (grants[c] > 0 \/ c \in told \/ (c \in candidates /\ ReplyOnItsWay(c)))'
    BY <1>0 DEF AnswerIsNotLost
  <2>1. Asked(c)
    BY DEF Unknown
  <2>2. channel[c] = "open"
    BY <2>1 DEF Asked
  <2>3. grants[c] > 0 \/ c \in told \/ (c \in candidates /\ ReplyOnItsWay(c))
    BY <2>2 DEF AnswerIsNotLost
  <2> QED
    BY <2>3
<1> QED
  BY <1>1, <1>2, <1>3, <1>4, <1>5

\* What the handlers of DesktopRoom may do to candidates.
LEMMA HandlerFacts ==
    ASSUME AInv, NEW c \in Client, HandlerStep(c)
    PROVE  /\ UNCHANGED channel /\ told \subseteq told'
           /\ \A d \in Client :
                 /\ connect'[d].role \in {connect[d].role, "NONE"}
                 /\ connection'[d].role \in {connection[d].role, connect[d].role, "NONE"}
           /\ NothingBut(RoomEvent) /\ NothingTaken
<1> USE DEF AInv
<1>a. /\ connect \in [Client -> Connecting] /\ connect[c] \in Connecting
      /\ connection \in [Client -> [role : Role, locked : BOOLEAN]]
      /\ inbox \in [Server -> Seq(AllEvent)]
  BY DEF Sessions, SInv, Types
<1>b. DOMAIN connect = Client /\ DOMAIN connection = Client
      /\ "role" \in DOMAIN connect[c] /\ "role" \in DOMAIN connection[c]
  BY <1>a DEF Connecting
<1>c. Idle.role = "NONE" /\ NoConnection.role = "NONE"
  BY DEF Idle, NoConnection
<1>d. ASSUME UNCHANGED inbox PROVE NothingBut(RoomEvent) /\ NothingTaken
  BY <1>d DEF NothingBut, NothingTaken
<1>e. ASSUME NEW s, NEW e \in RoomEvent, Publish(s, e) PROVE NothingBut(RoomEvent) /\ NothingTaken
  <2>1. NothingBut({e}) /\ NothingTaken
    BY <1>a, <1>e, PublishNews DEF AllEvent
  <2> QED
    BY <2>1 DEF NothingBut
<1>f. ASSUME NEW s, NEW b, NEW f \in Relocked(s, b)
      PROVE  DOMAIN f = Client /\ \A d \in Client : f[d].role = connection[d].role
  <2>1. PICK done : f = [d \in Client |-> IF d \in done THEN [connection[d] EXCEPT !.locked = b]
                                          ELSE connection[d]]
    BY <1>f DEF Relocked
  <2> QED
    BY <1>a, <2>1
<1>h. ASSUME NEW h, h.role \in {connect[c].role, "NONE"}, connect' = [connect EXCEPT ![c] = h]
      PROVE  \A d \in Client : connect'[d].role \in {connect[d].role, "NONE"}
  BY <1>a, <1>h
<1>i. ASSUME NEW f, DOMAIN f = Client, \A d \in Client : f[d].role = connection[d].role,
             connection' = f \/ connection' = [f EXCEPT ![c] = NoConnection]
      PROVE  \A d \in Client : connection'[d].role \in {connection[d].role, "NONE"}
  BY <1>c, <1>i
<1>g. [event |-> "ROOM_UNLOCKED"] \in RoomEvent /\ [event |-> "ROOM_LOCKED"] \in RoomEvent
      /\ [event |-> "ROOM_CLOSED"] \in RoomEvent
  BY DEF RoomEvent
<1>j. ASSUME NEW h, h.role \in {connect[c].role, "NONE"}, connect' = [connect EXCEPT ![c] = h],
             UNCHANGED <<channel, connection, inbox>>, told \subseteq told'
      PROVE  /\ \A d \in Client : connect'[d].role \in {connect[d].role, "NONE"}
             /\ \A d \in Client : connection'[d].role = connection[d].role
             /\ UNCHANGED channel /\ told \subseteq told'
             /\ NothingBut(RoomEvent) /\ NothingTaken
  BY <1>d, <1>h, <1>j
<1>1. CASE CreateSession(c) \/ UseSession(c) \/ SocketFails(c)
  <2> DEFINE h == [connect[c] EXCEPT !.pc = "join"]
             g == [connect[c] EXCEPT !.session = 0]
  <2>1. h.role = connect[c].role /\ g.role = connect[c].role
    BY <1>a DEF Connecting
  <2>2. /\ UNCHANGED <<channel, connection, inbox>> /\ told \subseteq told'
        /\ \/ connect' = [connect EXCEPT ![c] = Idle]
           \/ connect' = [connect EXCEPT ![c] = h]
           \/ connect' = [connect EXCEPT ![c] = g]
    BY <1>1 DEF CreateSession, UseSession, SocketFails, Refuse, memoryVars
  <2> HIDE DEF h, g
  <2> QED
    BY <1>c, <1>j, <2>1, <2>2
<1>2. CASE ReadSession(c)
  <2>1. PICK p \in {"owner", "member"} :
           /\ connect' = [connect EXCEPT ![c].session = Current, ![c].pc = p]
           /\ UNCHANGED <<channel, connection, inbox, told>>
    BY <1>2 DEF ReadSession, memoryVars
  <2> DEFINE h == [connect[c] EXCEPT !.session = Current, !.pc = p]
  <2>2. connect' = [connect EXCEPT ![c] = h] /\ h.role = connect[c].role
    BY <1>a, <2>1 DEF Connecting
  <2> HIDE DEF h
  <2>3. UNCHANGED <<channel, connection, inbox, told>>
    BY <2>1
  <2>4. \A d \in Client : connect'[d].role \in {connect[d].role, "NONE"}
    BY <1>a, <2>2
  <2> QED
    BY <1>d, <2>3, <2>4
<1>k. CASE ReadOwner(c)
  <2>1. PICK b \in BOOLEAN :
           /\ connect' = [connect EXCEPT ![c].unlock = b, ![c].pc = "member"]
           /\ UNCHANGED <<channel, connection, inbox, told>>
    BY <1>k DEF ReadOwner, memoryVars
  <2> DEFINE h == [connect[c] EXCEPT !.unlock = b, !.pc = "member"]
  <2>2. connect' = [connect EXCEPT ![c] = h] /\ h.role = connect[c].role
    BY <1>a, <2>1 DEF Connecting
  <2> HIDE DEF h
  <2>3. UNCHANGED <<channel, connection, inbox, told>>
    BY <2>1
  <2>4. \A d \in Client : connect'[d].role \in {connect[d].role, "NONE"}
    BY <1>a, <2>2
  <2> QED
    BY <1>d, <2>3, <2>4
<1>l. CASE AddMember(c)
  <2> DEFINE h == [connect[c] EXCEPT !.pc = "unlock"]
  <2>1. /\ connect' = [connect EXCEPT ![c] = h] \/ connect' = [connect EXCEPT ![c] = Idle]
        /\ UNCHANGED <<channel, connection, inbox, told>>
    BY <1>l DEF AddMember, memoryVars
  <2>2. h.role = connect[c].role
    BY <1>a DEF Connecting
  <2> HIDE DEF h
  <2> QED
    BY <1>c, <1>j, <2>1, <2>2
<1>3. CASE JoinRoom(c)
  <2>1. /\ UNCHANGED <<channel, inbox, told>> /\ connect' = [connect EXCEPT ![c].pc = "session"]
        /\ connection' = [connection EXCEPT ![c] = [role |-> connect[c].role, locked |-> FALSE]]
    BY <1>3 DEF JoinRoom
  <2>2. \A d \in Client : connect'[d].role = connect[d].role
    BY <1>a, <2>1 DEF Connecting
  <2>3. \A d \in Client : connection'[d].role \in {connection[d].role, connect[d].role}
    BY <1>a, <2>1
  <2> QED
    BY <1>d, <2>1, <2>2, <2>3
<1>4. CASE UnlockRoom(c)
  <2>1. /\ UNCHANGED <<channel, told>> /\ connect' = [connect EXCEPT ![c] = Idle]
        /\ connection' \in Relocked(home[c], FALSE)
        /\ Publish(home[c], [event |-> "ROOM_UNLOCKED"])
    BY <1>4 DEF UnlockRoom
  <2> QED
    <3>1. \A d \in Client : connect'[d].role \in {connect[d].role, "NONE"}
      BY <1>c, <1>h, <2>1
    <3>2. \A d \in Client : connection'[d].role = connection[d].role
      BY <1>f, <2>1
    <3> QED
      BY <1>e, <1>g, <2>1, <3>1, <3>2
<1>5. CASE LeaveSession(c) \/ CheckMember(c) \/ CommitMember(c)
  <2>1. UNCHANGED <<channel, told, connect, connection, inbox>>
    BY <1>5 DEF LeaveSession, CheckMember, CommitMember, memoryVars
  <2> QED
    BY <1>d, <2>1
<1>6. CASE LeaveOwner(c)
  <2>1. /\ UNCHANGED <<channel, told, connect, inbox>>
        /\ UNCHANGED connection \/ connection' = [connection EXCEPT ![c] = NoConnection]
    BY <1>6 DEF LeaveOwner
  <2> QED
    BY <1>a, <1>c, <1>d, <2>1
<1>7. CASE CloseRoom(c)
  <2>1. /\ UNCHANGED <<channel, connect>> /\ told \subseteq told'
        /\ connection' = [connection EXCEPT ![c] = NoConnection]
        /\ Publish(home[c], [event |-> "ROOM_CLOSED"])
    BY <1>7 DEF CloseRoom
  <2> QED
    BY <1>a, <1>c, <1>e, <1>g, <2>1
<1>8. CASE LockRoom(c)
  <2>1. /\ UNCHANGED <<channel, told, connect>>
        /\ Publish(home[c], [event |-> "ROOM_LOCKED"])
        /\ \E f \in Relocked(home[c], TRUE) :
              connection' = f \/ connection' = [f EXCEPT ![c] = NoConnection]
    BY <1>8 DEF LockRoom
  <2>2. \A d \in Client : connection'[d].role \in {connection[d].role, "NONE"}
    BY <1>f, <1>i, <2>1
  <2> QED
    BY <1>e, <1>g, <2>1, <2>2
<1> QED
  BY <1>1, <1>2, <1>k, <1>l, <1>3, <1>4, <1>5, <1>6, <1>7, <1>8 DEF HandlerStep, ConnectStep, LeaveStep

\* Steps that grant nothing.
LEMMA SessionsKept ==
    ASSUME Sessions, UNCHANGED grants, \A G : SInv(AllEvent, G) => SInv(AllEvent, G)'
    PROVE  Sessions'
<1>1. Ungranted' = Ungranted
  BY Candidates DEF Ungranted
<1> QED
  BY <1>1 DEF Sessions

LEMMA AccessTypesKept ==
    ASSUME AccessTypes, UNCHANGED <<replying, answers>>,
           ask' \in [Candidate -> {"idle", "join", "seek"}], candidates' \subseteq Candidate,
           tokens' \subseteq Server \X Candidate, shown' \in [Owner -> SUBSET Candidate]
    PROVE  AccessTypes'
BY Candidates DEF AccessTypes, Reply

LEMMA RoomEventsAreGenuine == \A e \in RoomEvent : Genuine(e) /\ Genuine(e)'
<1> SUFFICES ASSUME NEW e \in RoomEvent PROVE Genuine(e) /\ Genuine(e)'
  OBVIOUS
<1>1. e.event \notin {"ACCESS_REPLY", "ACCESS_CANDIDATE"}
  BY EventFacts DEF AllEvent
<1> QED
  BY <1>1 DEF Genuine

LEMMA InboxType == ASSUME AInv PROVE inbox \in [Server -> Seq(AllEvent)]
BY DEF AInv, Sessions, SInv, Types

LEMMA RoomStepKeepsAnswers == ASSUME AInv, RoomStep PROVE AInv'
<1> USE DEF AInv
<1>a. UNCHANGED accessVars
  BY DEF RoomStep
<1>1. WaitsOnce'
  BY RoomKeeps
<1>2. AccessTypes'
  BY <1>a, AccessTypesKept DEF accessVars, AccessTypes
<1>b. RoomEvent \subseteq AllEvent
  BY DEF AllEvent
<1>3. ASSUME NEW c \in Client, HandlerStep(c) PROVE AInv'
  <2>1. Sessions'
    <3>1. ASSUME NEW G, SInv(AllEvent, G) PROVE SInv(AllEvent, G)'
      BY <1>3, <1>b, <3>1, ConnectStepKeepsSessions, LeaveStepKeepsSessions DEF HandlerStep
    <3>2. \A G : SInv(AllEvent, G) => SInv(AllEvent, G)'
      BY <3>1
    <3> QED
      BY <1>a, <3>2, SessionsKept DEF accessVars
  <2>2. /\ UNCHANGED channel /\ told \subseteq told'
        /\ \A d \in Client :
              /\ connect'[d].role \in {connect[d].role, "NONE"}
              /\ connection'[d].role \in {connection[d].role, connect[d].role, "NONE"}
        /\ NothingBut(RoomEvent) /\ NothingTaken
    BY <1>3, HandlerFacts
  <2>3. \A d \in Client : ReplyOnItsWay(d) => ReplyOnItsWay(d)'
    BY <2>2, RepliesKept
  <2>4. OnlyAllowed' /\ Unknown' /\ EventsAreGenuine' /\ Waiting' /\ AnswerIsNotLost'
    BY <1>a, <1>2, <2>2, <2>3, QuietAccessStep, RoomEventsAreGenuine, Candidates
       DEF accessVars, Asked
  <2> QED
    BY <1>1, <1>2, <2>1, <2>4
<1>4. ASSUME NEW c \in Client, Connect(c) PROVE AInv'
  <2>0. /\ channel[c] = "new" /\ ~MustAsk(c) /\ channel' = [channel EXCEPT ![c] = "open"]
        /\ Begin(c, role[c])
        /\ UNCHANGED <<policy, leave, memoryVars, sessionVars, inbox, revoked, boundVars>>
    BY <1>4 DEF Connect
  <2>1. Sessions'
    <3>0. c \notin Ungranted
      BY <2>0 DEF Ungranted, Candidate
    <3>1. PICK G : G = Ungranted /\ SInv(AllEvent, G)
      BY DEF Sessions
    <3>2. /\ channel' \in [Client -> {"new", "open", "gone"}] /\ channel'[c] # "new"
          /\ \A d \in Client \ {c} : channel'[d] = channel[d]
      BY <2>0, <3>1 DEF SInv, Types
    <3>3. inbox' \in [Server -> Seq(AllEvent)] /\ \A d \in Client : OnItsWay(d) => OnItsWay(d)'
      BY <2>0, <3>1 DEF SInv, Types, OnItsWay
    <3>4. role[c] \in Role /\ G = G \ {c}
      BY <3>0, <3>1, ClientAssumption
    <3>5. SInv(AllEvent, G)'
      BY <2>0, <3>1, <3>2, <3>3, <3>4, BeginKeeps
    <3>6. Ungranted' = Ungranted
      BY <1>a, Candidates DEF Ungranted, accessVars
    <3> QED
      BY <3>1, <3>5, <3>6 DEF Sessions
  <2>2. /\ told \subseteq told'
        /\ \A d \in Client \ {c} : channel'[d] = channel[d] /\ connect'[d] = connect[d]
        /\ UNCHANGED <<connection, inbox>>
    <3>1. connect \in [Client -> Connecting] /\ channel \in [Client -> {"new", "open", "gone"}]
      BY DEF Sessions, SInv, Types
    <3> QED
      BY <2>0, <3>1 DEF Begin, memoryVars
  <2>3. c \notin Candidate
    BY <2>0 DEF Candidate
  <2>4. NothingBut({}) /\ \A d \in Client : ReplyOnItsWay(d) => ReplyOnItsWay(d)'
    BY <2>2 DEF NothingBut, ReplyOnItsWay
  <2>5. OnlyAllowed' /\ Unknown' /\ EventsAreGenuine' /\ Waiting' /\ AnswerIsNotLost'
    BY <1>a, <1>2, <2>2, <2>3, <2>4, QuietAccessStep, Candidates DEF accessVars, Asked
  <2> QED
    BY <1>1, <1>2, <2>1, <2>5
<1>5. ASSUME NEW s \in Server, Receive(s) PROVE AInv'
  <2>0. /\ inbox[s] # <<>> /\ Head(inbox[s]) \in RoomEvent
        /\ inbox' = [inbox EXCEPT ![s] = Tail(inbox[s])]
        /\ UNCHANGED <<channel, connect>> /\ told \subseteq told'
        /\ UNCHANGED connection \/ \E b : connection' \in Relocked(s, b)
    BY <1>5 DEF Receive
  <2>1. Sessions'
    <3>1. ASSUME NEW G, SInv(AllEvent, G) PROVE SInv(AllEvent, G)'
      BY <1>5, <3>1, ReceiveKeepsSessions
    <3>2. \A G : SInv(AllEvent, G) => SInv(AllEvent, G)'
      BY <3>1
    <3> QED
      BY <1>a, <3>2, SessionsKept DEF accessVars
  <2>2. \A d \in Client : connection'[d].role = connection[d].role
    <3>1. connection \in [Client -> [role : Role, locked : BOOLEAN]]
      BY DEF Sessions, SInv, Types
    <3>2. ASSUME NEW b, connection' \in Relocked(s, b)
          PROVE  \A d \in Client : connection'[d].role = connection[d].role
      <4>1. PICK done : connection' = [d \in Client |-> IF d \in done
                               THEN [connection[d] EXCEPT !.locked = b] ELSE connection[d]]
        BY <3>2 DEF Relocked
      <4> QED
        BY <3>1, <4>1
    <3> QED
      BY <2>0, <3>2
  <2>3. NothingBut({}) /\ \A d \in Client : ReplyOnItsWay(d) => ReplyOnItsWay(d)'
    <3>1. Head(inbox[s]).event # "ACCESS_REPLY"
      BY <2>0, EventFacts DEF AllEvent
    <3> QED
      BY <2>0, <3>1, InboxType, TakeNews
  <2>4. OnlyAllowed' /\ Unknown' /\ EventsAreGenuine' /\ Waiting' /\ AnswerIsNotLost'
    BY <1>a, <1>2, <2>0, <2>2, <2>3, QuietAccessStep, Candidates DEF accessVars, Asked
  <2> QED
    BY <1>1, <1>2, <2>1, <2>4
<1> QED
  BY <1>3, <1>4, <1>5 DEF RoomStep

LEMMA ForgetType ==
    ASSUME shown \in [Owner -> SUBSET Candidate], NEW lost, Forget(lost)
    PROVE  shown' \in [Owner -> SUBSET Candidate]
BY DEF Forget

LEMMA LeavingKeepsAnswers == ASSUME AInv, NEW c \in Client, DisconnectMember(c) PROVE AInv'
<1> USE DEF AInv
<1>1. WaitsOnce'
  BY LeavingKeeps
<1>2. /\ ~MustAsk(c) /\ Close(c) /\ Forget({c})
      /\ UNCHANGED <<inbox, ask, candidates, tokens, replying, answers, grants>>
  BY DEF DisconnectMember, Disconnect, historyVars
<1>3. AccessTypes'
  BY <1>2, AccessTypesKept, ForgetType DEF AccessTypes
<1>4. Sessions'
  <2>1. ASSUME NEW G, SInv(AllEvent, G) PROVE SInv(AllEvent, G)'
    BY <1>2, <2>1, InboxType, CloseKeepsSessions DEF OnItsWay
  <2>2. \A G : SInv(AllEvent, G) => SInv(AllEvent, G)'
    BY <2>1
  <2> QED
    BY <1>2, <2>2, SessionsKept
<1>5. /\ \A d \in Client \ {c} : channel'[d] = channel[d] /\ (d \in told => d \in told')
      /\ UNCHANGED <<connect, connection>>
  <2>1. channel \in [Client -> {"new", "open", "gone"}]
    BY DEF Sessions, SInv, Types
  <2> QED
    BY <1>2, <2>1 DEF Close
<1>6. NothingBut({}) /\ \A d \in Client : ReplyOnItsWay(d) => ReplyOnItsWay(d)'
  BY <1>2 DEF NothingBut, ReplyOnItsWay
<1>7. c \notin Candidate
  BY <1>2 DEF Candidate
<1>8. OnlyAllowed' /\ Unknown' /\ EventsAreGenuine' /\ Waiting' /\ AnswerIsNotLost'
  BY <1>2, <1>3, <1>5, <1>6, <1>7, QuietAccessStep, Candidates DEF Asked
<1> QED
  BY <1>1, <1>3, <1>4, <1>8

LEMMA RevokingKeepsAnswers ==
    ASSUME AInv, NEW o \in Owner, NEW u, RevokeMember(o, u) PROVE AInv'
<1> USE DEF AInv
<1>1. WaitsOnce'
  BY RevokingKeeps
<1>2. RevokeAccess(o, u) /\ UNCHANGED accessVars
  BY DEF RevokeMember
<1>3. AccessTypes'
  BY <1>2, AccessTypesKept DEF AccessTypes, accessVars
<1>4. Sessions'
  <2>1. ASSUME NEW G, SInv(AllEvent, G) PROVE SInv(AllEvent, G)'
    BY <1>2, <2>1, RevokeKeepsSessions DEF AllEvent, Owner
  <2>2. \A G : SInv(AllEvent, G) => SInv(AllEvent, G)'
    BY <2>1
  <2> QED
    BY <1>2, <2>2, SessionsKept DEF accessVars
<1>5. UNCHANGED <<channel, connect, connection>> /\ told \subseteq told'
  BY <1>2 DEF RevokeAccess, Revokes, memoryVars
<1>6. NothingBut(RoomEvent) /\ NothingTaken
  <2> DEFINE elsewhere == ToRevoke(u) \ RoomClients(home[o])
  <2>0. elsewhere \subseteq Client
    BY DEF ToRevoke
  <2>1. Cardinality(elsewhere) \in Nat
    BY <2>0, ClientAssumption, FS_Subset, FS_CardinalityType
  <2>2. PICK order \in [1..Cardinality(elsewhere) -> elsewhere] :
           inbox' = [s \in Server |-> IF s = home[o] THEN inbox[s] ELSE
                        inbox[s] \o [k \in DOMAIN order |->
                                      [event |-> "ACCESS_REVOKED", client |-> order[k]]]]
    BY <1>2 DEF RevokeAccess
  <2> DEFINE n == Cardinality(elsewhere)
             ev(k) == [event |-> "ACCESS_REVOKED", client |-> order[k]]
             r == [k \in DOMAIN order |-> ev(k)]
  <2>3. r = [k \in 1..n |-> ev(k)] /\ n \in Nat
    BY <2>1
  <2>4. \A k \in 1..n : ev(k) \in RoomEvent
    BY <2>0 DEF RoomEvent
  <2>5. r \in Seq(RoomEvent) /\ r \in Seq(AllEvent) /\ \A k \in DOMAIN r : r[k] \in RoomEvent
    <3> HIDE DEF n, ev, r, elsewhere
    <3>1. \A k \in 1..n : ev(k) \in AllEvent
      BY <2>4 DEF AllEvent
    <3> QED
      BY <2>3, <2>4, <3>1
  <2> SUFFICES ASSUME NEW s \in Server
               PROVE  /\ \A k \in DOMAIN inbox'[s] : inbox'[s][k] \in RoomEvent \/
                            \E l \in DOMAIN inbox[s] : inbox[s][l] = inbox'[s][k]
                      /\ \A k \in DOMAIN inbox[s] :
                            \E l \in DOMAIN inbox'[s] : inbox'[s][l] = inbox[s][k]
    BY DEF NothingBut, NothingTaken
  <2> DEFINE q == inbox[s]
             p == inbox'[s]
  <2>6. q \in Seq(AllEvent) /\ (p = q \/ p = q \o r)
    BY <2>2, InboxType
  <2> HIDE DEF q, p, r
  <2>7. \A k \in DOMAIN p : p[k] \in RoomEvent \/ \E l \in DOMAIN q : q[l] = p[k]
    <3>1. CASE p = q
      BY <3>1
    <3>2. CASE p = q \o r
      <4>1. \A k \in DOMAIN (q \o r) :
               \/ \E l \in DOMAIN r : r[l] = (q \o r)[k]
               \/ \E l \in DOMAIN q : q[l] = (q \o r)[k]
        BY <2>5, <2>6, ConcatFacts
      <4> QED
        BY <2>5, <3>2, <4>1
    <3> QED
      BY <2>6, <3>1, <3>2
  <2>8. \A k \in DOMAIN q : \E l \in DOMAIN p : p[l] = q[k]
    <3>1. CASE p = q
      BY <3>1
    <3>2. CASE p = q \o r
      BY <2>5, <2>6, <3>2, KeptByConcat
    <3> QED
      BY <2>6, <3>1, <3>2
  <2> QED
    BY <2>7, <2>8 DEF q, p
<1>7. \A d \in Client : ReplyOnItsWay(d) => ReplyOnItsWay(d)'
  BY <1>6, RepliesKept
<1>8. OnlyAllowed' /\ Unknown' /\ EventsAreGenuine' /\ Waiting' /\ AnswerIsNotLost'
  BY <1>2, <1>3, <1>5, <1>6, <1>7, QuietAccessStep, RoomEventsAreGenuine, Candidates
     DEF accessVars, Asked
<1> QED
  BY <1>1, <1>3, <1>4, <1>8

LEMMA RestartingKeepsAnswers == ASSUME AInv, NEW s \in Server, RestartServer(s) PROVE AInv'
<1> USE DEF AInv
<1> DEFINE lost == {c \in Client : home[c] = s}
<1>1. WaitsOnce'
  BY RestartingKeeps
<1>2. /\ Restart(s) /\ Forget(lost)
      /\ ask' = [c \in Candidate |-> IF c \in lost THEN "idle" ELSE ask[c]]
      /\ candidates' = candidates \ lost
      /\ tokens' = {t \in tokens : t[1] # s}
      /\ UNCHANGED <<replying, answers, grants>>
  BY DEF RestartServer, historyVars
<1>3. AccessTypes'
  <2>1. ask' \in [Candidate -> {"idle", "join", "seek"}]
    BY <1>2 DEF AccessTypes
  <2>2. candidates' \subseteq Candidate /\ tokens' \subseteq tokens
    BY <1>2 DEF AccessTypes
  <2>3. tokens' \subseteq Server \X Candidate
    BY <2>2 DEF AccessTypes
  <2> HIDE DEF lost
  <2>4. shown' \in [Owner -> SUBSET Candidate]
    BY <1>2, ForgetType DEF AccessTypes
  <2> QED
    BY <1>2, <2>1, <2>2, <2>3, <2>4, AccessTypesKept
<1>4. Sessions'
  <2>1. ASSUME NEW G, SInv(AllEvent, G) PROVE SInv(AllEvent, G)'
    BY <1>2, <2>1, RestartKeepsSessions
  <2>2. \A G : SInv(AllEvent, G) => SInv(AllEvent, G)'
    BY <2>1
  <2> QED
    BY <1>2, <2>2, SessionsKept
<1>5. /\ channel' = [c \in Client |-> IF c \in lost /\ channel[c] = "open" THEN "gone" ELSE channel[c]]
      /\ told' = told \ lost
      /\ connect' = [c \in Client |-> IF c \in lost THEN Idle ELSE connect[c]]
      /\ connection' = [c \in Client |-> IF c \in lost THEN NoConnection ELSE connection[c]]
      /\ inbox' = [inbox EXCEPT ![s] = <<>>]
  BY <1>2 DEF Restart
<1> HIDE DEF lost
<1>6. NothingBut({})
  BY <1>5, InboxType DEF NothingBut
<1>7. ASSUME NEW c \in Candidate
      PROVE  /\ Asked(c) => Asked(c)'
             /\ channel'[c] = "open" =>
                   /\ channel[c] = "open" /\ (Asked(c)' => Asked(c))
                   /\ c \in candidates => c \in candidates'
                   /\ c \in told => c \in told'
                   /\ ReplyOnItsWay(c) => ReplyOnItsWay(c)'
             /\ connect'[c].role \in {connect[c].role, "NONE"}
             /\ connection'[c].role \in {connection[c].role, "NONE"}
             /\ \A t \in Server : <<t, c>> \in tokens' => <<t, c>> \in tokens
  <2>0. c \in Client
    BY Candidates
  <2>1. channel'[c] = IF c \in lost /\ channel[c] = "open" THEN "gone" ELSE channel[c]
    BY <1>5, <2>0
  <2>2. ask'[c] = IF c \in lost THEN "idle" ELSE ask[c]
    BY <1>2
  <2>3. Asked(c) => Asked(c)'
    BY <2>1, <2>2 DEF Asked
  <2>4. connect'[c].role \in {connect[c].role, "NONE"} /\ connection'[c].role \in {connection[c].role, "NONE"}
    BY <1>5, <2>0 DEF Idle, NoConnection
  <2>5. ASSUME channel'[c] = "open" PROVE c \notin lost /\ channel[c] = "open"
    BY <2>1, <2>5
  <2>6. ASSUME c \notin lost PROVE inbox'[home[c]] = inbox[home[c]]
    BY <1>5, <2>0, <2>6, ClientAssumption, InboxType DEF lost
  <2>7. channel'[c] = "open" /\ ReplyOnItsWay(c) => ReplyOnItsWay(c)'
    BY <2>5, <2>6 DEF ReplyOnItsWay
  <2> QED
    BY <1>2, <1>5, <2>0, <2>1, <2>2, <2>3, <2>4, <2>5, <2>7 DEF Asked
<1>8. OnlyAllowed' /\ Unknown' /\ EventsAreGenuine' /\ Waiting' /\ AnswerIsNotLost'
  BY <1>2, <1>3, <1>6, <1>7, QuietAccessStep, Candidates
<1> QED
  BY <1>1, <1>3, <1>4, <1>8

------------------------------------------------------------------------------
(* Asking *)

LEMMA AskingKeepsAnswers ==
    ASSUME AInv, NEW c \in Candidate, AskAccess(c) \/ WaitInRoom(c) PROVE AInv'
<1> USE DEF AInv
<1>0. c \in Client
  BY Candidates
<1>1. WaitsOnce'
  BY AskingKeeps DEF AskStep
<1>a. /\ connect \in [Client -> Connecting] /\ channel \in [Client -> {"new", "open", "gone"}]
      /\ ask \in [Candidate -> {"idle", "join", "seek"}] /\ told \subseteq Client /\ room \subseteq Client
  BY DEF Sessions, SInv, Types, AccessTypes
<1>2. CASE AskAccess(c)
  <2>1. /\ channel[c] = "new" /\ channel' = [channel EXCEPT ![c] = "open"]
        /\ \/ ask' = [ask EXCEPT ![c] = "join"] /\ UNCHANGED told
           \/ told' = told \cup {c} /\ UNCHANGED ask
        /\ UNCHANGED <<policy, connect, leave, connection, room, created, current, member, inbox, revoked, faults, crashes>>
        /\ UNCHANGED <<candidates, tokens, shown, replying, answers, grants>>
    BY <1>2 DEF AskAccess, memoryVars, sessionVars, boundVars, historyVars
  <2>2. AccessTypes'
    <3>1. ask' \in [Candidate -> {"idle", "join", "seek"}]
      BY <1>a, <2>1
    <3> QED
      BY <2>1, <3>1, AccessTypesKept DEF AccessTypes
  <2>3. channel' \in [Client -> {"new", "open", "gone"}] /\ channel'[c] = "open"
        /\ \A d \in Client : d # c => channel'[d] = channel[d]
    BY <1>0, <1>a, <2>1
  <2>4. Sessions'
    <3>1. ASSUME NEW G, SInv(AllEvent, G) PROVE SInv(AllEvent, G)'
      <4>1. Types(AllEvent)'
        BY <1>0, <2>1, <2>3, <3>1 DEF SInv, Types, Connecting, Leaving
      <4>2. \A d \in Client : channel'[d] = "new" => channel[d] = "new"
        BY <2>1, <2>3
      <4> QED
        BY <2>1, <3>1, <4>1, <4>2, SessionStep DEF OnItsWay
    <3>2. \A G : SInv(AllEvent, G) => SInv(AllEvent, G)'
      BY <3>1
    <3> QED
      BY <2>1, <3>2, SessionsKept
  <2>5. NothingBut({}) /\ \A d \in Client : ReplyOnItsWay(d) => ReplyOnItsWay(d)'
    BY <2>1 DEF NothingBut, ReplyOnItsWay
  <2>6. ~Asked(c) /\ ((Asked(c)' /\ c \in told') \/ ~Asked(c)')
    BY <1>a, <2>1, <2>3 DEF Asked
  <2>7. \A d \in Candidate : d # c => (Asked(d)' <=> Asked(d))
    BY <1>a, <2>1, <2>3, Candidates DEF Asked
  <2>8. OnlyAllowed' /\ Unknown' /\ EventsAreGenuine' /\ Waiting' /\ AnswerIsNotLost'
    BY <2>1, <2>2, <2>3, <2>5, <2>6, <2>7, QuietAccessStep, Candidates
  <2> QED
    BY <1>1, <2>2, <2>4, <2>8
<1>3. CASE WaitInRoom(c)
  <2>1. /\ ask[c] = "join" /\ ask' = [ask EXCEPT ![c] = "seek"]
        /\ candidates' = candidates \cup {c} /\ room' = room \cup {c}
        /\ UNCHANGED <<policy, channel, told, connect, leave, connection, created, current, member, inbox, revoked, faults, crashes>>
        /\ UNCHANGED <<tokens, shown, replying, answers, grants>>
    BY <1>3 DEF WaitInRoom, handlerVars, sessionVars, boundVars, historyVars
  <2>2. AccessTypes'
    <3>1. ask' \in [Candidate -> {"idle", "join", "seek"}] /\ candidates' \subseteq Candidate
      BY <1>a, <2>1 DEF AccessTypes
    <3> QED
      BY <2>1, <3>1, AccessTypesKept DEF AccessTypes
  <2>3. Sessions'
    <3>1. PICK G : G = Ungranted /\ SInv(AllEvent, G)
      BY DEF Sessions
    <3>2. c \in G
      BY <2>1, <3>1 DEF WaitsOnce, Ungranted
    <3>3. c \notin revoked
      BY <1>0, <3>1, <3>2 DEF SInv, Joined
    <3>4. Types(AllEvent)'
      BY <1>0, <2>1, <3>1 DEF SInv, Types, Connecting, Leaving
    <3>5. SInv(AllEvent, G)'
      BY <2>1, <3>1, <3>3, <3>4, SessionStep DEF OnItsWay
    <3>6. Ungranted' = Ungranted
      BY <2>1, Candidates DEF Ungranted
    <3> QED
      BY <3>1, <3>5, <3>6 DEF Sessions
  <2>4. NothingBut({}) /\ \A d \in Client : ReplyOnItsWay(d) => ReplyOnItsWay(d)'
    BY <2>1 DEF NothingBut, ReplyOnItsWay
  <2>5. \A d \in Candidate : (Asked(d) => Asked(d)') /\ (Asked(d)' => Asked(d) \/ d \in candidates')
    BY <1>a, <2>1 DEF Asked
  <2>6. \A d \in Client : channel'[d] = "open" => channel[d] = "open"
    BY <2>1
  <2>7. OnlyAllowed' /\ Unknown' /\ EventsAreGenuine' /\ Waiting' /\ AnswerIsNotLost'
    BY <2>1, <2>2, <2>4, <2>5, <2>6, QuietAccessStep, Candidates
  <2> QED
    BY <1>1, <2>2, <2>3, <2>7
<1> QED
  BY <1>2, <1>3

\* Steps that change nothing of the room but what is on its way.
LEMMA SessionsUntouched ==
    ASSUME AInv, inbox' \in [Server -> Seq(AllEvent)],
           \A d \in Client : OnItsWay(d) => OnItsWay(d)',
           UNCHANGED <<policy, channel, told, connect, leave, connection, room, created, current,
                       member, revoked, faults, crashes, grants>>
    PROVE  Sessions'
<1>1. ASSUME NEW G, SInv(AllEvent, G) PROVE SInv(AllEvent, G)'
  <2>1. Types(AllEvent)'
    BY <1>1 DEF SInv, Types, Connecting, Leaving
  <2> QED
    BY <1>1, <2>1, SessionStep
<1>2. \A G : SInv(AllEvent, G) => SInv(AllEvent, G)'
  BY <1>1
<1> QED
  BY <1>2, SessionsKept DEF AInv

LEMMA SendTypes ==
    ASSUME AccessTypes, NEW s \in Server, NEW c \in Candidate,
           SendRequest(s, c) \/ SendCancellation(s, c)
    PROVE  /\ tokens' \subseteq Server \X Candidate
           /\ shown' \in [Owner -> SUBSET Candidate]
BY DEF AccessTypes, SendRequest, SendCancellation

LEMMA SeekingKeepsAnswers == ASSUME AInv, NEW c \in Candidate, SeekOwner(c) PROVE AInv'
<1> USE DEF AInv
<1> DEFINE e == [event |-> "ACCESS_CANDIDATE", client |-> c]
<1>0. c \in Client /\ home[c] \in Server
  BY Candidates, ClientAssumption
<1>1. WaitsOnce'
  BY AskingKeeps DEF AskStep
<1>2. /\ ask[c] = "seek" /\ ask' = [ask EXCEPT ![c] = "idle"]
      /\ \/ SendRequest(home[c], c) /\ UNCHANGED inbox
         \/ Publish(home[c], e) /\ UNCHANGED <<tokens, shown>>
      /\ UNCHANGED <<policy, channel, told, connect, leave, connection, room, created, current, member, revoked, faults, crashes>>
      /\ UNCHANGED <<candidates, replying, answers, grants>>
  BY DEF SeekOwner, handlerVars, memoryVars, sessionVars, boundVars, historyVars
<1>3. e \in AllEvent
  BY DEF AllEvent, AccessEvent
<1>4. Asked(c)
  <2>1. channel[c] # "new"
    BY <1>2 DEF WaitsOnce
  <2> QED
    BY <1>2, <2>1 DEF Asked
<1>5. \A d \in Candidate : Asked(d)' <=> Asked(d)
  BY <1>2, <1>4 DEF Asked, AccessTypes
<1>6. Genuine(e)'
  BY <1>4, <1>5 DEF Genuine
<1> HIDE DEF e
<1>7. inbox' \in [Server -> Seq(AllEvent)] /\ NothingBut({e}) /\ NothingTaken
      /\ \A d \in Client : OnItsWay(d) => OnItsWay(d)'
  <2>1. CASE Publish(home[c], e)
    BY <1>3, <2>1, InboxType, PublishFacts, PublishNews
  <2>2. CASE UNCHANGED inbox
    BY <2>2, InboxType DEF NothingBut, NothingTaken, OnItsWay
  <2> QED
    BY <1>2, <2>1, <2>2
<1>8. AccessTypes'
  <2>1. ask' \in [Candidate -> {"idle", "join", "seek"}]
    BY <1>2 DEF AccessTypes
  <2>2. tokens' \subseteq Server \X Candidate /\ shown' \in [Owner -> SUBSET Candidate]
    BY <1>0, <1>2, SendTypes DEF AccessTypes
  <2> QED
    BY <1>2, <2>1, <2>2, AccessTypesKept DEF AccessTypes
<1>9. Sessions'
  BY <1>2, <1>7, SessionsUntouched
<1>10. \A d \in Client : ReplyOnItsWay(d) => ReplyOnItsWay(d)'
  BY <1>7, RepliesKept
<1>11. \A d \in Candidate : \A s \in Server : <<s, d>> \in tokens' => <<s, d>> \in tokens \/ Asked(d)
  BY <1>2, <1>4 DEF SendRequest
<1>12. OnlyAllowed' /\ Unknown' /\ EventsAreGenuine' /\ Waiting' /\ AnswerIsNotLost'
  BY <1>2, <1>5, <1>6, <1>7, <1>8, <1>10, <1>11, QuietAccessStep, Candidates
<1> QED
  BY <1>1, <1>8, <1>9, <1>12

LEMMA LeavingCandidateKeepsAnswers ==
    ASSUME AInv, NEW c \in Candidate, DisconnectCandidate(c) PROVE AInv'
<1> USE DEF AInv
<1> DEFINE e == [event |-> "ACCESS_CANCELLATION", client |-> c]
<1>0. c \in Client /\ home[c] \in Server
  BY Candidates, ClientAssumption
<1>1. WaitsOnce'
  BY AskingKeeps DEF AskStep
<1>2. /\ Close(c)
      /\ UNCHANGED <<tokens, shown>> \/ SendCancellation(home[c], c)
      /\ UNCHANGED inbox \/ Publish(home[c], e)
      /\ candidates' \subseteq candidates /\ candidates \subseteq candidates' \cup {c}
      /\ UNCHANGED <<ask, replying, answers, grants>>
  BY DEF DisconnectCandidate, CancelAccess, historyVars
<1>3. e \in AllEvent
  BY DEF AllEvent, AccessEvent
<1>4. Genuine(e)'
  BY DEF Genuine
<1> HIDE DEF e
<1>5. inbox' \in [Server -> Seq(AllEvent)] /\ NothingBut({e}) /\ NothingTaken
      /\ \A d \in Client : OnItsWay(d) => OnItsWay(d)'
  <2>1. CASE Publish(home[c], e)
    BY <1>3, <2>1, InboxType, PublishFacts, PublishNews
  <2>2. CASE UNCHANGED inbox
    BY <2>2, InboxType DEF NothingBut, NothingTaken, OnItsWay
  <2> QED
    BY <1>2, <2>1, <2>2
<1>6. AccessTypes'
  <2>1. tokens' \subseteq Server \X Candidate /\ shown' \in [Owner -> SUBSET Candidate]
    BY <1>0, <1>2, SendTypes DEF AccessTypes
  <2>2. candidates' \subseteq Candidate
    BY <1>2 DEF AccessTypes
  <2> QED
    BY <1>2, <2>1, <2>2, AccessTypesKept DEF AccessTypes
<1>7. Sessions'
  <2>1. ASSUME NEW G, SInv(AllEvent, G) PROVE SInv(AllEvent, G)'
    BY <1>0, <1>2, <1>5, <2>1, CloseKeepsSessions
  <2>2. \A G : SInv(AllEvent, G) => SInv(AllEvent, G)'
    BY <2>1
  <2> QED
    BY <1>2, <2>2, SessionsKept
<1>8. \A d \in Client : ReplyOnItsWay(d) => ReplyOnItsWay(d)'
  BY <1>5, RepliesKept
<1>9. /\ channel' = [channel EXCEPT ![c] = "gone"] /\ channel[c] = "open" /\ told' = told \ {c}
      /\ UNCHANGED <<connect, connection>>
  BY <1>2 DEF Close
<1>a. channel \in [Client -> {"new", "open", "gone"}]
  BY DEF Sessions, SInv, Types
<1>10. channel'[c] = "gone" /\ \A d \in Client : d # c => channel'[d] = channel[d]
  BY <1>0, <1>9, <1>a
<1>11. \A d \in Candidate : Asked(d)' <=> Asked(d)
  BY <1>2, <1>9, <1>10, Candidates DEF Asked
<1>12. \A d \in Candidate : \A s \in Server : <<s, d>> \in tokens' => <<s, d>> \in tokens
  BY <1>2 DEF SendCancellation
<1>13. OnlyAllowed' /\ Unknown' /\ EventsAreGenuine' /\ Waiting' /\ AnswerIsNotLost'
  BY <1>2, <1>4, <1>5, <1>6, <1>8, <1>9, <1>10, <1>11, <1>12, QuietAccessStep, Candidates
<1> QED
  BY <1>1, <1>6, <1>7, <1>13

------------------------------------------------------------------------------
(* Answering *)

\* An answer of the owner arrives at the thread that serves it.
LEMMA ServingKeepsAnswers ==
    ASSUME AInv, WaitsOnce', NEW c \in Candidate, c \in candidates,
           NEW r \in Reply, NEW thread \in Owner \cup Server, ConnectFromReply(c, r, thread),
           answers' \in [Candidate -> SUBSET Reply], r \in answers'[c],
           \A d \in Candidate : answers[d] \subseteq answers'[d],
           \A d \in Candidate \ {c} : answers'[d] = answers[d],
           UNCHANGED <<policy, channel, leave, memoryVars, sessionVars, revoked, boundVars, ask>>,
           tokens' \subseteq tokens, shown' \in [Owner -> SUBSET Candidate], Asked(c),
           inbox' \in [Server -> Seq(AllEvent)], NothingBut({}),
           \A d \in Client : OnItsWay(d) => OnItsWay(d)',
           \A d \in Candidate \ {c} : ReplyOnItsWay(d) => ReplyOnItsWay(d)'
    PROVE  AInv'
<1> USE DEF AInv
<1>0. c \in Client /\ MustAsk(c) /\ grants[c] = 0 /\ channel[c] # "new" /\ grants \in [Candidate -> Nat]
  BY Candidates DEF Candidate, WaitsOnce
<1>a. connect \in [Client -> Connecting] /\ connection \in [Client -> [role : Role, locked : BOOLEAN]]
      /\ told \subseteq Client
  BY DEF Sessions, SInv, Types
<1> DEFINE x == Converted(c, r)
<1>1. /\ x \in Role /\ (x = "NONE" <=> r = "NONE")
      /\ x \in {"NONE", "GUEST", "USER"}
      /\ x = "GUEST" => r = "GUEST"
      /\ x = "USER" => r = "SUPPORT"
  BY <1>0 DEF Converted, MustAsk, Reply, Role
<1>2. candidates' = candidates \ {c}
  BY DEF ConnectFromReply
<1>3. \/ channel[c] # "open" /\ UNCHANGED <<connect, told, replying, grants>>
      \/ /\ channel[c] = "open" /\ x = "NONE" /\ told' = told \cup {c}
         /\ replying' = [replying EXCEPT ![c] = thread] /\ UNCHANGED <<connect, grants>>
      \/ /\ channel[c] = "open" /\ x # "NONE" /\ Begin(c, x) /\ told' = told
         /\ connect' = [connect EXCEPT ![c] = [Idle EXCEPT !.pc = "socket", !.role = x, !.session = Current]]
         /\ replying' = [replying EXCEPT ![c] = thread]
         /\ grants' = [grants EXCEPT ![c] = @ + 1]
  <2>1. CASE channel[c] # "open"
    BY <2>1 DEF ConnectFromReply
  <2>2. CASE channel[c] = "open" /\ x = "NONE"
    <3>1. grants' = [grants EXCEPT ![c] = @] /\ Begin(c, x) /\ replying' = [replying EXCEPT ![c] = thread]
      BY <1>1, <2>2 DEF ConnectFromReply
    <3>2. UNCHANGED grants
      BY <1>0, <3>1
    <3> QED
      BY <2>2, <3>1, <3>2 DEF Begin
  <2>3. CASE channel[c] = "open" /\ x # "NONE"
    BY <1>1, <2>3 DEF ConnectFromReply, Begin
  <2> QED
    BY <2>1, <2>2, <2>3
<1> HIDE DEF x
<1>4. AccessTypes'
  <2>1. ask' \in [Candidate -> {"idle", "join", "seek"}]
    BY DEF AccessTypes
  <2>3. replying' \in [Candidate -> Owner \cup Server]
    <3>1. replying' = replying \/ replying' = [replying EXCEPT ![c] = thread]
      BY <1>3
    <3> QED
      BY <3>1 DEF AccessTypes
  <2>2. tokens' \subseteq Server \X Candidate /\ candidates' \subseteq Candidate
    BY <1>2 DEF AccessTypes
  <2> QED
    BY <2>1, <2>2, <2>3, Candidates DEF AccessTypes, Reply
<1>5. Sessions'
  <2>1. PICK G : G = Ungranted /\ SInv(AllEvent, G)
    BY DEF Sessions
  <2>2. c \in G
    BY <1>0, <2>1 DEF Ungranted
  <2>3. CASE channel[c] # "open"
    BY <1>3, <2>3, SessionsUntouched DEF memoryVars, sessionVars, boundVars
  <2>4. CASE channel[c] = "open"
    <3>1. /\ Begin(c, x) /\ x = "NONE" => Ungranted' = G
      <4>1. Begin(c, x)
        BY <1>3, <2>4 DEF Begin
      <4>2. x = "NONE" => Ungranted' = G
        BY <1>3, <2>1, <2>4, Candidates DEF Ungranted
      <4> QED
        BY <4>1, <4>2
    <3>2. x # "NONE" => Ungranted' = G \ {c}
      BY <1>0, <1>3, <2>1, <2>4, Candidates DEF Ungranted
    <3>3. Begin(c, x)
      BY <1>3, <2>4 DEF Begin
    <3>4. PICK H : H = Ungranted'
      OBVIOUS
    <3>5. H = G \ {c} \/ (x = "NONE" /\ H = G)
      BY <1>3, <2>1, <2>2, <2>4, <3>2, <3>4, Candidates DEF Ungranted
    <3>6. /\ channel' \in [Client -> {"new", "open", "gone"}] /\ channel'[c] # "new"
          /\ \A d \in Client \ {c} : channel'[d] = channel[d]
      BY <1>0, <2>1 DEF SInv, Types
    <3>7. SInv(AllEvent, H)'
      BY <1>0, <1>1, <2>1, <2>2, <3>3, <3>5, <3>6, BeginKeeps
    <3> QED
      BY <3>4, <3>7 DEF Sessions
  <2> QED
    BY <2>3, <2>4
<1>6. OnlyAllowed'
  <2> SUFFICES ASSUME NEW d \in Candidate
               PROVE  connect'[d].role \in Allowed(d)' /\ connection'[d].role \in Allowed(d)'
    BY Candidates DEF OnlyAllowed
  <2>1. Allowed(d) \subseteq Allowed(d)'
    BY DEF Allowed
  <2>2. connection'[d].role \in Allowed(d)'
    BY <2>1 DEF OnlyAllowed, memoryVars
  <2>3. CASE connect'[d] = connect[d]
    <3>1. connect[d].role \in Allowed(d)
      BY DEF OnlyAllowed
    <3>2. connect'[d].role = connect[d].role
      BY <2>3
    <3> QED
      BY <2>1, <2>2, <3>1, <3>2
  <2>4. CASE connect'[d] # connect[d]
    <3>1. /\ d = c
          /\ connect' = [connect EXCEPT ![c] = [Idle EXCEPT !.pc = "socket", !.role = x, !.session = Current]]
      BY <1>a, <1>3, <2>4, Candidates
    <3>2. connect'[c].role = x
      BY <1>0, <1>a, <3>1 DEF Idle
    <3>3. x \in Allowed(c)'
      BY <1>1 DEF Allowed
    <3> QED
      BY <2>2, <3>1, <3>2, <3>3
  <2> QED
    BY <2>2, <2>3, <2>4
<1>7. \A d \in Candidate : Asked(d)' <=> Asked(d)
  BY DEF Asked
<1>8. Unknown'
  BY <1>7, Candidates DEF Unknown
<1>9. EventsAreGenuine'
  <2>1. ASSUME NEW s \in Server, NEW k \in DOMAIN inbox'[s], NEW e, e = inbox'[s][k]
        PROVE  Genuine(e)'
    <3>1. PICK l \in DOMAIN inbox[s] : inbox[s][l] = e
      BY <2>1 DEF NothingBut
    <3>2. inbox[s] \in Seq(AllEvent)
      BY InboxType
    <3>3. e \in AllEvent
      BY <3>1, <3>2
    <3>4. Genuine(e)
      BY <3>1 DEF EventsAreGenuine
    <3>5. e.event \in {"ACCESS_REPLY", "ACCESS_CANDIDATE"} => e.client \in Candidate
      BY <3>3, EventFacts
    <3> QED
      BY <1>7, <3>4, <3>5 DEF Genuine
  <2>2. \A s \in Server : \A k \in DOMAIN inbox'[s] : \A e : e = inbox'[s][k] => Genuine(e)'
    BY <2>1
  <2> QED
    BY <2>2 DEF EventsAreGenuine, Genuine, Asked
<1>10. channel[c] = "open" => c \in told' \/ grants'[c] > 0
  BY <1>0, <1>3
<1>11. \A d \in Candidate : told \subseteq told' /\ (d # c => grants'[d] = grants[d])
  BY <1>0, <1>3
<1>12. Waiting'
  BY <1>2, <1>7, <1>10, <1>11, Candidates DEF Waiting
<1>13. AnswerIsNotLost'
  <2> SUFFICES ASSUME NEW d \in Candidate, answers'[d] # {}, channel'[d] = "open"
               PROVE  (grants[d] > 0 \/ d \in told \/ (d \in candidates /\ ReplyOnItsWay(d)))'
    BY Candidates DEF AnswerIsNotLost
  <2>1. CASE d = c
    BY <1>10, <2>1
  <2>2. CASE d # c
    <3>1. grants[d] > 0 \/ d \in told \/ (d \in candidates /\ ReplyOnItsWay(d))
      BY <2>2 DEF AnswerIsNotLost
    <3> QED
      BY <1>2, <1>11, <2>2, <3>1
  <2> QED
    BY <2>1, <2>2
<1> QED
  BY <1>4, <1>5, <1>6, <1>8, <1>9, <1>12, <1>13

LEMMA AnsweringKeepsAnswers ==
    ASSUME AInv, NEW o \in Owner, NEW c \in Candidate, NEW r \in Reply, AccessReply(o, c, r)
    PROVE  AInv'
<1> USE DEF AInv
<1> DEFINE e == [event |-> "ACCESS_REPLY", client |-> c, reply |-> r]
<1>0. c \in Client /\ o \in Client /\ home[c] \in Server /\ home[o] \in Server
  BY Candidates, ClientAssumption DEF Owner
<1>1. WaitsOnce'
  BY AnsweringKeeps
<1>2. /\ shown' = [shown EXCEPT ![o] = @ \ {c}]
      /\ tokens' = tokens \ {<<home[o], c>>}
      /\ UNCHANGED <<policy, channel, leave, connection, room, created, current, member, revoked, faults, crashes, ask>>
  BY DEF AccessReply, memoryVars, sessionVars, boundVars
<1>3. tokens' \subseteq tokens /\ shown' \in [Owner -> SUBSET Candidate]
  BY <1>2 DEF AccessTypes
<1>4. CASE <<home[o], c>> \notin tokens
  <2>1. answers' = answers /\ UNCHANGED <<candidates, connect, told, replying, grants, inbox>>
    BY <1>4 DEF AccessReply, AccessTypes
  <2>2. AccessTypes'
    BY <1>2, <1>3, <2>1, AccessTypesKept DEF AccessTypes
  <2>3. Sessions'
    BY <1>2, <2>1, InboxType, SessionsUntouched DEF OnItsWay
  <2>4. NothingBut({}) /\ \A d \in Client : ReplyOnItsWay(d) => ReplyOnItsWay(d)'
    BY <2>1 DEF NothingBut, ReplyOnItsWay
  <2>5. \A d \in Candidate : Asked(d)' <=> Asked(d)
    BY <1>2 DEF Asked
  <2>6. OnlyAllowed' /\ Unknown' /\ EventsAreGenuine' /\ Waiting' /\ AnswerIsNotLost'
    BY <1>2, <1>3, <2>1, <2>2, <2>4, <2>5, QuietAccessStep, Candidates
  <2> QED
    BY <1>1, <2>2, <2>3, <2>6
<1>5. CASE <<home[o], c>> \in tokens
  <2>1. answers' = [answers EXCEPT ![c] = @ \cup {r}]
    BY <1>5 DEF AccessReply
  <2>2. /\ answers' \in [Candidate -> SUBSET Reply] /\ r \in answers'[c]
        /\ \A d \in Candidate : answers[d] \subseteq answers'[d]
        /\ \A d \in Candidate \ {c} : answers'[d] = answers[d]
    BY <2>1 DEF AccessTypes
  <2>3. Asked(c)
    BY <1>0, <1>5 DEF Unknown
  <2>4. CASE c \in candidates /\ home[c] = home[o]
    <3>1. ConnectFromReply(c, r, o) /\ UNCHANGED inbox
      BY <1>5, <2>4 DEF AccessReply
    <3>2. /\ inbox' \in [Server -> Seq(AllEvent)] /\ NothingBut({})
          /\ \A d \in Client : OnItsWay(d) => OnItsWay(d)'
          /\ \A d \in Candidate \ {c} : ReplyOnItsWay(d) => ReplyOnItsWay(d)'
      BY <3>1, InboxType DEF NothingBut, OnItsWay, ReplyOnItsWay
    <3>3. UNCHANGED <<policy, channel, leave, memoryVars, sessionVars, revoked, boundVars, ask>>
      BY <1>2 DEF memoryVars, sessionVars, boundVars
    <3> QED
      BY <1>1, <1>3, <2>2, <2>3, <2>4, <3>1, <3>2, <3>3, ServingKeepsAnswers
  <2>5. CASE ~(c \in candidates /\ home[c] = home[o])
    <3>1. Publish(home[o], e) /\ UNCHANGED <<candidates, connect, told, replying, grants>>
      BY <1>5, <2>5 DEF AccessReply
    <3>2. e \in AllEvent
      BY DEF AllEvent, AccessEvent
    <3>3. \A d \in Candidate : Asked(d)' <=> Asked(d)
      BY <1>2 DEF Asked
    <3>4. Genuine(e)'
      BY <2>2 DEF Genuine
    <3>5. c \in candidates => ReplyOnItsWay(c)'
      <4> SUFFICES ASSUME c \in candidates PROVE ReplyOnItsWay(c)'
        OBVIOUS
      <4> DEFINE q == inbox[home[c]]
                 p == inbox'[home[c]]
      <4>1. p = Append(q, e)
        BY <1>0, <2>5, <3>1 DEF Publish
      <4>2. q \in Seq(AllEvent)
        BY <1>0, InboxType
      <4>3. Len(q) + 1 \in DOMAIN p /\ p[Len(q) + 1] = e
        <5> HIDE DEF q, p, e
        <5> QED
          BY <3>2, <4>1, <4>2
      <4>4. e.event = "ACCESS_REPLY" /\ e.client = c
        OBVIOUS
      <4> QED
        BY <4>3, <4>4 DEF ReplyOnItsWay
    <3> HIDE DEF e
    <3>6. inbox' \in [Server -> Seq(AllEvent)] /\ NothingBut({e}) /\ NothingTaken
          /\ \A d \in Client : OnItsWay(d) => OnItsWay(d)'
      BY <3>1, <3>2, InboxType, PublishFacts, PublishNews
    <3>7. AccessTypes'
      BY <1>2, <1>3, <2>2, <3>1, Candidates DEF AccessTypes, Reply
    <3>8. Sessions'
      BY <1>2, <3>1, <3>6, SessionsUntouched
    <3>9. OnlyAllowed'
      <4>1. \A d \in Candidate : Allowed(d) \subseteq Allowed(d)'
        BY <2>2 DEF Allowed
      <4> QED
        BY <1>2, <3>1, <4>1, Candidates DEF OnlyAllowed
    <3>10. Unknown'
      BY <1>3, <2>2, <2>3, <3>3, Candidates DEF Unknown
    <3>11. EventsAreGenuine'
      <4>1. ASSUME NEW s \in Server, NEW k \in DOMAIN inbox'[s], NEW f, f = inbox'[s][k]
            PROVE  Genuine(f)'
        <5>1. CASE f = e
          BY <3>4, <5>1
        <5>2. CASE \E l \in DOMAIN inbox[s] : inbox[s][l] = f
          <6>1. PICK l \in DOMAIN inbox[s] : inbox[s][l] = f
            BY <5>2
          <6>2. inbox[s] \in Seq(AllEvent)
            BY InboxType
          <6>3. f \in AllEvent
            BY <6>1, <6>2
          <6>4. Genuine(f)
            BY <6>1 DEF EventsAreGenuine
          <6>5. f.event \in {"ACCESS_REPLY", "ACCESS_CANDIDATE"} => f.client \in Candidate
            BY <6>3, EventFacts
          <6> QED
            BY <2>2, <3>3, <6>4, <6>5 DEF Genuine
        <5> QED
          BY <3>6, <4>1, <5>1, <5>2 DEF NothingBut
      <4>2. \A s \in Server : \A k \in DOMAIN inbox'[s] : \A f : f = inbox'[s][k] => Genuine(f)'
        BY <4>1
      <4> QED
        BY <4>2 DEF EventsAreGenuine, Genuine, Asked
    <3>12. Waiting'
      BY <1>2, <3>1, <3>3, Candidates DEF Waiting
    <3>13. AnswerIsNotLost'
      <4> SUFFICES ASSUME NEW d \in Candidate, answers'[d] # {}, channel'[d] = "open"
                   PROVE  (grants[d] > 0 \/ d \in told \/ (d \in candidates /\ ReplyOnItsWay(d)))'
        BY Candidates DEF AnswerIsNotLost
      <4>1. CASE d = c
        BY <1>2, <2>3, <3>1, <3>5, <4>1 DEF Waiting
      <4>2. CASE d # c
        <5>1. grants[d] > 0 \/ d \in told \/ (d \in candidates /\ ReplyOnItsWay(d))
          BY <1>2, <2>2, <4>2 DEF AnswerIsNotLost
        <5>2. d \in Client
          BY Candidates
        <5> QED
          BY <3>1, <3>6, <5>1, <5>2, RepliesKept
      <4> QED
        BY <4>1, <4>2
    <3> QED
      BY <1>1, <3>7, <3>8, <3>9, <3>10, <3>11, <3>12, <3>13
  <2> QED
    BY <2>4, <2>5
<1> QED
  BY <1>4, <1>5

LEMMA ReceivingKeepsAnswers == ASSUME AInv, NEW s \in Server, ReceiveAccess(s) PROVE AInv'
<1> USE DEF AInv
<1>1. WaitsOnce'
  BY ReceivingKeeps
<1>2. PICK e : e = Head(inbox[s])
  OBVIOUS
<1>3. PICK c : c = e.client
  OBVIOUS
<1>4. /\ inbox[s] # <<>> /\ e \notin RoomEvent /\ inbox' = [inbox EXCEPT ![s] = Tail(inbox[s])]
      /\ UNCHANGED <<policy, channel, leave, memoryVars, sessionVars, revoked, boundVars, ask, answers>>
      /\ \/ /\ e.event = "ACCESS_CANDIDATE"
            /\ SendRequest(s, c) \/ UNCHANGED <<tokens, shown>>
            /\ UNCHANGED <<connect, told, candidates, replying, grants>>
         \/ /\ e.event = "ACCESS_CANCELLATION"
            /\ SendCancellation(s, c) \/ UNCHANGED <<tokens, shown>>
            /\ UNCHANGED <<connect, told, candidates, replying, grants>>
         \/ /\ e.event = "ACCESS_REPLY"
            /\ \/ c \in candidates /\ home[c] = s /\ ConnectFromReply(c, e.reply, s)
               \/ /\ ~(c \in candidates /\ home[c] = s)
                  /\ UNCHANGED <<connect, told, candidates, replying, grants>>
            /\ UNCHANGED <<tokens, shown>>
  BY <1>2, <1>3 DEF ReceiveAccess
<1>5. /\ e \in AllEvent /\ inbox' \in [Server -> Seq(AllEvent)]
      /\ \A d \in Client : OnItsWay(d) => OnItsWay(d)'
  <2>1. /\ Head(inbox[s]) \in AllEvent /\ inbox' \in [Server -> Seq(AllEvent)]
        /\ \A d \in Client : OnItsWay(d) =>
              \/ OnItsWay(d)'
              \/ home[d] = s /\ Head(inbox[s]) = [event |-> "ACCESS_REVOKED", client |-> d]
    BY <1>4, InboxType, TakeFacts
  <2>2. \A d \in Client : [event |-> "ACCESS_REVOKED", client |-> d] \in RoomEvent
    BY DEF RoomEvent
  <2> QED
    BY <1>2, <1>4, <2>1, <2>2
<1>6. /\ NothingBut({})
      /\ \E k \in DOMAIN inbox[s] : inbox[s][k] = e
      /\ \A d \in Client : ReplyOnItsWay(d) =>
            ReplyOnItsWay(d)' \/ (home[d] = s /\ e.event = "ACCESS_REPLY" /\ d = c)
  BY <1>2, <1>3, <1>4, InboxType, TakeNews
<1>7. c \in Candidate /\ c \in Client /\ Genuine(e)
      /\ (e.event = "ACCESS_REPLY" => e.reply \in Reply)
  <2>1. Genuine(e)
    BY <1>6 DEF EventsAreGenuine
  <2> QED
    BY <1>3, <1>4, <1>5, <2>1, EventFacts, Candidates
<1>8. \A d \in Candidate : Asked(d)' <=> Asked(d)
  BY <1>4 DEF Asked
<1>9. CASE e.event = "ACCESS_REPLY" /\ c \in candidates /\ home[c] = s /\ ConnectFromReply(c, e.reply, s)
  <2>1. UNCHANGED <<tokens, shown>>
    BY <1>4, <1>9
  <2>2. e.reply \in answers[c] /\ e.reply \in Reply
    BY <1>3, <1>7, <1>9 DEF Genuine
  <2>3. Asked(c)
    BY <2>2, <1>7 DEF Unknown
  <2>4. \A d \in Candidate \ {c} : ReplyOnItsWay(d) => ReplyOnItsWay(d)'
    BY <1>6, Candidates
  <2>5. answers' = answers /\ answers' \in [Candidate -> SUBSET Reply] /\ shown' \in [Owner -> SUBSET Candidate]
    BY <1>4, <2>1 DEF AccessTypes
  <2> QED
    BY <1>1, <1>4, <1>5, <1>6, <1>7, <1>9, <2>1, <2>2, <2>3, <2>4, <2>5, ServingKeepsAnswers
<1>10. CASE UNCHANGED <<connect, told, candidates, replying, grants>>
            /\ (e.event = "ACCESS_REPLY" => ~(c \in candidates /\ home[c] = s))
  <2>1. UNCHANGED <<policy, channel, leave, connection, room, created, current, member, revoked, faults, crashes, ask, answers>>
    BY <1>4 DEF memoryVars, sessionVars, boundVars
  <2>2. tokens' \subseteq Server \X Candidate /\ shown' \in [Owner -> SUBSET Candidate]
    BY <1>4, <1>7, SendTypes DEF AccessTypes
  <2>3. AccessTypes'
    BY <1>10, <2>1, <2>2, AccessTypesKept DEF AccessTypes
  <2>4. Sessions'
    BY <1>5, <1>10, <2>1, SessionsUntouched
  <2>5. \A d \in Candidate : \A t \in Server : <<t, d>> \in tokens' => <<t, d>> \in tokens \/ Asked(d)
    <3>1. e.event = "ACCESS_CANDIDATE" => Asked(c)
      BY <1>3, <1>7 DEF Genuine
    <3>2. \/ tokens' \subseteq tokens
          \/ e.event = "ACCESS_CANDIDATE" /\ tokens' = tokens \cup {<<s, c>>}
      BY <1>4 DEF SendRequest, SendCancellation
    <3> QED
      BY <3>1, <3>2
  <2>6. \A d \in Candidate : d \in candidates /\ ReplyOnItsWay(d) => ReplyOnItsWay(d)'
    BY <1>6, <1>10, Candidates
  <2>7. OnlyAllowed' /\ Unknown' /\ EventsAreGenuine' /\ Waiting' /\ AnswerIsNotLost'
    BY <1>6, <1>8, <1>10, <2>1, <2>3, <2>5, <2>6, QuietAccessStep, Candidates
  <2> QED
    BY <1>1, <2>3, <2>4, <2>7
<1> QED
  BY <1>4, <1>9, <1>10

------------------------------------------------------------------------------

LEMMA AInvInit == AccessInit => AInv
<1> SUFFICES ASSUME AccessInit PROVE AInv
  OBVIOUS
<1>1. WaitsOnce
  BY WaitsOnceInit
<1>2. Candidate \subseteq Client
  BY Candidates
<1>3. /\ channel = [c \in Client |-> "new"] /\ connect = [c \in Client |-> Idle]
      /\ connection = [c \in Client |-> NoConnection] /\ inbox = [s \in Server |-> <<>>]
      /\ ask = [c \in Candidate |-> "idle"] /\ candidates = {} /\ tokens = {}
      /\ shown = [o \in Owner |-> {}] /\ replying = [c \in Candidate |-> home[c]]
      /\ answers = [c \in Candidate |-> {}]
  BY DEF AccessInit, Init
<1>4. AccessTypes
  BY <1>2, <1>3, ClientAssumption DEF AccessTypes
<1>5. Sessions
  BY SessionInit DEF AccessInit, Sessions
<1>6. OnlyAllowed
  BY <1>2, <1>3 DEF OnlyAllowed, Allowed, Idle, NoConnection, Role
<1>7. Unknown /\ EventsAreGenuine /\ Waiting /\ AnswerIsNotLost
  BY <1>2, <1>3 DEF Unknown, EventsAreGenuine, Waiting, AnswerIsNotLost, Asked
<1> QED
  BY <1>1, <1>4, <1>5, <1>6, <1>7 DEF AInv

LEMMA StutteringKeepsAnswers == ASSUME AInv, UNCHANGED allVars PROVE AInv'
<1> USE DEF AInv
<1>1. /\ UNCHANGED <<policy, channel, told, connect, leave, connection, room, created, current,
                     member, inbox, revoked, faults, crashes>>
      /\ UNCHANGED <<ask, candidates, tokens, shown, replying, answers, grants>>
  BY DEF allVars, vars, accessVars, handlerVars, memoryVars, sessionVars, boundVars
<1>2. WaitsOnce'
  BY WaitsOnceNext
<1>3. AccessTypes'
  BY <1>1, AccessTypesKept DEF AccessTypes
<1>4. Sessions'
  BY <1>1, InboxType, SessionsUntouched DEF OnItsWay
<1>5. NothingBut({}) /\ \A d \in Client : ReplyOnItsWay(d) => ReplyOnItsWay(d)'
  BY <1>1 DEF NothingBut, ReplyOnItsWay
<1>6. \A d \in Candidate : Asked(d)' <=> Asked(d)
  BY <1>1 DEF Asked
<1>7. OnlyAllowed' /\ Unknown' /\ EventsAreGenuine' /\ Waiting' /\ AnswerIsNotLost'
  BY <1>1, <1>3, <1>5, <1>6, QuietAccessStep, Candidates
<1> QED
  BY <1>2, <1>3, <1>4, <1>7

LEMMA AInvNext == AInv /\ [AccessNext]_allVars => AInv'
<1> SUFFICES ASSUME AInv, [AccessNext]_allVars PROVE AInv'
  OBVIOUS
<1> QED
  BY StutteringKeepsAnswers, RoomStepKeepsAnswers, LeavingKeepsAnswers, RevokingKeepsAnswers,
     AskingKeepsAnswers, SeekingKeepsAnswers, LeavingCandidateKeepsAnswers,
     AnsweringKeepsAnswers, ReceivingKeepsAnswers, RestartingKeepsAnswers
     DEF AccessNext, AskStep

\* Candidates do not disturb what DesktopRoom counts and holds.
THEOREM AccessTypeCorrect == AccessSpec => []AccessTypeOK
<1>1. AInv => AccessTypeOK
  <2> SUFFICES ASSUME AInv PROVE AccessTypeOK
    OBVIOUS
  <2>1. PICK G : SInv(AllEvent, G)
    BY DEF AInv, Sessions
  <2> DEFINE N == Cardinality(Client)
  <2>2. N \in Nat /\ created \in Nat /\ created <= N
    <3>1. /\ Cardinality(Spent(G)) <= N /\ Cardinality(Spent(G)) \in Nat /\ N \in Nat
          /\ created <= Cardinality(Spent(G)) /\ created \in Nat
      BY <2>1, SpentFinite, ClientAssumption, FS_CardinalityType DEF SInv, Counted, Types
    <3> HIDE DEF N
    <3> QED
      BY <3>1
  <2>3. 0..created \subseteq SessionId /\ 1..created \subseteq SessionId \ {0} /\ created \in SessionId
    BY <2>2 DEF SessionId
  <2>4. RoomTypeOK
    BY <2>1, <2>3 DEF SInv, Types, Connecting, Leaving, RoomTypeOK
  <2>5. inbox \in [Server -> Seq(RoomEvent \cup AccessEvent)]
    BY InboxType DEF AllEvent
  <2> QED
    BY <2>4, <2>5 DEF AInv, AccessTypes, WaitsOnce, AccessTypeOK
<1> QED
  BY <1>1, AInvInit, AInvNext, PTL DEF AccessSpec

\* However many clients of the owner give different answers, and whichever arrives first,
\* the role of a candidate is one that an answer allows.
THEOREM RolesAreGranted == AccessSpec => []GrantedByTheOwner
<1>1. AInv => GrantedByTheOwner
  BY DEF AInv, OnlyAllowed, Allowed, GrantedByTheOwner
<1> QED
  BY <1>1, AInvInit, AInvNext, PTL DEF AccessSpec

\* An answer is served by the server of the owner, or by that of the candidate: no order
\* of events, other answer, cancellation or restart lets it disappear for a candidate
\* that is still there.
THEOREM NoAnswerIsLost == AccessSpec => []AnswerIsNotLost
<1>1. AInv => AnswerIsNotLost
  BY DEF AInv
<1> QED
  BY <1>1, AInvInit, AInvNext, PTL DEF AccessSpec

\* The events of the requests share the channel with those of the revocations, and
\* neither takes away the others.
THEOREM RevocationIsCompleteWithAccess == AccessSpec => []RevocationReaches
<1>1. AInv => RevocationReaches
  BY DEF AInv, Sessions, SInv
<1> QED
  BY <1>1, AInvInit, AInvNext, PTL DEF AccessSpec

\* The same for the room with its candidates, who may wait in it, be let in or be
\* turned away while it is closed.
THEOREM ClosureIsAnnouncedWithAccess == AccessSpec => [][ClosureReaches]_allVars
<1>1. ASSUME AInv, AccessNext PROVE ClosureReaches
  <2>1. inbox \in [Server -> Seq(AllEvent)] /\ room \subseteq Client /\ RoomEvent \subseteq AllEvent
    BY <1>1, InboxType DEF AInv, Sessions, SInv, Types, AllEvent
  <2>2. ASSUME told \cap room' \subseteq told', UNCHANGED inbox \/ \E e \in AllEvent, s \in Server : Publish(s, e)
        PROVE  StillMustGo
    <3>1. NothingTaken
      <4>1. CASE UNCHANGED inbox
        BY <4>1, UntouchedTakesNothing
      <4>2. ASSUME NEW e \in AllEvent, NEW s \in Server, Publish(s, e) PROVE NothingTaken
        BY <2>1, <4>2, PublishTakesNothing
      <4> QED
        BY <2>2, <4>1, <4>2
    <3> QED
      BY <2>1, <2>2, <3>1, AddingKeepsCalls
  <2>3. ASSUME RoomStep PROVE StillMustGo
    BY <2>1, <2>3, ConnectingKeepsCalls, LeavingKeepsCalls, ReceivingKeepsCalls DEF RoomStep, HandlerStep
  <2>4. ASSUME NEW c \in Client, DisconnectMember(c) PROVE StillMustGo
    BY <2>2, <2>4 DEF DisconnectMember, Disconnect, Close
  <2>5. ASSUME NEW o \in Owner, NEW u \in Revocable, RevokeMember(o, u) PROVE StillMustGo
    <3>1. o \in Client /\ RevokeAccess(o, u)
      BY <2>5 DEF RevokeMember, Owner
    <3>2. told \subseteq told'
      BY <3>1 DEF RevokeAccess, Revokes
    <3> QED
      BY <2>1, <3>1, <3>2, RevokeTakesNothing, AddingKeepsCalls
  <2>6. ASSUME NEW c \in Candidate, AskAccess(c) \/ AskStep(c) \/ DisconnectCandidate(c) PROVE StillMustGo
    <3>1. c \in Client /\ home[c] \in Server
      BY Candidates, ClientAssumption
    <3>2. told \cap room' \subseteq told'
      BY <2>6 DEF AskAccess, AskStep, WaitInRoom, SeekOwner, DisconnectCandidate, Close, handlerVars
    <3>3. UNCHANGED inbox \/ \E e \in AccessEvent : Publish(home[c], e)
      BY <2>6 DEF AskAccess, AskStep, WaitInRoom, SeekOwner, DisconnectCandidate, CancelAccess, AccessEvent
    <3> QED
      BY <2>2, <3>1, <3>2, <3>3 DEF AllEvent
  <2>7. ASSUME NEW o \in Owner, NEW c \in Candidate, NEW r \in Reply, AccessReply(o, c, r) PROVE StillMustGo
    <3>1. home[o] \in Server
      BY ClientAssumption DEF Owner
    <3>2. told \cap room' \subseteq told'
      BY <2>7 DEF AccessReply, ConnectFromReply, Begin, memoryVars
    <3>3. UNCHANGED inbox \/ \E e \in AccessEvent : Publish(home[o], e)
      BY <2>7 DEF AccessReply, AccessEvent
    <3> QED
      BY <2>2, <3>1, <3>2, <3>3 DEF AllEvent
  <2>8. ASSUME NEW s \in Server, ReceiveAccess(s) PROVE StillMustGo
    <3>1. /\ inbox[s] # <<>> /\ inbox' = [inbox EXCEPT ![s] = Tail(inbox[s])]
          /\ room' = room /\ told \subseteq told'
          /\ Head(inbox[s]) \notin RoomEvent
      BY <2>8 DEF ReceiveAccess, ConnectFromReply, Begin, memoryVars
    <3>2. Head(inbox[s]) # [event |-> "ROOM_CLOSED"]
      BY <3>1 DEF RoomEvent
    <3> QED
      BY <2>1, <3>1, <3>2, TakingKeepsCalls
  <2>9. ASSUME NEW s \in Server, RestartServer(s) PROVE StillMustGo
    <3>1. Restart(s)
      BY <2>9 DEF RestartServer
    <3> QED
      BY <2>1, <3>1, RestartingKeepsCalls
  <2>10. StillMustGo
    BY <1>1, <2>3, <2>4, <2>5, <2>6, <2>7, <2>8, <2>9 DEF AccessNext
  <2> QED
    BY <2>1, <2>10, ClosingCallsAll DEF ClosureReaches
<1> QED
  BY <1>1, AInvInit, AInvNext, PTL DEF AccessSpec
==============================================================================

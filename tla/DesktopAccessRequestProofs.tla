---------------------- MODULE DesktopAccessRequestProofs ----------------------
(***************************************************************************)
(* Proof that rooms, access requests and servers together implement        *)
(* DesktopAccessRequest: every step settles one request, takes one role    *)
(* away, lets one candidate come or go, or is not seen at all.             *)
(***************************************************************************)
EXTENDS DesktopAnswerProofs

\* A candidate that is being connected is connected with no other role, and one that
\* has not been let in has none: what makes the role of DesktopAccessRequest a single
\* one while two handlers of the candidate, that connects it and that lets it go, run.
RolesAgree ==
    \A c \in Candidate :
        /\ connect[c].role = "NONE" \/ connection[c].role \in {"NONE", connect[c].role}
        /\ grants[c] = 0 => connect[c].role = "NONE" /\ connection[c].role = "NONE"

RInv == AInv /\ RolesAgree

------------------------------------------------------------------------------
(* Steps as DesktopAccessRequest sees them *)

SamePlace(c) == PlaceOf(c)' = PlaceOf(c)
SameRole(c) == connect'[c].role = connect[c].role /\ connection'[c].role = connection[c].role

LEMMA SameGiven == ASSUME NEW c, SameRole(c) PROVE GivenTo(c)' = GivenTo(c)
BY DEF SameRole, GivenTo

LEMMA SamePlaceFacts ==
    ASSUME NEW c \in Candidate,
           channel'[c] = channel[c], ask'[c] = ask[c], c \in candidates' <=> c \in candidates
    PROVE  SamePlace(c)
BY DEF SamePlace, PlaceOf

LEMMA Unseen ==
    ASSUME UNCHANGED answers, \A c \in Candidate : SamePlace(c) /\ GivenTo(c)' = GivenTo(c)
    PROVE  UNCHANGED AbstractRequest!requestVars
BY Candidates DEF AbstractRequest!requestVars, SamePlace

LEMMA RolesKept ==
    ASSUME RolesAgree, UNCHANGED grants, \A c \in Candidate : SameRole(c)
    PROVE  RolesAgree'
BY Candidates DEF RolesAgree, SameRole

\* Typing facts of the invariant that are needed again and again.
LEMMA RequestTypes ==
    ASSUME AInv
    PROVE  /\ channel \in [Client -> {"new", "open", "gone"}]
           /\ connect \in [Client -> Connecting]
           /\ connection \in [Client -> [role : Role, locked : BOOLEAN]]
           /\ inbox \in [Server -> Seq(AllEvent)]
           /\ ask \in [Candidate -> {"idle", "join", "seek"}]
           /\ answers \in [Candidate -> SUBSET Reply]
           /\ grants \in [Candidate -> Nat]
           /\ DOMAIN connect = Client /\ DOMAIN connection = Client
BY DEF AInv, Sessions, SInv, Types, AccessTypes, WaitsOnce

\* The handlers of a client do not touch the roles of another one.
LEMMA HandlerIsLocal ==
    ASSUME AInv, NEW c \in Client, HandlerStep(c), NEW d \in Client, d # c
    PROVE  SameRole(d)
<1>a. /\ connect \in [Client -> Connecting] /\ DOMAIN connect = Client
      /\ connection \in [Client -> [role : Role, locked : BOOLEAN]] /\ DOMAIN connection = Client
  BY RequestTypes
<1>b. ASSUME NEW s, NEW b, NEW f \in Relocked(s, b)
      PROVE  DOMAIN f = Client /\ f[d].role = connection[d].role
  <2>1. PICK done : f = [e \in Client |-> IF e \in done THEN [connection[e] EXCEPT !.locked = b]
                                          ELSE connection[e]]
    BY <1>b DEF Relocked
  <2> QED
    BY <1>a, <2>1
<1>1. CASE CreateSession(c) \/ UseSession(c) \/ SocketFails(c)
  BY <1>1, <1>a DEF CreateSession, UseSession, SocketFails, Refuse, memoryVars, SameRole
<1>2. CASE ReadSession(c) \/ ReadOwner(c) \/ AddMember(c)
  BY <1>2, <1>a DEF ReadSession, ReadOwner, AddMember, memoryVars, SameRole
<1>3. CASE JoinRoom(c)
  BY <1>3, <1>a DEF JoinRoom, SameRole
<1>4. CASE UnlockRoom(c)
  BY <1>4, <1>a, <1>b DEF UnlockRoom, SameRole
<1>5. CASE LeaveSession(c) \/ CheckMember(c) \/ CommitMember(c)
  BY <1>5 DEF LeaveSession, CheckMember, CommitMember, memoryVars, SameRole
<1>6. CASE LeaveOwner(c)
  BY <1>6, <1>a DEF LeaveOwner, SameRole
<1>7. CASE CloseRoom(c)
  BY <1>7, <1>a DEF CloseRoom, SameRole
<1>8. CASE LockRoom(c)
  <2>1. /\ UNCHANGED connect
        /\ \E f \in Relocked(home[c], TRUE) :
              connection' = f \/ connection' = [f EXCEPT ![c] = NoConnection]
    BY <1>8 DEF LockRoom
  <2>2. \A f \in Relocked(home[c], TRUE) : DOMAIN f = Client /\ f[d].role = connection[d].role
    BY <1>b
  <2> QED
    BY <2>1, <2>2 DEF SameRole
<1> QED
  BY <1>1, <1>2, <1>3, <1>4, <1>5, <1>6, <1>7, <1>8 DEF HandlerStep, ConnectStep, LeaveStep

------------------------------------------------------------------------------
(* The steps of DesktopRoom *)

\* A handler of a candidate keeps its role, or takes it away.
LEMMA HandlingReleases ==
    ASSUME RInv, NEW c \in Client, HandlerStep(c), UNCHANGED accessVars
    PROVE  /\ RolesAgree'
           /\ \/ UNCHANGED AbstractRequest!requestVars
              \/ \E d \in Candidate : AbstractRequest!Release(d)
<1> USE DEF RInv
<1>1. UNCHANGED <<channel, ask, candidates, answers, grants>>
  BY HandlerFacts DEF accessVars
<1>2. \A d \in Candidate : SamePlace(d)
  BY <1>1, SamePlaceFacts
<1>3. \A d \in Candidate : d # c => SameRole(d)
  BY HandlerIsLocal, Candidates
<1>4. /\ connect'[c].role \in {connect[c].role, "NONE"}
      /\ connection'[c].role \in {connection[c].role, connect[c].role, "NONE"}
  BY HandlerFacts
<1>5. RolesAgree'
  <2> SUFFICES ASSUME NEW d \in Candidate
               PROVE  /\ connect'[d].role = "NONE" \/ connection'[d].role \in {"NONE", connect'[d].role}
                      /\ grants[d] = 0 => connect'[d].role = "NONE" /\ connection'[d].role = "NONE"
    BY <1>1, Candidates DEF RolesAgree
  <2>1. CASE d = c
    BY <1>4, <2>1 DEF RolesAgree
  <2>2. CASE d # c
    BY <1>3, <2>2 DEF RolesAgree, SameRole
  <2> QED
    BY <2>1, <2>2
<1>6. \A d \in Candidate : d # c => GivenTo(d)' = GivenTo(d)
  BY <1>3, SameGiven
<1>7. CASE c \in Candidate /\ GivenTo(c)' # GivenTo(c)
  <2>1. GivenTo(c)' = "NONE"
    BY <1>4, <1>7 DEF RolesAgree, GivenTo
  <2>2. AbstractRequest!Release(c)
    BY <1>1, <1>2, <1>6, <2>1, Candidates DEF AbstractRequest!Release, SamePlace
  <2> QED
    BY <1>5, <1>7, <2>2
<1>8. CASE c \notin Candidate \/ GivenTo(c)' = GivenTo(c)
  <2>1. UNCHANGED AbstractRequest!requestVars
    BY <1>1, <1>2, <1>6, <1>8, Unseen
  <2> QED
    BY <1>5, <2>1
<1> QED
  BY <1>7, <1>8

LEMMA RoomStepIsRelease ==
    ASSUME RInv, RoomStep
    PROVE  /\ RolesAgree'
           /\ \/ UNCHANGED AbstractRequest!requestVars
              \/ \E d \in Candidate : AbstractRequest!Release(d)
<1> USE DEF RInv
<1>a. UNCHANGED accessVars
  BY DEF RoomStep
<1>b. UNCHANGED <<ask, candidates, answers, grants>>
  BY <1>a DEF accessVars
<1>c. DOMAIN connect = Client /\ DOMAIN channel = Client
      /\ connection \in [Client -> [role : Role, locked : BOOLEAN]]
  BY RequestTypes
<1>1. ASSUME NEW c \in Client, Connect(c)
      PROVE  \A d \in Candidate : SameRole(d) /\ channel'[d] = channel[d]
  <2>1. \A d \in Candidate : d \in Client /\ d # c
    BY <1>1, Candidates DEF Connect, Candidate
  <2> QED
    BY <1>1, <1>c, <2>1 DEF Connect, Begin, memoryVars, SameRole
<1>2. ASSUME NEW s \in Server, Receive(s)
      PROVE  \A d \in Candidate : SameRole(d) /\ channel'[d] = channel[d]
  <2>1. UNCHANGED <<connect, channel>>
    BY <1>2 DEF Receive
  <2>2. UNCHANGED connection \/ \E b : connection' \in Relocked(s, b)
    BY <1>2 DEF Receive
  <2>3. ASSUME NEW b, connection' \in Relocked(s, b), NEW d \in Client
        PROVE  connection'[d].role = connection[d].role
    <3>1. PICK done :
             connection' = [e \in Client |-> IF e \in done THEN [connection[e] EXCEPT !.locked = b]
                                             ELSE connection[e]]
      BY <2>3 DEF Relocked
    <3> QED
      BY <1>c, <3>1
  <2> QED
    BY <2>1, <2>2, <2>3, Candidates DEF SameRole
<1>3. CASE \A d \in Candidate : SameRole(d) /\ channel'[d] = channel[d]
  <2>1. \A d \in Candidate : SamePlace(d) /\ GivenTo(d)' = GivenTo(d)
    BY <1>3, <1>b, SamePlaceFacts, SameGiven
  <2> QED
    BY <1>3, <1>b, <2>1, Unseen, RolesKept
<1> QED
  BY <1>a, <1>1, <1>2, <1>3, HandlingReleases DEF RoomStep

LEMMA LeavingRoomIsUnseen ==
    ASSUME RInv, \/ \E c \in Client : DisconnectMember(c)
                 \/ \E o \in Owner, u \in Revocable : RevokeMember(o, u)
    PROVE  RolesAgree' /\ UNCHANGED AbstractRequest!requestVars
<1> USE DEF RInv
<1>1. UNCHANGED <<connect, connection, ask, candidates, answers, grants>>
  BY DEF DisconnectMember, Disconnect, Close, RevokeMember, RevokeAccess, Revokes, accessVars,
         historyVars, memoryVars
<1>2. \A d \in Candidate : channel'[d] = channel[d]
  <2>1. ASSUME NEW c \in Client, DisconnectMember(c)
        PROVE  \A d \in Candidate : channel'[d] = channel[d]
    <3>1. \A d \in Candidate : d \in Client /\ d # c
      BY <2>1, Candidates DEF DisconnectMember, Disconnect, Candidate
    <3>2. channel' = [channel EXCEPT ![c] = "gone"] /\ DOMAIN channel = Client
      BY <2>1, RequestTypes DEF DisconnectMember, Disconnect, Close
    <3> QED
      BY <3>1, <3>2
  <2>2. ASSUME NEW o, NEW u, RevokeMember(o, u) PROVE UNCHANGED channel
    BY <2>2 DEF RevokeMember, RevokeAccess
  <2> QED
    BY <2>1, <2>2
<1>3. \A d \in Candidate : SameRole(d) /\ SamePlace(d) /\ GivenTo(d)' = GivenTo(d)
  BY <1>1, <1>2, SamePlaceFacts, SameGiven DEF SameRole
<1> QED
  BY <1>1, <1>3, Unseen, RolesKept

------------------------------------------------------------------------------
(* Asking and going *)

LEMMA AskingIsAsk ==
    ASSUME RInv, NEW c \in Candidate, AskAccess(c)
    PROVE  RolesAgree' /\ AbstractRequest!Ask(c)
<1> USE DEF RInv
<1>1. /\ channel[c] = "new" /\ channel' = [channel EXCEPT ![c] = "open"]
      /\ ask' \in {ask, [ask EXCEPT ![c] = "join"]}
      /\ UNCHANGED <<connect, connection, candidates, answers, grants>>
  BY DEF AskAccess, memoryVars, historyVars
<1>2. DOMAIN channel = Client /\ DOMAIN ask = Candidate
  BY RequestTypes
<1>3. PlaceOf(c) = "away"
  BY <1>1 DEF PlaceOf
<1>4. PlaceOf(c)' \in {"waiting", "settled"}
  BY <1>1, <1>2, Candidates DEF PlaceOf
<1>5. \A d \in Candidate : d # c => SamePlace(d)
  BY <1>1, <1>2, Candidates, SamePlaceFacts
<1>6. \A d \in Candidate : SameRole(d) /\ GivenTo(d)' = GivenTo(d)
  BY <1>1, SameGiven DEF SameRole
<1>7. AbstractRequest!Ask(c)
  BY <1>1, <1>3, <1>4, <1>5, <1>6, Candidates DEF AbstractRequest!Ask, SamePlace
<1> QED
  BY <1>1, <1>6, <1>7, RolesKept

LEMMA SeekingIsUnseen ==
    ASSUME RInv, NEW c \in Candidate, AskStep(c)
    PROVE  RolesAgree' /\ UNCHANGED AbstractRequest!requestVars
<1> USE DEF RInv
<1>1. UNCHANGED <<channel, connect, connection, answers, grants>>
  BY DEF AskStep, WaitInRoom, SeekOwner, handlerVars, memoryVars, historyVars
<1>2. /\ \A d \in Candidate : d # c => ask'[d] = ask[d] /\ (d \in candidates' <=> d \in candidates)
      /\ \/ ask[c] = "join" /\ c \in candidates'
         \/ ask[c] # "join" /\ ask'[c] # "join" /\ (c \in candidates' <=> c \in candidates)
  BY RequestTypes DEF AskStep, WaitInRoom, SeekOwner
<1>3. \A d \in Candidate : SamePlace(d)
  BY <1>1, <1>2 DEF SamePlace, PlaceOf
<1>4. \A d \in Candidate : SameRole(d) /\ GivenTo(d)' = GivenTo(d)
  BY <1>1, SameGiven DEF SameRole
<1> QED
  BY <1>1, <1>3, <1>4, Unseen, RolesKept

LEMMA GoingIsLeave ==
    ASSUME RInv, NEW c \in Candidate, DisconnectCandidate(c)
    PROVE  RolesAgree' /\ AbstractRequest!Leave(c)
<1> USE DEF RInv
<1>1. /\ channel[c] = "open" /\ channel' = [channel EXCEPT ![c] = "gone"]
      /\ candidates' \in {candidates, candidates \ {c}}
      /\ UNCHANGED <<ask, connect, connection, answers, grants>>
  BY DEF DisconnectCandidate, Close, CancelAccess, historyVars
<1>2. DOMAIN channel = Client
  BY RequestTypes
<1>3. PlaceOf(c) \in {"waiting", "settled"} /\ PlaceOf(c)' = "gone"
  BY <1>1, <1>2, Candidates DEF PlaceOf
<1>4. \A d \in Candidate : d # c => SamePlace(d)
  BY <1>1, <1>2, Candidates, SamePlaceFacts
<1>5. \A d \in Candidate : SameRole(d) /\ GivenTo(d)' = GivenTo(d)
  BY <1>1, SameGiven DEF SameRole
<1>6. AbstractRequest!Leave(c)
  BY <1>1, <1>3, <1>4, <1>5, Candidates DEF AbstractRequest!Leave, SamePlace
<1> QED
  BY <1>1, <1>5, <1>6, RolesKept

LEMMA RestartingIsFail ==
    ASSUME RInv, NEW s \in Server, RestartServer(s)
    PROVE  RolesAgree' /\ \E lost \in SUBSET Candidate : AbstractRequest!Fail(lost)
<1> USE DEF RInv
<1> DEFINE lost == {c \in Client : home[c] = s}
<1>1. /\ channel' = [c \in Client |-> IF c \in lost /\ channel[c] = "open" THEN "gone" ELSE channel[c]]
      /\ connect' = [c \in Client |-> IF c \in lost THEN Idle ELSE connect[c]]
      /\ connection' = [c \in Client |-> IF c \in lost THEN NoConnection ELSE connection[c]]
      /\ ask' = [c \in Candidate |-> IF c \in lost THEN "idle" ELSE ask[c]]
      /\ candidates' = candidates \ lost
      /\ UNCHANGED <<answers, grants>>
  BY DEF RestartServer, Restart, historyVars
<1>2. channel \in [Client -> {"new", "open", "gone"}]
  BY RequestTypes
<1> HIDE DEF lost
<1>3. ASSUME NEW c \in Candidate, c \in lost
      PROVE  /\ connect'[c].role = "NONE" /\ connection'[c].role = "NONE"
             /\ PlaceOf(c)' = IF PlaceOf(c) # "away" THEN "gone" ELSE PlaceOf(c)
  <2>1. connect'[c].role = "NONE" /\ connection'[c].role = "NONE"
    BY <1>1, <1>3, Candidates DEF Idle, NoConnection
  <2>2. CASE channel[c] = "new"
    <3>1. channel'[c] = "new"
      BY <1>1, <2>2, Candidates
    <3> QED
      BY <2>1, <2>2, <3>1 DEF PlaceOf
  <2>3. CASE channel[c] # "new"
    <3>1. channel'[c] = "gone"
      BY <1>1, <1>2, <1>3, <2>3, Candidates
    <3>2. PlaceOf(c) # "away"
      BY <1>2, <2>3, Candidates DEF PlaceOf
    <3> QED
      BY <2>1, <3>1, <3>2 DEF PlaceOf
  <2> QED
    BY <2>2, <2>3
<1>4. ASSUME NEW c \in Candidate, c \notin lost PROVE SameRole(c) /\ SamePlace(c)
  BY <1>1, <1>4, Candidates, SamePlaceFacts DEF SameRole
<1>5. RolesAgree'
  BY <1>1, <1>3, <1>4, Candidates DEF RolesAgree, SameRole
<1>6. \A c \in Candidate : GivenTo(c)' = IF c \in lost THEN "NONE" ELSE GivenTo(c)
  BY <1>3, <1>4, SameGiven DEF GivenTo
<1>7. AbstractRequest!Fail(lost \cap Candidate)
  <2>1. \A c \in Candidate :
           PlaceOf(c)' = IF c \in lost \cap Candidate /\ PlaceOf(c) # "away" THEN "gone" ELSE PlaceOf(c)
    BY <1>3, <1>4 DEF SamePlace
  <2> QED
    BY <1>1, <1>6, <2>1, Candidates DEF AbstractRequest!Fail
<1> QED
  BY <1>5, <1>7

------------------------------------------------------------------------------
(* Answering *)

\* An answer that reaches the server of a candidate that waits there settles the
\* request, with the role it grants; one that comes after the candidate only counts.
LEMMA ServingIsSettle ==
    ASSUME RInv, NEW c \in Candidate, c \in candidates, NEW r \in Reply, NEW thread,
           ConnectFromReply(c, r, thread), UNCHANGED <<channel, ask, connection>>,
           answers' = [answers EXCEPT ![c] = @ \cup {r}]
    PROVE  RolesAgree' /\ (AbstractRequest!Settle(c, r) \/ AbstractRequest!Answer(c, r))
<1> USE DEF RInv
<1>a. /\ channel \in [Client -> {"new", "open", "gone"}] /\ DOMAIN connect = Client
      /\ DOMAIN answers = Candidate /\ c \in Client /\ grants \in [Candidate -> Nat]
  BY RequestTypes, Candidates
<1>b. channel[c] # "new" /\ ask[c] # "join" /\ grants[c] = 0
  BY DEF AInv, WaitsOnce
<1>c. connect[c].role = "NONE" /\ connection[c].role = "NONE"
  BY <1>b DEF RolesAgree
<1>d. PlaceOf(c) # "away" /\ candidates' = candidates \ {c}
  BY <1>b DEF PlaceOf, ConnectFromReply
<1>e. \A d \in Candidate : d # c => SamePlace(d)
  BY <1>d, SamePlaceFacts
<1>1. CASE channel[c] = "open"
  <2> DEFINE g == Converted(c, r)
  <2>1. g = AbstractRequest!RoleFor(r) /\ (g = "NONE" <=> r = "NONE")
    BY DEF Converted, AbstractRequest!RoleFor, Reply, Candidate, MustAsk
  <2> HIDE DEF g
  <2>2. /\ Begin(c, g)
        /\ grants' = [grants EXCEPT ![c] = IF r = "NONE" THEN @ ELSE @ + 1]
    BY <1>1 DEF ConnectFromReply, g
  <2>3. /\ \A d \in Candidate : d # c => SameRole(d)
        /\ connect'[c].role = g /\ connection'[c].role = "NONE"
    <3>1. CASE g = "NONE"
      BY <1>c, <2>2, <3>1 DEF Begin, SameRole
    <3>2. CASE g # "NONE"
      BY <1>a, <1>c, <2>2, <3>2, Candidates DEF Begin, SameRole, Idle
    <3> QED
      BY <3>1, <3>2
  <2>4. \A d \in Candidate : GivenTo(d)' = IF d = c THEN AbstractRequest!RoleFor(r) ELSE GivenTo(d)
    BY <2>1, <2>3, SameGiven DEF GivenTo
  <2>5. GivenTo(c) = "NONE"
    BY <1>c DEF GivenTo
  <2>6. PlaceOf(c) = "waiting" /\ PlaceOf(c)' = "settled"
    BY <1>1, <1>b, <1>d DEF PlaceOf
  <2>7. AbstractRequest!Settle(c, r)
    BY <1>e, <2>4, <2>5, <2>6, Candidates DEF AbstractRequest!Settle, SamePlace
  <2>8. RolesAgree'
    <3>1. \A d \in Candidate : d # c => grants'[d] = grants[d]
      BY <1>a, <2>2
    <3>2. grants'[c] = 0 => g = "NONE"
      BY <1>a, <1>b, <2>1, <2>2
    <3> QED
      BY <2>3, <3>1, <3>2, Candidates DEF RolesAgree, SameRole
  <2> QED
    BY <2>7, <2>8
<1>2. CASE channel[c] # "open"
  <2>1. UNCHANGED <<connect, grants>>
    BY <1>2 DEF ConnectFromReply
  <2>2. PlaceOf(c) = "gone" /\ SamePlace(c)
    BY <1>2, <1>a, <1>b DEF PlaceOf, SamePlace
  <2>3. \A d \in Candidate : SameRole(d) /\ GivenTo(d)' = GivenTo(d)
    BY <2>1, SameGiven DEF SameRole
  <2>4. AbstractRequest!Answer(c, r)
    BY <1>d, <1>e, <2>2, <2>3, Candidates DEF AbstractRequest!Answer, SamePlace
  <2> QED
    BY <2>1, <2>3, <2>4, RolesKept
<1> QED
  BY <1>1, <1>2

LEMMA AnsweringIsAnswer ==
    ASSUME RInv, NEW o \in Owner, NEW c \in Candidate, NEW r \in Reply, AccessReply(o, c, r)
    PROVE  /\ RolesAgree'
           /\ \/ UNCHANGED AbstractRequest!requestVars
              \/ AbstractRequest!Settle(c, r) \/ AbstractRequest!Answer(c, r)
<1> USE DEF RInv
<1>a. answers \in [Candidate -> SUBSET Reply]
  BY RequestTypes
<1>1. /\ UNCHANGED <<channel, ask, connection>>
      /\ answers' = [answers EXCEPT ![c] = IF <<home[o], c>> \in tokens THEN @ \cup {r} ELSE @]
  BY DEF AccessReply, memoryVars
<1>2. CASE <<home[o], c>> \in tokens /\ c \in candidates /\ home[c] = home[o]
  <2>1. ConnectFromReply(c, r, o)
    BY <1>2 DEF AccessReply
  <2>2. answers' = [answers EXCEPT ![c] = @ \cup {r}]
    BY <1>1, <1>2
  <2> QED
    BY <1>1, <1>2, <2>1, <2>2, ServingIsSettle
<1>3. CASE ~(<<home[o], c>> \in tokens /\ c \in candidates /\ home[c] = home[o])
  <2>1. UNCHANGED <<candidates, connect, grants>>
    BY <1>3 DEF AccessReply
  <2>2. \A d \in Candidate : SameRole(d) /\ SamePlace(d) /\ GivenTo(d)' = GivenTo(d)
    BY <1>1, <2>1, SamePlaceFacts, SameGiven DEF SameRole
  <2>3. CASE <<home[o], c>> \in tokens
    <3>1. Asked(c)
      BY <2>3, ClientAssumption DEF AInv, Unknown, Owner
    <3>2. PlaceOf(c) # "away"
      BY <3>1 DEF Asked, PlaceOf
    <3>3. answers' = [answers EXCEPT ![c] = @ \cup {r}]
      BY <1>1, <2>3
    <3>4. AbstractRequest!Answer(c, r)
      BY <2>2, <3>2, <3>3, Candidates DEF AbstractRequest!Answer, SamePlace
    <3> QED
      BY <2>1, <2>2, <3>4, RolesKept
  <2>4. CASE <<home[o], c>> \notin tokens
    <3>1. UNCHANGED answers
      BY <1>1, <1>a, <2>4, Zenon
    <3> QED
      BY <2>1, <2>2, <3>1, Unseen, RolesKept
  <2> QED
    BY <2>3, <2>4
<1> QED
  BY <1>2, <1>3

LEMMA ReceivingIsSettle ==
    ASSUME RInv, NEW s \in Server, ReceiveAccess(s)
    PROVE  /\ RolesAgree'
           /\ \/ UNCHANGED AbstractRequest!requestVars
              \/ \E c \in Candidate, r \in Reply :
                    AbstractRequest!Settle(c, r) \/ AbstractRequest!Answer(c, r)
<1> USE DEF RInv
<1> DEFINE event == Head(inbox[s])
           c == event.client
           r == event.reply
<1>1. /\ UNCHANGED <<channel, ask, connection, answers>>
      /\ \/ UNCHANGED <<connect, candidates, grants>>
         \/ /\ event.event = "ACCESS_REPLY" /\ c \in candidates
            /\ ConnectFromReply(c, event.reply, s)
  BY DEF ReceiveAccess, memoryVars
<1>2. event \in AllEvent /\ Genuine(event)
  <2>1. inbox[s] \in Seq(AllEvent) /\ inbox[s] # <<>>
    BY RequestTypes DEF ReceiveAccess
  <2> DEFINE q == inbox[s]
  <2>2. q \in Seq(AllEvent) /\ q # <<>>
    BY <2>1
  <2> HIDE DEF q
  <2>3. 1 \in DOMAIN q /\ q[1] = Head(q) /\ Head(q) \in AllEvent
    BY <2>2
  <2> QED
    BY <2>3 DEF q, AInv, EventsAreGenuine
<1> HIDE DEF event
<1>3. CASE UNCHANGED <<connect, candidates, grants>>
  <2>1. \A d \in Candidate : SameRole(d) /\ SamePlace(d) /\ GivenTo(d)' = GivenTo(d)
    BY <1>1, <1>3, SamePlaceFacts, SameGiven DEF SameRole
  <2> QED
    BY <1>1, <1>3, <2>1, Unseen, RolesKept
<1>4. CASE event.event = "ACCESS_REPLY" /\ c \in candidates /\ ConnectFromReply(c, r, s)
  <2>1. c \in Candidate /\ r \in Reply /\ r \in answers[c]
    BY <1>2, <1>4, EventFacts DEF Genuine
  <2>2. answers' = [answers EXCEPT ![c] = @ \cup {r}]
    <3> HIDE DEF c, r
    <3>1. answers \in [Candidate -> SUBSET Reply] /\ answers[c] \cup {r} = answers[c]
      BY <2>1, RequestTypes
    <3> QED
      BY <1>1, <3>1
  <2> HIDE DEF c, r
  <2> QED
    BY <1>1, <1>4, <2>1, <2>2, ServingIsSettle
<1> QED
  BY <1>1, <1>3, <1>4

------------------------------------------------------------------------------

LEMMA RequestInit == AccessInit => RInv /\ AbstractRequest!Init
<1> SUFFICES ASSUME AccessInit PROVE RInv /\ AbstractRequest!Init
  OBVIOUS
<1>1. /\ channel = [c \in Client |-> "new"] /\ connect = [c \in Client |-> Idle]
      /\ connection = [c \in Client |-> NoConnection] /\ answers = [c \in Candidate |-> {}]
  BY DEF AccessInit, Init
<1>2. \A c \in Candidate : connect[c].role = "NONE" /\ connection[c].role = "NONE" /\ channel[c] = "new"
  BY <1>1, Candidates DEF Idle, NoConnection
<1>3. RolesAgree
  BY <1>2 DEF RolesAgree
<1>4. AbstractRequest!Init
  BY <1>1, <1>2 DEF AbstractRequest!Init, PlaceOf, GivenTo
<1> QED
  BY <1>3, <1>4, AInvInit DEF RInv

LEMMA RequestNext ==
    RInv /\ [AccessNext]_allVars => RInv' /\ [AbstractRequest!Next]_AbstractRequest!requestVars
<1> SUFFICES ASSUME RInv, [AccessNext]_allVars
             PROVE  RolesAgree' /\ [AbstractRequest!Next]_AbstractRequest!requestVars
  BY AInvNext DEF RInv
<1> USE DEF AbstractRequest!Next
<1>1. CASE UNCHANGED allVars
  <2>1. UNCHANGED <<channel, connect, connection, ask, candidates, answers, grants>>
    BY <1>1 DEF allVars, vars, handlerVars, memoryVars, accessVars
  <2>2. \A d \in Candidate : SameRole(d) /\ SamePlace(d) /\ GivenTo(d)' = GivenTo(d)
    BY <2>1, SamePlaceFacts, SameGiven DEF SameRole
  <2> QED
    BY <2>1, <2>2, Unseen, RolesKept DEF RInv
<1>2. CASE RoomStep
  BY <1>2, RoomStepIsRelease
<1>3. CASE \/ \E c \in Client : DisconnectMember(c)
           \/ \E o \in Owner, u \in Revocable : RevokeMember(o, u)
  BY <1>3, LeavingRoomIsUnseen
<1>4. ASSUME NEW c \in Candidate, AskAccess(c) \/ AskStep(c) \/ DisconnectCandidate(c)
      PROVE  RolesAgree' /\ [AbstractRequest!Next]_AbstractRequest!requestVars
  BY <1>4, AskingIsAsk, SeekingIsUnseen, GoingIsLeave
<1>5. ASSUME NEW o \in Owner, NEW c \in Candidate, NEW r \in Reply, AccessReply(o, c, r)
      PROVE  RolesAgree' /\ [AbstractRequest!Next]_AbstractRequest!requestVars
  BY <1>5, AnsweringIsAnswer DEF Reply
<1>6. ASSUME NEW s \in Server, ReceiveAccess(s) \/ RestartServer(s)
      PROVE  RolesAgree' /\ [AbstractRequest!Next]_AbstractRequest!requestVars
  BY <1>6, ReceivingIsSettle, RestartingIsFail DEF Reply
<1> QED
  BY <1>1, <1>2, <1>3, <1>4, <1>5, <1>6 DEF AccessNext

\* Rooms, servers, events and threads do no more than one place and one answer for each
\* candidate would: whoever gets a role was waiting, was answered, and keeps it unless
\* it is taken away for good.
THEOREM RequestIsImplemented == AccessSpec => ImplementsRequest
BY RequestInit, RequestNext, PTL DEF AccessSpec, ImplementsRequest, AbstractRequest!Spec
==============================================================================

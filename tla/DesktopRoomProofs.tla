--------------------------- MODULE DesktopRoomProofs ---------------------------
(***************************************************************************)
(* Proofs about DesktopRoom, for any clients, servers, policies and faults *)
(* and any number of restarts: whoever is in the room has a connection,    *)
(* and whoever has gone has none.                                          *)
(*                                                                         *)
(* The second needs the first: the thread of a client that leaves and      *)
(* locks the room reaches the removal of its connection only if lockRoom   *)
(* does not fail, and lockRoom fails on a client without a connection.     *)
(***************************************************************************)
EXTENDS DesktopRoom, TLAPS

------------------------------------------------------------------------------
(* The inductive invariant *)

\* What the proof needs of the shape of the variables.  Sessions play no part.
Shape ==
    /\ channel \in [Client -> {"new", "open", "gone"}]
    /\ connection \in [Client -> [role : Role, locked : BOOLEAN]]
    /\ room \subseteq Client
    /\ connect = [c \in Client |-> connect[c]]
    /\ leave = [c \in Client |-> leave[c]]
    /\ \A c \in Client : {"pc", "role"} \subseteq DOMAIN connect[c] /\ "pc" \in DOMAIN leave[c]

\* A handler that connects a client runs while its channel is open, with a role.
ConnectingIsOpen ==
    \A c \in Client : connect[c] # Idle =>
        channel[c] = "open" /\ connect[c].role \in Role \ {"NONE"} /\ ~MustAsk(c)

\* A connection has a role, so that it differs from NoConnection, locked or not.
ConnectionHasRole == \A c \in Client : Connected(c) => connection[c].role # "NONE"

\* Clients that must ask are not yet seen here.
AskingIsNew == \A c \in Client : MustAsk(c) => channel[c] = "new"

MembersAreConnected == \A c \in room : channel[c] = "open" /\ Connected(c)

\* The handler of a client that has gone still has to remove its connection.
LeavingReleases ==
    \A c \in Client : channel[c] = "gone" /\ Connected(c) => leave[c].pc # "idle"

LeavingIsGone == \A c \in Client : leave[c].pc # "idle" => channel[c] = "gone"

Inv ==
    /\ Shape /\ ConnectingIsOpen /\ ConnectionHasRole /\ AskingIsNew
    /\ MembersAreConnected /\ LeavingReleases /\ LeavingIsGone

------------------------------------------------------------------------------

\* Locking and unlocking change no more than the column locked of connections, and
\* never fail, because every client of the room has a connection.
LEMMA RelockedConnections ==
    ASSUME NEW s \in Server, NEW b \in BOOLEAN, NEW f \in Relocked(s, b), Shape, ConnectionHasRole
    PROVE  /\ f \in [Client -> [role : Role, locked : BOOLEAN]]
           /\ \A c \in Client : f[c].role = connection[c].role
           /\ \A c \in Client : f[c] # NoConnection <=> Connected(c)
<1>1. PICK done \in SUBSET {c \in RoomClients(s) : Connected(c)} :
         f = [c \in Client |-> IF c \in done THEN [connection[c] EXCEPT !.locked = b]
                               ELSE connection[c]]
  BY DEF Relocked
<1>2. f \in [Client -> [role : Role, locked : BOOLEAN]]
  BY <1>1 DEF Shape
<1>3. ASSUME NEW c \in Client
      PROVE  /\ f[c].role = connection[c].role
             /\ f[c] # NoConnection <=> Connected(c)
  <2>1. connection[c] \in [role : Role, locked : BOOLEAN]
    BY DEF Shape
  <2>2. CASE c \in done
    <3>1. f[c] = [connection[c] EXCEPT !.locked = b]
      BY <1>1, <2>2
    <3>2. f[c].role = connection[c].role
      BY <2>1, <3>1
    <3>3. Connected(c)
      BY <1>1, <2>2
    <3>4. f[c].role # "NONE"
      BY <3>2, <3>3 DEF ConnectionHasRole
    <3> QED
      BY <3>2, <3>3, <3>4 DEF NoConnection
  <2>3. CASE c \notin done
    BY <1>1, <2>3 DEF Connected
  <2> QED
    BY <2>2, <2>3
<1> QED
  BY <1>2, <1>3

LEMMA NobodyFails ==
    ASSUME MembersAreConnected, NEW s \in Server
    PROVE  ~Fails(s)
BY DEF MembersAreConnected, Fails, RoomClients

LEMMA InvInit == Init => Inv
BY DEF Init, Inv, Shape, ConnectingIsOpen, ConnectionHasRole, AskingIsNew, MembersAreConnected,
       LeavingReleases, LeavingIsGone, Connected, NoConnection, Idle, Staying, Role

------------------------------------------------------------------------------
(* One lemma per kind of step *)

LEMMA ConnectKeeps == ASSUME Inv, NEW c \in Client, Connect(c) PROVE Inv'
<1> USE DEF Inv
<1> DEFINE h == [Idle EXCEPT !.pc = "socket", !.role = role[c], !.session = Current]
<1>0. role[c] \in Role
  BY ClientAssumption
<1>1. /\ channel[c] = "new" /\ ~MustAsk(c)
      /\ channel' = [channel EXCEPT ![c] = "open"]
      /\ UNCHANGED <<leave, connection, room>>
      /\ \/ UNCHANGED connect
         \/ connect' = [connect EXCEPT ![c] = h] /\ role[c] # "NONE"
  BY DEF Connect, Begin, memoryVars
<1>2. h.pc = "socket" /\ h.role = role[c] /\ {"pc", "role"} \subseteq DOMAIN h
  BY DEF Idle
<1> HIDE DEF h
<1>3. Shape'
  BY <1>1, <1>2 DEF Shape
<1>4. ConnectingIsOpen'
  BY <1>0, <1>1, <1>2 DEF Shape, ConnectingIsOpen, MustAsk
<1>5. ConnectionHasRole' /\ LeavingReleases' /\ LeavingIsGone'
  BY <1>1 DEF Shape, ConnectionHasRole, LeavingReleases, LeavingIsGone, Connected
<1>6. AskingIsNew' /\ MembersAreConnected'
  BY <1>1 DEF Shape, AskingIsNew, MustAsk, MembersAreConnected, Connected
<1> QED
  BY <1>3, <1>4, <1>5, <1>6

\* The steps of createDesktopConnection that change neither channels, connections nor
\* the room, and keep the role of the handler or end it.
LEMMA QuietConnectStep ==
    ASSUME Inv, NEW c \in Client, connect[c].pc # "idle",
           UNCHANGED <<channel, leave, connection, room>>,
           NEW h, connect' = [connect EXCEPT ![c] = h],
           h = Idle \/ ({"pc", "role"} \subseteq DOMAIN h /\ h.role = connect[c].role)
    PROVE  Inv'
<1> USE DEF Inv
<1>1. Shape'
  BY DEF Shape, Idle
<1>2. connect[c] # Idle
  BY DEF Idle
<1>3. ConnectingIsOpen'
  BY <1>2 DEF Shape, ConnectingIsOpen, MustAsk
<1>4. ConnectionHasRole' /\ LeavingReleases' /\ LeavingIsGone' /\ AskingIsNew' /\ MembersAreConnected'
  BY DEF ConnectionHasRole, LeavingReleases, LeavingIsGone, AskingIsNew, MembersAreConnected, Connected, MustAsk
<1> QED
  BY <1>1, <1>3, <1>4

LEMMA ConnectStepKeeps == ASSUME Inv, NEW c \in Client, ConnectStep(c) PROVE Inv'
<1> USE DEF Inv
<1> DEFINE h(p) == [connect[c] EXCEPT !.pc = p]
<1>a. \A p : h(p).role = connect[c].role /\ {"pc", "role"} \subseteq DOMAIN h(p)
  BY DEF Shape
<1>1. CASE CreateSession(c)
  <2>1. CASE MayCreate(c)
    <3>1. connect' = [connect EXCEPT ![c] = h("join")]
      BY <1>1, <2>1 DEF CreateSession
    <3> HIDE DEF h
    <3> QED
      BY <1>1, <3>1, <1>a, QuietConnectStep DEF CreateSession, memoryVars
  <2>2. CASE ~MayCreate(c)
    <3>1. connect' = [connect EXCEPT ![c] = Idle]
      BY <1>1, <2>2 DEF CreateSession, Refuse
    <3> QED
      BY <1>1, <3>1, QuietConnectStep DEF CreateSession, memoryVars
  <2> QED
    BY <2>1, <2>2
<1>2. CASE UseSession(c)
  BY <1>2, QuietConnectStep DEF UseSession, Shape, memoryVars
<1>3. CASE SocketFails(c)
  <2>1. CASE connect[c].session # 0
    <3> DEFINE g == [connect[c] EXCEPT !.session = 0]
    <3>1. connect' = [connect EXCEPT ![c] = g]
      BY <1>3, <2>1 DEF SocketFails
    <3>2. g.role = connect[c].role /\ {"pc", "role"} \subseteq DOMAIN g
      BY DEF Shape
    <3> HIDE DEF g
    <3> QED
      BY <1>3, <3>1, <3>2, QuietConnectStep DEF SocketFails, memoryVars
  <2>2. CASE connect[c].session = 0
    <3>1. connect' = [connect EXCEPT ![c] = Idle]
      BY <1>3, <2>2 DEF SocketFails, Refuse
    <3> QED
      BY <1>3, <3>1, QuietConnectStep DEF SocketFails, memoryVars
  <2> QED
    BY <2>1, <2>2
<1>4. CASE ReadSession(c)
  <2>1. PICK p, i : /\ connect' = [connect EXCEPT ![c].session = i, ![c].pc = p]
                    /\ UNCHANGED <<channel, leave, connection, room>>
    BY <1>4 DEF ReadSession, memoryVars
  <2> DEFINE g == [connect[c] EXCEPT !.session = i, !.pc = p]
  <2>2. connect' = [connect EXCEPT ![c] = g]
    BY <2>1
  <2>3. g.role = connect[c].role /\ {"pc", "role"} \subseteq DOMAIN g
    BY DEF Shape
  <2> HIDE DEF g
  <2> QED
    BY <1>4, <2>1, <2>2, <2>3, QuietConnectStep DEF ReadSession
<1>5. CASE ReadOwner(c)
  <2>1. PICK b : /\ connect' = [connect EXCEPT ![c].unlock = b, ![c].pc = "member"]
                 /\ UNCHANGED <<channel, leave, connection, room>>
    BY <1>5 DEF ReadOwner, memoryVars
  <2> DEFINE g == [connect[c] EXCEPT !.unlock = b, !.pc = "member"]
  <2>2. connect' = [connect EXCEPT ![c] = g]
    BY <2>1
  <2>3. g.role = connect[c].role /\ {"pc", "role"} \subseteq DOMAIN g
    BY DEF Shape
  <2> HIDE DEF g
  <2> QED
    BY <1>5, <2>1, <2>2, <2>3, QuietConnectStep DEF ReadOwner
<1>6. CASE AddMember(c)
  BY <1>6, QuietConnectStep DEF AddMember, Shape, memoryVars
<1>7. CASE JoinRoom(c)
  <2>1. connect[c] # Idle
    BY <1>7 DEF JoinRoom, Idle
  <2>2. channel[c] = "open" /\ connect[c].role \in Role \ {"NONE"} /\ ~MustAsk(c)
    BY <2>1 DEF ConnectingIsOpen
  <2>3. /\ connection' = [connection EXCEPT ![c] = [role |-> connect[c].role, locked |-> FALSE]]
        /\ room' = room \cup {c}
        /\ connect' = [connect EXCEPT ![c].pc = "session"]
        /\ UNCHANGED <<channel, leave>>
    BY <1>7, <2>2 DEF JoinRoom
  <2>4. Shape'
    BY <2>2, <2>3 DEF Shape
  <2>5. ConnectingIsOpen'
    BY <2>2, <2>3 DEF Shape, ConnectingIsOpen, MustAsk
  <2>6. connection'[c].role # "NONE"
    BY <2>2, <2>3 DEF Shape
  <2>7. ConnectionHasRole' /\ MembersAreConnected' /\ LeavingReleases'
    BY <2>2, <2>3, <2>6 DEF Shape, ConnectionHasRole, MembersAreConnected, LeavingReleases, Connected, NoConnection
  <2>8. AskingIsNew' /\ LeavingIsGone'
    BY <2>3 DEF AskingIsNew, LeavingIsGone, MustAsk
  <2> QED
    BY <2>4, <2>5, <2>7, <2>8
<1>8. CASE UnlockRoom(c)
  <2>1. /\ connection' \in Relocked(home[c], FALSE)
        /\ connect' = [connect EXCEPT ![c] = Idle]
        /\ UNCHANGED <<channel, leave, room>>
    BY <1>8 DEF UnlockRoom
  <2>2. /\ connection' \in [Client -> [role : Role, locked : BOOLEAN]]
        /\ \A d \in Client : connection'[d].role = connection[d].role
        /\ \A d \in Client : connection'[d] # NoConnection <=> Connected(d)
    BY <2>1, RelockedConnections, ClientAssumption
  <2>3. Shape' /\ ConnectingIsOpen'
    BY <2>1, <2>2 DEF Shape, ConnectingIsOpen, MustAsk, Idle
  <2>4. ConnectionHasRole' /\ MembersAreConnected'
    BY <2>1, <2>2 DEF Shape, ConnectionHasRole, MembersAreConnected, Connected
  <2>5. LeavingReleases' /\ LeavingIsGone' /\ AskingIsNew'
    BY <2>1, <2>2 DEF LeavingReleases, LeavingIsGone, AskingIsNew, Connected, MustAsk
  <2> QED
    BY <2>3, <2>4, <2>5
<1> QED
  BY <1>1, <1>2, <1>3, <1>4, <1>5, <1>6, <1>7, <1>8 DEF ConnectStep

LEMMA DisconnectKeeps == ASSUME Inv, NEW c \in Client, Disconnect(c) PROVE Inv'
<1> USE DEF Inv, Disconnect, Close
<1>1. Shape'
  BY DEF Shape
<1>2. ConnectingIsOpen'
  BY DEF Shape, ConnectingIsOpen, MustAsk
<1>3. ConnectionHasRole' /\ AskingIsNew'
  BY DEF Shape, ConnectionHasRole, AskingIsNew, Connected, MustAsk
<1>4. MembersAreConnected' /\ LeavingReleases' /\ LeavingIsGone'
  BY DEF Shape, MembersAreConnected, LeavingReleases, LeavingIsGone, Connected
<1> QED
  BY <1>1, <1>2, <1>3, <1>4

\* The steps of onDisconnect that do not end it.
LEMMA QuietLeaveStep ==
    ASSUME Inv, NEW c \in Client, leave[c].pc # "idle",
           UNCHANGED <<channel, connect, connection, room>>,
           NEW h, leave' = [leave EXCEPT ![c] = h], "pc" \in DOMAIN h, h.pc # "idle"
    PROVE  Inv'
BY DEF Inv, Shape, ConnectingIsOpen, ConnectionHasRole, AskingIsNew, MembersAreConnected,
       LeavingReleases, LeavingIsGone, Connected, MustAsk

\* The steps of onDisconnect that end it, and remove the connection.
LEMMA LastLeaveStep ==
    ASSUME Inv, NEW c \in Client, leave[c].pc # "idle",
           UNCHANGED <<channel, connect, room>>,
           leave' = [leave EXCEPT ![c] = Staying],
           connection' \in [Client -> [role : Role, locked : BOOLEAN]],
           connection'[c] = NoConnection,
           \A d \in Client \ {c} : /\ connection'[d].role = connection[d].role
                                   /\ connection'[d] # NoConnection <=> Connected(d)
    PROVE  Inv'
<1> USE DEF Inv
<1>1. Shape' /\ ConnectingIsOpen' /\ AskingIsNew'
  BY DEF Shape, ConnectingIsOpen, AskingIsNew, MustAsk, Staying
<1>2. ConnectionHasRole' /\ MembersAreConnected' /\ LeavingReleases' /\ LeavingIsGone'
  BY DEF Shape, ConnectionHasRole, MembersAreConnected, LeavingReleases, LeavingIsGone,
         Connected, Staying
<1> QED
  BY <1>1, <1>2

LEMMA LeaveStepKeeps == ASSUME Inv, NEW c \in Client, LeaveStep(c) PROVE Inv'
<1> USE DEF Inv
<1>0. leave[c].pc # "idle"
  BY DEF LeaveStep, LeaveSession, CheckMember, CommitMember, LeaveOwner, CloseRoom, LockRoom
<1>1. CASE LeaveSession(c)
  <2> DEFINE h == [leave[c] EXCEPT !.session = Current,
                                   !.pc = IF Current = 0 THEN "close" ELSE "check"]
  <2>1. leave' = [leave EXCEPT ![c] = h] /\ UNCHANGED <<channel, connect, connection, room>>
    BY <1>1 DEF LeaveSession, memoryVars
  <2>2. "pc" \in DOMAIN h /\ h.pc # "idle"
    BY DEF Shape
  <2> HIDE DEF h
  <2> QED
    BY <2>1, <2>2, <1>0, QuietLeaveStep
<1>2. CASE CheckMember(c)
  <2>1. PICK w : /\ leave' = [leave EXCEPT ![c].pc = IF member[c] = leave[c].session
                                                    THEN "commit" ELSE "owner",
                                          ![c].write = w]
                 /\ UNCHANGED <<channel, connect, connection, room>>
    BY <1>2 DEF CheckMember, memoryVars
  <2> DEFINE h == [leave[c] EXCEPT !.pc = IF member[c] = leave[c].session
                                          THEN "commit" ELSE "owner",
                                   !.write = w]
  <2>2. leave' = [leave EXCEPT ![c] = h]
    BY <2>1
  <2>3. "pc" \in DOMAIN h /\ h.pc # "idle"
    BY DEF Shape
  <2> HIDE DEF h
  <2> QED
    BY <2>1, <2>2, <2>3, <1>0, QuietLeaveStep
<1>3. CASE CommitMember(c)
  <2> DEFINE h == [leave[c] EXCEPT !.pc = "owner", !.write = "keep"]
  <2>1. leave' = [leave EXCEPT ![c] = h] /\ UNCHANGED <<channel, connect, connection, room>>
    BY <1>3 DEF CommitMember, memoryVars
  <2>2. "pc" \in DOMAIN h /\ h.pc # "idle"
    BY DEF Shape
  <2> HIDE DEF h
  <2> QED
    BY <2>1, <2>2, <1>0, QuietLeaveStep
<1>4. CASE LeaveOwner(c)
  <2>1. CASE StaysOpen(c)
    <3>1. /\ UNCHANGED <<channel, connect, room>>
          /\ leave' = [leave EXCEPT ![c] = Staying]
          /\ connection' = [connection EXCEPT ![c] = NoConnection]
      BY <1>4, <2>1 DEF LeaveOwner
    <3>2. NoConnection \in [role : Role, locked : BOOLEAN]
      BY DEF NoConnection, Role
    <3> QED
      BY <3>1, <3>2, <1>0, LastLeaveStep DEF Shape, Connected
  <2>2. CASE ~StaysOpen(c)
    <3> DEFINE h == [leave[c] EXCEPT !.pc = IF policy = "LOCK_ROOM" THEN "lock" ELSE "close"]
    <3>1. leave' = [leave EXCEPT ![c] = h] /\ UNCHANGED <<channel, connect, connection, room>>
      BY <1>4, <2>2 DEF LeaveOwner
    <3>2. "pc" \in DOMAIN h /\ h.pc # "idle"
      BY DEF Shape
    <3> HIDE DEF h
    <3> QED
      BY <3>1, <3>2, <1>0, QuietLeaveStep
  <2> QED
    BY <2>1, <2>2
<1>5. CASE CloseRoom(c)
  <2>1. /\ UNCHANGED <<channel, connect, room>>
        /\ leave' = [leave EXCEPT ![c] = Staying]
        /\ connection' = [connection EXCEPT ![c] = NoConnection]
    BY <1>5 DEF CloseRoom
  <2>2. NoConnection \in [role : Role, locked : BOOLEAN]
    BY DEF NoConnection, Role
  <2> QED
    BY <2>1, <2>2, <1>0, LastLeaveStep DEF Shape, Connected
<1>6. CASE LockRoom(c)
  <2>1. home[c] \in Server /\ ~Fails(home[c])
    BY ClientAssumption, NobodyFails
  <2>2. PICK f \in Relocked(home[c], TRUE) : connection' = [f EXCEPT ![c] = NoConnection]
    BY <1>6, <2>1 DEF LockRoom
  <2>3. /\ f \in [Client -> [role : Role, locked : BOOLEAN]]
        /\ \A d \in Client : f[d].role = connection[d].role
        /\ \A d \in Client : f[d] # NoConnection <=> Connected(d)
    BY <2>1, <2>2, RelockedConnections
  <2>4. UNCHANGED <<channel, connect, room>> /\ leave' = [leave EXCEPT ![c] = Staying]
    BY <1>6 DEF LockRoom
  <2>5. NoConnection \in [role : Role, locked : BOOLEAN]
    BY DEF NoConnection, Role
  <2> QED
    BY <2>2, <2>3, <2>4, <2>5, <1>0, LastLeaveStep
<1> QED
  BY <1>1, <1>2, <1>3, <1>4, <1>5, <1>6 DEF LeaveStep

LEMMA ReceiveKeeps == ASSUME Inv, NEW s \in Server, Receive(s) PROVE Inv'
<1> USE DEF Inv
<1>1. UNCHANGED <<channel, connect, leave, room>>
  BY DEF Receive
<1>2. /\ connection' \in [Client -> [role : Role, locked : BOOLEAN]]
      /\ \A c \in Client : connection'[c].role = connection[c].role
      /\ \A c \in Client : connection'[c] # NoConnection <=> Connected(c)
  <2>1. CASE UNCHANGED connection
    BY <2>1 DEF Shape, Connected
  <2>2. CASE connection' \in Relocked(s, Head(inbox[s]).event = "ROOM_LOCKED")
    BY <2>2, RelockedConnections
  <2> QED
    BY <2>1, <2>2 DEF Receive
<1>3. Shape' /\ ConnectingIsOpen' /\ AskingIsNew' /\ LeavingIsGone'
  BY <1>1, <1>2 DEF Shape, ConnectingIsOpen, AskingIsNew, LeavingIsGone, MustAsk
<1>4. ConnectionHasRole' /\ MembersAreConnected' /\ LeavingReleases'
  BY <1>1, <1>2 DEF Shape, ConnectionHasRole, MembersAreConnected, LeavingReleases, Connected
<1> QED
  BY <1>3, <1>4

LEMMA RevokeKeeps == ASSUME Inv, NEW o \in Client, NEW u, RevokeAccess(o, u) PROVE Inv'
BY DEF RevokeAccess, memoryVars, Inv, Shape, ConnectingIsOpen, ConnectionHasRole, AskingIsNew,
       MembersAreConnected, LeavingReleases, LeavingIsGone, Connected, MustAsk

LEMMA RestartKeeps == ASSUME Inv, NEW s \in Server, Restart(s) PROVE Inv'
<1> USE DEF Inv
<1> DEFINE lost == {c \in Client : home[c] = s}
<1>1. /\ channel' = [c \in Client |-> IF c \in lost /\ channel[c] = "open"
                                     THEN "gone" ELSE channel[c]]
      /\ connect' = [c \in Client |-> IF c \in lost THEN Idle ELSE connect[c]]
      /\ leave' = [c \in Client |-> IF c \in lost THEN Staying ELSE leave[c]]
      /\ connection' = [c \in Client |-> IF c \in lost THEN NoConnection ELSE connection[c]]
      /\ room' = room \ lost
  BY DEF Restart
<1>2. NoConnection \in [role : Role, locked : BOOLEAN]
  BY DEF NoConnection, Role
<1> HIDE DEF lost
<1>3. Shape'
  BY <1>1, <1>2 DEF Shape, Idle, Staying
<1>4. ConnectingIsOpen' /\ AskingIsNew'
  BY <1>1 DEF Shape, ConnectingIsOpen, AskingIsNew, MustAsk
<1>5. ConnectionHasRole' /\ MembersAreConnected' /\ LeavingReleases' /\ LeavingIsGone'
  BY <1>1 DEF Shape, ConnectionHasRole, MembersAreConnected, LeavingReleases, LeavingIsGone,
              Connected, Staying
<1> QED
  BY <1>3, <1>4, <1>5

------------------------------------------------------------------------------
(* The theorems *)

LEMMA InvNext == Inv /\ [Next]_vars => Inv'
<1> SUFFICES ASSUME Inv, [Next]_vars PROVE Inv'
  OBVIOUS
<1>1. CASE UNCHANGED vars
  BY <1>1 DEF vars, handlerVars, memoryVars, Inv, Shape, ConnectingIsOpen, ConnectionHasRole,
              AskingIsNew, MembersAreConnected, LeavingReleases, LeavingIsGone, Connected, MustAsk
<1>2. ASSUME NEW c \in Client, Connect(c) \/ Disconnect(c) \/ HandlerStep(c) PROVE Inv'
  BY <1>2, ConnectKeeps, DisconnectKeeps, ConnectStepKeeps, LeaveStepKeeps DEF HandlerStep
<1>3. ASSUME NEW s \in Server, Receive(s) \/ Restart(s) PROVE Inv'
  BY <1>3, ReceiveKeeps, RestartKeeps
<1>4. ASSUME NEW o \in Client, NEW u \in Revocable, RevokeAccess(o, u) PROVE Inv'
  BY <1>4, RevokeKeeps
<1> QED
  BY <1>1, <1>2, <1>3, <1>4 DEF Next

THEOREM Invariance == Spec => []Inv
BY InvInit, InvNext, PTL DEF Spec

\* Whoever is in the room has a connection: lockRoom and unlockRoom, which look up
\* the connection of every client of the room, never meet one that has none.
THEOREM RoomIsConnected == Spec => []RoomClientsAreConnected
<1>1. Inv => RoomClientsAreConnected
  BY DEF Inv, MembersAreConnected, RoomClientsAreConnected
<1> QED
  BY <1>1, Invariance, PTL

\* When the handlers of a client that has gone are over, removeDesktopConnection has
\* been reached on every path through onDisconnect.
THEOREM ConnectionsAreReleased == Spec => []GoneIsReleased
<1>1. Inv => GoneIsReleased
  BY DEF Inv, LeavingReleases, GoneIsReleased, Staying
<1> QED
  BY <1>1, Invariance, PTL
==============================================================================

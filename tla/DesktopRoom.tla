------------------------------ MODULE DesktopRoom ------------------------------
(***************************************************************************)
(* The remote desktop of one instance: the clients (web sockets) that join *)
(* its room on several servers, the sessions and the rows of members that  *)
(* the servers share in the database, and what happens to the others when  *)
(* the owner leaves (they are disconnected, or the room is locked) or      *)
(* revokes the access of a user.                                           *)
(*                                                                         *)
(* Every call of InstanceSessionService is a transaction of its own, so    *)
(* createDesktopConnection and onDisconnect are sequences of steps.  The   *)
(* handlers of one client run on one thread, those of two clients do not   *)
(* exclude each other.  Servers talk through one channel of redis, which   *)
(* delivers in order.                                                      *)
(*                                                                         *)
(* Clients who must ask the owner for access belong to DesktopAccess.      *)
(***************************************************************************)
EXTENDS Naturals, Sequences, FiniteSets

CONSTANTS
    Client,      \* web sockets; a user who comes back is another client
    Server,      \* servers that share the database
    home,        \* the server that each client is connected to
    account,     \* the user of each client
    Revocable,   \* bound on the users whose access the owner revokes
    role,        \* RoleService.getRole of the user of each client
    away,        \* clients whose user canConnectWhileOwnerAway
    Policy,      \* values of ownerDisconnectionPolicy
    Cleanup,     \* whether cleanupSessionsOnStartup is set
    MaxFaults,   \* bound on the sockets that cannot be opened
    MaxCrashes   \* bound on the restarts of servers

Role == {"OWNER", "USER", "GUEST", "SUPPORT", "NONE"}

ASSUME ClientAssumption ==
    /\ IsFiniteSet(Client)
    /\ home \in [Client -> Server]
    /\ role \in [Client -> Role]
    /\ {c \in Client : role[c] = "OWNER"} \subseteq away /\ away \subseteq Client
ASSUME PolicyAssumption == Policy \subseteq {"DISCONNECT_ALL", "LOCK_ROOM"} /\ Cleanup \in BOOLEAN
ASSUME BoundAssumption == MaxFaults \in Nat /\ MaxCrashes \in Nat

VARIABLES
    policy,      \* ownerDisconnectionPolicy, the same on every server
    channel,     \* the web socket of each client
    told,        \* clients that a server has asked to disconnect
    connect,     \* where createDesktopConnection is for each client
    leave,       \* where onDisconnect is for each client
    connection,  \* desktopConnections
    room,        \* clients that have joined the room
    created,     \* the last id given to an InstanceSession
    current,     \* the sessions whose column current is true
    member,      \* the session of the active InstanceSessionMember of each client, or 0
    inbox,       \* events published by other servers and not handled yet
    revoked,     \* history: the clients whose access the owner has revoked
    faults, crashes

handlerVars == <<channel, told, connect, leave>>
memoryVars == <<connection, room>>
sessionVars == <<created, current, member>>
boundVars == <<faults, crashes>>
vars == <<policy, handlerVars, memoryVars, sessionVars, inbox, revoked, boundVars>>

NoConnection == [role |-> "NONE", locked |-> FALSE]
Idle == [pc |-> "idle", role |-> "NONE", session |-> 0, unlock |-> FALSE]
Staying == [pc |-> "idle", session |-> 0, write |-> "keep"]
SessionId == 0..Cardinality(Client)
RoomEvent == [event : {"ROOM_CLOSED", "ROOM_LOCKED", "ROOM_UNLOCKED"}]
                \cup [event : {"ACCESS_REVOKED"}, client : Client]

RoomTypeOK ==
    /\ policy \in Policy
    /\ channel \in [Client -> {"new", "open", "gone"}]
    /\ told \subseteq Client
    /\ connect \in [Client -> [pc : {"idle", "socket", "join", "session", "owner", "member", "unlock"},
                               role : Role, session : SessionId, unlock : BOOLEAN]]
    /\ leave \in [Client -> [pc : {"idle", "session", "check", "commit", "owner", "close", "lock"},
                             session : SessionId, write : {"keep", "end", "revive"}]]
    /\ connection \in [Client -> [role : Role, locked : BOOLEAN]]
    /\ room \subseteq Client
    /\ created \in SessionId
    /\ current \subseteq SessionId \ {0}
    /\ member \in [Client -> SessionId]
    /\ revoked \subseteq Client
    /\ faults \in 0..MaxFaults
    /\ crashes \in 0..MaxCrashes

TypeOK == RoomTypeOK /\ inbox \in [Server -> Seq(RoomEvent)]

Init ==
    /\ policy \in Policy
    /\ channel = [c \in Client |-> "new"]
    /\ told = {}
    /\ connect = [c \in Client |-> Idle]
    /\ leave = [c \in Client |-> Staying]
    /\ connection = [c \in Client |-> NoConnection]
    /\ room = {}
    /\ created = 0
    /\ current = {}
    /\ member = [c \in Client |-> 0]
    /\ revoked = {}
    /\ inbox = [s \in Server |-> <<>>]
    /\ faults = 0
    /\ crashes = 0

------------------------------------------------------------------------------
(* What the handlers read and write.  The operators marked "Faulty" are       *)
(* variants of the definition that follows them; no specification uses them. *)

Connected(c) == connection[c] # NoConnection

\* InstanceSessionRepository.getByInstance: the newest current session.
Current == IF current = {} THEN 0 ELSE CHOOSE i \in current : \A j \in current : j <= i

\* isOwnerConnected looks at the members of all sessions, current or not.
OwnerConnected == \E c \in Client : role[c] = "OWNER" /\ member[c] # 0

\* operations.getClients(): the clients of the room on this server.
RoomClients(s) == {c \in room : home[c] = s}

Publish(s, event) ==
    inbox' = [t \in Server |-> IF t = s THEN inbox[t] ELSE Append(inbox[t], event)]

\* lockRoom and unlockRoom go through the clients of the room in no given order
\* and fail at the first one that has no connection.
Fails(s) == \E c \in RoomClients(s) : ~Connected(c)

Relocked(s, b) ==
    LET connected == {c \in RoomClients(s) : Connected(c)}
        reached   == IF Fails(s) THEN SUBSET connected ELSE {connected}
    IN  {[c \in Client |-> IF c \in done THEN [connection[c] EXCEPT !.locked = b]
                           ELSE connection[c]] : done \in reached}

------------------------------------------------------------------------------
(* createDesktopConnection *)

\* RoleService gives SUPPORT to a member of staff who is not a member; without
\* the right to connect while the owner is away such a client must ask.
MustAsk(c) == role[c] = "SUPPORT" /\ c \notin away

\* Faulty: a client that is not authorised is not disconnected.
BeginUnlessDenied(c, r) ==
    /\ connect' = IF r = "NONE" THEN connect
                  ELSE [connect EXCEPT ![c] =
                          [Idle EXCEPT !.pc = "socket", !.role = r, !.session = Current]]
    /\ UNCHANGED told

\* The first step of createDesktopConnection with role r: it reads the session.
Begin(c, r) ==
    IF r = "NONE"
    THEN told' = told \cup {c} /\ UNCHANGED connect
    ELSE /\ connect' = [connect EXCEPT ![c] =
                          [Idle EXCEPT !.pc = "socket", !.role = r, !.session = Current]]
         /\ UNCHANGED told

Connect(c) ==
    /\ channel[c] = "new" /\ ~MustAsk(c)
    /\ channel' = [channel EXCEPT ![c] = "open"]
    /\ Begin(c, role[c])
    /\ UNCHANGED <<policy, leave, memoryVars, sessionVars, inbox, revoked, boundVars>>

MayCreate(c) == connect[c].role = "OWNER" \/ c \in away

Refuse(c) ==
    /\ connect' = [connect EXCEPT ![c] = Idle]
    /\ told' = IF channel[c] = "open" THEN told \cup {c} ELSE told

\* Faulty: the session just created is not taken, and another one is created.
CreateSessionAgain(c) ==
    /\ connect[c].pc = "socket" /\ connect[c].session = 0 /\ MayCreate(c)
    /\ created' = created + 1
    /\ current' = current \cup {created + 1}
    /\ UNCHANGED <<policy, handlerVars, memoryVars, member, inbox, revoked, boundVars>>

\* getOrCreateSocket, without a current session: a new one for those who may
\* create it, OwnerNotConnectedException for the others.
CreateSession(c) ==
    /\ connect[c].pc = "socket" /\ connect[c].session = 0
    /\ IF MayCreate(c)
       THEN /\ created' = created + 1
            /\ current' = current \cup {created + 1}
            /\ connect' = [connect EXCEPT ![c].pc = "join"]
            /\ UNCHANGED told
       ELSE Refuse(c) /\ UNCHANGED <<created, current>>
    /\ UNCHANGED <<policy, channel, leave, memoryVars, member, inbox, revoked, boundVars>>

UseSession(c) ==
    /\ connect[c].pc = "socket" /\ connect[c].session # 0
    /\ connect' = [connect EXCEPT ![c].pc = "join"]
    /\ UNCHANGED <<policy, channel, told, leave, memoryVars, sessionVars, inbox, revoked, boundVars>>

\* The socket cannot be opened: the session it should have joined is ended and a
\* new one is tried; a failure of the new one is a ConnectionException.
SocketFails(c) ==
    /\ connect[c].pc = "socket"
    /\ faults < MaxFaults
    /\ faults' = faults + 1
    /\ IF connect[c].session # 0
       THEN /\ current' = current \ {connect[c].session}
            /\ connect' = [connect EXCEPT ![c].session = 0]
            /\ UNCHANGED told
       ELSE Refuse(c) /\ UNCHANGED current
    /\ UNCHANGED <<policy, channel, leave, memoryVars, created, member, inbox, revoked, crashes>>

\* The connection is put into the map, then the client joins the room, which has
\* no effect when it has gone meanwhile.
JoinRoom(c) ==
    /\ connect[c].pc = "join"
    /\ connection' = [connection EXCEPT ![c] = [role |-> connect[c].role, locked |-> FALSE]]
    /\ room' = IF channel[c] = "open" THEN room \cup {c} ELSE room
    /\ connect' = [connect EXCEPT ![c].pc = "session"]
    /\ UNCHANGED <<policy, channel, told, leave, sessionVars, inbox, revoked, boundVars>>

ReadSession(c) ==
    /\ connect[c].pc = "session"
    /\ connect' = [connect EXCEPT
                     ![c].session = Current,
                     ![c].pc = IF policy = "LOCK_ROOM" /\ connect[c].role = "OWNER"
                               THEN "owner" ELSE "member"]
    /\ UNCHANGED <<policy, channel, told, leave, memoryVars, sessionVars, inbox, revoked, boundVars>>

ReadOwner(c) ==
    /\ connect[c].pc = "owner"
    /\ connect' = [connect EXCEPT ![c].unlock = ~OwnerConnected, ![c].pc = "member"]
    /\ UNCHANGED <<policy, channel, told, leave, memoryVars, sessionVars, inbox, revoked, boundVars>>

\* Without a session the row of the member cannot be saved: the exception ends the
\* handler, and the client stays in the room.
AddMember(c) ==
    /\ connect[c].pc = "member"
    /\ member' = [member EXCEPT ![c] = connect[c].session]
    /\ connect' = [connect EXCEPT ![c] =
                     IF connect[c].session # 0 /\ connect[c].unlock
                     THEN [connect[c] EXCEPT !.pc = "unlock"] ELSE Idle]
    /\ UNCHANGED <<policy, channel, told, leave, memoryVars, created, current, inbox, revoked, boundVars>>

UnlockRoom(c) ==
    /\ connect[c].pc = "unlock"
    /\ connection' \in Relocked(home[c], FALSE)
    /\ Publish(home[c], [event |-> "ROOM_UNLOCKED"])
    /\ connect' = [connect EXCEPT ![c] = Idle]
    /\ UNCHANGED <<policy, channel, told, leave, room, sessionVars, revoked, boundVars>>

ConnectStep(c) ==
    \/ CreateSession(c) \/ UseSession(c) \/ SocketFails(c)
    \/ JoinRoom(c) \/ ReadSession(c) \/ ReadOwner(c) \/ AddMember(c) \/ UnlockRoom(c)

------------------------------------------------------------------------------
(* onDisconnect *)

\* The web socket closes, because the user leaves or because a server told the
\* client to.  netty takes the client out of its rooms and calls the listener.
Close(c) ==
    /\ channel[c] = "open"
    /\ channel' = [channel EXCEPT ![c] = "gone"]
    /\ told' = told \ {c}
    /\ room' = room \ {c}
    /\ leave' = [leave EXCEPT ![c].pc = IF Connected(c) THEN "session" ELSE "idle"]
    /\ UNCHANGED <<policy, connect, connection, sessionVars, revoked, boundVars>>

\* Faulty: the listener does not wait for the handler that connects the client.
DisconnectAtOnce(c) == ~MustAsk(c) /\ Close(c) /\ UNCHANGED inbox

Disconnect(c) == ~MustAsk(c) /\ connect[c] = Idle /\ Close(c) /\ UNCHANGED inbox

\* Without a current session the room is closed at once.
LeaveSession(c) ==
    /\ leave[c].pc = "session"
    /\ leave' = [leave EXCEPT ![c].session = Current,
                              ![c].pc = IF Current = 0 THEN "close" ELSE "check"]
    /\ UNCHANGED <<policy, channel, told, connect, memoryVars, sessionVars, inbox, revoked, boundVars>>

\* removeInstanceSessionMember, one transaction: it looks for the row in the
\* session read before, counts the other members as it sees them, and decides what
\* the merge of its copy of the session will write.  The copy says current, so it
\* revives a session that was ended meanwhile.
Others(c) == {d \in Client \ {c} : member[d] = leave[c].session}

CheckMember(c) ==
    /\ leave[c].pc = "check"
    /\ leave' = [leave EXCEPT
                   ![c].pc = IF member[c] = leave[c].session THEN "commit" ELSE "owner",
                   ![c].write = CASE member[c] # leave[c].session -> "keep"
                                  [] member[c] = leave[c].session /\ Others(c) = {} -> "end"
                                  [] OTHER -> IF leave[c].session \in current THEN "keep" ELSE "revive"]
    /\ UNCHANGED <<policy, channel, told, connect, memoryVars, sessionVars, inbox, revoked, boundVars>>

CommitMember(c) ==
    /\ leave[c].pc = "commit"
    /\ member' = [member EXCEPT ![c] = 0]
    /\ current' = CASE leave[c].write = "end"    -> current \ {leave[c].session}
                    [] leave[c].write = "revive" -> current \cup {leave[c].session}
                    [] leave[c].write = "keep"   -> current
    /\ leave' = [leave EXCEPT ![c].pc = "owner", ![c].write = "keep"]
    /\ UNCHANGED <<policy, channel, told, connect, memoryVars, created, inbox, revoked, boundVars>>

\* Someone who stays in charge: nothing more than the removal of the connection.
StaysOpen(c) == OwnerConnected \/ connection[c].role = "SUPPORT"

LeaveOwner(c) ==
    /\ leave[c].pc = "owner"
    /\ IF StaysOpen(c)
       THEN /\ leave' = [leave EXCEPT ![c] = Staying]
            /\ connection' = [connection EXCEPT ![c] = NoConnection]
       ELSE /\ leave' = [leave EXCEPT ![c].pc = IF policy = "LOCK_ROOM" THEN "lock" ELSE "close"]
            /\ UNCHANGED connection
    /\ UNCHANGED <<policy, channel, told, connect, room, sessionVars, inbox, revoked, boundVars>>

\* Faulty: the connections of all clients are removed together.
CloseRoomForAll(c) ==
    /\ leave[c].pc = "close"
    /\ told' = told \cup RoomClients(home[c])
    /\ Publish(home[c], [event |-> "ROOM_CLOSED"])
    /\ connection' = [d \in Client |-> IF d = c \/ d \in RoomClients(home[c])
                                      THEN NoConnection ELSE connection[d]]
    /\ leave' = [leave EXCEPT ![c] = Staying]
    /\ UNCHANGED <<policy, channel, connect, room, sessionVars, revoked, boundVars>>

\* Faulty: only those who have a connection are told to disconnect.
CloseRoomForMembers(c) ==
    /\ leave[c].pc = "close"
    /\ told' = told \cup {d \in RoomClients(home[c]) : Connected(d)}
    /\ Publish(home[c], [event |-> "ROOM_CLOSED"])
    /\ connection' = [connection EXCEPT ![c] = NoConnection]
    /\ leave' = [leave EXCEPT ![c] = Staying]
    /\ UNCHANGED <<policy, channel, connect, room, sessionVars, revoked, boundVars>>

\* disconnectAllRoomClients and removeDesktopConnection.
CloseRoom(c) ==
    /\ leave[c].pc = "close"
    /\ told' = told \cup RoomClients(home[c])
    /\ Publish(home[c], [event |-> "ROOM_CLOSED"])
    /\ connection' = [connection EXCEPT ![c] = NoConnection]
    /\ leave' = [leave EXCEPT ![c] = Staying]
    /\ UNCHANGED <<policy, channel, connect, room, sessionVars, revoked, boundVars>>

\* lockRoom and removeDesktopConnection, which is not reached when lockRoom fails.
LockRoom(c) ==
    /\ leave[c].pc = "lock"
    /\ \E locked \in Relocked(home[c], TRUE) :
          connection' = IF Fails(home[c]) THEN locked ELSE [locked EXCEPT ![c] = NoConnection]
    /\ Publish(home[c], [event |-> "ROOM_LOCKED"])
    /\ leave' = [leave EXCEPT ![c] = Staying]
    /\ UNCHANGED <<policy, channel, told, connect, room, sessionVars, revoked, boundVars>>

LeaveStep(c) ==
    \/ LeaveSession(c) \/ CheckMember(c) \/ CommitMember(c) \/ LeaveOwner(c)
    \/ CloseRoom(c) \/ LockRoom(c)

------------------------------------------------------------------------------
(* ClientAccessRevokedCommandListener: an owner revokes the access of a user. *)

\* The clients of the user that have a row, in any session; bound: once each.
ToRevoke(u) == {c \in Client : account[c] = u /\ member[c] # 0}

Revokes(o, u) ==
    /\ connect[o] = Idle /\ channel[o] = "open" /\ connection[o].role = "OWNER"
    /\ ToRevoke(u) # {} /\ ToRevoke(u) \cap revoked = {}
    /\ revoked' = revoked \cup ToRevoke(u)
    /\ told' = told \cup (ToRevoke(u) \cap RoomClients(home[o]))

\* Faulty: nobody asks the other servers.
RevokeOnThisServer(o, u) ==
    /\ Revokes(o, u)
    /\ UNCHANGED <<policy, channel, connect, leave, memoryVars, sessionVars, inbox, boundVars>>

\* Those who are not in the room here are asked for on the other servers.
RevokeAccess(o, u) ==
    LET elsewhere == ToRevoke(u) \ RoomClients(home[o])
    IN  /\ Revokes(o, u)
        /\ \E order \in [1..Cardinality(elsewhere) -> elsewhere] :
              /\ elsewhere = {order[k] : k \in DOMAIN order}
              /\ inbox' = [s \in Server |-> IF s = home[o] THEN inbox[s] ELSE
                    inbox[s] \o [k \in DOMAIN order |->
                                  [event |-> "ACCESS_REVOKED", client |-> order[k]]]]
        /\ UNCHANGED <<policy, channel, connect, leave, memoryVars, sessionVars, boundVars>>

------------------------------------------------------------------------------
(* Events of other servers, and restarts *)

\* ServerRoomClosedListener, ServerRoomLockedListener, ServerRoomUnlockedListener and
\* ServerAccessRevokedListener.
Receive(s) ==
    LET event == Head(inbox[s])
    IN  /\ inbox[s] # <<>> /\ event \in RoomEvent
        /\ inbox' = [inbox EXCEPT ![s] = Tail(inbox[s])]
        /\ CASE event.event = "ROOM_CLOSED" ->
                  told' = told \cup RoomClients(s) /\ UNCHANGED connection
             [] event.event = "ACCESS_REVOKED" ->
                  told' = told \cup (RoomClients(s) \cap {event.client}) /\ UNCHANGED connection
             [] OTHER ->
                  connection' \in Relocked(s, event.event = "ROOM_LOCKED") /\ UNCHANGED told
        /\ UNCHANGED <<policy, channel, connect, leave, room, sessionVars, revoked, boundVars>>

\* The web sockets, the handlers and the memory of the server are lost.  When it
\* starts again cleanupSession may end the sessions and members of all servers.
Restart(s) ==
    LET lost == {c \in Client : home[c] = s}
    IN  /\ crashes < MaxCrashes
        /\ crashes' = crashes + 1
        /\ channel' = [c \in Client |->
                         IF c \in lost /\ channel[c] = "open" THEN "gone" ELSE channel[c]]
        /\ told' = told \ lost
        /\ connect' = [c \in Client |-> IF c \in lost THEN Idle ELSE connect[c]]
        /\ leave' = [c \in Client |-> IF c \in lost THEN Staying ELSE leave[c]]
        /\ connection' = [c \in Client |-> IF c \in lost THEN NoConnection ELSE connection[c]]
        /\ room' = room \ lost
        /\ member' = IF Cleanup THEN [c \in Client |-> 0] ELSE member
        /\ current' = IF Cleanup THEN {} ELSE current
        /\ inbox' = [inbox EXCEPT ![s] = <<>>]
        /\ UNCHANGED <<policy, created, revoked, faults>>

------------------------------------------------------------------------------

HandlerStep(c) == ConnectStep(c) \/ LeaveStep(c)

Next ==
    \/ \E c \in Client : Connect(c) \/ Disconnect(c) \/ HandlerStep(c)
    \/ \E o \in Client, u \in Revocable : RevokeAccess(o, u)
    \/ \E s \in Server : Receive(s) \/ Restart(s)

Spec == Init /\ [][Next]_vars

\* Threads make progress, redis delivers, and a client that is told to disconnect
\* does so (or its ping times out).  Nobody has to come or to leave.
Fairness ==
    /\ \A c \in Client : WF_vars(HandlerStep(c))
    /\ \A c \in Client : WF_vars(c \in told /\ Disconnect(c))
    /\ \A s \in Server : WF_vars(Receive(s))

FairSpec == Spec /\ Fairness

------------------------------------------------------------------------------
(* Properties *)

\* Whoever is in the room has a connection, or is waiting for the answer of the
\* owner: lockRoom and unlockRoom fail only because of the latter.
RoomClientsAreConnected ==
    \A c \in room : channel[c] = "open" /\ (Connected(c) \/ MustAsk(c))

\* "All clients are disconnected when the owner closes their session" (README.md):
\* whoever is in the room, on any server, when a server decides to close it has to
\* go, unless a server restarts after that.
Closing == \E c \in Client : leave[c].pc = "close"

ClosedRoomEmpties ==
    \A c \in Client : Closing /\ c \in room /\ crashes = MaxCrashes ~> c \notin room

\* When the handlers of a client that has gone are over, its connection, and with it
\* its tunnel to the desktop, is released, whatever they met on their way.
GoneIsReleased ==
    \A c \in Client :
        channel[c] = "gone" /\ connect[c] = Idle /\ leave[c] = Staying => ~Connected(c)

\* Revoking the access of a user reaches each of its clients that has a row, on any
\* server and whatever else happens to the room: it has been told to go, or its server
\* is still to be.
OnItsWay(c) ==
    \E k \in DOMAIN inbox[home[c]] : inbox[home[c]][k] = [event |-> "ACCESS_REVOKED", client |-> c]

RevocationReaches == \A c \in revoked \cap room : c \in told \/ OnItsWay(c)

\* "All clients are disconnected when the owner closes their session" (README.md):
\* a user whose row is there when the last client of the owner begins to leave
\* does not stay in the room, unless the owner comes back.
OwnerAway == \A c \in Client : role[c] = "OWNER" => channel[c] # "open"
OwnerLeaves == OwnerAway /\ \E c \in Client : role[c] = "OWNER" /\ leave[c].pc = "session"
Stays(c) == c \in room /\ c \notin away /\ policy = "DISCONNECT_ALL"

OwnerLeavingClosesRoom ==
    \A c \in Client : Stays(c) /\ member[c] # 0 /\ OwnerLeaves ~> ~(Stays(c) /\ OwnerAway)
==============================================================================

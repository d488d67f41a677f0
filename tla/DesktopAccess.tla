----------------------------- MODULE DesktopAccess -----------------------------
(***************************************************************************)
(* Support staff who may not use a desktop while its owner is away ask the *)
(* owner for access.  The candidate waits in the room; its server finds a  *)
(* client of the owner there, or asks the other servers to; the owner      *)
(* answers; the server of the candidate connects it with the role granted. *)
(*                                                                         *)
(* A request token is a random UUID that one server gives to one candidate *)
(* at most once, so it is named here by the two.                           *)
(***************************************************************************)
EXTENDS DesktopRoom

CONSTANT hash   \* the place of a client in the set of a room, which is hashed

ASSUME HashAssumption == hash \in [Client -> Nat]

VARIABLES
    ask,         \* where onConnect is for a client that must ask
    candidates,  \* desktopCandidates
    tokens,      \* clientSessionIds: <<server, candidate>>
    shown,       \* external: the requests that the browser of an owner shows
    replying,    \* the owner whose thread connects a candidate
    answers,     \* history: the answers of the owner that onAccessReply handed on
    grants       \* history: how often a candidate was connected

accessVars == <<ask, candidates, tokens, shown, replying, answers, grants>>
allVars == <<vars, accessVars>>

Candidate == {c \in Client : MustAsk(c)}
Owner == {c \in Client : role[c] = "OWNER"}
Reply == {"GUEST", "SUPPORT", "NONE"}
AccessEvent ==
    [event : {"ACCESS_CANDIDATE", "ACCESS_CANCELLATION"}, client : Candidate]
        \cup [event : {"ACCESS_REPLY"}, client : Candidate, reply : Reply]

AccessTypeOK ==
    /\ RoomTypeOK
    /\ ask \in [Candidate -> {"idle", "join", "seek"}]
    /\ candidates \subseteq Candidate
    /\ tokens \subseteq Server \X Candidate
    /\ shown \in [Owner -> SUBSET Candidate]
    /\ replying \in [Candidate -> Owner \cup Server]
    /\ answers \in [Candidate -> SUBSET Reply]
    /\ grants \in [Candidate -> Nat]
    /\ inbox \in [Server -> Seq(RoomEvent \cup AccessEvent)]

AccessInit ==
    /\ Init
    /\ ask = [c \in Candidate |-> "idle"]
    /\ candidates = {}
    /\ tokens = {}
    /\ shown = [o \in Owner |-> {}]
    /\ replying = [c \in Candidate |-> home[c]]
    /\ answers = [c \in Candidate |-> {}]
    /\ grants = [c \in Candidate |-> 0]

historyVars == <<answers, grants>>

------------------------------------------------------------------------------
(* Asking.  "Faulty" operators are variants that no specification uses.       *)

\* getDesktopOwner: the first client of the room, on this server, whose row says
\* that it is the owner's.
LocalOwners(s) == {o \in RoomClients(s) : o \in Owner /\ member[o] # 0}
FirstOwner(s) == CHOOSE o \in LocalOwners(s) : \A p \in LocalOwners(s) : hash[o] <= hash[p]

\* onConnect of a client that must ask, up to isOwnerConnected.
AskAccess(c) ==
    /\ channel[c] = "new"
    /\ channel' = [channel EXCEPT ![c] = "open"]
    /\ IF OwnerConnected
       THEN ask' = [ask EXCEPT ![c] = "join"] /\ UNCHANGED told
       ELSE told' = told \cup {c} /\ UNCHANGED ask
    /\ UNCHANGED <<policy, connect, leave, memoryVars, sessionVars, inbox, revoked, boundVars>>
    /\ UNCHANGED <<candidates, tokens, shown, replying, historyVars>>

WaitInRoom(c) ==
    /\ ask[c] = "join"
    /\ candidates' = candidates \cup {c}
    /\ room' = room \cup {c}
    /\ ask' = [ask EXCEPT ![c] = "seek"]
    /\ UNCHANGED <<policy, handlerVars, connection, sessionVars, inbox, revoked, boundVars>>
    /\ UNCHANGED <<tokens, shown, replying, historyVars>>

\* sendRequestToOwner
SendRequest(s, c) ==
    /\ tokens' = tokens \cup {<<s, c>>}
    /\ shown' = [shown EXCEPT ![FirstOwner(s)] = @ \cup {c}]

\* Faulty: a candidate goes on asking until it leaves.
SeekOwnerAgain(c) ==
    /\ ask[c] = "seek"
    /\ ask' = [ask EXCEPT ![c] = "join"]
    /\ IF LocalOwners(home[c]) # {}
       THEN SendRequest(home[c], c) /\ UNCHANGED inbox
       ELSE /\ Publish(home[c], [event |-> "ACCESS_CANDIDATE", client |-> c])
            /\ UNCHANGED <<tokens, shown>>
    /\ UNCHANGED <<policy, handlerVars, memoryVars, sessionVars, revoked, boundVars>>
    /\ UNCHANGED <<candidates, replying, historyVars>>

SeekOwner(c) ==
    /\ ask[c] = "seek"
    /\ ask' = [ask EXCEPT ![c] = "idle"]
    /\ IF LocalOwners(home[c]) # {}
       THEN SendRequest(home[c], c) /\ UNCHANGED inbox
       ELSE /\ Publish(home[c], [event |-> "ACCESS_CANDIDATE", client |-> c])
            /\ UNCHANGED <<tokens, shown>>
    /\ UNCHANGED <<policy, handlerVars, memoryVars, sessionVars, revoked, boundVars>>
    /\ UNCHANGED <<candidates, replying, historyVars>>

\* sendCancellationToOwner removes the token, then sends to the owner found now,
\* if there still is one.
SendCancellation(s, c) ==
    /\ tokens' = tokens \ {<<s, c>>}
    /\ shown' = IF LocalOwners(s) = {} THEN shown
                ELSE [shown EXCEPT ![FirstOwner(s)] = @ \ {c}]

\* Faulty: the owner is not told when it is on another server.
CancelOnThisServer(c) ==
    /\ candidates' = candidates \ {c}
    /\ UNCHANGED inbox
    /\ IF c \in candidates /\ <<home[c], c>> \in tokens
       THEN SendCancellation(home[c], c)
       ELSE UNCHANGED <<tokens, shown>>

\* cancelAccess
CancelAccess(c) ==
    /\ candidates' = candidates \ {c}
    /\ IF c \in candidates /\ <<home[c], c>> \in tokens
       THEN SendCancellation(home[c], c) /\ UNCHANGED inbox
       ELSE /\ UNCHANGED <<tokens, shown>>
            /\ IF c \in candidates
               THEN Publish(home[c], [event |-> "ACCESS_CANCELLATION", client |-> c])
               ELSE UNCHANGED inbox

\* onDisconnect of a client that had to ask: cancelAccess if it has no connection.
DisconnectCandidate(c) ==
    /\ ask[c] = "idle"
    /\ Close(c)
    /\ IF Connected(c)
       THEN UNCHANGED <<candidates, tokens, shown, inbox>>
       ELSE CancelAccess(c)
    /\ UNCHANGED <<ask, replying, historyVars>>

------------------------------------------------------------------------------
(* Answering *)

\* Faulty: the answer is taken as it is.
AsAnswered(c, r) == IF c \in Client THEN r ELSE "NONE"

\* convertAccessReplyRole: SUPPORT is for those who need not ask.
Converted(c, r) == IF r = "SUPPORT" /\ c \notin away THEN "USER" ELSE r

\* Faulty: the candidate stays among those who wait.
ConnectFromReplyAgain(c, r, thread) ==
    /\ UNCHANGED candidates
    /\ IF channel[c] = "open"
       THEN /\ Begin(c, Converted(c, r))
            /\ replying' = [replying EXCEPT ![c] = thread]
            /\ grants' = [grants EXCEPT ![c] = IF r = "NONE" THEN @ ELSE @ + 1]
       ELSE UNCHANGED <<connect, told, replying, grants>>

\* connectFromAccessReply, run by the thread of an owner or of a server.
ConnectFromReply(c, r, thread) ==
    /\ candidates' = candidates \ {c}
    /\ IF channel[c] = "open"
       THEN /\ Begin(c, Converted(c, r))
            /\ replying' = [replying EXCEPT ![c] = thread]
            /\ grants' = [grants EXCEPT ![c] = IF r = "NONE" THEN @ ELSE @ + 1]
       ELSE UNCHANGED <<connect, told, replying, grants>>

\* onAccessReply.  A reply whose token has been removed fails without effect.  All it
\* changes before it hands the answer on is the memory of its own server: a restart
\* of that server in between is the same as one before.
AccessReply(o, c, r) ==
    /\ channel[o] = "open" /\ c \in shown[o]
    /\ shown' = [shown EXCEPT ![o] = @ \ {c}]
    /\ tokens' = tokens \ {<<home[o], c>>}
    /\ answers' = [answers EXCEPT ![c] = IF <<home[o], c>> \in tokens THEN @ \cup {r} ELSE @]
    /\ IF <<home[o], c>> \in tokens /\ c \in candidates /\ home[c] = home[o]
       THEN ConnectFromReply(c, r, o) /\ UNCHANGED inbox
       ELSE /\ UNCHANGED <<candidates, connect, told, replying, grants>>
            /\ IF <<home[o], c>> \in tokens
               THEN Publish(home[o], [event |-> "ACCESS_REPLY", client |-> c, reply |-> r])
               ELSE UNCHANGED inbox
    /\ UNCHANGED <<policy, channel, leave, memoryVars, sessionVars, revoked, boundVars, ask>>

\* An owner whose thread is connecting a candidate is busy.
Busy(o) == \E c \in Candidate : replying[c] = o /\ connect[c] # Idle

\* ServerAccessCandidateListener, ServerAccessCancellationListener and
\* ServerAccessReplyListener.
ReceiveAccess(s) ==
    LET event == Head(inbox[s])
        c     == event.client
    IN  /\ inbox[s] # <<>> /\ event \notin RoomEvent
        /\ inbox' = [inbox EXCEPT ![s] = Tail(inbox[s])]
        /\ \/ /\ event.event = "ACCESS_CANDIDATE"
              /\ IF LocalOwners(s) # {} THEN SendRequest(s, c) ELSE UNCHANGED <<tokens, shown>>
              /\ UNCHANGED <<connect, told, candidates, replying, grants>>
           \/ /\ event.event = "ACCESS_CANCELLATION"
              /\ IF LocalOwners(s) # {} /\ <<s, c>> \in tokens
                 THEN SendCancellation(s, c) ELSE UNCHANGED <<tokens, shown>>
              /\ UNCHANGED <<connect, told, candidates, replying, grants>>
           \/ /\ event.event = "ACCESS_REPLY"
              /\ IF c \in candidates /\ home[c] = s
                 THEN ConnectFromReply(c, event.reply, s)
                 ELSE UNCHANGED <<connect, told, candidates, replying, grants>>
              /\ UNCHANGED <<tokens, shown>>
        /\ UNCHANGED <<policy, channel, leave, memoryVars, sessionVars, revoked, boundVars, ask, answers>>

------------------------------------------------------------------------------
(* The steps of DesktopRoom *)

\* The browser of an owner that leaves shows nothing any more.
Forget(lost) == shown' = [o \in Owner |-> IF o \in lost THEN {} ELSE shown[o]]

RoomStep ==
    \/ /\ \E c \in Client : Connect(c) \/ HandlerStep(c)
       /\ UNCHANGED accessVars
    \/ /\ \E s \in Server : Receive(s)
       /\ UNCHANGED accessVars

RevokeMember(o, u) ==
    /\ ~Busy(o)
    /\ RevokeAccess(o, u)
    /\ UNCHANGED accessVars

DisconnectMember(c) ==
    /\ ~Busy(c)
    /\ Disconnect(c)
    /\ Forget({c})
    /\ UNCHANGED <<ask, candidates, tokens, replying, historyVars>>

RestartServer(s) ==
    LET lost == {c \in Client : home[c] = s}
    IN  /\ Restart(s)
        /\ Forget(lost)
        /\ ask' = [c \in Candidate |-> IF c \in lost THEN "idle" ELSE ask[c]]
        /\ candidates' = candidates \ lost
        /\ tokens' = {t \in tokens : t[1] # s}
        /\ UNCHANGED <<replying, historyVars>>

AskStep(c) == WaitInRoom(c) \/ SeekOwner(c)

AccessNext ==
    \/ RoomStep
    \/ \E c \in Client : DisconnectMember(c)
    \/ \E o \in Owner, u \in Revocable : RevokeMember(o, u)
    \/ \E c \in Candidate : AskAccess(c) \/ AskStep(c) \/ DisconnectCandidate(c)
    \/ \E o \in Owner, c \in Candidate, r \in Reply : AccessReply(o, c, r)
    \/ \E s \in Server : ReceiveAccess(s) \/ RestartServer(s)

AccessSpec == AccessInit /\ [][AccessNext]_allVars

AccessFairness ==
    /\ \A c \in Client : WF_allVars(HandlerStep(c) /\ UNCHANGED accessVars)
    /\ \A c \in Client : WF_allVars(c \in told /\ DisconnectMember(c))
    /\ \A c \in Candidate : WF_allVars(AskStep(c)) /\ WF_allVars(c \in told /\ DisconnectCandidate(c))
    /\ \A s \in Server :
          WF_allVars(ReceiveAccess(s) \/ (Receive(s) /\ UNCHANGED accessVars))

FairAccessSpec == AccessSpec /\ AccessFairness

------------------------------------------------------------------------------
(* Properties *)

\* Who had to ask is connected only when a client of the owner has granted it, as a
\* guest or as a user, also when two clients of the owner give different answers:
\* never with the role of one who keeps the room open without the owner.
GrantedByTheOwner ==
    \A c \in Candidate :
        LET given == IF connect[c] # Idle THEN connect[c].role ELSE connection[c].role
        IN  \/ given = "NONE"
            \/ given = "GUEST" /\ "GUEST" \in answers[c]
            \/ given = "USER" /\ "SUPPORT" \in answers[c]

\* A candidate is connected once, however many clients of the owner, on however many
\* servers, are shown its request and answer it.
GrantedOnce == \A c \in Candidate : grants[c] <= 1

\* An answer that was handed on is not lost in the channel of redis or on the server
\* of the candidate, also when the server of the owner restarts: a candidate still
\* there is connected, has been told to go, or its server is still to be told.
ReplyOnItsWay(c) ==
    \E k \in DOMAIN inbox[home[c]] :
        inbox[home[c]][k].event = "ACCESS_REPLY" /\ inbox[home[c]][k].client = c

AnswerIsNotLost ==
    \A c \in Candidate :
        answers[c] # {} /\ channel[c] = "open" =>
            grants[c] > 0 \/ c \in told \/ (c \in candidates /\ ReplyOnItsWay(c))

\* A candidate is away, waits for an answer (a desktopCandidate, or about to be one),
\* is settled (answered, or turned away), or has gone.
PlaceOf(c) ==
    CASE channel[c] = "new"  -> "away"
      [] channel[c] = "gone" -> "gone"
      [] OTHER -> IF ask[c] = "join" \/ c \in candidates THEN "waiting" ELSE "settled"

GivenTo(c) == IF connect[c].role # "NONE" THEN connect[c].role ELSE connection[c].role

AbstractRequest ==
    INSTANCE DesktopAccessRequest WITH
        place <- [c \in Candidate |-> PlaceOf(c)],
        given <- [c \in Candidate |-> GivenTo(c)]

\* Servers, events, tokens and threads together do what a single place with a single
\* answer would: however many answers there are, and whenever the candidate or a server
\* goes, one answer settles a request of someone who still waits, the role it grants is
\* not replaced by another one afterwards, and it is given up for good.
ImplementsRequest == AbstractRequest!Spec

\* "Close access request modal on owner's machine when user cancels request (multi
\* server env ok)" (History.md): the only client of the owner does not go on showing
\* the request of a candidate that has gone, unless a server restarts.  With two
\* clients of the owner the cancellation may go to the one that was not shown the
\* request, since getDesktopOwner looks for the first one each time.
CancellationReachesOwner ==
    \A c \in Candidate : \A o \in Owner :
        Owner = {o} /\ channel[c] = "gone" /\ c \in shown[o]
          ~> c \notin shown[o] \/ crashes > 0
==============================================================================

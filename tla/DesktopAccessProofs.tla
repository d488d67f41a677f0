-------------------------- MODULE DesktopAccessProofs --------------------------
(***************************************************************************)
(* Proof that a candidate is connected at most once, for any clients of    *)
(* the owner on any number of servers, each of which may be shown the      *)
(* request, and any number of restarts.                                    *)
(***************************************************************************)
EXTENDS DesktopAccess, TLAPS

\* What bounds the answers that are served is desktopCandidates, which only the server
\* of the candidate has: a client is put there once, when it has joined the room,
\* and the first answer takes it out.
WaitsOnce ==
    /\ channel = [c \in Client |-> channel[c]]
    /\ ask = [c \in Candidate |-> ask[c]]
    /\ candidates \subseteq Candidate
    /\ grants \in [Candidate -> Nat]
    /\ \A c \in Candidate :
          /\ channel[c] = "new" => ask[c] = "idle"
          /\ c \in candidates => channel[c] # "new" /\ ask[c] # "join"
          /\ channel[c] = "new" \/ ask[c] = "join" \/ c \in candidates => grants[c] = 0
          /\ grants[c] <= 1

LEMMA WaitsOnceInit == AccessInit => WaitsOnce
<1> SUFFICES ASSUME AccessInit PROVE WaitsOnce
  OBVIOUS
<1>1. Candidate \subseteq Client
  BY DEF Candidate
<1>2. /\ channel = [c \in Client |-> "new"] /\ ask = [c \in Candidate |-> "idle"]
      /\ candidates = {} /\ grants = [c \in Candidate |-> 0]
  BY DEF AccessInit, Init
<1> QED
  BY <1>1, <1>2 DEF WaitsOnce

\* Steps that neither bring back a client, nor ask, nor grant.
LEMMA NothingGranted ==
    ASSUME WaitsOnce, UNCHANGED <<ask, grants>>, candidates' \subseteq candidates,
           channel' = [c \in Client |-> channel'[c]],
           \A c \in Client : channel'[c] = "new" => channel[c] = "new"
    PROVE  WaitsOnce'
<1>1. Candidate \subseteq Client /\ Candidate' = Candidate
  BY DEF Candidate, MustAsk
<1> QED
  BY <1>1 DEF WaitsOnce

\* Serving an answer takes the candidate out of desktopCandidates.
LEMMA ServedOnce ==
    ASSUME WaitsOnce, NEW c \in Candidate, c \in candidates, NEW r, NEW thread,
           ConnectFromReply(c, r, thread), UNCHANGED <<channel, ask>>
    PROVE  WaitsOnce'
<1>1. Candidate' = Candidate
  BY DEF Candidate, MustAsk
<1>2. candidates' = candidates \ {c} /\ grants[c] = 0
  BY DEF ConnectFromReply, WaitsOnce
<1>3. \/ UNCHANGED grants
      \/ grants' = [grants EXCEPT ![c] = @ + 1] /\ channel[c] = "open"
  <2>1. CASE channel[c] = "open" /\ r # "NONE"
    BY <2>1 DEF ConnectFromReply
  <2>2. CASE channel[c] = "open" /\ r = "NONE"
    BY <2>2 DEF ConnectFromReply, WaitsOnce
  <2>3. CASE channel[c] # "open"
    BY <2>3 DEF ConnectFromReply
  <2> QED
    BY <2>1, <2>2, <2>3
<1> QED
  BY <1>1, <1>2, <1>3 DEF WaitsOnce

LEMMA AskingKeeps ==
    ASSUME WaitsOnce, NEW c \in Candidate,
           AskAccess(c) \/ AskStep(c) \/ DisconnectCandidate(c)
    PROVE  WaitsOnce'
<1>0. Candidate' = Candidate /\ Candidate \subseteq Client
  BY DEF Candidate, MustAsk
<1>1. CASE AskAccess(c)
  <2>1. /\ channel[c] = "new" /\ channel' = [channel EXCEPT ![c] = "open"]
        /\ UNCHANGED <<candidates, grants>>
        /\ \/ ask' = [ask EXCEPT ![c] = "join"]
           \/ UNCHANGED ask
    BY <1>1 DEF AskAccess, historyVars
  <2> QED
    BY <1>0, <2>1 DEF WaitsOnce
<1>2. CASE WaitInRoom(c)
  <2>1. /\ ask[c] = "join" /\ ask' = [ask EXCEPT ![c] = "seek"]
        /\ candidates' = candidates \cup {c}
        /\ UNCHANGED <<channel, grants>>
    BY <1>2 DEF WaitInRoom, handlerVars, historyVars
  <2> QED
    BY <1>0, <2>1 DEF WaitsOnce
<1>3. CASE SeekOwner(c)
  <2>1. /\ ask[c] = "seek" /\ ask' = [ask EXCEPT ![c] = "idle"]
        /\ UNCHANGED <<channel, candidates, grants>>
    BY <1>3 DEF SeekOwner, handlerVars, historyVars
  <2> QED
    BY <1>0, <2>1 DEF WaitsOnce
<1>4. CASE DisconnectCandidate(c)
  <2>1. /\ channel' = [channel EXCEPT ![c] = "gone"]
        /\ candidates' \subseteq candidates
        /\ UNCHANGED <<ask, grants>>
    BY <1>4 DEF DisconnectCandidate, Close, CancelAccess, historyVars
  <2>2. channel' = [d \in Client |-> channel'[d]]
    BY <2>1 DEF WaitsOnce
  <2>3. \A d \in Client : channel'[d] = "new" => channel[d] = "new"
    BY <2>1 DEF WaitsOnce
  <2> QED
    BY <2>1, <2>2, <2>3, NothingGranted
<1> QED
  BY <1>1, <1>2, <1>3, <1>4 DEF AskStep

LEMMA AnsweringKeeps ==
    ASSUME WaitsOnce, NEW o \in Owner, NEW c \in Candidate, NEW r \in Reply, AccessReply(o, c, r)
    PROVE  WaitsOnce'
<1>1. UNCHANGED <<channel, ask>>
  BY DEF AccessReply
<1>2. CASE c \in candidates /\ ConnectFromReply(c, r, o)
  BY <1>1, <1>2, ServedOnce
<1>3. CASE UNCHANGED <<candidates, grants>>
  BY <1>1, <1>3, NothingGranted DEF WaitsOnce
<1> QED
  BY <1>2, <1>3 DEF AccessReply

LEMMA ReceivingKeeps == ASSUME WaitsOnce, NEW s \in Server, ReceiveAccess(s) PROVE WaitsOnce'
<1> DEFINE event == Head(inbox[s])
           c == event.client
<1>1. UNCHANGED <<channel, ask>>
  BY DEF ReceiveAccess
<1>2. \/ UNCHANGED <<candidates, grants>>
      \/ c \in candidates /\ home[c] = s /\ ConnectFromReply(c, event.reply, s)
  BY DEF ReceiveAccess
<1> HIDE DEF event, c
<1>3. CASE UNCHANGED <<candidates, grants>>
  BY <1>1, <1>3, NothingGranted DEF WaitsOnce
<1>4. CASE c \in candidates /\ ConnectFromReply(c, event.reply, s)
  <2>1. c \in Candidate
    BY <1>4 DEF WaitsOnce
  <2> QED
    BY <1>1, <1>4, <2>1, ServedOnce
<1> QED
  BY <1>2, <1>3, <1>4

LEMMA RoomKeeps == ASSUME WaitsOnce, RoomStep PROVE WaitsOnce'
<1>1. UNCHANGED <<ask, candidates, grants>>
  BY DEF RoomStep, accessVars
<1>2. \/ UNCHANGED channel
      \/ \E c \in Client : channel' = [channel EXCEPT ![c] = "open"]
  <2>1. ASSUME NEW c \in Client, Connect(c)
        PROVE  channel' = [channel EXCEPT ![c] = "open"]
    BY <2>1 DEF Connect
  <2>2. ASSUME NEW c \in Client, HandlerStep(c) PROVE UNCHANGED channel
    BY <2>2 DEF HandlerStep, ConnectStep, LeaveStep, CreateSession, UseSession, SocketFails,
                JoinRoom, ReadSession, ReadOwner, AddMember, UnlockRoom, LeaveSession,
                CheckMember, CommitMember, LeaveOwner, CloseRoom, LockRoom
  <2>3. ASSUME NEW s \in Server, Receive(s) PROVE UNCHANGED channel
    BY <2>3 DEF Receive
  <2> QED
    BY <2>1, <2>2, <2>3 DEF RoomStep
<1>3. channel' = [c \in Client |-> channel'[c]]
  BY <1>2 DEF WaitsOnce
<1>4. \A c \in Client : channel'[c] = "new" => channel[c] = "new"
  BY <1>2 DEF WaitsOnce
<1> QED
  BY <1>1, <1>3, <1>4, NothingGranted

LEMMA LeavingKeeps == ASSUME WaitsOnce, NEW c \in Client, DisconnectMember(c) PROVE WaitsOnce'
<1>1. /\ channel' = [channel EXCEPT ![c] = "gone"]
      /\ UNCHANGED <<ask, candidates, grants>>
  BY DEF DisconnectMember, Disconnect, Close, historyVars
<1>2. /\ channel' = [d \in Client |-> channel'[d]]
      /\ \A d \in Client : channel'[d] = "new" => channel[d] = "new"
  BY <1>1 DEF WaitsOnce
<1> QED
  BY <1>1, <1>2, NothingGranted

LEMMA RevokingKeeps ==
    ASSUME WaitsOnce, NEW o \in Owner, NEW u, RevokeMember(o, u) PROVE WaitsOnce'
<1>1. UNCHANGED <<channel, ask, candidates, grants>>
  BY DEF RevokeMember, RevokeAccess, accessVars, historyVars
<1> QED
  BY <1>1, NothingGranted DEF WaitsOnce

LEMMA RestartingKeeps == ASSUME WaitsOnce, NEW s \in Server, RestartServer(s) PROVE WaitsOnce'
<1> DEFINE lost == {c \in Client : home[c] = s}
<1>1. /\ channel' = [c \in Client |-> IF c \in lost /\ channel[c] = "open"
                                     THEN "gone" ELSE channel[c]]
      /\ ask' = [c \in Candidate |-> IF c \in lost THEN "idle" ELSE ask[c]]
      /\ candidates' = candidates \ lost
      /\ UNCHANGED grants
  BY DEF RestartServer, Restart, historyVars
<1>2. Candidate \subseteq Client /\ Candidate' = Candidate
  BY DEF Candidate, MustAsk
<1> HIDE DEF lost
<1> QED
  BY <1>1, <1>2 DEF WaitsOnce

------------------------------------------------------------------------------

LEMMA WaitsOnceNext == WaitsOnce /\ [AccessNext]_allVars => WaitsOnce'
<1> SUFFICES ASSUME WaitsOnce, [AccessNext]_allVars PROVE WaitsOnce'
  OBVIOUS
<1>1. CASE UNCHANGED allVars
  BY <1>1 DEF allVars, vars, handlerVars, accessVars, WaitsOnce, Candidate, MustAsk
<1> QED
  BY <1>1, RoomKeeps, LeavingKeeps, AskingKeeps, AnsweringKeeps, ReceivingKeeps, RevokingKeeps,
     RestartingKeeps
     DEF AccessNext

\* Two clients of the owner on two servers may both be shown the request of a candidate
\* and both answer it: only one of the answers connects the candidate.
THEOREM ServedAtMostOnce == AccessSpec => []GrantedOnce
<1>1. WaitsOnce => GrantedOnce
  BY DEF WaitsOnce, GrantedOnce
<1> QED
  BY <1>1, WaitsOnceInit, WaitsOnceNext, PTL DEF AccessSpec
==============================================================================

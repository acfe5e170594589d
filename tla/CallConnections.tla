-------------------------- MODULE CallConnections --------------------------
(***************************************************************************)
(* The websocket connections of one participant of a call, in a cluster    *)
(* whose nodes run the RTC server themselves: handleJoin, handleReconnect, *)
(* OnWebSocketDisconnect, wsReader and handleLeave of server/websocket.go, *)
(* the cluster messages of plugin.go and removeSession of session.go.      *)
(*                                                                         *)
(* The call goes on whatever the participant does, and the lock of the     *)
(* channel is always obtained. A section of p.mut or of the lock is a      *)
(* step. The participant, the Mattermost server that gives connections     *)
(* their ids and calls the hook, and the RTC server are external. A        *)
(* connection that comes back to its node may keep its id, after the hook  *)
(* for it; on another node it gets a new one.                              *)
(***************************************************************************)
EXTENDS Integers, Sequences, FiniteSets

CONSTANTS
    Node,           \* the nodes of the cluster
    Handler,        \* the one that has the RTC sessions of the call
    MaxComebacks    \* bound: reconnections

ASSUME ConnectionsAssumption == Handler \in Node /\ MaxComebacks \in Nat

ConnID == 1..(MaxComebacks + 1)
OriginalConnID == 1         \* the participant joins on it, and it is the id of the RTC session

\* The session objects: the one of handleJoin, the one that the connect message makes at
\* the handler, and one for each reconnection. 0 is none.
Joined == 1
Connected == 2
Object == 1..(MaxComebacks + 2)

VARIABLES
    us,         \* the session objects
    sessions,   \* p.sessions of each node: connection id -> object
    row,        \* the participant has a row in calls_sessions
    rtcSession, \* at the handler: "none", "on", "closing" (callback not run) or "closed"
    inbox,      \* clusterEvCh of each node
    client,     \* the participant: node, id and state of its socket, and the id it knows of
    posted,     \* join and reconnect messages whose goroutine has not done its work
    hooks,      \* closed sockets for which OnWebSocketDisconnect is not called yet
    rechecks,   \* closed sockets that OnWebSocketDisconnect looks for again
    comebacks, ids,             \* reconnections so far, connection ids given so far
    over,       \* how its part in the call ended: "no", "gone", "left", "kicked", "revoked", "failed"
    mishaps     \* history: the ways in which this one was let down, see the actions

outside == <<client, comebacks, ids, over>>
connsVars == <<us, sessions, row, rtcSession, inbox, posted, hooks, rechecks, outside, mishaps>>

\* pc: "read" in wsReader, "wait" in the select of handleLeave, "rtc" in startSession.
\* removed: "waits" for the lock of the channel.
NewSession(n, c, rtc, pc) ==
    [node |-> n, connID |-> c, rtc |-> rtc, wsClosed |-> FALSE, wsReconnected |-> FALSE,
     rtcClosed |-> FALSE, left |-> FALSE, removed |-> "no", pc |-> pc]
NoSession == NewSession(Handler, OriginalConnID, FALSE, "none")

ConnsInit ==
    /\ us = [i \in Object |-> NoSession]
    /\ sessions = [n \in Node |-> [c \in ConnID |-> 0]]
    /\ row = FALSE /\ rtcSession = "none"
    /\ inbox = [n \in Node |-> <<>>]
    /\ \E n \in Node :
         /\ client = [node |-> n, connID |-> 1, known |-> 1, ws |-> "up"]
         /\ posted = {[node |-> n, connID |-> 1, prev |-> 1, obj |-> Joined, found |-> FALSE]}
    /\ hooks = {} /\ rechecks = {} /\ comebacks = 0 /\ ids = 1
    /\ over = "no" /\ mishaps = {}

---------------------------------------------------------------------------
(* What the handlers share *)

Mishap(name, happens) == mishaps' = IF happens THEN mishaps \cup {name} ELSE mishaps

Others(n, msg) == [m \in Node |-> IF m = n THEN inbox[m] ELSE Append(inbox[m], msg)]

\* closeRTCSession on node n. There is an RTC session with the original id only.
CloseRTC(n, c) ==
    IF n = Handler
    THEN /\ rtcSession' = IF c = OriginalConnID /\ rtcSession = "on" THEN "closing" ELSE rtcSession
         /\ UNCHANGED inbox
    ELSE /\ inbox' = [inbox EXCEPT ![Handler] = Append(@, [type |-> "disconnect", connID |-> c])]
         /\ UNCHANGED rtcSession

\* removeSession: only the first call goes on, and then waits for the lock.
Removing(s) == [s EXCEPT !.removed = IF @ = "no" THEN "waits" ELSE @]

\* getSessionByOriginalID: the session with that key, or else any of the participant's.
ByOriginalID(n) ==
    IF sessions[n][OriginalConnID] # 0 THEN {sessions[n][OriginalConnID]}
    ELSE {sessions[n][c] : c \in ConnID} \ {0}

\* Mutant of ReconnectMsg: without the new id.
ReconnectMsgNoID(r) == [type |-> "reconnect", connID |-> r.prev, newConnID |-> 0]

\* The cluster message of handleReconnect.
ReconnectMsg(r) == [type |-> "reconnect", connID |-> r.prev, newConnID |-> r.connID]

---------------------------------------------------------------------------
(* Goroutines of the plugin *)

\* handleJoin
\* unmade: the RTC session could not be made. handleLeave waits for the participant then.
HandleJoin ==
    \E r \in posted, made \in BOOLEAN :
        LET direct == r.node = Handler
        IN  /\ r.obj = Joined /\ posted' = posted \ {r}
            /\ row' = TRUE
            /\ us' = [us EXCEPT ![Joined] =
                         NewSession(r.node, r.connID, direct, IF made THEN "read" ELSE "wait")]
            /\ sessions' = [sessions EXCEPT ![r.node][r.connID] = Joined]
            /\ rtcSession' = IF direct /\ made THEN "on" ELSE rtcSession
            /\ inbox' = IF direct \/ ~made THEN inbox
                        ELSE [inbox EXCEPT ![Handler] = Append(@, [type |-> "connect", connID |-> r.connID])]
            /\ Mishap("unmade", ~made)
    /\ UNCHANGED <<hooks, rechecks, outside>>

\* handleReconnect reads the state of the call before it takes p.mut.
\* early: the participant came back before it had joined, which nobody tells it, or
\* before the handler had heard of it.
FindInState ==
    /\ \E r \in posted :
         /\ r.obj # Joined /\ ~r.found
         /\ posted' = (posted \ {r}) \cup (IF row THEN {[r EXCEPT !.found = TRUE]} ELSE {})
    /\ Mishap("early", us[Joined].pc = "none")
    /\ UNCHANGED <<us, sessions, row, rtcSession, inbox, hooks, rechecks, outside>>

\* Mutant of Replaced: the previous connection id is not looked for.
ReplacedSameID(r) == sessions[r.node][r.connID]

Replaced(r) ==
    LET i == sessions[r.node][r.connID] IN IF i # 0 THEN i ELSE sessions[r.node][r.prev]

\* refused: another node has told this one that the session it knows had reconnected.
HandleReconnect ==
    /\ \E r \in posted :
         LET old == Replaced(r)
             rtc == old # 0 /\ us[old].rtc
         IN  /\ r.found /\ posted' = posted \ {r}
             /\ IF old # 0 /\ us[old].wsReconnected     \* session already reconnected
                THEN UNCHANGED <<us, sessions, inbox>> /\ Mishap("refused", TRUE)
                ELSE /\ UNCHANGED mishaps
                     /\ us' = [i \in Object |->
                                  IF i = r.obj THEN NewSession(r.node, r.connID, rtc, "read")
                                  ELSE IF i = old THEN [us[i] EXCEPT !.wsReconnected = TRUE]
                                  ELSE us[i]]
                     /\ sessions' = [sessions EXCEPT ![r.node][OriginalConnID] = 0,
                                                     ![r.node][r.connID] = r.obj]
                     /\ inbox' = Others(r.node, ReconnectMsg(r))
    /\ UNCHANGED <<row, rtcSession, hooks, rechecks, outside>>

\* OnWebSocketDisconnect
\* missed: the socket has kept its id, and its reconnect message is not handled yet.
Disconnected(h) ==
    LET i == sessions[h[1]][h[2]]
    IN  /\ h \in hooks /\ hooks' = hooks \ {h}
        /\ rechecks' = IF i = 0 THEN rechecks \cup {h} ELSE rechecks
        /\ us' = IF i = 0 THEN us ELSE [us EXCEPT ![i].wsClosed = TRUE]
        /\ Mishap("missed", i # 0 /\ \E r \in posted : <<r.node, r.connID>> = h)
        /\ UNCHANGED <<sessions, row, rtcSession, inbox, posted, outside>>

\* Mutant of Recheck: the session is not looked for again.
RecheckNot(h) ==
    /\ h \in rechecks /\ rechecks' = rechecks \ {h}
    /\ posted = {}
    /\ UNCHANGED <<us, sessions, row, rtcSession, inbox, posted, hooks, outside, mishaps>>

\* Its goroutine, after wsReconnectionTimeout, in which the goroutines of messages end.
\* mistaken: it takes the socket that the participant has now for the one that closed.
Recheck(h) ==
    LET i == sessions[h[1]][h[2]]
    IN  /\ h \in rechecks /\ rechecks' = rechecks \ {h}
        /\ posted = {}
        /\ us' = IF i = 0 THEN us ELSE [us EXCEPT ![i].wsClosed = TRUE]
        /\ Mishap("mistaken", i # 0 /\ client.ws = "up" /\ <<client.node, client.connID>> = h)
        /\ UNCHANGED <<sessions, row, rtcSession, inbox, posted, hooks, outside>>

\* wsReader returns when its socket has closed, or when the session of the user is not
\* valid any more.
ReaderReturns(i) ==
    /\ us[i].pc = "read" /\ us' = [us EXCEPT ![i].pc = "wait"]
    /\ \/ us[i].wsClosed /\ UNCHANGED <<inbox, rtcSession>>
       \/ over = "revoked" /\ CloseRTC(us[i].node, us[i].connID)
    /\ UNCHANGED <<sessions, row, posted, hooks, rechecks, outside, mishaps>>

\* The other channels that end wsReader are those of the select in handleLeave. Two of
\* them make it return.
Returns(i) ==
    /\ us[i].pc \in {"read", "wait"} /\ us' = [us EXCEPT ![i].pc = "end"]
    /\ \/ us[i].rtcClosed /\ UNCHANGED sessions
       \/ /\ us[i].wsReconnected
          /\ sessions' = IF sessions[us[i].node][us[i].connID] = i /\ ~us[i].rtc
                         THEN [sessions EXCEPT ![us[i].node][us[i].connID] = 0] ELSE sessions
    /\ UNCHANGED <<row, rtcSession, inbox, posted, hooks, rechecks, outside, mishaps>>

\* Left, or timed out with nothing else to be told.
Leaves(i) ==
    /\ \/ us[i].left /\ us[i].pc \in {"read", "wait"}
       \/ us[i].pc = "wait" /\ ~(us[i].wsReconnected \/ us[i].rtcClosed)
    /\ us' = [us EXCEPT ![i] = Removing([@ EXCEPT !.pc = "end"])]
    /\ CloseRTC(us[i].node, OriginalConnID)
    /\ UNCHANGED <<sessions, row, posted, hooks, rechecks, outside, mishaps>>

\* removeSessionFromCall with the lock
RemoveSession(i) ==
    /\ us[i].removed = "waits" /\ us' = [us EXCEPT ![i].removed = "yes"]
    /\ sessions' = [sessions EXCEPT ![us[i].node][us[i].connID] = 0]
    /\ row' = FALSE
    /\ UNCHANGED <<rtcSession, inbox, posted, hooks, rechecks, outside, mishaps>>

\* The callback of InitSession, in handleJoin or startSession.
RTCCallback ==
    /\ rtcSession = "closing" /\ rtcSession' = "closed"
    /\ LET i == IF us[Joined].node = Handler THEN Joined ELSE Connected
       IN  us' = [us EXCEPT ![i] = IF i = Joined /\ @.rtcClosed THEN @
                                   ELSE Removing([@ EXCEPT !.rtcClosed = TRUE])]
    /\ UNCHANGED <<sessions, row, inbox, posted, hooks, rechecks, outside, mishaps>>

\* startSession returns and closes the RTC session, of the id that its connection has now.
\* lost: what should have closed the RTC session did not.
StartSessionReturns ==
    /\ us[Connected].pc = "rtc" /\ us[Connected].rtcClosed
    /\ us' = [us EXCEPT ![Connected].pc = "end"]
    /\ CloseRTC(Handler, us[Connected].connID)
    /\ Mishap("lost", rtcSession' = "on")
    /\ UNCHANGED <<sessions, row, posted, hooks, rechecks, outside>>

---------------------------------------------------------------------------
(* handleEvent on node n *)

Receive(n, type) == inbox[n] # <<>> /\ Head(inbox[n]).type = type /\ inbox' = [inbox EXCEPT ![n] = Tail(@)]
Named(n) == sessions[n][Head(inbox[n]).connID]

ConnectEvent(n) ==
    /\ Receive(n, "connect")
    /\ IF Named(n) # 0 THEN UNCHANGED <<us, sessions, rtcSession, mishaps>>
       ELSE \E made \in BOOLEAN :
              /\ sessions' = [sessions EXCEPT ![n][OriginalConnID] = Connected]
              /\ us' = [us EXCEPT ![Connected] =
                           NewSession(n, OriginalConnID, TRUE, IF made THEN "rtc" ELSE "end")]
              /\ rtcSession' = IF made THEN "on" ELSE rtcSession
              /\ mishaps' = mishaps \cup (IF made THEN {} ELSE {"unmade"})
                                    \cup (IF comebacks > 0 THEN {"early"} ELSE {})
    /\ UNCHANGED <<row, posted, hooks, rechecks, outside>>

\* Mutant of ReconnectEvent: the connection id is kept.
ReconnectEventKeeps(n) ==
    /\ Receive(n, "reconnect")
    /\ LET i == Named(n)
       IN  IF i = 0 \/ us[i].wsReconnected THEN UNCHANGED <<us, sessions>>
           ELSE /\ us' = [us EXCEPT ![i].wsReconnected = TRUE]
                /\ sessions' = IF us[i].rtc THEN sessions ELSE [sessions EXCEPT ![n][us[i].connID] = 0]
    /\ UNCHANGED <<row, rtcSession, posted, hooks, rechecks, outside, mishaps>>

ReconnectEvent(n) ==
    /\ Receive(n, "reconnect")
    /\ LET i == Named(n)
       IN  IF i = 0 \/ us[i].wsReconnected THEN UNCHANGED <<us, sessions>>
           ELSE /\ us' = [us EXCEPT ![i].wsReconnected = TRUE,
                                    ![i].connID = IF us[i].rtc THEN Head(inbox[n]).newConnID ELSE @]
                /\ sessions' = IF us[i].rtc THEN sessions ELSE [sessions EXCEPT ![n][us[i].connID] = 0]
    /\ UNCHANGED <<row, rtcSession, posted, hooks, rechecks, outside, mishaps>>

LeaveEvent(n) ==
    /\ Receive(n, "leave")
    /\ us' = IF Named(n) = 0 THEN us ELSE [us EXCEPT ![Named(n)].left = TRUE]
    /\ UNCHANGED <<sessions, row, rtcSession, posted, hooks, rechecks, outside, mishaps>>

\* Only startSession closes the RTC session when rtcCloseCh is closed.
DisconnectEvent(n) ==
    /\ Receive(n, "disconnect")
    /\ us' = IF Named(n) = 0 THEN us ELSE [us EXCEPT ![Named(n)].rtcClosed = TRUE]
    /\ Mishap("lost", IF Named(n) = 0 THEN rtcSession = "on"
                       ELSE us[Named(n)].pc # "rtc" /\ us[Named(n)].removed = "no")
    /\ UNCHANGED <<sessions, row, rtcSession, posted, hooks, rechecks, outside>>

---------------------------------------------------------------------------
(* The participant, its host and the RTC connection. Bound: a participant does not come *)
(* back after its part in the call is over, nor after a mishap.                         *)

\* The bound: after two reconnections it only goes away.
Ends(how) == over = "no" /\ over' = how /\ (comebacks < 2 \/ how = "gone")

SocketCloses ==
    /\ client.ws = "up" /\ client' = [client EXCEPT !.ws = "down"]
    /\ hooks' = hooks \cup {<<client.node, client.connID>>}
    /\ UNCHANGED <<us, sessions, row, rtcSession, inbox, posted, rechecks, comebacks, ids, over, mishaps>>

\* The page is gone, or the time for retries is over.
GivesUp ==
    /\ client.ws = "down" /\ Ends("gone")
    /\ UNCHANGED <<us, sessions, row, rtcSession, inbox, posted, hooks, rechecks, client, comebacks, ids, mishaps>>

\* The client announces its new socket with the id that it knows, before it gets a hello.
\* It does so at least a second after the last one closed (wsMinReconnectRetryTimeMs),
\* when what it has posted and what the nodes have sent is handled, except for a join.
\* unheard: the socket closes before the hello that tells the new id.
ComesBack(n, keep) ==
    LET c == IF keep THEN client.connID ELSE ids + 1
    IN  /\ client.ws = "down" /\ comebacks < MaxComebacks /\ over = "no" /\ mishaps = {}
        /\ \A r \in posted : r.obj = Joined
        /\ \A m \in Node : inbox[m] = <<>>
        /\ hooks = {} /\ (keep => n = client.node)
        /\ comebacks' = comebacks + 1 /\ ids' = IF keep THEN ids ELSE c
        /\ \E known \in {c} \cup (IF comebacks' < MaxComebacks THEN {client.known} ELSE {}) :
             /\ client' = [node |-> n, connID |-> c, known |-> known, ws |-> "up"]
             /\ Mishap("unheard", known # c)
        /\ posted' = posted \cup {[node |-> n, connID |-> c, prev |-> client.known,
                                   obj |-> comebacks' + 2, found |-> FALSE]}
        /\ UNCHANGED <<us, sessions, row, rtcSession, inbox, hooks, rechecks, over>>

\* The leave message, handled at once; then the socket closes.
LeavesCall ==
    LET i == sessions[client.node][client.connID]
    IN  /\ client.ws = "up" /\ client' = [client EXCEPT !.ws = "down"] /\ Ends("left")
        /\ hooks' = hooks \cup {<<client.node, client.connID>>}
        /\ us' = IF i = 0 THEN us ELSE [us EXCEPT ![i].left = TRUE]
        /\ inbox' = Others(client.node, [type |-> "leave", connID |-> client.connID])
        /\ UNCHANGED <<sessions, row, rtcSession, posted, rechecks, comebacks, ids, mishaps>>

\* hostRemoveSession or UserHasLeftChannel on node n, when the client has not left by
\* itself. A participant without an RTC session is not affected.
Kick(n) ==
    /\ row /\ rtcSession = "on" /\ mishaps = {} /\ Ends("kicked")
    /\ CloseRTC(n, OriginalConnID)
    /\ UNCHANGED <<us, sessions, row, posted, hooks, rechecks, client, comebacks, ids, mishaps>>

\* The session of the user expires or is revoked.
Revoke ==
    /\ Ends("revoked")
    /\ UNCHANGED <<us, sessions, row, rtcSession, inbox, posted, hooks, rechecks, client, comebacks, ids, mishaps>>

\* The RTC server notices that the connection of the peer has failed.
RTCFails ==
    /\ rtcSession = "on" /\ rtcSession' = "closing" /\ Ends("failed")
    /\ UNCHANGED <<us, sessions, row, inbox, posted, hooks, rechecks, client, comebacks, ids, mishaps>>

---------------------------------------------------------------------------
Event(n) == ConnectEvent(n) \/ ReconnectEvent(n) \/ LeaveEvent(n) \/ DisconnectEvent(n)
Posted == HandleJoin \/ FindInState \/ HandleReconnect
Hook == (\E h \in hooks : Disconnected(h)) \/ (\E h \in rechecks : Recheck(h))
Goroutine(i) == ReaderReturns(i) \/ Returns(i) \/ Leaves(i)
RTC == RTCCallback \/ StartSessionReturns

ConnsNext ==
    \/ Posted \/ Hook \/ RTC \/ RTCFails
    \/ \E n \in Node : Event(n) \/ Kick(n) \/ \E keep \in BOOLEAN : ComesBack(n, keep)
    \/ \E i \in Object : Goroutine(i) \/ RemoveSession(i)
    \/ SocketCloses \/ GivesUp \/ LeavesCall \/ Revoke

ConnsSpec == ConnsInit /\ [][ConnsNext]_connsVars

\* The plugin's goroutines get on, its timers fire, and its hook is called. Nothing is
\* assumed of the participant or of what its RTC connection does.
ConnsFairSpec ==
    /\ ConnsSpec
    /\ WF_connsVars(Posted) /\ WF_connsVars(Hook) /\ WF_connsVars(RTC)
    /\ \A n \in Node : WF_connsVars(Event(n))
    /\ \A i \in Object : WF_connsVars(Goroutine(i)) /\ WF_connsVars(RemoveSession(i))

---------------------------------------------------------------------------
(* Properties *)

\* The fields of the sessions, the maps and the participant have their types.
ConnsTypeOK ==
    /\ \A i \in Object :
         /\ us[i].node \in Node /\ us[i].connID \in ConnID
         /\ us[i].pc \in {"none", "read", "wait", "rtc", "end"}
         /\ us[i].removed \in {"no", "waits", "yes"}
    /\ sessions \in [Node -> [ConnID -> Object \cup {0}]]
    /\ rtcSession \in {"none", "on", "closing", "closed"}
    /\ client \in [node : Node, connID : ConnID, known : ConnID, ws : {"up", "down"}]
    /\ over \in {"no", "gone", "left", "kicked", "revoked", "failed"}
    /\ row \in BOOLEAN /\ mishaps \subseteq {"unmade", "early", "refused", "unheard", "missed", "mistaken", "lost"}

\* All messages and hooks are handled.
Settled == posted = {} /\ hooks = {} /\ \A n \in Node : inbox[n] = <<>>

\* A participant who is back before the timeout is read from, and no session that it
\* had before waits for the timeout that would remove it.
ServedWhenBack ==
    /\ Settled /\ client.ws = "up" /\ over = "no" /\ mishaps = {} /\ rtcSession = "on"
    /\ \A i \in Object : us[i].removed = "no"
    => /\ LET i == sessions[client.node][client.connID]
          IN  i # 0 /\ us[i].pc = "read" /\ ~us[i].wsClosed
       /\ \A i \in Object : us[i].pc = "wait" => us[i].wsReconnected

\* The signals of the RTC server go to the connection that the participant has
\* (wsWriter), as long as it has not come back more than once.
SignalsArrive ==
    Settled /\ row /\ client.ws = "up" /\ rtcSession = "on" /\ comebacks <= 1
            /\ mishaps \subseteq {"unheard"}
        => {us[i].connID : i \in ByOriginalID(Handler)} = {client.connID}

\* Whose part in the call is over does not stay in it, except when what should have
\* ended it was used up on an object that had been replaced ("missed") or that nobody
\* acts on ("lost"): "Wait a few seconds for the client to end their session cleanly. If
\* they don't [...] then forcibly end it" (host_controls.go:244) is lost in that way, when
\* the host is on another node than a participant who joined at the handler.
OutIsRemoved == (row /\ over # "no") ~> (~row \/ mishaps \cap {"missed", "lost"} # {})

---------------------------------------------------------------------------
(* The inductive invariant *)

Session == [node : Node, connID : ConnID, rtc : BOOLEAN, wsClosed : BOOLEAN,
            wsReconnected : BOOLEAN, rtcClosed : BOOLEAN, left : BOOLEAN,
            removed : {"no", "waits", "yes"}, pc : {"none", "read", "wait", "rtc", "end"}]
Message == [type : {"connect", "leave", "disconnect"}, connID : ConnID]
    \cup [type : {"reconnect"}, connID : ConnID, newConnID : ConnID]
PostedMsg == [node : Node, connID : ConnID, prev : ConnID, obj : Object \ {Connected},
              found : BOOLEAN]

ConnsTyped ==
    /\ us \in [Object -> Session]
    /\ sessions \in [Node -> [ConnID -> Object \cup {0}]]
    /\ row \in BOOLEAN
    /\ rtcSession \in {"none", "on", "closing", "closed"}
    /\ inbox \in [Node -> Seq(Message)]
    /\ client \in [node : Node, connID : ConnID, known : ConnID, ws : {"up", "down"}]
    /\ posted \subseteq PostedMsg
    /\ hooks \subseteq Node \X ConnID /\ rechecks \subseteq Node \X ConnID
    /\ comebacks \in 0..MaxComebacks /\ ids \in 1..(comebacks + 1)
    /\ over \in {"no", "gone", "left", "kicked", "revoked", "failed"}
    /\ mishaps \subseteq {"unmade", "early", "refused", "unheard", "missed", "mistaken", "lost"}

Elements(q) == {q[k] : k \in 1..Len(q)}
ConnectsOnce(q) ==
    \A k, l \in 1..Len(q) : q[k].type = "connect" /\ q[l].type = "connect" => k = l

Arrives(n) == Elements(inbox[n])
JoinPosted == \E r \in posted : r.obj = Joined

\* An object is made once, by the message or event that it is for; the participant has the
\* ids that were given.
FreshKey ==
    /\ \A r, q \in posted : r.obj = q.obj => r = q
    /\ \A r \in posted : us[r.obj] = NoSession /\ r.obj <= comebacks + 2 /\ r.connID <= ids
    /\ \A i \in Object : i > comebacks + 2 \/ us[i].pc = "none" => us[i] = NoSession
    /\ us[Joined].pc = "none" => JoinPosted
    /\ JoinPosted => /\ ~row /\ rtcSession = "none" /\ us[Connected] = NoSession
                     /\ \A n \in Node, c \in ConnID : sessions[n][c] = 0
                     /\ \A n \in Node : \A m \in Arrives(n) : m.type # "connect"
    /\ \A r \in posted : r.obj = Joined => r.connID = OriginalConnID
    /\ \A r \in posted : r.found => us[Joined].pc # "none"
    /\ us[Connected].pc \in {"none", "rtc", "end"}
    /\ us[Connected].pc = "none" /\ rtcSession # "none" => us[Joined].node = Handler
    /\ client.connID <= ids
    /\ comebacks = 0 => client.connID = 1 /\ client.known = 1
    /\ comebacks = 0 => \A n \in Node : \A m \in Arrives(n) : m.type # "reconnect"

\* One connect message at most is sent, to the handler, which has no session then.
ConnectKey ==
    \A n \in Node :
        /\ ConnectsOnce(inbox[n])
        /\ \A m \in Arrives(n) : m.type = "connect" =>
            /\ n = Handler /\ m.connID = OriginalConnID
            /\ us[Connected] = NoSession /\ rtcSession = "none"
            /\ us[Joined].node # Handler /\ us[Joined].pc # "none"

\* The maps have an object on its node, by the connection id it was made for.
MapKey ==
    \A n \in Node, c \in ConnID : sessions[n][c] # 0 =>
        LET i == sessions[n][c]
        IN  /\ us[i].pc # "none" /\ us[i].node = n /\ c <= ids
            /\ ~us[i].wsReconnected => us[i].connID = c

\* The participant is in the call, nobody has begun to remove it, and nothing went wrong.
Quiet ==
    /\ over = "no" /\ mishaps = {} /\ rtcSession \in {"none", "on"}
    /\ \A i \in Object : us[i].removed = "no"

Current == IF comebacks = 0 THEN Joined ELSE comebacks + 2
Previous == IF comebacks <= 1 THEN Joined ELSE comebacks + 1

\* Its timeout would remove the participant.
Serves(i) == us[i].pc \in {"read", "wait"} /\ ~us[i].wsReconnected

\* Its node will be told that the participant has reconnected.
Replacing(i) ==
    \E m \in Arrives(us[i].node) : m.type = "reconnect" /\ m.connID = us[i].connID

\* What is under way for the participant: nothing but its last reconnection.
QuietMessages ==
    /\ \A i \in Object : ~us[i].rtcClosed /\ ~us[i].left
    /\ \A n \in Node : \A m \in Arrives(n) :
        /\ m.type \in {"connect", "reconnect"}
        /\ m.type = "reconnect" => n # client.node /\ us[Current].pc # "none"
    /\ client.ws = "up" => hooks = {}
    /\ client.known = client.connID
    /\ us[Joined].pc # "none" => row
    /\ JoinPosted => comebacks <= 1 /\ \A r \in posted : r.prev = OriginalConnID
    /\ us[Current].pc = "none" => \E r \in posted : r.obj = Current
    /\ \A r \in posted : r.obj \in {Joined, Current}
    /\ \A r \in posted : r.obj = Current =>
        /\ r.node = client.node /\ r.connID = client.connID
        /\ r.connID # r.prev =>
            r.connID # OriginalConnID /\ \A n \in Node : sessions[n][r.connID] = 0

\* The session of the last connection serves the participant; the one before does until
\* its node hears of the reconnection, and all others have been replaced.
QuietSessions ==
    /\ \A i \in Object : Serves(i) => sessions[us[i].node][us[i].connID] = i
    /\ us[Current].pc # "none" =>
        /\ Serves(Current)
        /\ us[Current].node = client.node /\ us[Current].connID = client.connID
        /\ us[Current].wsClosed => client.ws = "down"
        /\ us[Current].pc = "wait" => us[Current].wsClosed
        /\ \A i \in Object : Serves(i) => i = Current \/ Replacing(i)
    /\ us[Current].pc = "none" =>
        \A i \in Object : Serves(i) =>
            i = Previous /\ \A r \in posted : us[i].connID = r.prev

\* The RTC session is on and the participant has come back once at most.
Signalled ==
    /\ row /\ rtcSession = "on" /\ comebacks <= 1 /\ mishaps \subseteq {"unheard"}

RTCObject == IF us[Joined].node = Handler THEN Joined ELSE Connected

\* The handler's map has the object of the RTC session only.
HandlerHas(c, i) ==
    /\ us[i].node = Handler /\ us[i].pc # "none"
    /\ \A d \in ConnID : sessions[Handler][d] = IF d = c THEN i ELSE 0

FirstPosted ==
    comebacks <= 1 /\ mishaps \subseteq {"unheard"} =>
        /\ \A r \in posted : r.obj # Joined =>
            /\ comebacks = 1 /\ r.node = client.node /\ r.connID = client.connID
            /\ r.prev = OriginalConnID
        /\ us[Joined].pc = "none" /\ comebacks = 1 => \E r \in posted : r.obj # Joined
        /\ \A n \in Node : \A m \in Arrives(n) : m.type = "reconnect" =>
            /\ posted = {} /\ n # client.node
            /\ m.connID = OriginalConnID /\ m.newConnID = client.connID

SignalsKey ==
    Signalled =>
        IF posted # {} \/ comebacks = 0
        THEN /\ HandlerHas(OriginalConnID, RTCObject) /\ us[RTCObject].rtc
             /\ ~us[RTCObject].wsReconnected
        ELSE IF client.node = Handler
        THEN /\ HandlerHas(client.connID, comebacks + 2)
             /\ ~us[comebacks + 2].wsReconnected
        ELSE /\ HandlerHas(OriginalConnID, RTCObject) /\ us[RTCObject].rtc
             /\ \/ us[RTCObject].connID = client.connID
                \/ /\ ~us[RTCObject].wsReconnected
                   /\ \E m \in Arrives(Handler) : m.type = "reconnect"

ConnsIInv ==
    /\ ConnsTyped /\ FreshKey /\ ConnectKey /\ MapKey
    /\ Quiet => QuietMessages /\ QuietSessions
    /\ FirstPosted /\ SignalsKey
=============================================================================

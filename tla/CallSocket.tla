----------------------------- MODULE CallSocket -----------------------------
(***************************************************************************)
(* The websocket of a call (mattermost-plugin-calls/webapp/src,            *)
(* websocket.ts: WebSocketClient) with the handlers that the client of the *)
(* call gives it (client.ts: ws.on). The connection to the local backend   *)
(* of the desktop and the mouse events are left out.                       *)
(*                                                                         *)
(* The server (external) answers an open socket with a hello, which keeps  *)
(* the connection id or gives a new one. Time is the number of attempts:   *)
(* after MaxTries of them wsReconnectionTimeout has passed.                *)
(***************************************************************************)
EXTENDS Integers

CONSTANTS
    MaxTries,   \* attempts within wsReconnectionTimeout
    MaxConns    \* bound: connection ids

ASSUME CallSocketAssumption == MaxTries \in Nat \ {0} /\ MaxConns \in Nat \ {0}

Conn == 1..MaxConns     \* 0 is the empty id

VARIABLES
    socket,         \* the socket: "none", "connecting" or "open"
    isReconnect, hello,     \* of the socket: how init was called, whether it got a hello
    connID, originalConnID,
    conns,      \* number of ids given
    timer,      \* reconnect has a timeout pending
    tries,      \* attempts since lastDisconnect, 0 when that is 0
    wsClosed,   \* closed
    pingInterval, waitingForPong,
    joinSent    \* the client sent join

socketVars == <<socket, isReconnect, hello, connID, originalConnID, conns, timer, tries, wsClosed,
                pingInterval, waitingForPong, joinSent>>
ids == <<connID, originalConnID, conns>>
pings == <<pingInterval, waitingForPong>>

SocketInit ==
    /\ socket = "connecting" /\ isReconnect = FALSE /\ hello = FALSE
    /\ connID = 0 /\ originalConnID = 0 /\ conns = 0
    /\ timer = FALSE /\ tries = 0 /\ wsClosed = FALSE
    /\ pingInterval = FALSE /\ waitingForPong = FALSE /\ joinSent = FALSE

---------------------------------------------------------------------------
\* Mutants of CloseHandler: one attempt too many; no timeout.
CloseHandlerLate ==
    /\ socket' = "none" /\ pingInterval' = FALSE
    /\ waitingForPong' = (waitingForPong /\ ~pingInterval)
    /\ \/ tries <= MaxTries /\ tries' = tries + 1 /\ timer' = TRUE /\ UNCHANGED wsClosed
       \/ tries > 0 /\ wsClosed' = TRUE /\ UNCHANGED <<tries, timer>>
    /\ UNCHANGED <<isReconnect, hello, ids, joinSent>>

CloseHandlerIdle ==
    /\ socket' = "none" /\ pingInterval' = FALSE
    /\ waitingForPong' = (waitingForPong /\ ~pingInterval)
    /\ UNCHANGED <<isReconnect, hello, ids, joinSent, wsClosed, tries, timer>>

\* closeHandler and reconnect: the client gives up when the time is over.
CloseHandler ==
    /\ socket' = "none" /\ pingInterval' = FALSE
    /\ waitingForPong' = (waitingForPong /\ ~pingInterval)
    /\ \/ tries < MaxTries /\ tries' = tries + 1 /\ timer' = TRUE /\ UNCHANGED wsClosed
       \/ tries > 0 /\ wsClosed' = TRUE /\ UNCHANGED <<tries, timer>>
    /\ UNCHANGED <<isReconnect, hello, ids, joinSent>>

\* onclose
SocketFails == socket # "none" /\ CloseHandler

\* onopen: a reconnection is announced at once, with the ids that are known.
SocketOpens ==
    /\ socket = "connecting" /\ socket' = "open"
    /\ tries' = IF isReconnect THEN 0 ELSE tries
    /\ pingInterval' = TRUE /\ waitingForPong' = TRUE
    /\ UNCHANGED <<isReconnect, hello, ids, timer, wsClosed, joinSent>>

\* onmessage: the first connection of the client joins the call.
Hello(c) ==
    /\ socket = "open" /\ ~hello /\ hello' = TRUE
    /\ c \in Conn /\ (c = connID \/ c = conns + 1)
    /\ connID' = c /\ conns' = IF c = connID THEN conns ELSE c
    /\ originalConnID' = IF c # connID /\ originalConnID = 0 THEN c ELSE originalConnID
    /\ joinSent' = (joinSent \/ ~isReconnect)
    /\ UNCHANGED <<socket, isReconnect, timer, tries, wsClosed, pings>>

RetryTimeout ==
    /\ timer /\ timer' = FALSE
    /\ IF wsClosed THEN UNCHANGED <<socket, isReconnect, hello>>
       ELSE socket' = "connecting" /\ isReconnect' = TRUE /\ hello' = FALSE
    /\ UNCHANGED <<ids, tries, wsClosed, pings, joinSent>>

\* Mutant of PingTimeout: the socket is kept.
PingTimeoutKeeps ==
    /\ socket = "open" /\ pingInterval /\ waitingForPong
    /\ tries < MaxTries /\ tries' = tries + 1 /\ timer' = TRUE
    /\ UNCHANGED <<socket, isReconnect, hello, ids, wsClosed, pings, joinSent>>

\* The interval of startPingInterval: without a pong the socket counts as closed.
PingTimeout ==
    /\ socket = "open" /\ pingInterval /\ waitingForPong /\ CloseHandler
Ping ==
    /\ socket = "open" /\ pingInterval /\ ~waitingForPong /\ waitingForPong' = TRUE
    /\ UNCHANGED <<socket, isReconnect, hello, ids, timer, tries, wsClosed, pingInterval, joinSent>>
Pong ==
    /\ socket = "open" /\ waitingForPong /\ waitingForPong' = FALSE
    /\ UNCHANGED <<socket, isReconnect, hello, ids, timer, tries, wsClosed, pingInterval, joinSent>>

\* close, which the client calls when it disconnects
Close ==
    /\ ~wsClosed /\ wsClosed' = TRUE /\ socket' = "none"
    /\ pingInterval' = FALSE /\ waitingForPong' = (waitingForPong /\ ~pingInterval)
    /\ connID' = 0 /\ originalConnID' = 0
    /\ UNCHANGED <<isReconnect, hello, conns, timer, tries, joinSent>>

SocketNext ==
    \/ SocketFails \/ SocketOpens \/ RetryTimeout \/ PingTimeout \/ Ping \/ Pong \/ Close
    \/ \E c \in Conn : Hello(c)

\* An attempt to connect ends and a timeout is delivered.
Connected == SocketOpens \/ (SocketFails /\ socket = "connecting")
SocketFairness == WF_socketVars(Connected \/ RetryTimeout)

SocketSpec == SocketInit /\ [][SocketNext]_socketVars /\ SocketFairness

---------------------------------------------------------------------------
(* Properties *)

\* The fields of the client have their types.
SocketTypeOK ==
    /\ socket \in {"none", "connecting", "open"} /\ tries \in 0..MaxTries
    /\ connID \in Conn \cup {0} /\ originalConnID \in Conn \cup {0} /\ conns \in 0..MaxConns
    /\ {isReconnect, hello, timer, wsClosed, pingInterval, waitingForPong, joinSent} \subseteq BOOLEAN

\* A client that is not closed has a socket or a timeout that makes one, and never both:
\* the timeout of a ping and the close of its socket do not reconnect twice.
OneAttempt == ~wsClosed => ((socket = "none") <=> timer)

\* A connection that is lost, or cannot be made, is open again or given up (reconnect).
SocketSettles == (socket = "none") ~> (socket = "open" \/ wsClosed)
=============================================================================

---------------------------- MODULE ClientsProofs ----------------------------
(* Proofs about the websocket of a call (CallSocket), and about all that   *)
(* MCClients composes: the store, the websocket and the file manager.      *)
EXTENDS MCClients, CallStoreProofs, JsonFileProofs, TLAPS

---------------------------------------------------------------------------
(* The websocket *)

LEMMA SocketStep ==
  ASSUME OneAttempt, [SocketNext]_socketVars
  PROVE  OneAttempt'
<1> USE DEF OneAttempt
<1>1. CASE SocketFails
  BY <1>1 DEF SocketFails, CloseHandler
<1>2. CASE SocketOpens
  BY <1>2 DEF SocketOpens
<1>3. CASE RetryTimeout
  BY <1>3 DEF RetryTimeout
<1>4. CASE PingTimeout
  BY <1>4 DEF PingTimeout, CloseHandler
<1>5. CASE Ping
  BY <1>5 DEF Ping
<1>6. CASE Pong
  BY <1>6 DEF Pong
<1>7. CASE Close
  BY <1>7 DEF Close
<1>8. ASSUME NEW c \in Conn, Hello(c)
      PROVE  OneAttempt'
  BY <1>8 DEF Hello
<1>9. CASE UNCHANGED socketVars
  BY <1>9 DEF socketVars
<1> QED
  BY <1>1, <1>2, <1>3, <1>4, <1>5, <1>6, <1>7, <1>8, <1>9 DEF SocketNext

\* A client that is not closed has a socket or a pending timeout that makes one, and never
\* both, whatever order pings time out, sockets close and timeouts fire in
\* (closeHandler, reconnect, startPingInterval).
THEOREM OneAttemptAlways ==
  SocketSpec => []OneAttempt
<1>1. SocketInit => OneAttempt
  BY DEF SocketInit, OneAttempt
<1>2. OneAttempt /\ [SocketNext]_socketVars => OneAttempt'
  BY SocketStep
<1> QED
  BY <1>1, <1>2, PTL DEF SocketSpec

---------------------------------------------------------------------------
(* The types of the websocket *)

Counters ==
    /\ socket \in {"none", "connecting", "open"} /\ tries \in 0..MaxTries
    /\ connID \in 0..MaxConns /\ originalConnID \in 0..MaxConns /\ conns \in 0..MaxConns
Bits ==
    /\ isReconnect \in BOOLEAN /\ hello \in BOOLEAN /\ timer \in BOOLEAN /\ wsClosed \in BOOLEAN
    /\ pingInterval \in BOOLEAN /\ waitingForPong \in BOOLEAN /\ joinSent \in BOOLEAN
SocketTyped == Counters /\ Bits

LEMMA SocketTypedStep ==
  ASSUME SocketTyped, [SocketNext]_socketVars
  PROVE  SocketTyped'
<1>1. Counters /\ Bits
  BY DEF SocketTyped
<1>2. ASSUME CloseHandler
      PROVE  SocketTyped'
  <2>1. Counters'
    BY <1>1, <1>2, CallSocketAssumption DEF Counters, CloseHandler, ids
  <2>2. Bits'
    BY <1>1, <1>2, Zenon DEF Bits, CloseHandler
  <2> QED
    BY <2>1, <2>2 DEF SocketTyped
<1>3. CASE SocketOpens
  <2>1. Counters'
    BY <1>1, <1>3, CallSocketAssumption DEF Counters, SocketOpens, ids
  <2>2. Bits'
    BY <1>1, <1>3, Zenon DEF Bits, SocketOpens
  <2> QED
    BY <2>1, <2>2 DEF SocketTyped
<1>4. CASE RetryTimeout
  <2>1. Counters'
    BY <1>1, <1>4 DEF Counters, RetryTimeout, ids
  <2>2. Bits'
    BY <1>1, <1>4, Zenon DEF Bits, RetryTimeout, pings
  <2> QED
    BY <2>1, <2>2 DEF SocketTyped
<1>5. CASE Ping \/ Pong
  <2>1. Counters'
    BY <1>1, <1>5 DEF Counters, Ping, Pong, ids
  <2>2. Bits'
    BY <1>1, <1>5, Zenon DEF Bits, Ping, Pong
  <2> QED
    BY <2>1, <2>2 DEF SocketTyped
<1>6. CASE Close
  <2>1. Counters'
    BY <1>1, <1>6, CallSocketAssumption DEF Counters, Close
  <2>2. Bits'
    BY <1>1, <1>6, Zenon DEF Bits, Close
  <2> QED
    BY <2>1, <2>2 DEF SocketTyped
<1>7. ASSUME NEW c \in Conn, Hello(c)
      PROVE  SocketTyped'
  <2>1. /\ connID' = c /\ conns' \in {conns, c} /\ originalConnID' \in {originalConnID, c}
        /\ UNCHANGED <<socket, tries>>
    BY <1>7 DEF Hello
  <2>2. c \in 0..MaxConns
    BY CallSocketAssumption DEF Conn
  <2>3. Counters'
    BY <1>1, <2>1, <2>2 DEF Counters
  <2>4. Bits'
    BY <1>1, <1>7, Zenon DEF Bits, Hello, pings
  <2> QED
    BY <2>3, <2>4 DEF SocketTyped
<1>8. CASE UNCHANGED socketVars
  BY <1>1, <1>8 DEF socketVars, SocketTyped, Counters, Bits
<1> QED
  BY <1>2, <1>3, <1>4, <1>5, <1>6, <1>7, <1>8 DEF SocketNext, SocketFails, PingTimeout

LEMMA SocketTypedInit == SocketInit => SocketTyped
<1>1. SocketInit => Counters
  BY CallSocketAssumption DEF SocketInit, Counters
<1>2. SocketInit => Bits
  BY Zenon DEF SocketInit, Bits
<1> QED
  BY <1>1, <1>2 DEF SocketTyped

LEMMA SocketTypedIs == SocketTyped => SocketTypeOK
BY CallSocketAssumption DEF SocketTyped, Counters, Bits, SocketTypeOK, Conn

\* The fields of the websocket keep their types, however it fails (websocket.ts).
THEOREM SocketTypedAlways == SocketSpec => []SocketTypeOK
<1>1. SocketTyped /\ [SocketNext]_socketVars => SocketTyped'
  BY SocketTypedStep
<1> QED
  BY <1>1, SocketTypedInit, SocketTypedIs, PTL DEF SocketSpec

---------------------------------------------------------------------------
(* The clients together *)

\* Each part is one that runs or one that stays as it is.
LEMMA ClientsStep ==
  ASSUME [ClientsNext]_clientVars
  PROVE  [StoreNext]_storeVars /\ [SocketNext]_socketVars /\ [JsonNext]_jsonVars
BY DEF ClientsNext, clientVars

LEMMA ClientsParts == ClientsSpec => StoreSpec /\ JsonSpec /\ SocketInit /\ [][SocketNext]_socketVars
<1>1. ClientsInit => StoreInit /\ JsonInit /\ SocketInit
  BY DEF ClientsInit
<1>2. [ClientsNext]_clientVars => [StoreNext]_storeVars /\ [SocketNext]_socketVars /\ [JsonNext]_jsonVars
  BY ClientsStep
<1> QED
  BY <1>1, <1>2, PTL DEF ClientsSpec, StoreSpec, JsonSpec

\* Every variable of the parts keeps its type, also while another part runs.
THEOREM ClientsTyped == ClientsSpec => []TypeOK
<1>1. StoreSpec => []StoreTypeOK
  BY StoreTyped
<1>2. JsonSpec => []JsonTypeOK
  BY JsonFileTyping
<1>3. SocketInit /\ [][SocketNext]_socketVars => []SocketTypeOK
  <2>1. SocketTyped /\ [SocketNext]_socketVars => SocketTyped'
    BY SocketTypedStep
  <2> QED
    BY <2>1, SocketTypedInit, SocketTypedIs, PTL
<1>4. StoreTypeOK /\ SocketTypeOK /\ JsonTypeOK => TypeOK
  BY DEF TypeOK
<1> QED
  BY <1>1, <1>2, <1>3, <1>4, ClientsParts, PTL
=============================================================================

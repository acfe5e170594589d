----------------------- MODULE CallConnectionsProofs -----------------------
(***************************************************************************)
(* Proofs about the websocket connections of a participant, for every set  *)
(* of nodes and every number of reconnections.                             *)
(***************************************************************************)
EXTENDS CallConnections, SequenceTheorems, TLAPS

---------------------------------------------------------------------------
(* Messages *)

LEMMA Appended ==
  ASSUME NEW q \in Seq(Message), NEW m \in Message
  PROVE  /\ Append(q, m) \in Seq(Message)
         /\ Elements(Append(q, m)) = Elements(q) \cup {m}
         /\ ConnectsOnce(q) /\ (m.type = "connect" => \A e \in Elements(q) : e.type # "connect")
              => ConnectsOnce(Append(q, m))
<1> DEFINE p == Append(q, m)
<1>1. /\ p \in Seq(Message) /\ Len(p) = Len(q) + 1 /\ Len(q) \in Nat
      /\ p[Len(q) + 1] = m /\ \A k \in 1..Len(q) : p[k] = q[k]
  OBVIOUS
<1> HIDE DEF p
<1>2. Elements(p) = Elements(q) \cup {m}
  BY <1>1 DEF Elements
<1>3. ASSUME ConnectsOnce(q), m.type = "connect" => \A e \in Elements(q) : e.type # "connect"
      PROVE  ConnectsOnce(p)
  BY <1>1, <1>3 DEF ConnectsOnce, Elements
<1> QED
  BY <1>1, <1>2, <1>3 DEF p

LEMMA Taken ==
  ASSUME NEW q \in Seq(Message), q # <<>>
  PROVE  /\ Tail(q) \in Seq(Message) /\ Head(q) \in Message
         /\ Elements(q) = Elements(Tail(q)) \cup {Head(q)}
         /\ ConnectsOnce(q) => ConnectsOnce(Tail(q))
         /\ ConnectsOnce(q) /\ Head(q).type = "connect" =>
              \A e \in Elements(Tail(q)) : e.type # "connect"
<1> DEFINE p == Tail(q)
<1>1. /\ p \in Seq(Message) /\ Len(p) = Len(q) - 1 /\ Len(q) \in Nat \ {0}
      /\ Head(q) = q[1] /\ \A k \in 1..Len(p) : p[k] = q[k + 1]
  OBVIOUS
<1> HIDE DEF p
<1>2. Head(q) \in Message
  BY <1>1
<1>3. \A k \in 2..Len(q) : k - 1 \in 1..Len(p) /\ q[k] = p[k - 1]
  BY <1>1
<1>4. Elements(q) = Elements(p) \cup {Head(q)}
  <2>1. Elements(q) \subseteq Elements(p) \cup {Head(q)}
    BY <1>1, <1>3 DEF Elements
  <2>2. Elements(p) \subseteq Elements(q) /\ Head(q) \in Elements(q)
    BY <1>1 DEF Elements
  <2> QED
    BY <2>1, <2>2
<1>5. ASSUME ConnectsOnce(q) PROVE ConnectsOnce(p)
  <2> SUFFICES ASSUME NEW k \in 1..Len(p), NEW l \in 1..Len(p),
                      p[k].type = "connect", p[l].type = "connect"
               PROVE  k = l
    BY DEF ConnectsOnce
  <2>0. k + 1 \in 1..Len(q) /\ l + 1 \in 1..Len(q) /\ q[k + 1] = p[k] /\ q[l + 1] = p[l]
    BY <1>1
  <2>1. k + 1 = l + 1
    BY <1>5, <2>0 DEF ConnectsOnce
  <2> QED
    BY <1>1, <2>1
<1>6. ASSUME ConnectsOnce(q), Head(q).type = "connect", NEW e \in Elements(p)
      PROVE  e.type # "connect"
  <2>1. PICK k \in 1..Len(p) : e = p[k]
    BY DEF Elements
  <2>2. e.type = "connect" => k + 1 = 1
    BY <1>1, <1>6, <2>1 DEF ConnectsOnce
  <2> QED
    BY <1>1, <2>2
<1> QED
  BY <1>1, <1>2, <1>4, <1>5, <1>6 DEF p

LEMMA NothingElements == Elements(<<>>) = {} /\ ConnectsOnce(<<>>)
  BY DEF Elements, ConnectsOnce

---------------------------------------------------------------------------
(* Steps that make no object and handle no connect or reconnect message *)

SmallObjects ==
    /\ \A j \in Object :
        /\ us'[j].node = us[j].node /\ us'[j].connID = us[j].connID /\ us'[j].rtc = us[j].rtc
        /\ us'[j].wsReconnected = us[j].wsReconnected
        /\ us[j].pc = "none" => us'[j] = us[j]
        /\ us'[j].pc = "none" => us[j].pc = "none"
        /\ us'[j].removed = "no" => us[j].removed = "no"
    /\ us'[Connected].pc \in {"none", "rtc", "end"}

SmallInbox ==
    \A n \in Node :
        /\ ConnectsOnce(inbox[n]) => ConnectsOnce(inbox'[n])
        /\ \A m \in Elements(inbox'[n]) : m \in Elements(inbox[n]) \/ m.type \in {"leave", "disconnect"}
        /\ \A m \in Elements(inbox[n]) :
            m.type = "reconnect" => m \in Elements(inbox'[n])

SmallRTC ==
    \/ UNCHANGED rtcSession
    \/ rtcSession \in {"on", "closing"} /\ rtcSession' \in {"closing", "closed"}

SmallStep ==
    /\ SmallObjects /\ SmallInbox /\ SmallRTC
    /\ UNCHANGED <<posted, comebacks, ids>>
    /\ client'.node = client.node /\ client'.connID = client.connID /\ client'.known = client.known
    /\ \A n \in Node, c \in ConnID : sessions'[n][c] \in {sessions[n][c], 0}
    /\ Signalled' => \A c \in ConnID : sessions'[Handler][c] = sessions[Handler][c]
    /\ row' => row
    /\ mishaps \subseteq mishaps'
    /\ over' = "no" => over = "no"

LEMMA SmallQuiet ==
  ASSUME ConnsIInv, SmallStep, ConnsTyped', Quiet'
  PROVE  Quiet
  BY DEF SmallStep, SmallObjects, SmallRTC, Quiet

LEMMA SmallKeys ==
  ASSUME ConnsIInv, SmallStep, ConnsTyped'
  PROVE  FreshKey' /\ ConnectKey' /\ MapKey' /\ FirstPosted' /\ SignalsKey'
<1> USE ConnectionsAssumption DEF ConnectionsAssumption
<1>1. Joined \in Object /\ Connected \in Object /\ Handler \in Node /\ OriginalConnID \in ConnID
  BY DEF Joined, Connected, Object, OriginalConnID, ConnID
<1>2. /\ us \in [Object -> Session] /\ sessions \in [Node -> [ConnID -> Object \cup {0}]]
      /\ posted \subseteq PostedMsg /\ comebacks \in Nat
  BY DEF ConnsIInv, ConnsTyped
<1>3. \A r \in posted : r.obj \in Object
  BY <1>2 DEF PostedMsg
<1>4. FreshKey'
  <2>1. JoinPosted' = JoinPosted
    BY DEF SmallStep, JoinPosted
  <2>2. \A i \in Object : us[i] = NoSession => us'[i] = NoSession
    BY DEF SmallStep, SmallObjects, NoSession, NewSession
  <2>3. \A r \in posted : us'[r.obj] = NoSession /\ r.obj <= comebacks + 2 /\ r.connID <= ids
    BY <1>3, <2>2 DEF ConnsIInv, FreshKey
  <2>4. \A i \in Object : i > comebacks + 2 \/ us'[i].pc = "none" => us'[i] = NoSession
    BY <2>2 DEF ConnsIInv, FreshKey, SmallStep, SmallObjects
  <2>5. us'[Joined].pc = "none" => JoinPosted
    BY <1>1 DEF ConnsIInv, FreshKey, SmallStep, SmallObjects
  <2>6. JoinPosted => /\ ~row' /\ rtcSession' = "none" /\ us'[Connected] = NoSession
                      /\ \A n \in Node, c \in ConnID : sessions'[n][c] = 0
                      /\ \A n \in Node : \A m \in Elements(inbox'[n]) : m.type # "connect"
    BY <1>1, <2>2 DEF ConnsIInv, FreshKey, SmallStep, SmallRTC, SmallInbox, Arrives
  <2>7. /\ us'[Connected].pc \in {"none", "rtc", "end"}
        /\ us'[Connected].pc = "none" /\ rtcSession' # "none" => us'[Joined].node = Handler
    BY <1>1 DEF ConnsIInv, FreshKey, SmallStep, SmallRTC, SmallObjects
  <2>8. /\ client'.connID <= ids
        /\ comebacks = 0 => client'.connID = 1 /\ client'.known = 1
        /\ comebacks = 0 => \A n \in Node : \A m \in Elements(inbox'[n]) : m.type # "reconnect"
    BY DEF ConnsIInv, FreshKey, SmallStep, SmallInbox, Arrives
  <2>9. UNCHANGED <<posted, comebacks, ids>>
    BY DEF SmallStep
  <2>10. /\ \A r, q \in posted : r.obj = q.obj => r = q
         /\ \A r \in posted : r.obj = Joined => r.connID = OriginalConnID
        /\ \A r \in posted : r.found => us'[Joined].pc # "none"
    BY <1>1 DEF ConnsIInv, FreshKey, SmallStep, SmallObjects
  <2> QED
    BY <2>1, <2>3, <2>4, <2>5, <2>6, <2>7, <2>8, <2>9, <2>10 DEF FreshKey, Arrives
<1>5. ConnectKey'
  <2> SUFFICES ASSUME NEW n \in Node
               PROVE  /\ ConnectsOnce(inbox'[n])
                      /\ \A m \in Elements(inbox'[n]) : m.type = "connect" =>
                            /\ n = Handler /\ m.connID = OriginalConnID
                            /\ us'[Connected] = NoSession /\ rtcSession' = "none"
                            /\ us'[Joined].node # Handler /\ us'[Joined].pc # "none"
    BY DEF ConnectKey, Arrives
  <2>1. ConnectsOnce(inbox'[n])
    BY DEF ConnsIInv, ConnectKey, SmallStep, SmallInbox
  <2>2. ASSUME NEW m \in Elements(inbox'[n]), m.type = "connect"
        PROVE  /\ n = Handler /\ m.connID = OriginalConnID
               /\ us'[Connected] = NoSession /\ rtcSession' = "none"
               /\ us'[Joined].node # Handler /\ us'[Joined].pc # "none"
    <3>1. m \in Arrives(n)
      BY <2>2 DEF SmallStep, SmallInbox, Arrives
    <3>2. /\ n = Handler /\ m.connID = OriginalConnID
          /\ us[Connected] = NoSession /\ rtcSession = "none"
          /\ us[Joined].node # Handler /\ us[Joined].pc # "none"
      BY <2>2, <3>1 DEF ConnsIInv, ConnectKey
    <3>3. us[Connected].pc = "none"
      BY <3>2 DEF NoSession, NewSession
    <3> QED
      BY <1>1, <3>2, <3>3 DEF SmallStep, SmallObjects, SmallRTC
  <2> QED
    BY <2>1, <2>2
<1>6. MapKey'
  <2> SUFFICES ASSUME NEW n \in Node, NEW c \in ConnID, sessions'[n][c] # 0
               PROVE  LET i == sessions'[n][c]
                      IN  /\ us'[i].pc # "none" /\ us'[i].node = n /\ c <= ids'
                          /\ ~us'[i].wsReconnected => us'[i].connID = c
    BY DEF MapKey
  <2>1. sessions'[n][c] = sessions[n][c]
    BY DEF SmallStep
  <2>2. sessions[n][c] \in Object
    BY <1>2, <2>1
  <2> QED
    BY <2>1, <2>2 DEF ConnsIInv, MapKey, SmallStep, SmallObjects
<1>7. FirstPosted'
  <2> SUFFICES ASSUME comebacks <= 1 /\ mishaps' \subseteq {"unheard"}
               PROVE  FirstPosted'
    BY DEF SmallStep, FirstPosted
  <2>1. mishaps \subseteq {"unheard"}
    BY DEF SmallStep
  <2>2. us'[Joined].pc = "none" <=> us[Joined].pc = "none"
    BY <1>1 DEF SmallStep, SmallObjects
  <2> QED
    BY <2>1, <2>2 DEF ConnsIInv, FirstPosted, SmallStep, SmallInbox, Arrives
<1>8. SignalsKey'
  <2> SUFFICES ASSUME Signalled' PROVE SignalsKey'
    BY DEF SignalsKey
  <2>1. Signalled
    BY DEF Signalled, SmallStep, SmallRTC
  <2>2. RTCObject' = RTCObject /\ RTCObject \in Object
    BY <1>1 DEF RTCObject, SmallStep, SmallObjects
  <2>3. /\ UNCHANGED <<posted, comebacks>> /\ client'.node = client.node
        /\ client'.connID = client.connID
    BY DEF SmallStep
  <2>4. ASSUME NEW c \in ConnID, NEW i \in Object, HandlerHas(c, i)
        PROVE  /\ us'[i].node = Handler /\ us'[i].pc # "none"
               /\ \A d \in ConnID : sessions'[Handler][d] = IF d = c THEN i ELSE 0
    BY <2>4 DEF HandlerHas, SmallStep, SmallObjects
  <2>5. ~JoinPosted
    BY <2>1 DEF Signalled, ConnsIInv, FreshKey
  <2>6. comebacks + 2 \in Object /\ client.connID \in ConnID
    BY <1>2 DEF Object, ConnsIInv, ConnsTyped
  <2>7. CASE posted # {} \/ comebacks = 0
    BY <1>1, <2>1, <2>2, <2>3, <2>4, <2>7 DEF ConnsIInv, SignalsKey, SmallStep, SmallObjects, HandlerHas
  <2>8. CASE ~(posted # {} \/ comebacks = 0) /\ client.node = Handler
    BY <1>1, <2>1, <2>2, <2>3, <2>4, <2>6, <2>8 DEF ConnsIInv, SignalsKey, SmallStep, SmallObjects, HandlerHas
  <2>9. CASE ~(posted # {} \/ comebacks = 0) /\ client.node # Handler
    <3>1. /\ HandlerHas(OriginalConnID, RTCObject) /\ us[RTCObject].rtc
          /\ \/ us[RTCObject].connID = client.connID
             \/ /\ ~us[RTCObject].wsReconnected
                /\ \E m \in Arrives(Handler) : m.type = "reconnect"
      BY <2>1, <2>9 DEF ConnsIInv, SignalsKey
    <3>2. (\E m \in Arrives(Handler) : m.type = "reconnect")
             => \E m \in Elements(inbox'[Handler]) : m.type = "reconnect"
      BY <1>1 DEF SmallStep, SmallInbox, Arrives
    <3> QED
      BY <1>1, <2>2, <2>3, <2>4, <2>9, <3>1, <3>2
         DEF SignalsKey, SmallStep, SmallObjects, HandlerHas, Arrives
  <2> QED
    BY <2>7, <2>8, <2>9
<1> QED
  BY <1>4, <1>5, <1>6, <1>7, <1>8

\* One of them keeps a quiet participant served, if it leaves alone what serves it.
LEMMA SmallQuietKeys ==
  ASSUME ConnsIInv, SmallStep, ConnsTyped', Quiet',
         UNCHANGED row, UNCHANGED inbox \/ \A n \in Node : Arrives(n)' \subseteq Arrives(n),
         \A j \in Object :
            /\ us'[j].rtcClosed = us[j].rtcClosed /\ us'[j].left = us[j].left
            /\ us'[j].pc \in {"read", "wait"} => us[j].pc \in {"read", "wait"}
            /\ Serves(j) => sessions'[us[j].node][us[j].connID] = j,
         client'.ws = "up" => client.ws = "up" /\ hooks' \subseteq hooks,
         Serves(Current) => /\ us'[Current].pc \in {"read", "wait"}
                            /\ us'[Current].wsClosed => client'.ws = "down"
                            /\ us'[Current].pc = "wait" => us'[Current].wsClosed
  PROVE  QuietMessages' /\ QuietSessions'
<1> USE ConnectionsAssumption DEF ConnectionsAssumption
<1>1. Quiet /\ QuietMessages /\ QuietSessions
  BY SmallQuiet DEF ConnsIInv
<1>2. PICK cur \in Object, prev \in Object : cur = Current /\ prev = Previous
  BY DEF Current, Previous, Joined, Object, ConnsIInv, ConnsTyped
<1>3. Current' = cur /\ Previous' = prev
  BY <1>2 DEF SmallStep, Current, Previous
<1>4. /\ UNCHANGED <<posted, comebacks, ids>>
      /\ client'.node = client.node /\ client'.connID = client.connID /\ client'.known = client.known
  BY DEF SmallStep
<1>5. Joined \in Object
  BY DEF Joined, Object, ConnsIInv, ConnsTyped
<1>6. \A j \in Object : us'[j].pc = "none" <=> us[j].pc = "none"
  BY DEF SmallStep, SmallObjects
<1>7. \A n \in Node : /\ Arrives(n)' \subseteq Arrives(n)
                      /\ \A m \in Arrives(n) : m.type = "reconnect" => m \in Arrives(n)'
  BY DEF Arrives, SmallStep, SmallInbox
<1>8. QuietMessages'
  <2>1. \A i \in Object : ~us'[i].rtcClosed /\ ~us'[i].left
    BY <1>1 DEF QuietMessages
  <2>2. \A n \in Node : \A m \in Arrives(n)' :
          /\ m.type \in {"connect", "reconnect"}
          /\ m.type = "reconnect" => n # client'.node /\ us'[cur].pc # "none"
    BY <1>1, <1>2, <1>4, <1>6, <1>7 DEF QuietMessages
  <2>3. client'.ws = "up" => hooks' = {}
    BY <1>1 DEF QuietMessages
  <2>4. /\ client'.known = client'.connID
        /\ us'[Joined].pc # "none" => row'
        /\ us'[cur].pc = "none" => \E r \in posted : r.obj = cur
        /\ \A r \in posted : r.obj \in {Joined, cur}
        /\ JoinPosted => comebacks <= 1 /\ \A r \in posted : r.prev = OriginalConnID
    BY <1>1, <1>2, <1>4, <1>5, <1>6 DEF QuietMessages
  <2>5. \A r \in posted : r.obj = cur =>
          /\ r.node = client'.node /\ r.connID = client'.connID
          /\ r.connID # r.prev =>
              r.connID # OriginalConnID /\ \A n \in Node : sessions'[n][r.connID] = 0
    <3>1. \A r \in posted : r.connID \in ConnID
      BY DEF ConnsIInv, ConnsTyped, PostedMsg
    <3> QED
      BY <1>1, <1>2, <1>4, <1>5, <1>6, <3>1 DEF QuietMessages, SmallStep
  <2>6. JoinPosted' = JoinPosted
    BY <1>4 DEF JoinPosted
  <2> QED
    BY <1>3, <1>4, <2>1, <2>2, <2>3, <2>4, <2>5, <2>6 DEF QuietMessages
<1>9. QuietSessions'
  <2>1. ASSUME NEW j \in Object
        PROVE  /\ us'[j].node = us[j].node /\ us'[j].connID = us[j].connID
               /\ us'[j].wsReconnected = us[j].wsReconnected
               /\ Serves(j)' => Serves(j)
    BY DEF SmallStep, SmallObjects, Serves
  <2>2. \A i \in Object : Serves(i)' => sessions'[us'[i].node][us'[i].connID] = i
    BY <2>1
  <2>3. Serves(cur) => Serves(cur)'
    BY <1>2, <2>1 DEF Serves
  <2>4. us'[cur].pc # "none" =>
          /\ Serves(cur)'
          /\ us'[cur].node = client'.node /\ us'[cur].connID = client'.connID
          /\ us'[cur].wsClosed => client'.ws = "down"
          /\ us'[cur].pc = "wait" => us'[cur].wsClosed
          /\ \A i \in Object : Serves(i)' => i = cur \/ Replacing(i)'
    <3>1. \A i \in Object : Replacing(i) => Replacing(i)'
      <4> SUFFICES ASSUME NEW i \in Object, Replacing(i) PROVE Replacing(i)'
        OBVIOUS
      <4>1. PICK m \in Arrives(us[i].node) : m.type = "reconnect" /\ m.connID = us[i].connID
        BY DEF Replacing
      <4>2. us[i].node \in Node
        BY DEF ConnsIInv, ConnsTyped, Session
      <4>3. m \in Elements(inbox'[us[i].node])
        BY <1>7, <4>1, <4>2 DEF Arrives
      <4> QED
        BY <2>1, <4>1, <4>3 DEF Replacing, Arrives
    <3> QED
      BY <1>1, <1>2, <1>4, <1>6, <2>1, <2>3, <3>1 DEF QuietSessions
  <2>5. us'[cur].pc = "none" =>
          \A i \in Object : Serves(i)' => i = prev /\ \A r \in posted : us'[i].connID = r.prev
    BY <1>1, <1>2, <1>6, <2>1 DEF QuietSessions
  <2> QED
    BY <1>3, <1>4, <2>2, <2>4, <2>5 DEF QuietSessions, Serves
<1> QED
  BY <1>8, <1>9

\* One object changes in its flags or goes on.
LEMMA ObjectChanges ==
  ASSUME ConnsIInv, NEW i \in Object, NEW s \in Session, us' = [us EXCEPT ![i] = s],
         s.node = us[i].node, s.connID = us[i].connID, s.rtc = us[i].rtc,
         s.wsReconnected = us[i].wsReconnected,
         us[i].pc # "none", s.pc # "none", s.removed = "no" => us[i].removed = "no",
         i = Connected => s.pc \in {"rtc", "end"}
  PROVE  /\ SmallObjects /\ us' \in [Object -> Session]
         /\ us'[i] = s /\ \A j \in Object : j # i => us'[j] = us[j]
<1>1. /\ us \in [Object -> Session] /\ us' \in [Object -> Session]
      /\ us'[i] = s /\ \A j \in Object : j # i => us'[j] = us[j]
  BY DEF ConnsIInv, ConnsTyped
<1>2. Connected \in Object /\ us[Connected].pc \in {"none", "rtc", "end"}
  BY ConnectionsAssumption DEF ConnectionsAssumption, Connected, Object, ConnsIInv, FreshKey
<1> QED
  BY <1>1, <1>2 DEF SmallObjects

\* A message of another kind is appended to some of the inboxes, or taken from one.
LEMMA InboxGrows ==
  ASSUME ConnsTyped, NEW S \in SUBSET Node, NEW m \in Message, m.type \in {"leave", "disconnect"},
         inbox' = [n \in Node |-> IF n \in S THEN Append(inbox[n], m) ELSE inbox[n]]
  PROVE  inbox' \in [Node -> Seq(Message)] /\ SmallInbox
<1>1. inbox \in [Node -> Seq(Message)]
  BY DEF ConnsTyped
<1>2. ASSUME NEW n \in Node
      PROVE  /\ inbox'[n] \in Seq(Message)
             /\ ConnectsOnce(inbox[n]) => ConnectsOnce(inbox'[n])
             /\ Elements(inbox'[n]) \in {Elements(inbox[n]), Elements(inbox[n]) \cup {m}}
  <2>1. CASE n \notin S
    BY <1>1, <2>1
  <2>2. CASE n \in S
    BY <1>1, <2>2, Appended
  <2> QED
    BY <2>1, <2>2
<1>3. inbox' \in [Node -> Seq(Message)]
  BY <1>2
<1> QED
  BY <1>2, <1>3 DEF SmallInbox

LEMMA InboxShrinks ==
  ASSUME ConnsTyped, NEW n \in Node, NEW type, Receive(n, type)
  PROVE  /\ inbox' \in [Node -> Seq(Message)]
         /\ Head(inbox[n]) \in Message /\ Head(inbox[n]) \in Arrives(n)
         /\ Head(inbox[n]).type = type
         /\ Arrives(n) = Arrives(n)' \cup {Head(inbox[n])}
         /\ \A o \in Node : /\ o # n => inbox'[o] = inbox[o]
                            /\ ConnectsOnce(inbox[o]) => ConnectsOnce(inbox'[o])
         /\ ConnectsOnce(inbox[n]) /\ type = "connect" =>
              \A e \in Arrives(n)' : e.type # "connect"
         /\ type \in {"leave", "disconnect"} => SmallInbox
<1>1. inbox \in [Node -> Seq(Message)] /\ inbox' = [inbox EXCEPT ![n] = Tail(inbox[n])]
  BY DEF ConnsTyped, Receive
<1>2. inbox[n] # <<>> /\ inbox[n] \in Seq(Message) /\ Head(inbox[n]).type = type
  BY <1>1 DEF Receive
<1>3. /\ Tail(inbox[n]) \in Seq(Message) /\ Head(inbox[n]) \in Message
      /\ Elements(inbox[n]) = Elements(Tail(inbox[n])) \cup {Head(inbox[n])}
      /\ ConnectsOnce(inbox[n]) => ConnectsOnce(Tail(inbox[n]))
      /\ ConnectsOnce(inbox[n]) /\ Head(inbox[n]).type = "connect" =>
           \A e \in Elements(Tail(inbox[n])) : e.type # "connect"
  BY <1>2, Taken
<1>4. inbox'[n] = Tail(inbox[n]) /\ \A o \in Node : o # n => inbox'[o] = inbox[o]
  BY <1>1
<1>5. inbox' \in [Node -> Seq(Message)]
  BY <1>1, <1>3
<1>6. \A o \in Node : ConnectsOnce(inbox[o]) => ConnectsOnce(inbox'[o])
  BY <1>3, <1>4
<1>7. Arrives(n)' = Elements(Tail(inbox[n])) /\ Arrives(n) = Elements(inbox[n])
  BY <1>4 DEF Arrives
<1>8. ASSUME type \in {"leave", "disconnect"} PROVE SmallInbox
  BY <1>2, <1>3, <1>4, <1>6, <1>8 DEF SmallInbox
<1> QED
  BY <1>2, <1>3, <1>4, <1>5, <1>6, <1>7, <1>8

LEMMA CloseRTCSmall ==
  ASSUME ConnsTyped, NEW n \in Node, NEW c \in ConnID, CloseRTC(n, c)
  PROVE  /\ inbox' \in [Node -> Seq(Message)] /\ SmallInbox
         /\ SmallRTC /\ rtcSession' \in {"none", "on", "closing", "closed"}
<1> USE ConnectionsAssumption DEF ConnectionsAssumption
<1>1. CASE n = Handler
  <2>1. UNCHANGED inbox /\ rtcSession' \in {rtcSession, "closing"}
        /\ (rtcSession' # rtcSession => rtcSession = "on")
    BY <1>1 DEF CloseRTC
  <2> QED
    BY <2>1 DEF ConnsTyped, SmallInbox, SmallRTC
<1>2. CASE n # Handler
  <2> DEFINE m == [type |-> "disconnect", connID |-> c]
  <2>1. m \in Message /\ m.type = "disconnect"
    BY DEF Message
  <2>2. inbox' = [o \in Node |-> IF o \in {Handler} THEN Append(inbox[o], m) ELSE inbox[o]]
    BY <1>2 DEF CloseRTC, ConnsTyped
  <2>3. UNCHANGED rtcSession
    BY <1>2 DEF CloseRTC
  <2> HIDE DEF m
  <2>4. inbox' \in [Node -> Seq(Message)] /\ SmallInbox
    BY <2>1, <2>2, InboxGrows
  <2> QED
    BY <2>3, <2>4 DEF ConnsTyped, SmallRTC
<1> QED
  BY <1>1, <1>2
---------------------------------------------------------------------------
(* The inductive invariant *)

LEMMA Names ==
  ASSUME ConnsTyped
  PROVE  /\ Joined \in Object /\ Connected \in Object /\ Joined # Connected
         /\ Handler \in Node /\ OriginalConnID \in ConnID
         /\ Current \in Object \ {Connected} /\ Previous \in Object \ {Connected}
         /\ RTCObject \in Object /\ comebacks + 2 \in Object
         /\ comebacks \in Nat /\ ids \in Nat
BY ConnectionsAssumption DEF ConnectionsAssumption, ConnsTyped, Joined, Connected, Object,
   OriginalConnID, ConnID, Current, Previous, RTCObject

LEMMA Nobody == NoSession.pc = "none" /\ NoSession.removed = "no"
BY DEF NoSession, NewSession

LEMMA InitConns == ConnsInit => ConnsIInv
<1> SUFFICES ASSUME ConnsInit PROVE ConnsIInv
  OBVIOUS
<1> USE ConnectionsAssumption DEF ConnectionsAssumption
<1>1. PICK n \in Node :
        /\ client = [node |-> n, connID |-> 1, known |-> 1, ws |-> "up"]
        /\ posted = {[node |-> n, connID |-> 1, prev |-> 1, obj |-> Joined, found |-> FALSE]}
  BY DEF ConnsInit
<1>2. /\ us = [i \in Object |-> NoSession] /\ sessions = [o \in Node |-> [c \in ConnID |-> 0]]
      /\ row = FALSE /\ rtcSession = "none" /\ inbox = [o \in Node |-> <<>>]
      /\ hooks = {} /\ rechecks = {} /\ comebacks = 0 /\ ids = 1 /\ over = "no" /\ mishaps = {}
  BY DEF ConnsInit
<1>3. 1 \in ConnID /\ NoSession \in Session /\ NoSession.pc = "none" /\ Joined \in Object \ {Connected}
  BY DEF ConnID, NoSession, NewSession, Session, OriginalConnID, Joined, Connected, Object
<1>4. /\ \A i \in Object : us[i] = NoSession
      /\ \A o \in Node : Arrives(o) = {} /\ ConnectsOnce(inbox[o])
      /\ \A o \in Node, c \in ConnID : sessions[o][c] = 0
  BY <1>2, NothingElements DEF Arrives
<1>5. ConnsTyped
  <2>1. inbox \in [Node -> Seq(Message)]
    BY <1>2
  <2>2. posted \subseteq PostedMsg
    BY <1>1, <1>3 DEF PostedMsg
  <2>3. client \in [node : Node, connID : ConnID, known : ConnID, ws : {"up", "down"}]
    BY <1>1, <1>3
  <2>4. us \in [Object -> Session] /\ sessions \in [Node -> [ConnID -> Object \cup {0}]]
    BY <1>2, <1>3
  <2>5. comebacks \in 0..MaxComebacks /\ ids \in 1..(comebacks + 1)
    BY <1>2
  <2> QED
    BY <1>2, <2>1, <2>2, <2>3, <2>4, <2>5 DEF ConnsTyped
<1>6. Joined \in Object /\ Connected \in Object /\ Current = Joined
  BY <1>2, <1>5, Names DEF Current
<1>7. FreshKey
  BY <1>1, <1>2, <1>3, <1>4, <1>6 DEF FreshKey, JoinPosted, OriginalConnID, Joined
<1>8. ConnectKey /\ MapKey
  BY <1>4 DEF ConnectKey, MapKey
<1>9. QuietMessages
  BY <1>1, <1>2, <1>3, <1>4, <1>6 DEF QuietMessages, NoSession, NewSession, OriginalConnID
<1>10. QuietSessions
  BY <1>3, <1>4, <1>6 DEF QuietSessions, Serves
<1>11. FirstPosted /\ SignalsKey
  BY <1>1, <1>2, <1>4 DEF FirstPosted, SignalsKey, Signalled, Joined
<1> QED
  BY <1>5, <1>7, <1>8, <1>9, <1>10, <1>11 DEF ConnsIInv

LEMMA SmallInductive ==
  ASSUME ConnsIInv, SmallStep, ConnsTyped', Quiet' => QuietMessages' /\ QuietSessions'
  PROVE  ConnsIInv'
BY SmallKeys DEF ConnsIInv

\* What an action leaves alone.
LEMMA Small ==
  ASSUME ConnsIInv
  PROVE  /\ UNCHANGED us => SmallObjects
         /\ UNCHANGED inbox => SmallInbox
         /\ UNCHANGED rtcSession => SmallRTC
         /\ UNCHANGED sessions => \A n \in Node, c \in ConnID : sessions'[n][c] = sessions[n][c]
BY Names DEF ConnsIInv, FreshKey, SmallObjects, SmallInbox, SmallRTC

LEMMA SocketClosesInductive == ConnsIInv /\ SocketCloses => ConnsIInv'
<1> SUFFICES ASSUME ConnsIInv, SocketCloses PROVE ConnsIInv'
  OBVIOUS
<1> USE ConnectionsAssumption DEF ConnectionsAssumption
<1>1. /\ client' = [client EXCEPT !.ws = "down"] /\ hooks' = hooks \cup {<<client.node, client.connID>>}
      /\ UNCHANGED <<us, sessions, row, rtcSession, inbox, posted, rechecks, comebacks, ids, over, mishaps>>
  BY DEF SocketCloses
<1>2. ConnsTyped
  BY DEF ConnsIInv
<1>3. /\ client'.node = client.node /\ client'.connID = client.connID /\ client'.known = client.known
      /\ client'.ws = "down"
      /\ client' \in [node : Node, connID : ConnID, known : ConnID, ws : {"up", "down"}]
      /\ client.node \in Node /\ client.connID \in ConnID
  BY <1>1, <1>2 DEF ConnsTyped
<1>4. ConnsTyped'
  BY <1>1, <1>2, <1>3 DEF ConnsTyped
<1>5. SmallStep
  BY <1>1, <1>3, Small, Names, <1>2 DEF SmallStep
<1>6. ASSUME Quiet' PROVE QuietMessages' /\ QuietSessions'
  <2>1. Quiet /\ QuietSessions
    BY <1>4, <1>5, <1>6, SmallQuiet DEF ConnsIInv
  <2>2. Current \in Object
    BY <1>2, Names
  <2> QED
    BY <1>1, <1>3, <1>4, <1>5, <1>6, <2>1, <2>2, SmallQuietKeys DEF QuietSessions, Serves
<1> QED
  BY <1>4, <1>5, <1>6, SmallInductive

\* The session that the hook or its goroutine has found is told that its socket has closed.
LEMMA Closed ==
  ASSUME ConnsIInv, NEW h \in Node \X ConnID,
         LET i == sessions[h[1]][h[2]]
         IN  us' = IF i = 0 THEN us ELSE [us EXCEPT ![i].wsClosed = TRUE],
         UNCHANGED <<sessions, row, rtcSession, inbox, posted, outside>>,
         hooks' \subseteq hooks, rechecks' \subseteq Node \X ConnID,
         mishaps \subseteq mishaps',
         mishaps' \subseteq {"unmade", "early", "refused", "unheard", "missed", "mistaken", "lost"},
         Quiet' /\ sessions[h[1]][h[2]] = Current => client.ws = "down"
  PROVE  ConnsIInv'
<1> DEFINE i == sessions[h[1]][h[2]]
<1>1. ConnsTyped /\ i \in Object \cup {0} /\ UNCHANGED <<client, comebacks, ids, over>>
  BY DEF ConnsIInv, ConnsTyped, outside
<1>2. /\ SmallObjects /\ us' \in [Object -> Session]
      /\ \A j \in Object :
           /\ us'[j].rtcClosed = us[j].rtcClosed /\ us'[j].left = us[j].left
           /\ us'[j].pc = us[j].pc
           /\ us'[j].wsClosed => us[j].wsClosed \/ j = i
           /\ us[j].wsClosed => us'[j].wsClosed
  <2>1. CASE i = 0
    BY <1>1, <2>1, Small DEF ConnsTyped
  <2>2. CASE i # 0
    <3> DEFINE s == [us[i] EXCEPT !.wsClosed = TRUE]
    <3>1. i \in Object /\ us[i] \in Session
      BY <1>1, <2>2 DEF ConnsTyped
    <3>2. s \in Session /\ us' = [us EXCEPT ![i] = s]
      BY <2>2, <3>1 DEF Session
    <3>3. us[i].pc # "none" /\ us[Connected].pc \in {"none", "rtc", "end"}
      BY <2>2 DEF ConnsIInv, MapKey, FreshKey
    <3>4. /\ s.node = us[i].node /\ s.connID = us[i].connID /\ s.rtc = us[i].rtc /\ s.pc = us[i].pc
          /\ s.wsReconnected = us[i].wsReconnected /\ s.removed = us[i].removed
          /\ s.rtcClosed = us[i].rtcClosed /\ s.left = us[i].left /\ s.wsClosed
      BY <3>1 DEF Session
    <3> HIDE DEF s, i
    <3>5. s.pc # "none" /\ (i = Connected => s.pc \in {"rtc", "end"})
      BY <3>3, <3>4
    <3>6. /\ SmallObjects /\ us' \in [Object -> Session]
          /\ us'[i] = s /\ \A j \in Object : j # i => us'[j] = us[j]
      BY <3>1, <3>2, <3>3, <3>4, <3>5, ObjectChanges
    <3> QED
      BY <3>4, <3>6
  <2> QED
    BY <2>1, <2>2
<1> HIDE DEF i
<1>3. ConnsTyped'
  BY <1>1, <1>2 DEF ConnsTyped
<1>4. SmallStep
  BY <1>1, <1>2, Small, Names DEF SmallStep
<1>5. ASSUME Quiet' PROVE QuietMessages' /\ QuietSessions'
  <2>1. Quiet /\ QuietMessages /\ QuietSessions
    BY <1>3, <1>4, <1>5, SmallQuiet DEF ConnsIInv
  <2>2. Current \in Object
    BY <1>1, Names
  <2>3. \A j \in Object : Serves(j) => sessions'[us[j].node][us[j].connID] = j
    BY <2>1 DEF QuietSessions
  <2>4. Serves(Current) => /\ us'[Current].pc \in {"read", "wait"}
                           /\ us'[Current].wsClosed => client'.ws = "down"
                           /\ us'[Current].pc = "wait" => us'[Current].wsClosed
    BY <1>1, <1>2, <1>5, <2>1, <2>2 DEF QuietSessions, Serves, i
  <2> QED
    BY <1>1, <1>2, <1>3, <1>4, <1>5, <2>3, <2>4, SmallQuietKeys
<1> QED
  BY <1>3, <1>4, <1>5, SmallInductive

LEMMA HookInductive == ConnsIInv /\ Hook => ConnsIInv'
<1> SUFFICES ASSUME ConnsIInv, Hook PROVE ConnsIInv'
  OBVIOUS
<1>0. /\ hooks \subseteq Node \X ConnID /\ rechecks \subseteq Node \X ConnID
      /\ client.ws \in {"up", "down"}
      /\ mishaps \subseteq {"unmade", "early", "refused", "unheard", "missed", "mistaken", "lost"}
  BY DEF ConnsIInv, ConnsTyped
<1>1. ASSUME NEW h \in hooks, Disconnected(h) PROVE ConnsIInv'
  <2>1. h \in Node \X ConnID /\ hooks' \subseteq hooks /\ rechecks' \subseteq Node \X ConnID
    BY <1>0, <1>1 DEF Disconnected
  <2>2. mishaps \subseteq mishaps' /\ mishaps' \subseteq mishaps \cup {"missed"}
    BY <1>1 DEF Disconnected, Mishap
  <2>3. ASSUME Quiet' PROVE client.ws = "down"
    <3>1. Quiet
      BY <1>1, <2>2, <2>3 DEF Quiet, Disconnected, outside, ConnsIInv, ConnsTyped, Session
    <3> QED
      BY <1>0, <3>1 DEF ConnsIInv, QuietMessages
  <2> QED
    BY <1>0, <1>1, <2>1, <2>2, <2>3, Closed DEF Disconnected
<1>2. ASSUME NEW h \in rechecks, Recheck(h) PROVE ConnsIInv'
  <2>1. h \in Node \X ConnID /\ hooks' \subseteq hooks /\ rechecks' \subseteq Node \X ConnID
        /\ UNCHANGED posted
    BY <1>0, <1>2 DEF Recheck
  <2>2. mishaps \subseteq mishaps' /\ mishaps' \subseteq mishaps \cup {"mistaken"}
    BY <1>2 DEF Recheck, Mishap
  <2>3. ASSUME Quiet', sessions[h[1]][h[2]] = Current PROVE client.ws = "down"
    <3> SUFFICES ASSUME client.ws = "up" PROVE FALSE
      BY <1>0
    <3>1. Quiet
      BY <1>2, <2>2, <2>3 DEF Quiet, Recheck, outside, ConnsIInv, ConnsTyped, Session
    <3>2. Current \in Object /\ h[1] \in Node /\ h[2] \in ConnID /\ h = <<h[1], h[2]>> /\ Current # 0
      BY <2>1, Names DEF ConnsIInv, Object
    <3>3. us[Current].pc # "none" /\ us[Current].node = h[1]
          /\ (~us[Current].wsReconnected => us[Current].connID = h[2])
      BY <2>3, <3>2 DEF ConnsIInv, MapKey
    <3>4. Serves(Current) /\ us[Current].node = client.node /\ us[Current].connID = client.connID
      BY <3>1, <3>3 DEF ConnsIInv, QuietSessions
    <3>5. <<client.node, client.connID>> = h
      BY <3>2, <3>3, <3>4 DEF Serves
    <3>6. "mistaken" \in mishaps'
      BY <1>2, <2>3, <3>2, <3>5 DEF Recheck, Mishap
    <3> QED
      BY <2>3, <3>6 DEF Quiet
  <2> QED
    BY <1>0, <1>2, <2>1, <2>2, <2>3, Closed DEF Recheck
<1> QED
  BY <1>1, <1>2 DEF Hook
\* A session object that is not the handler's own can be read from or wait in handleLeave.
LEMMA Waiting ==
  ASSUME ConnsIInv, NEW i \in Object, us[i].pc \in {"read", "wait"} \/ us[i].removed # "no"
  PROVE  /\ us[i] \in Session /\ us[i].pc # "none"
         /\ us[i].pc \in {"read", "wait"} => i # Connected
         /\ us[i].node \in Node /\ us[i].connID \in ConnID
         /\ \A j \in Object : us[j] \in Session
BY DEF ConnsIInv, ConnsTyped, FreshKey, Session, NoSession, NewSession

LEMMA ReaderReturnsInductive ==
  ASSUME ConnsIInv, NEW i \in Object, ReaderReturns(i)
  PROVE  ConnsIInv'
<1> DEFINE s == [us[i] EXCEPT !.pc = "wait"]
<1>1. us[i].pc = "read" /\ UNCHANGED <<sessions, row, posted, hooks, rechecks, client, comebacks, ids, over, mishaps>>
  BY DEF ReaderReturns, outside
<1>2. ConnsTyped /\ us[i] \in Session /\ i # Connected
  BY <1>1, Waiting DEF ConnsIInv
<1>3. /\ s \in Session /\ us' = [us EXCEPT ![i] = s] /\ s.pc = "wait"
      /\ s.node = us[i].node /\ s.connID = us[i].connID /\ s.rtc = us[i].rtc
      /\ s.wsReconnected = us[i].wsReconnected /\ s.removed = us[i].removed
      /\ s.rtcClosed = us[i].rtcClosed /\ s.left = us[i].left /\ s.wsClosed = us[i].wsClosed
      /\ us[i].node \in Node /\ us[i].connID \in ConnID
  BY <1>2 DEF Session, ReaderReturns
<1> HIDE DEF s
<1>4. /\ SmallObjects /\ us' \in [Object -> Session]
      /\ us'[i] = s /\ \A j \in Object : j # i => us'[j] = us[j]
  BY <1>1, <1>2, <1>3, ObjectChanges
<1>5. /\ SmallRTC /\ rtcSession' \in {"none", "on", "closing", "closed"}
      /\ SmallInbox /\ inbox' \in [Node -> Seq(Message)]
      /\ over = "no" => us[i].wsClosed /\ UNCHANGED inbox
  <2>1. CASE us[i].wsClosed /\ UNCHANGED <<inbox, rtcSession>>
    BY <1>2, <2>1, Small DEF ConnsTyped
  <2>2. CASE over = "revoked" /\ CloseRTC(us[i].node, us[i].connID)
    BY <1>2, <1>3, <2>2, CloseRTCSmall
  <2> QED
    BY <2>1, <2>2 DEF ReaderReturns
<1>6. ConnsTyped'
  BY <1>1, <1>2, <1>4, <1>5 DEF ConnsTyped
<1>7. SmallStep
  BY <1>1, <1>2, <1>4, <1>5, Small, Names DEF SmallStep
<1>8. ASSUME Quiet' PROVE QuietMessages' /\ QuietSessions'
  <2>1. Quiet /\ QuietMessages /\ QuietSessions
    BY <1>6, <1>7, <1>8, SmallQuiet DEF ConnsIInv
  <2>2. Current \in Object /\ us[i].wsClosed /\ UNCHANGED inbox
    BY <1>2, <1>5, <2>1, Names DEF Quiet
  <2>3. \A j \in Object :
          /\ us'[j].rtcClosed = us[j].rtcClosed /\ us'[j].left = us[j].left
          /\ us'[j].pc \in {"read", "wait"} => us[j].pc \in {"read", "wait"}
          /\ Serves(j) => sessions'[us[j].node][us[j].connID] = j
    BY <1>1, <1>3, <1>4, <2>1 DEF QuietSessions
  <2>4. Serves(Current) => /\ us'[Current].pc \in {"read", "wait"}
                           /\ us'[Current].wsClosed => client'.ws = "down"
                           /\ us'[Current].pc = "wait" => us'[Current].wsClosed
    BY <1>1, <1>3, <1>4, <2>1, <2>2 DEF QuietSessions, Serves
  <2> QED
    BY <1>1, <1>6, <1>7, <1>8, <2>2, <2>3, <2>4, SmallQuietKeys
<1> QED
  BY <1>6, <1>7, <1>8, SmallInductive

LEMMA ReturnsInductive ==
  ASSUME ConnsIInv, NEW i \in Object, Returns(i)
  PROVE  ConnsIInv'
<1> DEFINE s == [us[i] EXCEPT !.pc = "end"]
<1>1. /\ us[i].pc \in {"read", "wait"}
      /\ UNCHANGED <<row, rtcSession, inbox, posted, hooks, rechecks, client, comebacks, ids, over, mishaps>>
  BY DEF Returns, outside
<1>2. ConnsTyped /\ us[i] \in Session /\ i # Connected
  BY <1>1, Waiting DEF ConnsIInv
<1>3. /\ s \in Session /\ us' = [us EXCEPT ![i] = s] /\ s.pc = "end"
      /\ s.node = us[i].node /\ s.connID = us[i].connID /\ s.rtc = us[i].rtc
      /\ s.wsReconnected = us[i].wsReconnected /\ s.removed = us[i].removed
      /\ s.rtcClosed = us[i].rtcClosed /\ s.left = us[i].left /\ s.wsClosed = us[i].wsClosed
      /\ us[i].node \in Node /\ us[i].connID \in ConnID
  BY <1>2 DEF Session, Returns
<1> HIDE DEF s
<1>4. /\ SmallObjects /\ us' \in [Object -> Session]
      /\ us'[i] = s /\ \A j \in Object : j # i => us'[j] = us[j]
  BY <1>1, <1>2, <1>3, ObjectChanges
<1>5. /\ sessions' \in [Node -> [ConnID -> Object \cup {0}]]
      /\ \A n \in Node, c \in ConnID :
           /\ sessions'[n][c] \in {sessions[n][c], 0}
           /\ sessions'[n][c] # sessions[n][c] =>
                sessions[n][c] = i /\ us[i].wsReconnected /\ ~us[i].rtc
      /\ us[i].rtcClosed \/ us[i].wsReconnected
  <2> DEFINE n == us[i].node
             c == us[i].connID
  <2>1. sessions \in [Node -> [ConnID -> Object \cup {0}]] /\ n \in Node /\ c \in ConnID
    BY <1>2, <1>3 DEF ConnsTyped
  <2>2. CASE UNCHANGED sessions /\ (us[i].rtcClosed \/ us[i].wsReconnected)
    BY <2>1, <2>2
  <2>3. CASE /\ us[i].wsReconnected /\ sessions[n][c] = i /\ ~us[i].rtc
             /\ sessions' = [sessions EXCEPT ![n][c] = 0]
    <3> HIDE DEF n, c
    <3>1. /\ sessions' \in [Node -> [ConnID -> Object \cup {0}]] /\ sessions'[n][c] = 0
          /\ \A m \in Node, d \in ConnID : m # n \/ d # c => sessions'[m][d] = sessions[m][d]
      BY <2>1, <2>3
    <3> QED
      BY <2>3, <3>1
  <2> QED
    BY <2>2, <2>3 DEF Returns
<1>6. ConnsTyped'
  BY <1>1, <1>2, <1>4, <1>5 DEF ConnsTyped
<1>7. ASSUME Signalled', NEW d \in ConnID PROVE sessions'[Handler][d] = sessions[Handler][d]
  <2> SUFFICES ASSUME sessions[Handler][d] = i, us[i].wsReconnected, ~us[i].rtc PROVE FALSE
    BY <1>2, <1>5, Names
  <2>1. Signalled /\ i # 0 /\ comebacks + 2 \in Object /\ RTCObject \in Object
    BY <1>1, <1>2, <1>7, Names DEF Signalled, Object
  <2>2. \/ sessions[Handler][d] \in {0, RTCObject} /\ us[RTCObject].rtc
        \/ sessions[Handler][d] \in {0, comebacks + 2} /\ ~us[comebacks + 2].wsReconnected
    BY <2>1 DEF ConnsIInv, SignalsKey, HandlerHas
  <2> QED
    BY <2>1, <2>2
<1>8. SmallStep
  BY <1>1, <1>2, <1>4, <1>5, <1>7, Small DEF SmallStep
<1>9. ASSUME Quiet' PROVE QuietMessages' /\ QuietSessions'
  <2>1. Quiet /\ QuietMessages /\ QuietSessions
    BY <1>6, <1>8, <1>9, SmallQuiet DEF ConnsIInv
  <2>2. Current \in Object /\ us[i].wsReconnected
    BY <1>2, <1>5, <2>1, Names DEF QuietMessages
  <2>3. \A j \in Object : Serves(j) => sessions'[us[j].node][us[j].connID] = j
    <3> SUFFICES ASSUME NEW j \in Object, Serves(j)
                 PROVE  sessions'[us[j].node][us[j].connID] = j
      OBVIOUS
    <3>1. j # i /\ sessions[us[j].node][us[j].connID] = j
      BY <2>1, <2>2 DEF QuietSessions, Serves
    <3>2. us[j].node \in Node /\ us[j].connID \in ConnID
      BY Waiting DEF Serves
    <3> QED
      BY <1>5, <3>1, <3>2
  <2>4. \A j \in Object :
          /\ us'[j].rtcClosed = us[j].rtcClosed /\ us'[j].left = us[j].left
          /\ us'[j].pc \in {"read", "wait"} => us[j].pc \in {"read", "wait"}
    BY <1>3, <1>4
  <2>5. Serves(Current) => /\ us'[Current].pc \in {"read", "wait"}
                           /\ us'[Current].wsClosed => client'.ws = "down"
                           /\ us'[Current].pc = "wait" => us'[Current].wsClosed
    BY <1>1, <1>4, <2>1, <2>2 DEF QuietSessions, Serves
  <2> QED
    BY <1>1, <1>6, <1>8, <1>9, <2>3, <2>4, <2>5, SmallQuietKeys
<1> QED
  BY <1>6, <1>8, <1>9, SmallInductive

LEMMA LeavesInductive ==
  ASSUME ConnsIInv, NEW i \in Object, Leaves(i)
  PROVE  ConnsIInv'
<1> DEFINE s == Removing([us[i] EXCEPT !.pc = "end"])
<1>1. /\ us[i].pc \in {"read", "wait"} /\ us' = [us EXCEPT ![i] = s]
      /\ CloseRTC(us[i].node, OriginalConnID)
      /\ UNCHANGED <<sessions, row, posted, hooks, rechecks, client, comebacks, ids, over, mishaps>>
  BY DEF Leaves, outside
<1>2. /\ ConnsTyped /\ us[i] \in Session /\ i # Connected
      /\ us[i].node \in Node /\ OriginalConnID \in ConnID
  BY <1>1, Waiting, Names DEF ConnsIInv
<1>3. /\ s \in Session /\ s.pc = "end"
      /\ s.node = us[i].node /\ s.connID = us[i].connID /\ s.rtc = us[i].rtc
      /\ s.wsReconnected = us[i].wsReconnected /\ s.removed # "no"
  BY <1>2 DEF Session, Removing
<1> HIDE DEF s
<1>4. /\ SmallObjects /\ us' \in [Object -> Session] /\ us'[i].removed # "no"
      /\ SmallRTC /\ rtcSession' \in {"none", "on", "closing", "closed"}
      /\ SmallInbox /\ inbox' \in [Node -> Seq(Message)]
  BY <1>1, <1>2, <1>3, ObjectChanges, CloseRTCSmall
<1>5. ConnsTyped'
  BY <1>1, <1>2, <1>4 DEF ConnsTyped
<1>6. SmallStep
  BY <1>1, <1>2, <1>4, Small, Names DEF SmallStep
<1> QED
  BY <1>4, <1>5, <1>6, SmallInductive DEF Quiet

LEMMA RemoveSessionInductive ==
  ASSUME ConnsIInv, NEW i \in Object, RemoveSession(i)
  PROVE  ConnsIInv'
<1> DEFINE s == [us[i] EXCEPT !.removed = "yes"]
           n == us[i].node
           c == us[i].connID
<1>1. /\ us[i].removed = "waits" /\ us' = [us EXCEPT ![i] = s] /\ row' = FALSE
      /\ sessions' = [sessions EXCEPT ![n][c] = 0]
      /\ UNCHANGED <<rtcSession, inbox, posted, hooks, rechecks, client, comebacks, ids, over, mishaps>>
  BY DEF RemoveSession, outside
<1>2. /\ ConnsTyped /\ us[i] \in Session /\ us[i].pc # "none" /\ n \in Node /\ c \in ConnID
      /\ i = Connected => us[i].pc \in {"rtc", "end"}
  BY <1>1, Waiting DEF ConnsIInv, FreshKey
<1>3. /\ s \in Session /\ s.pc = us[i].pc
      /\ s.node = us[i].node /\ s.connID = us[i].connID /\ s.rtc = us[i].rtc
      /\ s.wsReconnected = us[i].wsReconnected /\ s.removed = "yes"
  BY <1>2 DEF Session
<1> HIDE DEF s, n, c
<1>4. SmallObjects /\ us' \in [Object -> Session] /\ us'[i].removed # "no"
  BY <1>1, <1>2, <1>3, ObjectChanges
<1>5. /\ sessions' \in [Node -> [ConnID -> Object \cup {0}]]
      /\ \A m \in Node, d \in ConnID : sessions'[m][d] \in {sessions[m][d], 0}
  BY <1>1, <1>2 DEF ConnsTyped
<1>6. ConnsTyped'
  BY <1>1, <1>2, <1>4, <1>5 DEF ConnsTyped
<1>7. SmallStep
  BY <1>1, <1>4, <1>5, Small DEF SmallStep, Signalled
<1> QED
  BY <1>4, <1>6, <1>7, SmallInductive DEF Quiet
LEMMA RTCCallbackInductive == ConnsIInv /\ RTCCallback => ConnsIInv'
<1> SUFFICES ASSUME ConnsIInv, RTCCallback PROVE ConnsIInv'
  OBVIOUS
<1> DEFINE i == RTCObject
           s == IF i = Joined /\ us[i].rtcClosed THEN us[i]
                ELSE Removing([us[i] EXCEPT !.rtcClosed = TRUE])
<1>1. /\ rtcSession = "closing" /\ rtcSession' = "closed" /\ us' = [us EXCEPT ![i] = s]
      /\ UNCHANGED <<sessions, row, inbox, posted, hooks, rechecks, client, comebacks, ids, over, mishaps>>
  BY DEF RTCCallback, RTCObject, outside
<1>2. ConnsTyped /\ i \in Object /\ us[i] \in Session
  BY Names DEF ConnsIInv, ConnsTyped
<1>3. us[i].pc # "none" /\ (i = Connected => us[i].pc \in {"rtc", "end"})
  BY <1>1, Names, <1>2 DEF ConnsIInv, FreshKey, RTCObject
<1>4. /\ s \in Session /\ s.pc = us[i].pc
      /\ s.node = us[i].node /\ s.connID = us[i].connID /\ s.rtc = us[i].rtc
      /\ s.wsReconnected = us[i].wsReconnected /\ (s.removed = "no" => us[i].removed = "no")
  BY <1>2 DEF Session, Removing
<1> HIDE DEF s, i
<1>5. SmallObjects /\ us' \in [Object -> Session]
  BY <1>1, <1>2, <1>3, <1>4, ObjectChanges
<1>6. ConnsTyped'
  BY <1>1, <1>2, <1>5 DEF ConnsTyped
<1>7. SmallStep
  BY <1>1, <1>2, <1>5, Small, Names DEF SmallStep, SmallRTC
<1> QED
  BY <1>1, <1>6, <1>7, SmallInductive DEF Quiet

LEMMA StartSessionReturnsInductive == ConnsIInv /\ StartSessionReturns => ConnsIInv'
<1> SUFFICES ASSUME ConnsIInv, StartSessionReturns PROVE ConnsIInv'
  OBVIOUS
<1> DEFINE s == [us[Connected] EXCEPT !.pc = "end"]
<1>1. /\ us[Connected].pc = "rtc" /\ us[Connected].rtcClosed
      /\ us' = [us EXCEPT ![Connected] = s]
      /\ CloseRTC(Handler, us[Connected].connID)
      /\ UNCHANGED <<sessions, row, posted, hooks, rechecks, client, comebacks, ids, over>>
      /\ mishaps \subseteq mishaps' /\ mishaps' \subseteq mishaps \cup {"lost"}
  BY DEF StartSessionReturns, outside, Mishap
<1>2. /\ ConnsTyped /\ Connected \in Object /\ us[Connected] \in Session
      /\ Handler \in Node /\ us[Connected].connID \in ConnID
  BY Names DEF ConnsIInv, ConnsTyped, Session
<1>3. /\ s \in Session /\ s.pc = "end"
      /\ s.node = us[Connected].node /\ s.connID = us[Connected].connID /\ s.rtc = us[Connected].rtc
      /\ s.wsReconnected = us[Connected].wsReconnected /\ s.removed = us[Connected].removed
  BY <1>2 DEF Session
<1> HIDE DEF s
<1>4. /\ SmallObjects /\ us' \in [Object -> Session]
      /\ SmallRTC /\ rtcSession' \in {"none", "on", "closing", "closed"}
      /\ SmallInbox /\ inbox' \in [Node -> Seq(Message)]
  BY <1>1, <1>2, <1>3, ObjectChanges, CloseRTCSmall
<1>5. ConnsTyped'
  BY <1>1, <1>2, <1>4 DEF ConnsTyped
<1>6. SmallStep
  BY <1>1, <1>2, <1>4, Small, Names DEF SmallStep
<1>7. ~Quiet'
  BY <1>1, <1>2, <1>5, <1>6, SmallQuiet DEF ConnsIInv, QuietMessages
<1> QED
  BY <1>5, <1>6, <1>7, SmallInductive

\* The session that a message names is told to leave, or that its RTC session is closed.
LEMMA Told ==
  ASSUME ConnsIInv, NEW n \in Node, NEW c \in ConnID, NEW left \in BOOLEAN,
         us' = IF sessions[n][c] = 0 THEN us
               ELSE IF left THEN [us EXCEPT ![sessions[n][c]].left = TRUE]
               ELSE [us EXCEPT ![sessions[n][c]].rtcClosed = TRUE]
  PROVE  SmallObjects /\ us' \in [Object -> Session]
<1> DEFINE i == sessions[n][c]
           s == IF left THEN [us[i] EXCEPT !.left = TRUE] ELSE [us[i] EXCEPT !.rtcClosed = TRUE]
<1>1. CASE i = 0
  BY <1>1, Small DEF ConnsIInv, ConnsTyped
<1>2. CASE i # 0
  <2>0. i \in Object /\ us[i] \in Session
    BY <1>2 DEF ConnsIInv, ConnsTyped
  <2>1. i \in Object /\ us[i] \in Session /\ us' = [us EXCEPT ![i] = s]
    <3>1. CASE left
      BY <1>2, <2>0, <3>1
    <3>2. CASE ~left
      BY <1>2, <2>0, <3>2
    <3> QED
      BY <2>0, <3>1, <3>2
  <2>2. us[i].pc # "none" /\ (i = Connected => us[i].pc \in {"rtc", "end"})
    BY <1>2, <2>1 DEF ConnsIInv, MapKey, FreshKey
  <2>3. /\ s \in Session /\ s.pc = us[i].pc
        /\ s.node = us[i].node /\ s.connID = us[i].connID /\ s.rtc = us[i].rtc
        /\ s.wsReconnected = us[i].wsReconnected /\ s.removed = us[i].removed
    BY <2>1 DEF Session
  <2> HIDE DEF s, i
  <2> QED
    BY <2>1, <2>2, <2>3, ObjectChanges
<1> QED
  BY <1>1, <1>2

LEMMA LeaveEventInductive ==
  ASSUME ConnsIInv, NEW n \in Node, LeaveEvent(n)
  PROVE  ConnsIInv'
<1> DEFINE c == Head(inbox[n]).connID
<1>1. /\ Receive(n, "leave") /\ ConnsTyped
      /\ UNCHANGED <<sessions, row, rtcSession, posted, hooks, rechecks, client, comebacks, ids, over, mishaps>>
  BY DEF LeaveEvent, outside, ConnsIInv
<1>2. /\ inbox' \in [Node -> Seq(Message)] /\ SmallInbox
      /\ Head(inbox[n]) \in Message /\ Head(inbox[n]) \in Arrives(n) /\ Head(inbox[n]).type = "leave"
  BY <1>1, InboxShrinks
<1>3. c \in ConnID
  BY <1>2 DEF Message
<1>4. SmallObjects /\ us' \in [Object -> Session]
  <2>1. us' = IF sessions[n][c] = 0 THEN us ELSE [us EXCEPT ![sessions[n][c]].left = TRUE]
    BY DEF LeaveEvent, Named
  <2> HIDE DEF c
  <2> QED
    BY <1>3, <2>1, Told
<1>5. ConnsTyped'
  BY <1>1, <1>2, <1>4 DEF ConnsTyped
<1>6. SmallStep
  BY <1>1, <1>2, <1>4, Small, Names DEF SmallStep
<1>7. ~Quiet'
  BY <1>2, <1>5, <1>6, SmallQuiet DEF ConnsIInv, QuietMessages
<1> QED
  BY <1>5, <1>6, <1>7, SmallInductive

LEMMA DisconnectEventInductive ==
  ASSUME ConnsIInv, NEW n \in Node, DisconnectEvent(n)
  PROVE  ConnsIInv'
<1> DEFINE c == Head(inbox[n]).connID
<1>1. /\ Receive(n, "disconnect") /\ ConnsTyped
      /\ UNCHANGED <<sessions, row, rtcSession, posted, hooks, rechecks, client, comebacks, ids, over>>
      /\ mishaps \subseteq mishaps' /\ mishaps' \subseteq mishaps \cup {"lost"}
  BY DEF DisconnectEvent, outside, ConnsIInv, Mishap
<1>2. /\ inbox' \in [Node -> Seq(Message)] /\ SmallInbox
      /\ Head(inbox[n]) \in Message /\ Head(inbox[n]) \in Arrives(n)
      /\ Head(inbox[n]).type = "disconnect"
  BY <1>1, InboxShrinks
<1>3. c \in ConnID
  BY <1>2 DEF Message
<1>4. SmallObjects /\ us' \in [Object -> Session]
  <2>1. us' = IF sessions[n][c] = 0 THEN us ELSE [us EXCEPT ![sessions[n][c]].rtcClosed = TRUE]
    BY DEF DisconnectEvent, Named
  <2> HIDE DEF c
  <2> QED
    BY <1>3, <2>1, Told
<1>5. ConnsTyped'
  BY <1>1, <1>2, <1>4 DEF ConnsTyped
<1>6. SmallStep
  BY <1>1, <1>2, <1>4, Small, Names DEF SmallStep
<1>7. ~Quiet'
  BY <1>2, <1>5, <1>6, SmallQuiet DEF ConnsIInv, QuietMessages
<1> QED
  BY <1>5, <1>6, <1>7, SmallInductive

LEMMA LeavesCallInductive == ConnsIInv /\ LeavesCall => ConnsIInv'
<1> SUFFICES ASSUME ConnsIInv, LeavesCall PROVE ConnsIInv'
  OBVIOUS
<1> DEFINE n == client.node
           c == client.connID
           m == [type |-> "leave", connID |-> c]
<1>1. /\ ConnsTyped /\ over = "no" /\ over' = "left" /\ client' = [client EXCEPT !.ws = "down"]
      /\ hooks' = hooks \cup {<<n, c>>} /\ inbox' = Others(n, m)
      /\ UNCHANGED <<sessions, row, rtcSession, posted, rechecks, comebacks, ids, mishaps>>
  BY DEF LeavesCall, Ends, ConnsIInv
<1>2. /\ n \in Node /\ c \in ConnID /\ m \in Message
      /\ client'.node = n /\ client'.connID = c /\ client'.known = client.known
      /\ client' \in [node : Node, connID : ConnID, known : ConnID, ws : {"up", "down"}]
  BY <1>1 DEF ConnsTyped, Message
<1>3. SmallInbox /\ inbox' \in [Node -> Seq(Message)]
  <2> DEFINE S == Node \ {n}
  <2>1. inbox' = [o \in Node |-> IF o \in S THEN Append(inbox[o], m) ELSE inbox[o]]
    BY <1>1 DEF Others
  <2>2. m.type = "leave" /\ S \in SUBSET Node
    OBVIOUS
  <2> HIDE DEF m, n, S
  <2> QED
    BY <1>1, <1>2, <2>1, <2>2, InboxGrows
<1>4. SmallObjects /\ us' \in [Object -> Session]
  <2>1. us' = IF sessions[n][c] = 0 THEN us ELSE [us EXCEPT ![sessions[n][c]].left = TRUE]
    BY DEF LeavesCall
  <2> HIDE DEF n, c
  <2> QED
    BY <1>2, <2>1, Told
<1>5. ConnsTyped'
  BY <1>1, <1>2, <1>3, <1>4 DEF ConnsTyped
<1>6. SmallStep
  BY <1>1, <1>2, <1>3, <1>4, Small, Names DEF SmallStep
<1>7. ~Quiet'
  BY <1>1 DEF Quiet
<1> QED
  BY <1>5, <1>6, <1>7, SmallInductive

\* The part of the participant in the call ends, and nothing else but the RTC session or
\* an inbox changes.
LEMMA EndsInductive ==
  ASSUME ConnsIInv, GivesUp \/ Revoke \/ RTCFails \/ \E n \in Node : Kick(n)
  PROVE  ConnsIInv'
<1>1. /\ ConnsTyped /\ over' \in {"gone", "left", "kicked", "revoked", "failed"}
      /\ UNCHANGED <<us, sessions, row, posted, hooks, rechecks, client, comebacks, ids, mishaps>>
  BY DEF GivesUp, Revoke, RTCFails, Kick, Ends, ConnsIInv
<1>2. over = "no"
  BY DEF GivesUp, Revoke, RTCFails, Kick, Ends
<1>3. /\ SmallInbox /\ inbox' \in [Node -> Seq(Message)]
      /\ SmallRTC /\ rtcSession' \in {"none", "on", "closing", "closed"}
  <2>1. CASE GivesUp \/ Revoke
    BY <1>1, <2>1, Small DEF GivesUp, Revoke, ConnsTyped
  <2>2. CASE RTCFails
    BY <1>1, <2>2, Small DEF RTCFails, ConnsTyped, SmallRTC
  <2>3. CASE \E n \in Node : Kick(n)
    BY <1>1, <2>3, CloseRTCSmall, Names DEF Kick
  <2> QED
    BY <2>1, <2>2, <2>3
<1>4. ConnsTyped'
  BY <1>1, <1>3 DEF ConnsTyped
<1>5. SmallStep
  BY <1>1, <1>2, <1>3, Small, Names DEF SmallStep
<1> QED
  BY <1>1, <1>4, <1>5, SmallInductive DEF Quiet
---------------------------------------------------------------------------
(* Reconnections, and the messages that make or replace an object *)

LEMMA Sent ==
  ASSUME ConnsTyped, NEW S \in SUBSET Node, NEW m \in Message,
         inbox' = [n \in Node |-> IF n \in S THEN Append(inbox[n], m) ELSE inbox[n]]
  PROVE  /\ inbox' \in [Node -> Seq(Message)]
         /\ \A n \in Node :
              /\ Arrives(n)' = IF n \in S THEN Arrives(n) \cup {m} ELSE Arrives(n)
              /\ ConnectsOnce(inbox[n]) /\ (m.type = "connect" => \A e \in Arrives(n) : e.type # "connect")
                   => ConnectsOnce(inbox'[n])
<1>1. inbox \in [Node -> Seq(Message)]
  BY DEF ConnsTyped
<1>2. ASSUME NEW n \in Node
      PROVE  /\ inbox'[n] \in Seq(Message)
             /\ Arrives(n)' = IF n \in S THEN Arrives(n) \cup {m} ELSE Arrives(n)
             /\ ConnectsOnce(inbox[n]) /\ (m.type = "connect" => \A e \in Arrives(n) : e.type # "connect")
                  => ConnectsOnce(inbox'[n])
  <2>1. CASE n \notin S
    BY <1>1, <2>1 DEF Arrives
  <2>2. CASE n \in S
    BY <1>1, <2>2, Appended DEF Arrives
  <2> QED
    BY <2>1, <2>2
<1> QED
  BY <1>2

LEMMA ComesBackInductive ==
  ASSUME ConnsIInv, NEW n \in Node, NEW keep \in BOOLEAN, ComesBack(n, keep)
  PROVE  ConnsIInv'
<1> USE ConnectionsAssumption DEF ConnectionsAssumption
<1> DEFINE c == IF keep THEN client.connID ELSE ids + 1
           i == comebacks + 3
           r == [node |-> n, connID |-> c, prev |-> client.known, obj |-> i, found |-> FALSE]
<1>1. /\ comebacks < MaxComebacks /\ over = "no" /\ mishaps = {} /\ hooks = {}
      /\ \A q \in posted : q.obj = Joined
      /\ \A m \in Node : inbox[m] = <<>>
      /\ comebacks' = comebacks + 1 /\ ids' = IF keep THEN ids ELSE c
      /\ UNCHANGED <<us, sessions, row, rtcSession, inbox, hooks, rechecks, over>>
  BY DEF ComesBack
<1>2. PICK known \in {c, client.known} :
        /\ client' = [node |-> n, connID |-> c, known |-> known, ws |-> "up"]
        /\ mishaps' = IF known # c THEN {"unheard"} ELSE {}
  BY <1>1 DEF ComesBack, Mishap
<1>3. /\ ConnsTyped /\ Joined \in Object /\ comebacks \in Nat /\ comebacks \in 0..MaxComebacks
      /\ ids \in 1..(comebacks + 1) /\ Current \in Object
      /\ client.connID \in ConnID /\ client.known \in ConnID
  BY Names DEF ConnsIInv, ConnsTyped
<1>4. /\ c \in ConnID /\ i \in Object \ {Connected} /\ i > comebacks + 2 /\ i # Joined
      /\ ids' \in 1..(comebacks' + 1) /\ ids' >= ids /\ c <= ids'
  BY <1>1, <1>3 DEF ConnID, Object, Connected, Joined, ConnsIInv, FreshKey
<1>5. posted' = posted \cup {r} /\ r.obj = i /\ r.node = n /\ r.connID = c /\ r.prev = client.known
      /\ ~r.found
  <2>1. comebacks' + 2 = i
    BY <1>1, <1>3
  <2> QED
    BY <2>1 DEF ComesBack
<1>6. r \in PostedMsg
  BY <1>3, <1>4 DEF PostedMsg
<1> HIDE DEF r, c, i
<1>7. ConnsTyped'
  <2>1. client' \in [node : Node, connID : ConnID, known : ConnID, ws : {"up", "down"}]
    BY <1>2, <1>3, <1>4
  <2>2. comebacks' \in 0..MaxComebacks
    BY <1>1, <1>3
  <2> QED
    BY <1>1, <1>2, <1>3, <1>4, <1>5, <1>6, <2>1, <2>2 DEF ConnsTyped
<1>8. /\ client'.node = n /\ client'.connID = c /\ client'.known = known /\ client'.ws = "up"
      /\ us[i] = NoSession /\ us[i].pc = "none" /\ JoinPosted' = JoinPosted
      /\ \A m \in Node : Arrives(m) = {} /\ Arrives(m)' = {}
  <2>1. us[i] = NoSession
    BY <1>4 DEF ConnsIInv, FreshKey
  <2>2. \A m \in Node : Arrives(m) = {} /\ Arrives(m)' = {}
    BY <1>1, NothingElements DEF Arrives
  <2> QED
    BY <1>2, <1>4, <1>5, <2>1, <2>2 DEF JoinPosted, NoSession, NewSession
<1>9. FreshKey'
  <2>1. \A q, p \in posted' : q.obj = p.obj => q = p
    BY <1>1, <1>4, <1>5 DEF ConnsIInv, FreshKey
  <2>2. \A q \in posted' : us[q.obj] = NoSession /\ q.obj <= comebacks' + 2 /\ q.connID <= ids'
    <3>1. \A q \in posted : us[q.obj] = NoSession /\ q.connID <= ids /\ q.connID \in Nat
      BY <1>3 DEF ConnsIInv, FreshKey, ConnsTyped, PostedMsg, ConnID
    <3>2. Joined <= comebacks' + 2 /\ i <= comebacks' + 2
      BY <1>1, <1>3 DEF Joined, i
    <3> QED
      BY <1>1, <1>3, <1>4, <1>5, <1>8, <3>1, <3>2
  <2>3. \A j \in Object : j > comebacks' + 2 \/ us[j].pc = "none" => us[j] = NoSession
    BY <1>1, <1>3 DEF ConnsIInv, FreshKey, Object
  <2>4. /\ \A q \in posted' : q.obj = Joined => q.connID = OriginalConnID
        /\ \A q \in posted' : q.found => us[Joined].pc # "none"
    BY <1>4, <1>5 DEF ConnsIInv, FreshKey
  <2>5. comebacks' # 0
    BY <1>1, <1>3
  <2> QED
    BY <1>1, <1>4, <1>8, <2>1, <2>2, <2>3, <2>4, <2>5 DEF ConnsIInv, FreshKey
<1>10. ConnectKey'
  BY <1>1, <1>8 DEF ConnsIInv, ConnectKey
<1>11. MapKey'
  BY <1>1, <1>3, <1>4 DEF ConnsIInv, MapKey, ConnID
<1>12. ASSUME Quiet' PROVE QuietMessages' /\ QuietSessions'
  <2>1. Quiet /\ QuietMessages /\ QuietSessions /\ known = c
    BY <1>1, <1>2, <1>12 DEF Quiet, ConnsIInv
  <2>2. JoinPosted => comebacks = 0 /\ \A j \in Object : ~Serves(j)
    <3> SUFFICES ASSUME JoinPosted PROVE comebacks = 0 /\ \A j \in Object : ~Serves(j)
      OBVIOUS
    <3>1. \A j \in Object : ~Serves(j)
      <4> SUFFICES ASSUME NEW j \in Object, Serves(j) PROVE FALSE
        OBVIOUS
      <4>1. us[j].node \in Node /\ us[j].connID \in ConnID
        BY Waiting DEF Serves
      <4>2. sessions[us[j].node][us[j].connID] = 0
        BY <4>1 DEF ConnsIInv, FreshKey
      <4> QED
        BY <2>1, <4>2 DEF QuietSessions, Object
    <3>2. us[Current].pc = "none"
      BY <1>3, <2>1, <3>1 DEF QuietSessions
    <3>3. Current = Joined
      BY <1>1, <2>1, <3>2 DEF QuietMessages
    <3> QED
      BY <1>3, <3>1, <3>3 DEF Current, Joined
  <2>3. Current' = i /\ Previous' = Current
    BY <1>1, <1>3 DEF Current, Previous, i
  <2>4. QuietMessages'
    <3>1. \A q \in posted' : q.obj \in {Joined, i}
      BY <1>1, <1>5
    <3>2. JoinPosted' => comebacks' <= 1 /\ \A q \in posted' : q.prev = OriginalConnID
      BY <1>1, <1>5, <1>8, <2>1, <2>2 DEF QuietMessages, ConnsIInv, FreshKey, OriginalConnID
    <3>3. \A q \in posted' : q.obj = i =>
            /\ q.node = n /\ q.connID = c
            /\ q.connID # q.prev =>
                q.connID # OriginalConnID /\ \A m \in Node : sessions[m][q.connID] = 0
      <4>1. \A q \in posted' : q.obj = i => q = r
        BY <1>1, <1>4, <1>5
      <4>2. c # client.known => c = ids + 1
        BY <2>1 DEF QuietMessages, c
      <4>3. c = ids + 1 => c # OriginalConnID /\ \A m \in Node : sessions[m][c] = 0
        BY <1>3, <1>4 DEF ConnsIInv, MapKey, OriginalConnID
      <4> QED
        BY <1>5, <4>1, <4>2, <4>3
    <3>4. \A j \in Object : ~us[j].rtcClosed /\ ~us[j].left
      BY <2>1 DEF QuietMessages
    <3>5. us[Joined].pc # "none" => row
      BY <2>1 DEF QuietMessages
    <3> QED
      BY <1>1, <1>5, <1>8, <2>1, <2>3, <3>1, <3>2, <3>3, <3>4, <3>5 DEF QuietMessages
  <2>5. QuietSessions'
    <3>1. \A j \in Object : Serves(j) => sessions[us[j].node][us[j].connID] = j
      BY <2>1 DEF QuietSessions
    <3>2. ASSUME NEW j \in Object, Serves(j)
          PROVE  j = Current /\ \A q \in posted' : us[j].connID = q.prev
      <4>1. posted = {}
        BY <1>1, <2>2, <3>2 DEF JoinPosted
      <4>2. us[Current].pc # "none"
        BY <2>1, <4>1 DEF QuietMessages
      <4>3. us[j].node \in Node
        BY <3>2, Waiting DEF Serves
      <4>4. j = Current /\ us[Current].connID = client.connID
        BY <1>8, <2>1, <3>2, <4>2, <4>3 DEF QuietSessions, Replacing
      <4> QED
        BY <1>5, <2>1, <4>1, <4>4 DEF QuietMessages
    <3> QED
      BY <1>1, <1>8, <2>3, <3>1, <3>2 DEF QuietSessions, Serves
  <2> QED
    BY <2>4, <2>5
<1>13. FirstPosted'
  <2> SUFFICES ASSUME comebacks' <= 1 PROVE FirstPosted'
    BY DEF FirstPosted
  <2>1. comebacks = 0 /\ client.known = OriginalConnID
    BY <1>1, <1>3 DEF ConnsIInv, FreshKey, OriginalConnID
  <2>2. \A q \in posted' : q.obj # Joined => q = r
    BY <1>1, <1>5
  <2> QED
    BY <1>1, <1>4, <1>5, <1>8, <2>1, <2>2 DEF FirstPosted
<1>14. SignalsKey'
  <2> SUFFICES ASSUME Signalled' PROVE SignalsKey'
    BY DEF SignalsKey
  <2>1. comebacks = 0 /\ Signalled /\ posted' # {}
    BY <1>1, <1>3, <1>5 DEF Signalled
  <2>2. HandlerHas(OriginalConnID, RTCObject) /\ us[RTCObject].rtc /\ ~us[RTCObject].wsReconnected
    BY <2>1 DEF ConnsIInv, SignalsKey
  <2> QED
    BY <1>1, <2>1, <2>2 DEF SignalsKey, HandlerHas, RTCObject
<1> QED
  BY <1>7, <1>9, <1>10, <1>11, <1>12, <1>13, <1>14 DEF ConnsIInv
LEMMA FindInStateInductive == ConnsIInv /\ FindInState => ConnsIInv'
<1> SUFFICES ASSUME ConnsIInv, FindInState PROVE ConnsIInv'
  OBVIOUS
<1>1. PICK r \in posted :
        /\ r.obj # Joined /\ ~r.found
        /\ posted' = (posted \ {r}) \cup (IF row THEN {[r EXCEPT !.found = TRUE]} ELSE {})
  BY DEF FindInState
<1>2. /\ mishaps' = IF us[Joined].pc = "none" THEN mishaps \cup {"early"} ELSE mishaps
      /\ UNCHANGED <<us, sessions, row, rtcSession, inbox, hooks, rechecks, client, comebacks, ids, over>>
  BY DEF FindInState, Mishap, outside
<1>3. /\ ConnsTyped /\ posted \subseteq PostedMsg /\ r \in PostedMsg
      /\ Current \in Object /\ Current' = Current /\ Previous' = Previous
      /\ mishaps \subseteq mishaps'
  BY <1>2, Names DEF ConnsIInv, ConnsTyped, Current, Previous
<1> DEFINE f == [r EXCEPT !.found = TRUE]
<1>4. /\ f \in PostedMsg /\ f.obj = r.obj /\ f.node = r.node /\ f.connID = r.connID
      /\ f.prev = r.prev /\ f.found
      /\ \A q \in posted' : (q = f /\ row) \/ q \in posted
      /\ row => f \in posted'
  BY <1>1, <1>3 DEF PostedMsg
<1>5. /\ posted' \subseteq PostedMsg /\ \A q \in posted' : q = f \/ q \in posted \ {r}
      /\ \A q \in posted : q = r \/ q \in posted'
  BY <1>1, <1>3, <1>4
<1> HIDE DEF f
<1>6. ConnsTyped'
  BY <1>2, <1>3, <1>5 DEF ConnsTyped
<1>7. /\ JoinPosted' = JoinPosted
      /\ \A n \in Node : Arrives(n)' = Arrives(n)
      /\ row => us[Joined].pc # "none"
  BY <1>1, <1>2, <1>4, <1>5 DEF JoinPosted, Arrives, ConnsIInv, FreshKey
<1>8. FreshKey'
  <2>1. \A q, p \in posted' : q.obj = p.obj => q = p
    BY <1>4, <1>5 DEF ConnsIInv, FreshKey
  <2>2. \A q \in posted' : us[q.obj] = NoSession /\ q.obj <= comebacks + 2 /\ q.connID <= ids
    BY <1>4, <1>5 DEF ConnsIInv, FreshKey
  <2>3. /\ \A q \in posted' : q.obj = Joined => q.connID = OriginalConnID
        /\ \A q \in posted' : q.found => us[Joined].pc # "none"
    BY <1>1, <1>4, <1>5, <1>7 DEF ConnsIInv, FreshKey
  <2> QED
    BY <1>2, <1>7, <2>1, <2>2, <2>3 DEF ConnsIInv, FreshKey
<1>9. ConnectKey' /\ MapKey'
  BY <1>2, <1>7 DEF ConnsIInv, ConnectKey, MapKey
<1>10. ASSUME Quiet' PROVE QuietMessages' /\ QuietSessions'
  <2>1. Quiet /\ QuietMessages /\ QuietSessions /\ us[Joined].pc # "none" /\ row
    BY <1>2, <1>3, <1>10 DEF Quiet, ConnsIInv, QuietMessages
  <2>2. QuietMessages'
    <3>1. JoinPosted' => comebacks' <= 1 /\ \A q \in posted' : q.prev = OriginalConnID
      BY <1>2, <1>4, <1>5, <1>7, <2>1 DEF QuietMessages
    <3>2. us'[Current].pc = "none" => \E q \in posted' : q.obj = Current
      BY <1>2, <1>4, <1>5, <2>1 DEF QuietMessages
    <3>3. /\ \A q \in posted' : q.obj \in {Joined, Current}
          /\ \A q \in posted' : q.obj = Current =>
               /\ q.node = client'.node /\ q.connID = client'.connID
               /\ q.connID # q.prev =>
                    q.connID # OriginalConnID /\ \A n \in Node : sessions'[n][q.connID] = 0
      BY <1>2, <1>4, <1>5, <2>1 DEF QuietMessages
    <3> QED
      BY <1>2, <1>3, <1>7, <2>1, <3>1, <3>2, <3>3 DEF QuietMessages
  <2>3. QuietSessions'
    <3>1. us[Current].pc = "none" =>
            \A j \in Object : Serves(j) => j = Previous /\ \A q \in posted' : us[j].connID = q.prev
      BY <1>4, <1>5, <2>1 DEF QuietSessions
    <3>2. \A j \in Object : Replacing(j)' = Replacing(j) /\ Serves(j)' = Serves(j)
      BY <1>2 DEF Replacing, Serves, Arrives
    <3> QED
      BY <1>2, <1>3, <2>1, <3>1, <3>2 DEF QuietSessions
  <2> QED
    BY <2>2, <2>3
<1>11. FirstPosted'
  <2> SUFFICES ASSUME comebacks <= 1, mishaps' \subseteq {"unheard"} PROVE FirstPosted'
    BY <1>2 DEF FirstPosted
  <2>1. us[Joined].pc # "none" /\ mishaps \subseteq {"unheard"}
    BY <1>2
  <2>2. \A q \in posted' : q.obj # Joined =>
          /\ comebacks = 1 /\ q.node = client.node /\ q.connID = client.connID
          /\ q.prev = OriginalConnID
    BY <1>1, <1>4, <1>5, <2>1 DEF ConnsIInv, FirstPosted
  <2>3. \A n \in Node : \A m \in Arrives(n) : m.type # "reconnect"
    BY <1>1, <2>1 DEF ConnsIInv, FirstPosted
  <2> QED
    BY <1>2, <1>7, <2>1, <2>2, <2>3 DEF FirstPosted
<1>12. SignalsKey'
  <2> SUFFICES ASSUME Signalled' PROVE SignalsKey'
    BY DEF SignalsKey
  <2>1. Signalled /\ posted' # {}
    BY <1>2, <1>3, <1>4 DEF Signalled
  <2>2. HandlerHas(OriginalConnID, RTCObject) /\ us[RTCObject].rtc /\ ~us[RTCObject].wsReconnected
    BY <1>1, <2>1 DEF ConnsIInv, SignalsKey
  <2> QED
    BY <1>2, <2>1, <2>2 DEF SignalsKey, HandlerHas, RTCObject
<1> QED
  BY <1>6, <1>8, <1>9, <1>10, <1>11, <1>12 DEF ConnsIInv

LEMMA HandleJoinInductive == ConnsIInv /\ HandleJoin => ConnsIInv'
<1> SUFFICES ASSUME ConnsIInv, HandleJoin PROVE ConnsIInv'
  OBVIOUS
<1>1. PICK r \in posted, made \in BOOLEAN :
        LET direct == r.node = Handler
        IN  /\ r.obj = Joined /\ posted' = posted \ {r}
            /\ row' = TRUE
            /\ us' = [us EXCEPT ![Joined] =
                         NewSession(r.node, r.connID, direct, IF made THEN "read" ELSE "wait")]
            /\ sessions' = [sessions EXCEPT ![r.node][r.connID] = Joined]
            /\ rtcSession' = IF direct /\ made THEN "on" ELSE rtcSession
            /\ inbox' = IF direct \/ ~made THEN inbox
                        ELSE [inbox EXCEPT ![Handler] = Append(@, [type |-> "connect", connID |-> r.connID])]
            /\ Mishap("unmade", ~made)
  BY DEF HandleJoin
<1>2. UNCHANGED <<hooks, rechecks, client, comebacks, ids, over>>
  BY DEF HandleJoin, outside
<1> DEFINE direct == r.node = Handler
           s == NewSession(r.node, OriginalConnID, direct, IF made THEN "read" ELSE "wait")
           m == [type |-> "connect", connID |-> OriginalConnID]
           S == IF direct \/ ~made THEN {} ELSE {Handler}
<1>3. /\ ConnsTyped /\ Joined \in Object /\ Connected \in Object /\ Joined # Connected /\ Joined = 1
      /\ OriginalConnID \in ConnID /\ OriginalConnID = 1 /\ Handler \in Node
      /\ Current \in Object /\ comebacks \in Nat /\ ids \in Nat /\ ids >= 1
      /\ r \in PostedMsg /\ r.node \in Node /\ r.connID = OriginalConnID
      /\ RTCObject \in Object
  BY <1>1, Names DEF ConnsIInv, ConnsTyped, PostedMsg, FreshKey, Joined, OriginalConnID
<1>4. /\ ~row /\ rtcSession = "none" /\ us[Connected] = NoSession /\ us[Joined] = NoSession
      /\ \A n \in Node, c \in ConnID : sessions[n][c] = 0
      /\ \A n \in Node : \A e \in Arrives(n) : e.type # "connect"
      /\ us[Joined].pc = "none" /\ us[Joined].removed = "no"
  <2>1. JoinPosted /\ us[Joined] = NoSession
    BY <1>1 DEF ConnsIInv, FreshKey, JoinPosted
  <2>2. NoSession.pc = "none" /\ NoSession.removed = "no"
    BY DEF NoSession, NewSession
  <2> QED
    BY <2>1, <2>2 DEF ConnsIInv, FreshKey
<1>5. /\ s \in Session /\ s.node = r.node /\ s.connID = OriginalConnID /\ s.rtc = direct
      /\ ~s.wsClosed /\ ~s.wsReconnected /\ ~s.rtcClosed /\ ~s.left /\ s.removed = "no"
      /\ s.pc = (IF made THEN "read" ELSE "wait") /\ s.pc \in {"read", "wait"}
  BY <1>3 DEF NewSession, Session
<1>6. m \in Message /\ m.type = "connect" /\ m.connID = OriginalConnID /\ S \in SUBSET Node
  BY <1>3 DEF Message
<1>7. /\ us' = [us EXCEPT ![Joined] = s]
      /\ sessions' = [sessions EXCEPT ![r.node][OriginalConnID] = Joined]
      /\ inbox' = [n \in Node |-> IF n \in S THEN Append(inbox[n], m) ELSE inbox[n]]
      /\ mishaps' = IF made THEN mishaps ELSE mishaps \cup {"unmade"}
      /\ rtcSession' = (IF direct /\ made THEN "on" ELSE "none")
      /\ posted' = posted \ {r} /\ row' = TRUE /\ r.obj = Joined
  BY <1>1, <1>3, <1>4 DEF ConnsTyped, Mishap
<1>8. /\ us' \in [Object -> Session] /\ us'[Joined] = s
      /\ \A j \in Object : j # Joined => us'[j] = us[j]
      /\ sessions' \in [Node -> [ConnID -> Object \cup {0}]]
      /\ \A n \in Node, c \in ConnID :
           sessions'[n][c] = IF n = r.node /\ c = OriginalConnID THEN Joined ELSE 0
  BY <1>3, <1>4, <1>5, <1>7 DEF ConnsTyped
<1>9. /\ inbox' \in [Node -> Seq(Message)]
      /\ \A n \in Node : Arrives(n)' = IF n \in S THEN Arrives(n) \cup {m} ELSE Arrives(n)
      /\ \A n \in Node : ConnectsOnce(inbox'[n])
  <2>1. \A n \in Node : ConnectsOnce(inbox[n])
    BY DEF ConnsIInv, ConnectKey
  <2>2. inbox' = [n \in Node |-> IF n \in S THEN Append(inbox[n], m) ELSE inbox[n]]
    BY <1>7
  <2> HIDE DEF m, S
  <2>3. /\ inbox' \in [Node -> Seq(Message)]
        /\ \A n \in Node :
             /\ Arrives(n)' = IF n \in S THEN Arrives(n) \cup {m} ELSE Arrives(n)
             /\ ConnectsOnce(inbox[n]) /\ (m.type = "connect" => \A e \in Arrives(n) : e.type # "connect")
                  => ConnectsOnce(inbox'[n])
    BY <1>3, <1>6, <2>2, Sent
  <2> QED
    BY <1>4, <2>1, <2>3
<1>10. ~JoinPosted' /\ Current' = Current /\ Previous' = Previous
  BY <1>2, <1>7 DEF JoinPosted, ConnsIInv, FreshKey, Current, Previous
<1> HIDE DEF s, m
<1>11. ConnsTyped'
  BY <1>2, <1>3, <1>7, <1>8, <1>9 DEF ConnsTyped
<1>12. FreshKey'
  <2>1. \A q \in posted' : /\ q.obj # Joined /\ q.obj \in Object /\ us'[q.obj] = NoSession
                           /\ q.obj <= comebacks + 2 /\ q.connID <= ids
    BY <1>3, <1>7, <1>8 DEF ConnsIInv, FreshKey, ConnsTyped, PostedMsg
  <2>2. \A j \in Object : j > comebacks + 2 \/ us'[j].pc = "none" => us'[j] = NoSession
    BY <1>3, <1>5, <1>8 DEF ConnsIInv, FreshKey
  <2>3. us'[Joined].pc # "none" /\ us'[Connected] = NoSession /\ NoSession.pc = "none"
    BY <1>3, <1>4, <1>5, <1>8 DEF NoSession, NewSession
  <2>4. rtcSession' # "none" => us'[Joined].node = Handler
    BY <1>5, <1>7, <1>8
  <2>5. comebacks = 0 => \A n \in Node : \A e \in Arrives(n)' : e.type # "reconnect"
    BY <1>6, <1>9 DEF ConnsIInv, FreshKey
  <2>6. \A q, p \in posted' : q.obj = p.obj => q = p
    BY <1>7 DEF ConnsIInv, FreshKey
  <2>7. /\ client.connID <= ids
        /\ comebacks = 0 => client.connID = 1 /\ client.known = 1
    BY DEF ConnsIInv, FreshKey
  <2> QED
    BY <1>2, <1>10, <2>1, <2>2, <2>3, <2>4, <2>5, <2>6, <2>7 DEF FreshKey
<1>13. ConnectKey'
  <2> SUFFICES ASSUME NEW n \in Node, NEW e \in Arrives(n)', e.type = "connect"
               PROVE  /\ n = Handler /\ e.connID = OriginalConnID
                      /\ us'[Connected] = NoSession /\ rtcSession' = "none"
                      /\ us'[Joined].node # Handler /\ us'[Joined].pc # "none"
    BY <1>9 DEF ConnectKey
  <2>1. n = Handler /\ e = m /\ ~direct
    BY <1>4, <1>9
  <2> QED
    BY <1>3, <1>4, <1>5, <1>6, <1>7, <1>8, <2>1
<1>14. MapKey'
  BY <1>2, <1>3, <1>5, <1>8 DEF MapKey
<1>15. ASSUME Quiet' PROVE QuietMessages' /\ QuietSessions'
  <2>1. Quiet /\ QuietMessages /\ QuietSessions /\ made
    BY <1>2, <1>4, <1>7, <1>8, <1>15 DEF Quiet, ConnsIInv
  <2>2. \A j \in Object : ~Serves(j)
    <3> SUFFICES ASSUME NEW j \in Object, Serves(j) PROVE FALSE
      OBVIOUS
    <3>1. us[j].node \in Node /\ us[j].connID \in ConnID
      BY Waiting DEF Serves
    <3> QED
      BY <1>4, <2>1, <3>1 DEF QuietSessions, Object
  <2>3. us[Current].pc = "none"
    BY <1>3, <2>1, <2>2 DEF QuietSessions
  <2>4. comebacks <= 1 /\ \A q \in posted : q.prev = OriginalConnID
    BY <1>7, <2>1 DEF QuietMessages, JoinPosted
  <2>5. QuietMessages'
    <3>1. \A j \in Object : ~us'[j].rtcClosed /\ ~us'[j].left
      BY <1>5, <1>8, <2>1 DEF QuietMessages
    <3>2. \A n \in Node : \A e \in Arrives(n)' : e.type = "connect"
      BY <1>6, <1>9, <2>1, <2>3 DEF QuietMessages
    <3>3. us'[Current].pc = "none" => \E q \in posted' : q.obj = Current
      BY <1>3, <1>5, <1>7, <1>8, <2>1, <2>3 DEF QuietMessages
    <3>4. \A q \in posted' : q.obj = Current /\ q.obj # Joined /\ q.connID \in ConnID
      BY <1>3, <1>7, <2>1 DEF QuietMessages, ConnsIInv, FreshKey, ConnsTyped, PostedMsg
    <3>5. \A q \in posted' :
               /\ q.node = client.node /\ q.connID = client.connID
               /\ q.connID # q.prev =>
                    q.connID # OriginalConnID /\ \A n \in Node : sessions'[n][q.connID] = 0
      BY <1>7, <1>8, <2>1, <3>4 DEF QuietMessages
    <3> QED
      BY <1>2, <1>7, <1>10, <2>1, <3>1, <3>2, <3>3, <3>4, <3>5 DEF QuietMessages
  <2>6. QuietSessions'
    <3>1. \A j \in Object : Serves(j)' => j = Joined
      BY <1>8, <2>2 DEF Serves
    <3>2. sessions'[us'[Joined].node][us'[Joined].connID] = Joined
      BY <1>3, <1>5, <1>8
    <3>3. us'[Current].pc # "none" => Current = Joined /\ r.node = client.node /\ client.connID = OriginalConnID
      <4>1. us'[Current].pc # "none" => Current = Joined
        BY <1>3, <1>8, <2>3
      <4> QED
        BY <1>3, <1>7, <2>1, <4>1 DEF QuietMessages
    <3>4. Serves(Joined)' /\ us'[Joined].pc = "read" /\ ~us'[Joined].wsClosed
      BY <1>5, <1>8, <2>1 DEF Serves
    <3>5. Previous = Joined
      BY <2>4 DEF Previous
    <3>6. \A q \in posted' : us'[Joined].connID = q.prev
      BY <1>5, <1>7, <1>8, <2>4
    <3> QED
      BY <1>2, <1>5, <1>8, <1>10, <3>1, <3>2, <3>3, <3>4, <3>5, <3>6 DEF QuietSessions
  <2> QED
    BY <2>5, <2>6
<1>16. comebacks <= 1 /\ mishaps' \subseteq {"unheard"} =>
          /\ \A n \in Node : \A e \in Arrives(n)' : e.type # "reconnect"
          /\ comebacks = 1 => posted' # {}
          /\ mishaps \subseteq {"unheard"} /\ made
  BY <1>4, <1>6, <1>7, <1>9 DEF ConnsIInv, FirstPosted
<1>17. FirstPosted'
  <2> SUFFICES ASSUME comebacks <= 1, mishaps' \subseteq {"unheard"} PROVE FirstPosted'
    BY <1>2 DEF FirstPosted
  <2>1. \A q \in posted' : q.obj # Joined =>
          /\ comebacks = 1 /\ q.node = client.node /\ q.connID = client.connID
          /\ q.prev = OriginalConnID
    BY <1>7, <1>16 DEF ConnsIInv, FirstPosted
  <2>2. us'[Joined].pc # "none"
    BY <1>5, <1>8
  <2> QED
    BY <1>2, <1>16, <2>1, <2>2 DEF FirstPosted
<1>18. SignalsKey'
  <2> SUFFICES ASSUME Signalled' PROVE SignalsKey'
    BY DEF SignalsKey
  <2>1. direct /\ (posted' # {} \/ comebacks' = 0)
    BY <1>2, <1>3, <1>7, <1>16 DEF Signalled
  <2>2. RTCObject' = Joined
    BY <1>5, <1>8, <2>1 DEF RTCObject
  <2>3. HandlerHas(OriginalConnID, Joined)'
    BY <1>3, <1>5, <1>8, <2>1 DEF HandlerHas
  <2>4. us'[Joined].rtc /\ ~us'[Joined].wsReconnected
    BY <1>5, <1>8, <2>1
  <2> QED
    BY <2>1, <2>2, <2>3, <2>4 DEF SignalsKey, HandlerHas
<1> QED
  BY <1>11, <1>12, <1>13, <1>14, <1>15, <1>17, <1>18 DEF ConnsIInv
\* What is known of a reconnect message that is handled, and of the session it replaces.
LEMMA ToReplace ==
  ASSUME ConnsIInv, NEW r \in posted, r.found
  PROVE  /\ r \in PostedMsg /\ r.node \in Node /\ r.connID \in ConnID /\ r.prev \in ConnID
         /\ r.obj \in Object \ {Connected, Joined} /\ us[r.obj] = NoSession /\ us[r.obj].pc = "none"
         /\ r.obj <= comebacks + 2 /\ comebacks # 0 /\ r.connID <= ids
         /\ ~JoinPosted /\ us[Joined].pc # "none"
         /\ \A q \in posted : q.obj = r.obj => q = r
         /\ Replaced(r) \in Object \cup {0}
         /\ Replaced(r) # 0 =>
              /\ us[Replaced(r)].node = r.node /\ us[Replaced(r)].pc # "none" /\ Replaced(r) # r.obj
<1>1. ConnsTyped /\ posted \subseteq PostedMsg
  BY DEF ConnsIInv, ConnsTyped
<1>2. /\ r \in PostedMsg /\ r.node \in Node /\ r.connID \in ConnID /\ r.prev \in ConnID
      /\ r.obj \in Object \ {Connected}
  BY <1>1 DEF PostedMsg
<1>3. /\ us[r.obj] = NoSession /\ us[r.obj].pc = "none" /\ r.obj <= comebacks + 2 /\ r.connID <= ids
      /\ us[Joined].pc # "none" /\ \A q \in posted : q.obj = r.obj => q = r
  BY Nobody DEF ConnsIInv, FreshKey
<1>4. ~JoinPosted /\ r.obj # Joined
  BY <1>3, Nobody DEF JoinPosted, ConnsIInv, FreshKey
<1>5. comebacks # 0
  BY <1>1, <1>2, <1>3, <1>4, Names DEF Object, Connected, Joined
<1>6. Replaced(r) \in Object \cup {0}
  BY <1>1, <1>2 DEF Replaced, ConnsTyped
<1>7. Replaced(r) # 0 => us[Replaced(r)].node = r.node /\ us[Replaced(r)].pc # "none"
  BY <1>2 DEF Replaced, ConnsIInv, MapKey
<1> QED
  BY <1>2, <1>3, <1>4, <1>5, <1>6, <1>7

\* A reconnect message that is dropped or refused.
LEMMA RefusedInductive ==
  ASSUME ConnsIInv, NEW r \in posted, r.found, posted' = posted \ {r},
         mishaps' = mishaps \cup {"refused"},
         UNCHANGED <<us, sessions, row, rtcSession, inbox, hooks, rechecks, client, comebacks, ids, over>>
  PROVE  ConnsIInv'
<1>1. ConnsTyped'
  BY DEF ConnsIInv, ConnsTyped
<1>2. r.obj # Joined /\ JoinPosted' = JoinPosted /\ us[Joined].pc # "none"
  BY ToReplace DEF JoinPosted
<1>3. FreshKey' /\ ConnectKey' /\ MapKey'
  BY <1>2 DEF ConnsIInv, FreshKey, ConnectKey, MapKey, Arrives
<1> QED
  BY <1>1, <1>3 DEF ConnsIInv, Quiet, FirstPosted, SignalsKey, Signalled

LEMMA ReplacesInductive ==
  ASSUME ConnsIInv, NEW r \in posted, r.found, posted' = posted \ {r},
         NEW rtc \in BOOLEAN,
         us' = [i \in Object |->
                  IF i = r.obj THEN NewSession(r.node, r.connID, rtc, "read")
                  ELSE IF i = Replaced(r) THEN [us[i] EXCEPT !.wsReconnected = TRUE]
                  ELSE us[i]],
         sessions' = [sessions EXCEPT ![r.node][OriginalConnID] = 0, ![r.node][r.connID] = r.obj],
         inbox' = Others(r.node, ReconnectMsg(r)),
         UNCHANGED <<row, rtcSession, hooks, rechecks, client, comebacks, ids, over, mishaps>>
  PROVE  ConnsIInv'
<1> DEFINE o == r.obj
           old == Replaced(r)
           s == NewSession(r.node, r.connID, rtc, "read")
           m == ReconnectMsg(r)
           S == Node \ {r.node}
<1>1. /\ r \in PostedMsg /\ r.node \in Node /\ r.connID \in ConnID /\ r.prev \in ConnID
      /\ o \in Object \ {Connected, Joined} /\ us[o] = NoSession /\ us[o].pc = "none"
      /\ o <= comebacks + 2 /\ comebacks # 0 /\ r.connID <= ids
      /\ ~JoinPosted /\ us[Joined].pc # "none"
      /\ \A q \in posted : q.obj = o => q = r
      /\ old \in Object \cup {0}
      /\ old # 0 => us[old].node = r.node /\ us[old].pc # "none" /\ old # o
  BY ToReplace
<1>2. /\ ConnsTyped /\ Joined \in Object /\ Connected \in Object /\ OriginalConnID \in ConnID
      /\ Handler \in Node /\ Current \in Object /\ Previous \in Object /\ RTCObject \in Object
      /\ comebacks \in Nat /\ ids \in Nat /\ comebacks + 2 \in Object
      /\ us \in [Object -> Session] /\ posted \subseteq PostedMsg
  BY Names DEF ConnsIInv, ConnsTyped
<1>3. /\ s \in Session /\ s.node = r.node /\ s.connID = r.connID /\ s.rtc = rtc
      /\ ~s.wsClosed /\ ~s.wsReconnected /\ ~s.rtcClosed /\ ~s.left /\ s.removed = "no" /\ s.pc = "read"
  BY <1>1 DEF NewSession, Session
<1>4. /\ m \in Message /\ m.type = "reconnect" /\ m.connID = r.prev /\ m.newConnID = r.connID
      /\ S \in SUBSET Node
  BY <1>1 DEF ReconnectMsg, Message
<1>5. /\ us' = [i \in Object |-> IF i = o THEN s
                                 ELSE IF i = old THEN [us[i] EXCEPT !.wsReconnected = TRUE] ELSE us[i]]
      /\ inbox' = [n \in Node |-> IF n \in S THEN Append(inbox[n], m) ELSE inbox[n]]
  BY DEF Others
<1> HIDE DEF o, old, s, m, S
<1>6. /\ us' \in [Object -> Session] /\ us'[o] = s
      /\ \A j \in Object : j # o /\ j # old => us'[j] = us[j]
      /\ old # 0 => us'[old] = [us[old] EXCEPT !.wsReconnected = TRUE]
  <2>1. \A j \in Object : us[j] \in Session /\ [us[j] EXCEPT !.wsReconnected = TRUE] \in Session
    BY <1>2 DEF Session
  <2>2. us' \in [Object -> Session]
    BY <1>3, <1>5, <2>1
  <2>3. \A j \in Object : us'[j] = IF j = o THEN s
                                   ELSE IF j = old THEN [us[j] EXCEPT !.wsReconnected = TRUE] ELSE us[j]
    BY <1>5
  <2>4. 0 \notin Object
    BY DEF Object
  <2> QED
    BY <1>1, <2>2, <2>3, <2>4
<1>7. \A j \in Object : j # o =>
        /\ us'[j].node = us[j].node /\ us'[j].connID = us[j].connID /\ us'[j].rtc = us[j].rtc
        /\ us'[j].pc = us[j].pc /\ us'[j].removed = us[j].removed
        /\ us'[j].rtcClosed = us[j].rtcClosed /\ us'[j].left = us[j].left
        /\ us[j].wsReconnected => us'[j].wsReconnected
        /\ us[j].pc = "none" => us'[j] = us[j]
        /\ j = old => us'[j].wsReconnected
        /\ j # old => us'[j] = us[j]
  <2> SUFFICES ASSUME NEW j \in Object, j # o
               PROVE  /\ us'[j].node = us[j].node /\ us'[j].connID = us[j].connID
                      /\ us'[j].rtc = us[j].rtc
                      /\ us'[j].pc = us[j].pc /\ us'[j].removed = us[j].removed
                      /\ us'[j].rtcClosed = us[j].rtcClosed /\ us'[j].left = us[j].left
                      /\ us[j].wsReconnected => us'[j].wsReconnected
                      /\ us[j].pc = "none" => us'[j] = us[j]
                      /\ j = old => us'[j].wsReconnected
                      /\ j # old => us'[j] = us[j]
    OBVIOUS
  <2>1. us[j] \in Session /\ j # 0
    BY <1>2 DEF Object
  <2>2. CASE j # old
    BY <1>6, <2>2
  <2>3. CASE j = old
    <3>1. us'[j] = [us[j] EXCEPT !.wsReconnected = TRUE] /\ us[j].pc # "none"
      BY <1>1, <1>6, <2>1, <2>3
    <3> QED
      BY <2>1, <2>3, <3>1 DEF Session
  <2> QED
    BY <2>2, <2>3
<1>8. /\ sessions' \in [Node -> [ConnID -> Object \cup {0}]]
      /\ \A n \in Node, c \in ConnID :
           sessions'[n][c] = IF n = r.node /\ c = r.connID THEN o
                             ELSE IF n = r.node /\ c = OriginalConnID THEN 0 ELSE sessions[n][c]
  BY <1>1, <1>2 DEF ConnsTyped, o
<1>9. /\ inbox' \in [Node -> Seq(Message)]
      /\ \A n \in Node : Arrives(n)' = IF n # r.node THEN Arrives(n) \cup {m} ELSE Arrives(n)
      /\ \A n \in Node : ConnectsOnce(inbox'[n])
  <2>1. \A n \in Node : ConnectsOnce(inbox[n])
    BY DEF ConnsIInv, ConnectKey
  <2>2. /\ inbox' \in [Node -> Seq(Message)]
        /\ \A n \in Node :
             /\ Arrives(n)' = IF n \in S THEN Arrives(n) \cup {m} ELSE Arrives(n)
             /\ ConnectsOnce(inbox[n]) /\ (m.type = "connect" => \A e \in Arrives(n) : e.type # "connect")
                  => ConnectsOnce(inbox'[n])
    BY <1>2, <1>4, <1>5, Sent
  <2> QED
    BY <1>4, <2>1, <2>2 DEF S
<1>10. /\ JoinPosted' = JoinPosted /\ Current' = Current /\ Previous' = Previous
       /\ RTCObject' = RTCObject
  BY <1>1, <1>2, <1>7 DEF JoinPosted, Current, Previous, RTCObject, o
<1>11. ConnsTyped'
  BY <1>2, <1>6, <1>8, <1>9 DEF ConnsTyped
<1>12. FreshKey'
  <2>1. \A q \in posted' : /\ q.obj # o /\ q.obj \in Object /\ us'[q.obj] = NoSession
                           /\ q.obj <= comebacks + 2 /\ q.connID <= ids
    <3>1. \A q \in posted : q.obj \in Object /\ us[q.obj] = NoSession /\ us[q.obj].pc = "none"
                            /\ q.obj <= comebacks + 2 /\ q.connID <= ids
      BY <1>2, Nobody DEF ConnsIInv, FreshKey, PostedMsg
    <3>2. \A j \in Object : j # o /\ us[j].pc = "none" => us'[j] = us[j]
      BY <1>7
    <3>3. \A q \in posted' : q \in posted /\ q.obj # o
      BY <1>1
    <3> QED
      BY <3>1, <3>2, <3>3
  <2>2. \A j \in Object : j > comebacks + 2 \/ us'[j].pc = "none" => us'[j] = NoSession
    <3>1. \A j \in Object : j > comebacks + 2 \/ us[j].pc = "none" => us[j] = NoSession /\ us[j].pc = "none"
      BY Nobody DEF ConnsIInv, FreshKey
    <3>2. us'[o].pc = "read" /\ ~(o > comebacks + 2)
      <4>1. us'[o].pc = "read"
        BY <1>3, <1>6
      <4>2. o \in Int /\ comebacks \in Int /\ o <= comebacks + 2
        BY <1>1, <1>2 DEF Object
      <4> QED
        BY <4>1, <4>2
    <3>3. \A j \in Object : j # o => us'[j].pc = us[j].pc /\ (us[j].pc = "none" => us'[j] = us[j])
      BY <1>7
    <3>4. ASSUME NEW j \in Object, j > comebacks + 2 \/ us'[j].pc = "none"
          PROVE  us'[j] = NoSession
      <4>1. j # o
        BY <3>2, <3>4
      <4>2. us'[j].pc = us[j].pc /\ (us[j].pc = "none" => us'[j] = us[j])
        BY <3>3, <4>1
      <4>3. us[j] = NoSession /\ us[j].pc = "none"
        BY <3>1, <3>4, <4>2
      <4> QED
        BY <4>2, <4>3
    <3> QED
      BY <3>4
  <2>3. /\ us'[Joined].pc # "none" /\ us'[Connected].pc \in {"none", "rtc", "end"}
        /\ us'[Connected].pc = "none" /\ rtcSession # "none" => us'[Joined].node = Handler
    BY <1>1, <1>2, <1>7 DEF ConnsIInv, FreshKey
  <2>4. \A q, p \in posted' : q.obj = p.obj => q = p
    BY DEF ConnsIInv, FreshKey
  <2>5. client.connID <= ids
    BY DEF ConnsIInv, FreshKey
  <2>6. \A q \in posted' : q.obj = Joined => q.connID = OriginalConnID
    BY DEF ConnsIInv, FreshKey
  <2> QED
    BY <1>1, <1>10, <2>1, <2>2, <2>3, <2>4, <2>5, <2>6 DEF FreshKey
<1>13. ConnectKey'
  <2> SUFFICES ASSUME NEW n \in Node, NEW e \in Arrives(n)', e.type = "connect"
               PROVE  /\ n = Handler /\ e.connID = OriginalConnID
                      /\ us'[Connected] = NoSession /\ rtcSession' = "none"
                      /\ us'[Joined].node # Handler /\ us'[Joined].pc # "none"
    BY <1>9 DEF ConnectKey
  <2>1. e \in Arrives(n)
    BY <1>4, <1>9
  <2>2. /\ n = Handler /\ e.connID = OriginalConnID
        /\ us[Connected] = NoSession /\ rtcSession = "none"
        /\ us[Joined].node # Handler /\ us[Joined].pc # "none"
    BY <2>1 DEF ConnsIInv, ConnectKey
  <2>3. us[Connected].pc = "none"
    BY <2>2 DEF NoSession, NewSession
  <2> QED
    BY <1>1, <1>2, <1>7, <2>2, <2>3
<1>14. MapKey'
  <2> SUFFICES ASSUME NEW n \in Node, NEW c \in ConnID, sessions'[n][c] # 0
               PROVE  LET i == sessions'[n][c]
                      IN  /\ us'[i].pc # "none" /\ us'[i].node = n /\ c <= ids'
                          /\ ~us'[i].wsReconnected => us'[i].connID = c
    BY DEF MapKey
  <2>1. CASE n = r.node /\ c = r.connID
    BY <1>1, <1>3, <1>6, <1>8, <2>1
  <2>2. CASE ~(n = r.node /\ c = r.connID)
    <3>1. sessions'[n][c] = sessions[n][c] /\ sessions[n][c] \in Object
      BY <1>2, <1>8, <2>2 DEF ConnsTyped
    <3>2. LET i == sessions[n][c]
          IN  /\ us[i].pc # "none" /\ us[i].node = n /\ c <= ids
              /\ ~us[i].wsReconnected => us[i].connID = c
      BY <3>1 DEF ConnsIInv, MapKey
    <3>3. sessions[n][c] # o
      BY <1>1, <3>2
    <3>4. LET i == sessions[n][c]
          IN  us'[i].node = us[i].node /\ us'[i].connID = us[i].connID /\ us'[i].pc = us[i].pc
              /\ (us[i].wsReconnected => us'[i].wsReconnected)
      BY <1>7, <3>1, <3>3
    <3> QED
      BY <3>1, <3>2, <3>4
  <2> QED
    BY <2>1, <2>2
<1>15. ASSUME Quiet' PROVE QuietMessages' /\ QuietSessions'
  <2>1. Quiet /\ QuietMessages /\ QuietSessions
    <3>1. us[o].removed = "no"
      BY <1>1, Nobody
    <3>2. \A j \in Object : j # o => us'[j].removed = us[j].removed
      BY <1>7
    <3> QED
      BY <1>15, <3>1, <3>2 DEF Quiet, ConnsIInv
  <2>2. o = Current /\ r.node = client.node /\ r.connID = client.connID
    BY <1>1, <2>1 DEF QuietMessages, o
  <2>3. QuietMessages'
    <3>1. \A j \in Object : ~us'[j].rtcClosed /\ ~us'[j].left
      <4>1. ~us'[o].rtcClosed /\ ~us'[o].left
        BY <1>3, <1>6
      <4>2. \A j \in Object : j # o => us'[j].rtcClosed = us[j].rtcClosed /\ us'[j].left = us[j].left
        BY <1>7
      <4> QED
        BY <2>1, <4>1, <4>2 DEF QuietMessages
    <3>2. \A n \in Node : \A e \in Arrives(n)' :
            /\ e.type \in {"connect", "reconnect"}
            /\ e.type = "reconnect" => n # client.node
      BY <1>1, <1>4, <1>9, <2>1, <2>2 DEF QuietMessages
    <3>3. us'[Current].pc # "none" /\ row
      BY <1>1, <1>3, <1>6, <2>1, <2>2 DEF QuietMessages
    <3>4. posted' = {}
      BY <1>1, <2>1, <2>2 DEF QuietMessages, JoinPosted
    <3>5. (client.ws = "up" => hooks = {}) /\ client.known = client.connID
      BY <2>1 DEF QuietMessages
    <3> QED
      BY <1>1, <1>10, <3>1, <3>2, <3>3, <3>4, <3>5 DEF QuietMessages
  <2>4. QuietSessions'
    <3>1. \A j \in Object : Serves(j)' => j = Current \/ (Serves(j) /\ j # old /\ j # o)
      BY <1>6, <1>7, <2>2 DEF Serves
    <3>2. ASSUME NEW j \in Object, Serves(j), j # old, j # o
          PROVE  /\ us[j].node \in Node /\ us[j].connID = r.prev
                 /\ us[j].node # r.node /\ sessions[us[j].node][us[j].connID] = j
      <4>1. sessions[us[j].node][us[j].connID] = j /\ us[j].connID = r.prev /\ us[j].node \in Node
        BY <1>1, <2>1, <2>2, <3>2, Waiting DEF QuietSessions, Serves
      <4>2. r.connID # r.prev => sessions[r.node][r.connID] = 0
        BY <1>1, <2>1, <2>2 DEF QuietMessages, o
      <4>3. j # 0
        BY DEF Object
      <4> QED
        BY <3>2, <4>1, <4>2, <4>3 DEF Replaced, old
    <3>3. \A j \in Object : Serves(j)' => sessions'[us'[j].node][us'[j].connID] = j
      BY <1>1, <1>3, <1>6, <1>7, <1>8, <2>2, <3>1, <3>2
    <3>4. /\ Serves(Current)' /\ us'[Current].pc = "read" /\ ~us'[Current].wsClosed
          /\ us'[Current].node = client.node /\ us'[Current].connID = client.connID
      <4>1. us'[Current'] = s /\ us'[Current] = s
        BY <1>6, <1>10, <2>2
      <4> QED
        BY <1>3, <2>2, <4>1 DEF Serves
    <3>5. ASSUME NEW j \in Object, Serves(j)', j # Current PROVE Replacing(j)'
      <4>1. Serves(j) /\ j # old /\ j # o
        BY <3>1, <3>5
      <4>2. us'[j].node = us[j].node /\ us'[j].connID = us[j].connID
        BY <1>7, <4>1
      <4>3. us[j].node # r.node /\ us[j].node \in Node /\ us[j].connID = r.prev
        BY <3>2, <4>1
      <4>4. \A n \in Node : n # r.node => m \in Elements(inbox'[n])
        BY <1>9 DEF Arrives
      <4>5. m \in Elements(inbox'[us'[j].node])
        BY <4>2, <4>3, <4>4
      <4> QED
        BY <1>4, <4>2, <4>3, <4>5 DEF Replacing, Arrives
    <3> QED
      BY <1>10, <3>3, <3>4, <3>5 DEF QuietSessions
  <2> QED
    BY <2>3, <2>4
<1>16. ASSUME comebacks <= 1, mishaps \subseteq {"unheard"}
       PROVE  /\ comebacks = 1 /\ o = comebacks + 2 /\ posted' = {}
              /\ r.node = client.node /\ r.connID = client.connID /\ r.prev = OriginalConnID
              /\ \A n \in Node : \A e \in Arrives(n) : e.type # "reconnect"
  <2>1. /\ comebacks = 1 /\ r.node = client.node /\ r.connID = client.connID
        /\ r.prev = OriginalConnID
        /\ \A n \in Node : \A e \in Arrives(n) : e.type # "reconnect"
    BY <1>1, <1>16 DEF ConnsIInv, FirstPosted, o
  <2>2. \A j \in Object : j # Joined /\ j # Connected /\ j <= 3 => j = 3
    BY DEF Object, Joined, Connected
  <2>3. \A q \in posted : q.obj \in Object /\ q.obj # Joined /\ q.obj # Connected /\ q.obj <= 3
    BY <1>1, <1>2, <2>1 DEF ConnsIInv, FreshKey, PostedMsg, JoinPosted
  <2>4. o = 3 /\ \A q \in posted : q.obj = o
    BY <2>2, <2>3 DEF o
  <2> QED
    BY <1>1, <2>1, <2>4
<1>17. FirstPosted'
  <2> SUFFICES ASSUME comebacks <= 1, mishaps \subseteq {"unheard"} PROVE FirstPosted'
    BY DEF FirstPosted
  <2>1. us'[Joined].pc # "none"
    BY <1>1, <1>2, <1>7
  <2> QED
    BY <1>4, <1>9, <1>16, <2>1 DEF FirstPosted
<1>18. SignalsKey'
  <2> SUFFICES ASSUME Signalled' PROVE SignalsKey'
    BY DEF SignalsKey
  <2>1. /\ Signalled /\ comebacks = 1 /\ o = comebacks + 2 /\ posted' = {}
        /\ r.node = client.node /\ r.connID = client.connID
    BY <1>16 DEF Signalled
  <2>2. HandlerHas(OriginalConnID, RTCObject) /\ us[RTCObject].rtc /\ ~us[RTCObject].wsReconnected
    BY <2>1 DEF ConnsIInv, SignalsKey
  <2>3. us[RTCObject].node = Handler /\ us[RTCObject].pc # "none" /\ RTCObject # o
    BY <1>1, <2>2 DEF HandlerHas
  <2>4. CASE client.node = Handler
    <3>1. HandlerHas(client.connID, comebacks + 2)'
      BY <1>1, <1>2, <1>3, <1>6, <1>8, <2>1, <2>2, <2>4 DEF HandlerHas
    <3>2. ~us'[comebacks + 2].wsReconnected
      BY <1>3, <1>6, <2>1
    <3>3. /\ ~(posted' # {} \/ comebacks' = 0) /\ client'.node = Handler
          /\ ~us'[comebacks' + 2].wsReconnected
      BY <2>1, <2>4, <3>2
    <3> QED
      BY <3>1, <3>3 DEF SignalsKey
  <2>5. CASE client.node # Handler
    <3>1. RTCObject # old
      BY <1>1, <2>1, <2>3, <2>5, <1>2 DEF Object
    <3>2. us'[RTCObject] = us[RTCObject]
      BY <1>2, <1>7, <2>3, <3>1
    <3>3. \A d \in ConnID : sessions'[Handler][d] = sessions[Handler][d]
      BY <1>2, <1>8, <2>1, <2>5
    <3>4. HandlerHas(OriginalConnID, RTCObject)'
      BY <1>10, <2>2, <3>2, <3>3 DEF HandlerHas
    <3>5. \E e \in Arrives(Handler)' : e.type = "reconnect"
      BY <1>2, <1>4, <1>9, <2>1, <2>5
    <3> QED
      BY <1>10, <2>1, <2>2, <2>5, <3>2, <3>4, <3>5 DEF SignalsKey, HandlerHas
  <2> QED
    BY <2>4, <2>5
<1> QED
  BY <1>11, <1>12, <1>13, <1>14, <1>15, <1>17, <1>18 DEF ConnsIInv

LEMMA HandleReconnectInductive == ConnsIInv /\ HandleReconnect => ConnsIInv'
<1> SUFFICES ASSUME ConnsIInv, HandleReconnect PROVE ConnsIInv'
  OBVIOUS
<1>1. UNCHANGED <<row, rtcSession, hooks, rechecks, client, comebacks, ids, over>>
  BY DEF HandleReconnect, outside
<1>2. PICK r \in posted :
        LET old == Replaced(r)
            rtc == old # 0 /\ us[old].rtc
        IN  /\ r.found /\ posted' = posted \ {r}
            /\ IF old # 0 /\ us[old].wsReconnected
               THEN UNCHANGED <<us, sessions, inbox>> /\ Mishap("refused", TRUE)
               ELSE /\ UNCHANGED mishaps
                    /\ us' = [i \in Object |->
                                 IF i = r.obj THEN NewSession(r.node, r.connID, rtc, "read")
                                 ELSE IF i = old THEN [us[i] EXCEPT !.wsReconnected = TRUE]
                                 ELSE us[i]]
                    /\ sessions' = [sessions EXCEPT ![r.node][OriginalConnID] = 0,
                                                    ![r.node][r.connID] = r.obj]
                    /\ inbox' = Others(r.node, ReconnectMsg(r))
  BY DEF HandleReconnect
<1>3. CASE Replaced(r) # 0 /\ us[Replaced(r)].wsReconnected
  BY <1>1, <1>2, <1>3, RefusedInductive DEF Mishap
<1>4. CASE ~(Replaced(r) # 0 /\ us[Replaced(r)].wsReconnected)
  <2> DEFINE rtc == Replaced(r) # 0 /\ us[Replaced(r)].rtc
  <2>1. rtc \in BOOLEAN
    BY <1>2, ToReplace DEF ConnsIInv, ConnsTyped, Session
  <2>2. us' = [i \in Object |->
                 IF i = r.obj THEN NewSession(r.node, r.connID, rtc, "read")
                 ELSE IF i = Replaced(r) THEN [us[i] EXCEPT !.wsReconnected = TRUE]
                 ELSE us[i]]
    BY <1>2, <1>4
  <2> HIDE DEF rtc
  <2> QED
    BY <1>1, <1>2, <1>4, <2>1, <2>2, ReplacesInductive
<1> QED
  BY <1>3, <1>4
LEMMA ConnectEventInductive ==
  ASSUME ConnsIInv, NEW n \in Node, ConnectEvent(n)
  PROVE  ConnsIInv'
<1>1. /\ Receive(n, "connect")
      /\ UNCHANGED <<row, posted, hooks, rechecks, client, comebacks, ids, over>>
  BY DEF ConnectEvent, outside
<1>2. /\ ConnsTyped /\ Joined \in Object /\ Connected \in Object /\ Joined # Connected
      /\ OriginalConnID \in ConnID /\ Current \in Object \ {Connected} /\ Previous \in Object
      /\ comebacks \in Nat
  BY Names DEF ConnsIInv
<1>3. /\ inbox' \in [Node -> Seq(Message)]
      /\ Head(inbox[n]) \in Arrives(n) /\ Head(inbox[n]).type = "connect"
      /\ Arrives(n) = Arrives(n)' \cup {Head(inbox[n])}
      /\ \A o \in Node : o # n => inbox'[o] = inbox[o]
      /\ \A o \in Node : ConnectsOnce(inbox'[o])
      /\ \A e \in Arrives(n)' : e.type # "connect"
  BY <1>1, <1>2, InboxShrinks DEF ConnsIInv, ConnectKey
<1>4. /\ n = Handler /\ Head(inbox[n]).connID = OriginalConnID
      /\ us[Connected] = NoSession /\ us[Connected].pc = "none" /\ us[Connected].removed = "no"
      /\ rtcSession = "none" /\ us[Joined].node # Handler /\ us[Joined].pc # "none"
  BY <1>3, Nobody DEF ConnsIInv, ConnectKey
<1>5. \A o \in Node :
        /\ Arrives(o)' \subseteq Arrives(o)
        /\ \A e \in Arrives(o) : e.type = "reconnect" => e \in Arrives(o)'
        /\ \A e \in Arrives(o)' : e.type # "connect"
  <2>1. ASSUME NEW o \in Node, o # n PROVE Arrives(o)' = Arrives(o)
    BY <1>3, <2>1 DEF Arrives
  <2>2. \A o \in Node : o # n => \A e \in Arrives(o) : e.type # "connect"
    BY <1>4 DEF ConnsIInv, ConnectKey
  <2> QED
    BY <1>3, <2>1, <2>2
<1>6. ~JoinPosted /\ JoinPosted' = JoinPosted /\ Current' = Current /\ Previous' = Previous
  BY <1>1, <1>3 DEF JoinPosted, ConnsIInv, FreshKey, Current, Previous
<1>7. CASE Named(n) # 0
  <2>1. UNCHANGED <<us, sessions, rtcSession, mishaps>>
    BY <1>7 DEF ConnectEvent
  <2>2. ConnsTyped'
    BY <1>1, <1>2, <1>3, <2>1 DEF ConnsTyped
  <2>3. SmallInbox
    BY <1>3, <1>5 DEF SmallInbox, Arrives
  <2>4. SmallStep
    BY <1>1, <1>2, <2>1, <2>3, Small, Names DEF SmallStep
  <2>5. ASSUME Quiet' PROVE QuietMessages' /\ QuietSessions'
    <3>1. Quiet /\ QuietSessions
      BY <2>2, <2>4, <2>5, SmallQuiet DEF ConnsIInv
    <3>2. Serves(Current) => /\ us'[Current].pc \in {"read", "wait"}
                             /\ us'[Current].wsClosed => client'.ws = "down"
                             /\ us'[Current].pc = "wait" => us'[Current].wsClosed
      BY <1>1, <1>2, <2>1, <3>1 DEF QuietSessions, Serves
    <3>3. \A j \in Object : Serves(j) => sessions'[us[j].node][us[j].connID] = j
      BY <2>1, <3>1 DEF QuietSessions
    <3> QED
      BY <1>1, <1>5, <2>1, <2>2, <2>4, <2>5, <3>2, <3>3, SmallQuietKeys
  <2> QED
    BY <2>2, <2>4, <2>5, SmallInductive
<1>8. CASE Named(n) = 0
  <2>1. PICK made \in BOOLEAN :
          /\ sessions' = [sessions EXCEPT ![n][OriginalConnID] = Connected]
          /\ us' = [us EXCEPT ![Connected] =
                       NewSession(n, OriginalConnID, TRUE, IF made THEN "rtc" ELSE "end")]
          /\ rtcSession' = IF made THEN "on" ELSE rtcSession
          /\ mishaps' = mishaps \cup (IF made THEN {} ELSE {"unmade"})
                                \cup (IF comebacks > 0 THEN {"early"} ELSE {})
    BY <1>8 DEF ConnectEvent
  <2> DEFINE s == NewSession(n, OriginalConnID, TRUE, IF made THEN "rtc" ELSE "end")
  <2>2. /\ s \in Session /\ s.node = n /\ s.connID = OriginalConnID /\ s.rtc /\ ~s.wsReconnected
        /\ ~s.rtcClosed /\ ~s.left /\ s.removed = "no" /\ s.pc \in {"rtc", "end"}
    BY <1>2 DEF NewSession, Session
  <2> HIDE DEF s
  <2>3. /\ us' \in [Object -> Session] /\ us'[Connected] = s
        /\ \A j \in Object : j # Connected => us'[j] = us[j]
    BY <1>2, <2>1, <2>2 DEF ConnsTyped, s
  <2>4. /\ sessions' \in [Node -> [ConnID -> Object \cup {0}]]
        /\ sessions[Handler][OriginalConnID] = 0
        /\ \A o \in Node, c \in ConnID :
             sessions'[o][c] = IF o = Handler /\ c = OriginalConnID THEN Connected ELSE sessions[o][c]
    BY <1>2, <1>4, <1>8, <2>1 DEF ConnsTyped, Named
  <2>5. ConnsTyped'
    <3>1. /\ rtcSession' \in {"none", "on", "closing", "closed"}
          /\ mishaps' \subseteq {"unmade", "early", "refused", "unheard", "missed", "mistaken", "lost"}
      BY <1>2, <2>1 DEF ConnsTyped
    <3> QED
      BY <1>1, <1>2, <1>3, <2>3, <2>4, <3>1 DEF ConnsTyped
  <2>6. FreshKey'
    <3>1. \A q \in posted : us'[q.obj] = NoSession
      BY <1>2, <2>3 DEF ConnsIInv, FreshKey, ConnsTyped, PostedMsg
    <3>2. \A j \in Object : j > comebacks + 2 \/ us'[j].pc = "none" => us'[j] = NoSession
      BY <1>2, <2>2, <2>3 DEF ConnsIInv, FreshKey, Connected
    <3>3. us'[Connected].pc \in {"rtc", "end"} /\ us'[Joined] = us[Joined]
      BY <1>2, <2>2, <2>3
    <3>4. comebacks = 0 => \A o \in Node : \A e \in Arrives(o)' : e.type # "reconnect"
      BY <1>5 DEF ConnsIInv, FreshKey
    <3> QED
      BY <1>1, <1>6, <3>1, <3>2, <3>3, <3>4 DEF ConnsIInv, FreshKey
  <2>7. ConnectKey'
    BY <1>3, <1>5 DEF ConnectKey
  <2>8. MapKey'
    <3>1. OriginalConnID <= ids
      BY <1>2 DEF ConnsTyped, OriginalConnID
    <3>2. ASSUME NEW o \in Node, NEW c \in ConnID, sessions[o][c] # 0
          PROVE  us'[sessions[o][c]] = us[sessions[o][c]]
      BY <1>2, <1>4, <2>3, <3>2 DEF ConnsIInv, MapKey, ConnsTyped
    <3> QED
      BY <1>1, <1>4, <2>2, <2>3, <2>4, <3>1, <3>2 DEF ConnsIInv, MapKey
  <2>9. ASSUME Quiet' PROVE QuietMessages' /\ QuietSessions'
    <3>1. Quiet /\ QuietMessages /\ QuietSessions /\ made /\ comebacks = 0
      <4>1. made /\ ~(comebacks > 0) /\ mishaps = {}
        BY <2>1, <2>9 DEF Quiet
      <4> QED
        BY <1>1, <1>2, <1>4, <2>3, <2>9, <4>1 DEF Quiet, ConnsIInv
    <3>2. Current = Joined /\ us'[Joined] = us[Joined] /\ posted = {}
      BY <1>2, <1>6, <2>3, <3>1 DEF Current, QuietMessages, JoinPosted
    <3>3. QuietMessages'
      <4>1. \A j \in Object : ~us'[j].rtcClosed /\ ~us'[j].left
        BY <2>2, <2>3, <3>1 DEF QuietMessages
      <4>2. \A o \in Node : \A e \in Arrives(o)' :
              e.type = "reconnect" /\ o # client.node
        BY <1>5, <3>1 DEF QuietMessages
      <4> QED
        BY <1>1, <1>4, <1>6, <3>1, <3>2, <4>1, <4>2 DEF QuietMessages
    <3>4. QuietSessions'
      <4>1. \A j \in Object : Serves(j)' => j # Connected /\ us'[j] = us[j] /\ Serves(j)
        BY <2>2, <2>3 DEF Serves
      <4>2. \A j \in Object : Serves(j) => sessions[us[j].node][us[j].connID] = j
        BY <3>1 DEF QuietSessions
      <4>3. \A j \in Object : Serves(j)' => sessions'[us[j].node][us[j].connID] = j
        <5>1. \A j \in Object : Serves(j) => us[j].node \in Node /\ us[j].connID \in ConnID /\ j # 0
          BY Waiting DEF Serves, Object
        <5> QED
          BY <2>4, <4>1, <4>2, <5>1
      <4>4. \A j \in Object : Serves(j)' => j = Joined \/ Replacing(j)'
        <5> SUFFICES ASSUME NEW j \in Object, Serves(j)', j # Joined PROVE Replacing(j)'
          OBVIOUS
        <5>1. Replacing(j) /\ us'[j] = us[j] /\ us[j].node \in Node
          BY <1>4, <3>1, <3>2, <4>1, Waiting DEF QuietSessions, Serves
        <5>2. PICK e \in Arrives(us[j].node) : e.type = "reconnect" /\ e.connID = us[j].connID
          BY <5>1 DEF Replacing
        <5>3. e \in Elements(inbox'[us[j].node])
          BY <1>5, <5>1, <5>2 DEF Arrives
        <5> QED
          BY <5>1, <5>2, <5>3 DEF Replacing, Arrives
      <4>5. /\ us[Joined].pc \in {"read", "wait"} /\ ~us[Joined].wsReconnected
            /\ us[Joined].node = client.node /\ us[Joined].connID = client.connID
            /\ us[Joined].wsClosed => client.ws = "down"
            /\ us[Joined].pc = "wait" => us[Joined].wsClosed
        BY <1>2, <1>4, <3>1, <3>2 DEF QuietSessions, Serves
      <4> QED
        BY <1>1, <1>4, <1>6, <3>2, <4>1, <4>3, <4>4, <4>5 DEF QuietSessions, Serves
    <3> QED
      BY <3>3, <3>4
  <2>10. FirstPosted'
    <3> SUFFICES ASSUME comebacks <= 1, mishaps' \subseteq {"unheard"} PROVE FirstPosted'
      BY <1>1 DEF FirstPosted
    <3>1. mishaps \subseteq {"unheard"} /\ us'[Joined] = us[Joined]
      BY <1>2, <2>1, <2>3
    <3> QED
      BY <1>1, <1>4, <1>5, <3>1 DEF ConnsIInv, FirstPosted
  <2>11. SignalsKey'
    <3> SUFFICES ASSUME Signalled' PROVE SignalsKey'
      BY DEF SignalsKey
    <3>1. comebacks = 0 /\ RTCObject' = Connected
      <4>1. us'[Joined].node # Handler
        BY <1>2, <1>4, <2>3
      <4>2. "early" \notin mishaps'
        BY DEF Signalled
      <4> QED
        BY <1>2, <2>1, <4>1, <4>2 DEF RTCObject
    <3>2. \A d \in ConnID : d # OriginalConnID => sessions[Handler][d] = 0
      <4> SUFFICES ASSUME NEW d \in ConnID, d # OriginalConnID, sessions[Handler][d] # 0 PROVE FALSE
        OBVIOUS
      <4>1. d <= ids /\ ids = 1
        BY <1>4, <3>1, <1>2 DEF ConnsIInv, MapKey, ConnsTyped
      <4> QED
        BY <4>1 DEF ConnID, OriginalConnID
    <3>3. HandlerHas(OriginalConnID, Connected)'
      BY <1>2, <1>4, <2>2, <2>3, <2>4, <3>2 DEF HandlerHas
    <3>4. us'[Connected].rtc /\ ~us'[Connected].wsReconnected
      BY <2>2, <2>3
    <3> QED
      BY <1>1, <3>1, <3>3, <3>4 DEF SignalsKey, HandlerHas
  <2> QED
    BY <2>5, <2>6, <2>7, <2>8, <2>9, <2>10, <2>11 DEF ConnsIInv
<1> QED
  BY <1>7, <1>8
LEMMA ReconnectEventInductive ==
  ASSUME ConnsIInv, NEW n \in Node, ReconnectEvent(n)
  PROVE  ConnsIInv'
<1> DEFINE m == Head(inbox[n])
           i == Named(n)
<1>1. /\ Receive(n, "reconnect")
      /\ UNCHANGED <<row, rtcSession, posted, hooks, rechecks, client, comebacks, ids, over, mishaps>>
  BY DEF ReconnectEvent, outside
<1>2. /\ ConnsTyped /\ Joined \in Object /\ Connected \in Object
      /\ OriginalConnID \in ConnID /\ Current \in Object /\ Previous \in Object
      /\ Handler \in Node /\ RTCObject \in Object /\ comebacks \in Nat /\ comebacks + 2 \in Object
      /\ 0 \notin Object /\ us \in [Object -> Session]
  BY Names DEF ConnsIInv, ConnsTyped, Object
<1>3. /\ inbox' \in [Node -> Seq(Message)] /\ m \in Message
      /\ m \in Arrives(n) /\ m.type = "reconnect" /\ Arrives(n) = Arrives(n)' \cup {m}
      /\ \A o \in Node : o # n => inbox'[o] = inbox[o]
      /\ \A o \in Node : ConnectsOnce(inbox'[o])
  BY <1>1, <1>2, InboxShrinks DEF ConnsIInv, ConnectKey
<1>4. m.connID \in ConnID /\ m.newConnID \in ConnID /\ i = sessions[n][m.connID] /\ i \in Object \cup {0}
  BY <1>2, <1>3 DEF Message, ConnsTyped, Named
<1>5. \A o \in Node : /\ Arrives(o)' \subseteq Arrives(o)
                      /\ o # n => Arrives(o)' = Arrives(o)
  BY <1>3 DEF Arrives
<1>6. /\ JoinPosted' = JoinPosted /\ Current' = Current /\ Previous' = Previous
      /\ i # 0 => /\ ~JoinPosted /\ us[i].pc # "none" /\ us[i].node = n
                  /\ ~us[i].wsReconnected => us[i].connID = m.connID
  BY <1>1, <1>4 DEF JoinPosted, Current, Previous, ConnsIInv, FreshKey, MapKey
<1> DEFINE acts == i # 0 /\ ~us[i].wsReconnected
           s == [us[i] EXCEPT !.wsReconnected = TRUE,
                              !.connID = IF us[i].rtc THEN m.newConnID ELSE @]
<1>7. /\ ~acts => UNCHANGED <<us, sessions>>
      /\ acts => /\ us' = [us EXCEPT ![i] = s]
                 /\ sessions' = IF us[i].rtc THEN sessions ELSE [sessions EXCEPT ![n][us[i].connID] = 0]
  BY DEF ReconnectEvent
<1>8. acts => /\ s \in Session /\ s.node = us[i].node /\ s.pc = us[i].pc /\ s.removed = us[i].removed
              /\ s.rtcClosed = us[i].rtcClosed /\ s.left = us[i].left /\ s.rtc = us[i].rtc
              /\ s.wsReconnected /\ s.connID = IF us[i].rtc THEN m.newConnID ELSE us[i].connID
  <2> SUFFICES ASSUME acts PROVE us[i] \in Session
    BY <1>4 DEF Session
  <2> QED
    BY <1>2, <1>4
<1> HIDE DEF s, m, i
<1>9. /\ us' \in [Object -> Session]
      /\ \A j \in Object : ~(acts /\ j = i) => us'[j] = us[j]
      /\ acts => us'[i] = s
  BY <1>2, <1>4, <1>7, <1>8
<1>10. \A j \in Object : /\ us'[j].node = us[j].node /\ us'[j].pc = us[j].pc
                         /\ us'[j].removed = us[j].removed
                         /\ us'[j].rtcClosed = us[j].rtcClosed /\ us'[j].left = us[j].left
                         /\ us[j].pc = "none" => us'[j] = us[j]
                         /\ us'[j].wsReconnected \/ us'[j] = us[j]
  BY <1>6, <1>8, <1>9
<1>11. /\ sessions' \in [Node -> [ConnID -> Object \cup {0}]]
       /\ \A o \in Node, c \in ConnID :
            \/ sessions'[o][c] = sessions[o][c]
            \/ acts /\ ~us[i].rtc /\ o = n /\ c = m.connID /\ sessions[o][c] = i /\ sessions'[o][c] = 0
  <2>1. CASE UNCHANGED sessions
    BY <1>2, <2>1 DEF ConnsTyped
  <2>2. CASE acts /\ ~us[i].rtc /\ sessions' = [sessions EXCEPT ![n][m.connID] = 0]
    BY <1>2, <1>4, <2>2 DEF ConnsTyped
  <2> QED
    BY <1>6, <1>7, <2>1, <2>2
<1>12. ConnsTyped'
  BY <1>1, <1>2, <1>3, <1>9, <1>11 DEF ConnsTyped
<1>13. FreshKey'
  <2>1. \A j \in Object : us[j] = NoSession => us'[j] = NoSession
    BY <1>10, Nobody
  <2>2. \A q \in posted : us'[q.obj] = NoSession
    BY <1>2, <2>1 DEF ConnsIInv, FreshKey, ConnsTyped, PostedMsg
  <2>3. \A j \in Object : j > comebacks + 2 \/ us'[j].pc = "none" => us'[j] = NoSession
    BY <1>10, <2>1 DEF ConnsIInv, FreshKey
  <2>4. JoinPosted => /\ us'[Connected] = NoSession
                      /\ \A o \in Node, c \in ConnID : sessions'[o][c] = 0
                      /\ \A o \in Node : \A e \in Arrives(o)' : e.type # "connect"
    BY <1>2, <1>5, <1>11, <2>1 DEF ConnsIInv, FreshKey
  <2>5. comebacks = 0 => \A o \in Node : \A e \in Arrives(o)' : e.type # "reconnect"
    BY <1>5 DEF ConnsIInv, FreshKey
  <2>6. us'[Joined].pc = us[Joined].pc /\ us'[Joined].node = us[Joined].node
        /\ us'[Connected].pc = us[Connected].pc
    BY <1>2, <1>10
  <2> QED
    BY <1>1, <1>6, <2>2, <2>3, <2>4, <2>5, <2>6 DEF ConnsIInv, FreshKey
<1>14. ConnectKey'
  <2> SUFFICES ASSUME NEW o \in Node, NEW e \in Arrives(o)', e.type = "connect"
               PROVE  /\ o = Handler /\ e.connID = OriginalConnID
                      /\ us'[Connected] = NoSession /\ rtcSession' = "none"
                      /\ us'[Joined].node # Handler /\ us'[Joined].pc # "none"
    BY <1>3 DEF ConnectKey
  <2>1. /\ o = Handler /\ e.connID = OriginalConnID
        /\ us[Connected] = NoSession /\ rtcSession = "none"
        /\ us[Joined].node # Handler /\ us[Joined].pc # "none"
    BY <1>5 DEF ConnsIInv, ConnectKey
  <2> QED
    BY <1>1, <1>2, <1>10, <2>1, Nobody
<1>15. MapKey'
  <2> SUFFICES ASSUME NEW o \in Node, NEW c \in ConnID, sessions'[o][c] # 0
               PROVE  LET j == sessions'[o][c]
                      IN  /\ us'[j].pc # "none" /\ us'[j].node = o /\ c <= ids'
                          /\ ~us'[j].wsReconnected => us'[j].connID = c
    BY DEF MapKey
  <2>1. sessions'[o][c] = sessions[o][c] /\ sessions[o][c] \in Object
    BY <1>2, <1>11 DEF ConnsTyped
  <2>2. LET j == sessions[o][c]
        IN  /\ us[j].pc # "none" /\ us[j].node = o /\ c <= ids
            /\ ~us[j].wsReconnected => us[j].connID = c
    BY <2>1 DEF ConnsIInv, MapKey
  <2>3. LET j == sessions[o][c]
        IN  us'[j].pc = us[j].pc /\ us'[j].node = us[j].node /\ (us'[j].wsReconnected \/ us'[j] = us[j])
    BY <1>10, <2>1
  <2> QED
    BY <1>1, <2>1, <2>2, <2>3
<1>16. ASSUME Quiet' PROVE QuietMessages' /\ QuietSessions'
  <2>1. Quiet /\ QuietMessages /\ QuietSessions
    BY <1>1, <1>10, <1>16 DEF Quiet, ConnsIInv
  <2>2. n # client.node /\ us[Current].pc # "none"
    BY <1>3, <2>1 DEF QuietMessages
  <2>3. QuietMessages'
    <3>1. \A j \in Object : ~us'[j].rtcClosed /\ ~us'[j].left
      BY <1>10, <2>1 DEF QuietMessages
    <3>2. \A o \in Node : \A e \in Arrives(o)' :
            /\ e.type \in {"connect", "reconnect"}
            /\ e.type = "reconnect" => o # client.node
      BY <1>5, <2>1 DEF QuietMessages
    <3>3. us'[Current].pc # "none" /\ us'[Joined].pc = us[Joined].pc
      BY <1>2, <1>10, <2>2
    <3>4. \A q \in posted : q.obj = Current =>
            /\ q.node = client.node /\ q.connID = client.connID
            /\ q.connID # q.prev =>
                q.connID # OriginalConnID /\ \A o \in Node : sessions'[o][q.connID] = 0
      <4>1. \A q \in posted : q.connID \in ConnID
        BY <1>2 DEF ConnsTyped, PostedMsg
      <4> QED
        BY <1>11, <2>1, <4>1 DEF QuietMessages
    <3> QED
      BY <1>1, <1>6, <2>1, <3>1, <3>2, <3>3, <3>4 DEF QuietMessages
  <2>4. QuietSessions'
    <3>1. \A j \in Object : Serves(j)' => Serves(j) /\ us'[j] = us[j]
      BY <1>10 DEF Serves
    <3>2. ASSUME NEW j \in Object, Serves(j)'
          PROVE  /\ us[j].node \in Node /\ us[j].connID \in ConnID
                 /\ sessions[us[j].node][us[j].connID] = j /\ j # 0
                 /\ ~(acts /\ j = i)
      <4>1. us'[j] = us[j] /\ Serves(j)
        BY <3>1, <3>2
      <4>2. ~(acts /\ j = i)
        BY <1>8, <1>9, <3>2 DEF Serves
      <4> QED
        BY <1>2, <2>1, <4>1, <4>2, Waiting DEF QuietSessions, Serves
    <3>3. \A j \in Object : Serves(j)' => sessions'[us'[j].node][us'[j].connID] = j
      BY <1>11, <3>1, <3>2
    <3>4. us'[Current] = us[Current] /\ Serves(Current)
      <4>1. us[Current].node = client.node /\ Serves(Current)
        BY <2>1, <2>2 DEF QuietSessions
      <4> QED
        BY <1>2, <1>6, <1>9, <2>2, <4>1
    <3>5. ASSUME NEW j \in Object, Serves(j)', j # Current PROVE Replacing(j)'
      <4>1. Serves(j) /\ us'[j] = us[j] /\ Replacing(j)
        BY <2>1, <2>2, <3>1, <3>5 DEF QuietSessions
      <4>2. PICK e \in Arrives(us[j].node) : e.type = "reconnect" /\ e.connID = us[j].connID
        BY <4>1 DEF Replacing
      <4>3. us[j].node \in Node /\ sessions[us[j].node][us[j].connID] = j /\ j # 0 /\ ~(acts /\ j = i)
        BY <3>2, <3>5
      <4>4. ~(us[j].node = n /\ e = m)
        <5> SUFFICES ASSUME us[j].node = n, e = m PROVE FALSE
          OBVIOUS
        <5>1. i = j
          BY <1>4, <4>2, <4>3
        <5> QED
          BY <4>1, <4>3, <5>1 DEF Serves
      <4>5. \A o \in Node : o = us[j].node => e \in Elements(inbox'[o])
        BY <1>3, <1>5, <4>2, <4>4 DEF Arrives
      <4>6. e \in Elements(inbox'[us'[j].node])
        BY <4>1, <4>3, <4>5
      <4> QED
        BY <4>1, <4>2, <4>6 DEF Replacing, Arrives
    <3> QED
      BY <1>1, <1>6, <2>1, <2>2, <3>3, <3>4, <3>5 DEF QuietSessions, Serves
  <2> QED
    BY <2>3, <2>4
<1>17. FirstPosted'
  <2>1. us'[Joined].pc = us[Joined].pc
    BY <1>2, <1>10
  <2> QED
    BY <1>1, <1>5, <2>1 DEF ConnsIInv, FirstPosted
<1>18. SignalsKey'
  <2> SUFFICES ASSUME Signalled' PROVE SignalsKey'
    BY DEF SignalsKey
  <2>1. Signalled /\ posted = {} /\ comebacks # 0 /\ n # client.node
        /\ m.connID = OriginalConnID /\ m.newConnID = client.connID
    BY <1>1, <1>3 DEF Signalled, ConnsIInv, FirstPosted, FreshKey
  <2>2. RTCObject' = RTCObject
    BY <1>2, <1>10 DEF RTCObject
  <2>3. CASE client.node = Handler
    <3>1. HandlerHas(client.connID, comebacks + 2) /\ ~us[comebacks + 2].wsReconnected
      BY <2>1, <2>3 DEF ConnsIInv, SignalsKey
    <3>2. us'[comebacks + 2] = us[comebacks + 2]
      BY <1>2, <1>6, <1>9, <2>1, <2>3, <3>1 DEF HandlerHas
    <3>3. \A d \in ConnID : sessions'[Handler][d] = sessions[Handler][d]
      BY <1>2, <1>11, <2>1, <2>3
    <3>4. HandlerHas(client.connID, comebacks + 2)'
      BY <1>1, <3>1, <3>2, <3>3 DEF HandlerHas
    <3>5. /\ ~(posted' # {} \/ comebacks' = 0) /\ client'.node = Handler
          /\ ~us'[comebacks' + 2].wsReconnected
      BY <1>1, <2>1, <2>3, <3>1, <3>2
    <3> QED
      BY <3>4, <3>5 DEF SignalsKey
  <2>4. CASE client.node # Handler
    <3>1. /\ HandlerHas(OriginalConnID, RTCObject) /\ us[RTCObject].rtc
          /\ \/ us[RTCObject].connID = client.connID
             \/ /\ ~us[RTCObject].wsReconnected
                /\ \E e \in Arrives(Handler) : e.type = "reconnect"
      BY <2>1, <2>4 DEF ConnsIInv, SignalsKey
    <3>2. \A d \in ConnID : sessions'[Handler][d] = sessions[Handler][d]
      <4>1. n = Handler /\ i # 0 => i = RTCObject
        BY <1>2, <1>4, <2>1, <3>1 DEF HandlerHas
      <4> QED
        BY <1>2, <1>11, <3>1, <4>1
    <3>3. us'[RTCObject].rtc /\ us'[RTCObject].node = us[RTCObject].node
          /\ us'[RTCObject].pc = us[RTCObject].pc
      BY <1>2, <1>8, <1>9, <1>10, <3>1
    <3>4. HandlerHas(OriginalConnID, RTCObject)'
      BY <2>2, <3>1, <3>2, <3>3 DEF HandlerHas
    <3>5. \/ us'[RTCObject].connID = client.connID
          \/ /\ ~us'[RTCObject].wsReconnected
             /\ \E e \in Arrives(Handler)' : e.type = "reconnect"
      <4>1. CASE n # Handler
        <5>1. us'[RTCObject] = us[RTCObject]
          BY <1>2, <1>6, <1>9, <3>1, <4>1 DEF HandlerHas
        <5>2. Arrives(Handler)' = Arrives(Handler)
          BY <1>2, <1>5, <4>1
        <5> QED
          BY <3>1, <5>1, <5>2
      <4>2. CASE n = Handler
        <5>1. i = RTCObject
          BY <1>2, <1>4, <2>1, <3>1, <4>2 DEF HandlerHas
        <5>2. CASE acts
          BY <1>8, <1>9, <2>1, <3>1, <5>1, <5>2
        <5>3. CASE ~acts
          BY <1>2, <1>9, <3>1, <5>1, <5>3
        <5> QED
          BY <5>2, <5>3
      <4> QED
        BY <4>1, <4>2
    <3>6. ~(posted' # {} \/ comebacks' = 0) /\ client'.node # Handler /\ client'.connID = client.connID
      BY <1>1, <2>1, <2>4
    <3> QED
      BY <2>2, <3>3, <3>4, <3>5, <3>6 DEF SignalsKey
  <2> QED
    BY <2>3, <2>4
<1> QED
  BY <1>12, <1>13, <1>14, <1>15, <1>16, <1>17, <1>18 DEF ConnsIInv

LEMMA NextConns == ConnsIInv /\ [ConnsNext]_connsVars => ConnsIInv'
<1> SUFFICES ASSUME ConnsIInv, [ConnsNext]_connsVars PROVE ConnsIInv'
  OBVIOUS
<1>1. CASE Posted
  BY <1>1, HandleJoinInductive, FindInStateInductive, HandleReconnectInductive DEF Posted
<1>2. CASE Hook
  BY <1>2, HookInductive
<1>3. CASE RTC
  BY <1>3, RTCCallbackInductive, StartSessionReturnsInductive DEF RTC
<1>4. CASE GivesUp \/ Revoke \/ RTCFails \/ \E n \in Node : Kick(n)
  BY <1>4, EndsInductive
<1>5. ASSUME NEW n \in Node, Event(n) PROVE ConnsIInv'
  BY <1>5, ConnectEventInductive, ReconnectEventInductive, LeaveEventInductive,
     DisconnectEventInductive DEF Event
<1>6. ASSUME NEW n \in Node, NEW keep \in BOOLEAN, ComesBack(n, keep) PROVE ConnsIInv'
  BY <1>6, ComesBackInductive
<1>7. ASSUME NEW i \in Object, Goroutine(i) PROVE ConnsIInv'
  BY <1>7, ReaderReturnsInductive, ReturnsInductive, LeavesInductive DEF Goroutine
<1>8. ASSUME NEW i \in Object, RemoveSession(i) PROVE ConnsIInv'
  BY <1>8, RemoveSessionInductive
<1>9. CASE SocketCloses \/ LeavesCall
  BY <1>9, SocketClosesInductive, LeavesCallInductive
<1>10. CASE UNCHANGED connsVars
  <2>1. UNCHANGED <<us, sessions, row, rtcSession, inbox, posted, hooks, rechecks,
                    client, comebacks, ids, over, mishaps>>
    BY <1>10 DEF connsVars, outside
  <2>2. SmallStep
    BY <2>1, Small, Names DEF SmallStep, ConnsIInv
  <2>3. ConnsTyped'
    BY <2>1 DEF ConnsIInv, ConnsTyped
  <2>4. Quiet' => QuietMessages' /\ QuietSessions'
    BY <2>1 DEF ConnsIInv, Quiet, QuietMessages, QuietSessions, Arrives, JoinPosted, Current,
        Previous, Serves, Replacing
  <2> QED
    BY <2>2, <2>3, <2>4, SmallInductive
<1> QED
  BY <1>1, <1>2, <1>3, <1>4, <1>5, <1>6, <1>7, <1>8, <1>9, <1>10 DEF ConnsNext

---------------------------------------------------------------------------
(* Theorems *)

\* The inductive invariant: what the maps, the messages under way and the session objects
\* have to do with the connection that the participant has.
THEOREM ConnsIInvAlways == ConnsSpec => []ConnsIInv
  BY InitConns, NextConns, PTL DEF ConnsSpec
\* Connections: every object, map, message and field of the participant has its type.
THEOREM ConnectionsTyped == ConnsSpec => []ConnsTypeOK
<1>1. ConnsIInv => ConnsTypeOK
  BY DEF ConnsIInv, ConnsTyped, ConnsTypeOK, Session
<1> QED
  BY <1>1, ConnsIInvAlways, PTL

LEMMA ServedKey == ConnsIInv => ServedWhenBack
<1> SUFFICES ASSUME ConnsIInv, Settled, client.ws = "up", over = "no", mishaps = {},
                    rtcSession = "on", \A i \in Object : us[i].removed = "no"
             PROVE  /\ LET i == sessions[client.node][client.connID]
                       IN  i # 0 /\ us[i].pc = "read" /\ ~us[i].wsClosed
                    /\ \A i \in Object : us[i].pc = "wait" => us[i].wsReconnected
  BY DEF ServedWhenBack
<1>1. Quiet /\ QuietMessages /\ QuietSessions
  BY DEF Quiet, ConnsIInv
<1>2. ConnsTyped /\ Current \in Object /\ 0 \notin Object
  BY Names DEF ConnsIInv, Object
<1>3. us[Current].pc # "none" /\ \A n \in Node : Arrives(n) = {}
  BY <1>1, NothingElements DEF Settled, QuietMessages, Arrives
<1>4. /\ Serves(Current) /\ us[Current].node = client.node /\ us[Current].connID = client.connID
      /\ ~us[Current].wsClosed /\ us[Current].pc # "wait"
      /\ \A i \in Object : Serves(i) => i = Current \/ Replacing(i)
  BY <1>1, <1>3 DEF QuietSessions
<1>5. sessions[client.node][client.connID] = Current /\ us[Current].pc = "read"
  BY <1>1, <1>2, <1>4 DEF QuietSessions, Serves
<1>6. ASSUME NEW i \in Object, us[i].pc = "wait" PROVE us[i].wsReconnected
  <2>1. us[i].node \in Node
    BY <1>6, Waiting
  <2>2. ~Replacing(i)
    BY <1>3, <2>1 DEF Replacing
  <2> QED
    BY <1>4, <1>6, <2>2 DEF Serves
<1> QED
  BY <1>2, <1>4, <1>5, <1>6

\* A participant who is back before the timeout is read from on the connection that it has,
\* and no earlier session of it waits for a timeout that would remove it (handleReconnect,
\* the reconnect message and the select of handleLeave), whatever the number of nodes and
\* of reconnections.
THEOREM BackIsServed == ConnsSpec => []ServedWhenBack
  BY ConnsIInvAlways, ServedKey, PTL

LEMMA HandlerFinds ==
  ASSUME ConnsTyped, NEW c \in ConnID, NEW i \in Object, HandlerHas(c, i)
  PROVE  ByOriginalID(Handler) = {i}
<1>1. OriginalConnID \in ConnID /\ 0 \notin Object
  BY Names DEF Object
<1>2. \A d \in ConnID : sessions[Handler][d] = IF d = c THEN i ELSE 0
  BY DEF HandlerHas
<1>3. {sessions[Handler][d] : d \in ConnID} \ {0} = {i}
  BY <1>1, <1>2
<1> QED
  BY <1>1, <1>2, <1>3 DEF ByOriginalID

LEMMA SignalsFollow == ConnsIInv => SignalsArrive
<1> SUFFICES ASSUME ConnsIInv, Settled, row, client.ws = "up", rtcSession = "on", comebacks <= 1,
                    mishaps \subseteq {"unheard"}
             PROVE  {us[i].connID : i \in ByOriginalID(Handler)} = {client.connID}
  BY DEF SignalsArrive
<1>1. Signalled /\ posted = {}
  BY DEF Signalled, Settled
<1>2. /\ ConnsTyped /\ RTCObject \in Object /\ comebacks + 2 \in Object /\ Handler \in Node
      /\ OriginalConnID \in ConnID /\ client.connID \in ConnID /\ 0 \notin Object
  BY Names DEF ConnsIInv, ConnsTyped, Object
<1>3. ASSUME NEW c \in ConnID, NEW i \in Object, HandlerHas(c, i), ~us[i].wsReconnected
      PROVE  us[i].connID = c
  <2>1. sessions[Handler][c] = i
    BY <1>3 DEF HandlerHas
  <2> QED
    BY <1>2, <1>3, <2>1 DEF ConnsIInv, MapKey
<1>4. CASE comebacks = 0
  <2>1. HandlerHas(OriginalConnID, RTCObject) /\ ~us[RTCObject].wsReconnected
    BY <1>1, <1>4 DEF ConnsIInv, SignalsKey
  <2>2. us[RTCObject].connID = client.connID
    BY <1>2, <1>3, <1>4, <2>1 DEF ConnsIInv, FreshKey, OriginalConnID
  <2> QED
    BY <1>2, <2>1, <2>2, HandlerFinds
<1>5. CASE comebacks # 0 /\ client.node = Handler
  <2>1. HandlerHas(client.connID, comebacks + 2) /\ ~us[comebacks + 2].wsReconnected
    BY <1>1, <1>5 DEF ConnsIInv, SignalsKey
  <2>2. us[comebacks + 2].connID = client.connID
    BY <1>2, <1>3, <2>1
  <2>3. ByOriginalID(Handler) = {comebacks + 2}
    BY <1>2, <2>1, HandlerFinds
  <2> QED
    BY <2>2, <2>3
<1>6. CASE comebacks # 0 /\ client.node # Handler
  <2>1. Arrives(Handler) = {}
    BY <1>2, NothingElements DEF Settled, Arrives
  <2>2. HandlerHas(OriginalConnID, RTCObject) /\ us[RTCObject].connID = client.connID
    BY <1>1, <1>6, <2>1 DEF ConnsIInv, SignalsKey
  <2> QED
    BY <1>2, <2>2, HandlerFinds
<1> QED
  BY <1>4, <1>5, <1>6

\* The signals of the RTC server go to the connection that the participant has after its
\* first reconnection, whichever nodes it was on before and is on now (getSessionByOriginalID
\* in wsWriter).
THEOREM SignalsReach == ConnsSpec => []SignalsArrive
  BY ConnsIInvAlways, SignalsFollow, PTL
=============================================================================

------------------------- MODULE CallSessionsProofs -------------------------
(***************************************************************************)
(* Proofs about CallSessions, for every set of connections and users,      *)
(* every number of calls, failed queries and restarts, with and without    *)
(* the unlocked goroutine of hostEnd.                                      *)
(***************************************************************************)
EXTENDS CallSessions, TLAPS

\* The values that stand for nothing have their types.
LEMMA NothingTyped ==
  /\ NoRow \in Row /\ Closed \in View /\ Free \in Handler
  /\ NoForce \in ForceTask /\ ForceDone \in ForceTask
<1> USE SessionsAssumption DEF SessionsAssumption
<1>1. NoRow \in Row
  BY DEF NoRow, Row, Humans
<1>2. Closed \in View
  BY <1>1 DEF Closed, View
<1>3. Free \in Handler
  BY <1>1, <1>2 DEF Free, Handler
<1>4. NoForce \in ForceTask /\ ForceDone \in ForceTask
  BY <1>1 DEF NoForce, ForceDone, ForceTask
<1> QED
  BY <1>1, <1>2, <1>3, <1>4

\* There is no call in the beginning.
LEMMA InitIInv == Init => IInv
<1> SUFFICES ASSUME Init PROVE IInv
  OBVIOUS
<1> USE SessionsAssumption DEF SessionsAssumption, Init
<1>1. TypeOK
  <2>1. calls \in [Id -> Row] /\ force \in [Id -> ForceTask] /\ everIn \in [Id -> SUBSET Humans]
    BY NothingTyped
  <2>2. inCall \in [Conn -> 0..MaxCall] /\ joinAt \in [Conn -> Nat]
    OBVIOUS
  <2>3. /\ mem \in [Conn -> {"out", "live", "removing", "gone"}]
        /\ asked \in [Conn -> {"none", "on", "off"}]
    OBVIOUS
  <2>4. handler \in Handler /\ batch \in View
    BY NothingTyped
  <2>5. clock \in Nat /\ faults \in 0..MaxFaults /\ crashes \in 0..MaxCrashes
    BY DEF SessionsAssumption
  <2>6. booting \in BOOLEAN
    OBVIOUS
  <2> QED
    BY <2>1, <2>2, <2>3, <2>4, <2>5, <2>6 DEF TypeOK
<1>2. Active = {}
  BY DEF Active, Id, NoRow
<1> QED
  BY <1>1, <1>2 DEF IInv, OneActiveCall, ServedSessionInActiveCall, ParticipantsComplete,
     HandlerKey, JoinKey, RemoveKey, BatchKey, RowKey, BootKey, ForceKey, FreshKey, FinalKey,
     Unforced, Id, Free, Closed, NoRow, NoForce

\* A leave message or a disconnect only changes the memory of the node.
LEMMA RemoveSessionIInv ==
  ASSUME IInv, NEW c \in Conn, removeSession(c) \/ removeSessionFails(c)
  PROVE  IInv'
<1> USE SessionsAssumption DEF SessionsAssumption, removeSession, removeSessionFails, Fault, bounds, tables
<1>1. TypeOK'
  BY DEF IInv, TypeOK
<1>2. Active' = Active
  BY DEF Active
<1>3. (NoLostJoin => OneActiveCall)' /\ ParticipantsComplete' /\ HandlerKey' /\ JoinKey'
      /\ BatchKey' /\ RowKey' /\ ForceKey' /\ FreshKey' /\ FinalKey'
  BY <1>2 DEF IInv, OneActiveCall, ParticipantsComplete, HandlerKey, JoinKey, BatchKey, RowKey,
     ForceKey, FreshKey, FinalKey, Unforced
<1>4. ServedSessionInActiveCall' /\ RemoveKey' /\ BootKey'
  BY DEF IInv, TypeOK, ServedSessionInActiveCall, RemoveKey, BootKey, Unforced
<1> QED
  BY <1>1, <1>3, <1>4 DEF IInv

LEMMA ScreenMessageIInv ==
  ASSUME IInv, NEW c \in Conn, ScreenMessage(c)
  PROVE  IInv'
<1> USE SessionsAssumption DEF SessionsAssumption, ScreenMessage, bounds, tables
<1>1. TypeOK'
  BY DEF IInv, TypeOK
<1>2. Active' = Active
  BY DEF Active
<1> QED
  BY <1>1, <1>2 DEF IInv, OneActiveCall, ParticipantsComplete, HandlerKey, JoinKey, BatchKey, RowKey,
     ForceKey, FreshKey, FinalKey, Unforced, ServedSessionInActiveCall, RemoveKey, BootKey

\* A handler that takes the lock and is going to update the call it has read
\* has the only active call in hand.
LEMMA UpdateStarts ==
  ASSUME IInv, Ready, NEW i \in ActiveCall, NEW c \in Conn \cup {None}, NEW row \in Row,
         row.st = "active", row.parts = calls[i].parts, row.final = calls[i].final,
         handler' = Doing("update", c, i, row, "call"),
         UNCHANGED <<tables, mem, batch, force, booting, bounds>>,
         asked' \in [Conn -> {"none", "on", "off"}]
  PROVE  IInv'
<1> USE SessionsAssumption DEF SessionsAssumption
<1>1. Active' = Active /\ i \in Id /\ calls[i].st = "active" /\ i \in Active
  BY DEF Active, ActiveCall, tables
<1>2. Closed \in View
  BY NothingTyped
<1>3. TypeOK'
  BY <1>1, <1>2 DEF IInv, TypeOK, tables, bounds, Doing, Handler, Id
<1>4. HandlerKey'
  BY <1>1, <1>2 DEF IInv, TypeOK, tables, bounds, Doing, HandlerKey, Unforced,
     OneActiveCall, Ready
<1>5. JoinKey' /\ RemoveKey' /\ BootKey'
  BY <1>1, <1>2 DEF IInv, TypeOK, tables, bounds, Doing, JoinKey, RemoveKey, BootKey, Ready
<1>6. RowKey'
  BY <1>1 DEF IInv, TypeOK, tables, Doing, Unforced, RowKey, ParticipantsComplete
<1>7. BatchKey'
  BY DEF tables, BatchKey, Ready
<1>8. FinalKey'
  BY <1>1, <1>2 DEF IInv, tables, Doing, FinalKey, Closed, NoRow
<1> QED
  BY <1>1, <1>3, <1>4, <1>5, <1>6, <1>7, <1>8 DEF IInv, OneActiveCall, ParticipantsComplete,
     ForceKey, FreshKey, Unforced, ServedSessionInActiveCall, tables

\* A screen message changes nothing or starts an update.
LEMMA HandleScreenIInv ==
  ASSUME IInv, NEW c \in Conn, HandleScreen(c)
  PROVE  IInv'
<1> USE SessionsAssumption DEF SessionsAssumption
<1>1. asked' \in [Conn -> {"none", "on", "off"}]
  BY DEF HandleScreen, IInv, TypeOK
<1>2. CASE UNCHANGED handler
  <2>1. Active' = Active
    BY DEF HandleScreen, Active, tables
  <2> QED
    BY <1>1, <1>2, <2>1 DEF HandleScreen, IInv, TypeOK, OneActiveCall, ParticipantsComplete,
       HandlerKey, JoinKey, BatchKey, RowKey, ForceKey, FreshKey, FinalKey, Unforced,
       ServedSessionInActiveCall, RemoveKey, BootKey, tables, bounds
<1>3. CASE ~UNCHANGED handler
  <2>1. PICK i \in ActiveCall, s \in Conn \cup {None} :
          handler' = Doing("update", c, i, [calls[i] EXCEPT !.screen = s], "call")
    BY <1>3 DEF HandleScreen
  <2> DEFINE row == [calls[i] EXCEPT !.screen = s]
  <2>2. calls[i] \in Row /\ calls[i].st = "active"
    BY DEF ActiveCall, Active, IInv, TypeOK
  <2>3. /\ row \in Row /\ row.st = "active"
        /\ row.parts = calls[i].parts /\ row.final = calls[i].final
    BY <2>2 DEF Row
  <2>4. Ready /\ UNCHANGED <<tables, mem, batch, force, booting, bounds>>
    BY DEF HandleScreen
  <2> HIDE DEF row
  <2> QED
    BY <1>1, <2>1, <2>3, <2>4, UpdateStarts DEF row
<1> QED
  BY <1>2, <1>3

\* So does a change of the host.
LEMMA ChangeHostIInv ==
  ASSUME IInv, NEW u \in User, changeHost(u)
  PROVE  IInv'
<1> USE SessionsAssumption DEF SessionsAssumption
<1>1. asked' \in [Conn -> {"none", "on", "off"}]
  BY DEF changeHost, IInv, TypeOK
<1>2. PICK i \in ActiveCall :
        handler' = Doing("update", None, i, [calls[i] EXCEPT !.host = u, !.locked = u], "call")
  BY DEF changeHost
<1> DEFINE row == [calls[i] EXCEPT !.host = u, !.locked = u]
<1>3. calls[i] \in Row /\ calls[i].st = "active" /\ u \in Humans
  BY DEF ActiveCall, Active, IInv, TypeOK, changeHost, Humans
<1>4. /\ row \in Row /\ row.st = "active"
      /\ row.parts = calls[i].parts /\ row.final = calls[i].final
  BY <1>3 DEF Row
<1>5. Ready /\ UNCHANGED <<tables, mem, batch, force, booting, bounds>>
  BY DEF changeHost
<1> HIDE DEF row
<1> QED
  BY <1>1, <1>2, <1>4, <1>5, UpdateStarts DEF row

\* What a join knows of the state it starts from, read or handed on: it has
\* the only active call.
LEMMA JoinViewsKey ==
  ASSUME IInv, Ready \/ (batch.open /\ handler = Free), NEW s \in JoinViews
  PROVE  /\ s \in View
         /\ s.open => Batching
         /\ NoLostJoin => Active \subseteq {s.id}
         /\ s.id = 0 => s.conns = {}
         /\ s.row.st = "active" => s.row.final = {}
         /\ s.id # 0 => /\ s.id \in Id
                        /\ s.row.st = "active" /\ s.row.final = {}
                        /\ Unforced(s.id) => /\ calls[s.id].st = "active"
                                             /\ everIn[s.id] \subseteq s.row.parts
<1> USE SessionsAssumption DEF SessionsAssumption
<1>1. CASE batch.open
  BY <1>1 DEF JoinViews, IInv, TypeOK, BatchKey, FinalKey, View, Id
<1>2. CASE ~batch.open /\ Active = {}
  <2>1. s = View0 /\ View0 \in View
    BY <1>2, NothingTyped DEF JoinViews, View0, View
  <2> QED
    BY <1>2, <2>1 DEF View0, Closed, NoRow
<1>3. CASE ~batch.open /\ Active # {}
  <2>1. PICK i \in ActiveCall : s = ViewOf(i)
    BY <1>3 DEF JoinViews
  <2>2. i \in Id /\ i \in Active /\ calls[i] \in Row /\ calls[i].st = "active"
    BY DEF ActiveCall, Active, IInv, TypeOK
  <2>3. s \in View
    BY <2>1, <2>2 DEF ViewOf, View, ConnsOf, Id
  <2>4. NoLostJoin => Active \subseteq {i}
    BY <2>2 DEF IInv, OneActiveCall
  <2>5. calls[i].final = {} /\ (Unforced(i) => everIn[i] \subseteq calls[i].parts)
    BY <2>2 DEF IInv, FinalKey, ParticipantsComplete
  <2> QED
    BY <2>1, <2>2, <2>3, <2>4, <2>5 DEF ViewOf, Id
<1> QED
  BY <1>1, <1>2, <1>3

\* A host is a user other than the bot, or nobody.
LEMMA HostTyped ==
  ASSUME NEW row \in Row, NEW C \in SUBSET Conn, NEW at, NEW h \in HostCandidates(row, C, at)
  PROVE  h \in Humans \cup {None}
  BY SessionsAssumption DEF SessionsAssumption, HostCandidates, Row, Humans

\* The first step of a join.
LEMMA AddUserSessionIInv ==
  ASSUME IInv, NEW c \in Conn, addUserSession(c)
  PROVE  IInv'
<1> USE SessionsAssumption DEF SessionsAssumption
<1>1. PICK s \in JoinViews :
        \E i \in IF s.id = 0 THEN NewCallIds ELSE {s.id} :
        \E t \in {clock, clock + 1} \cap 0..Cardinality(Conn) :
        \E h \in HostCandidates(IF s.id = 0 THEN [NoRow EXCEPT !.st = "active"] ELSE s.row,
                                s.conns \cup {c}, [joinAt EXCEPT ![c] = t]) :
          /\ clock' = t
          /\ handler' = [op |-> "join", conn |-> c, id |-> i, at |-> t, seen |-> s,
               row |-> [(IF s.id = 0 THEN [NoRow EXCEPT !.st = "active"] ELSE s.row)
                          EXCEPT !.host = h, !.parts = @ \cup ({UserOf[c]} \ {Bot})],
               pc |-> IF s.conns \cup {c} = {c} THEN "create" ELSE "call"]
          /\ UserOf[c] = Bot => s.id # 0
  BY ZenonT(30) DEF addUserSession
<1> DEFINE row0 == IF s.id = 0 THEN [NoRow EXCEPT !.st = "active"] ELSE s.row
<1>2. PICK i \in IF s.id = 0 THEN NewCallIds ELSE {s.id}, t \in {clock, clock + 1} :
        \E h \in HostCandidates(row0, s.conns \cup {c}, [joinAt EXCEPT ![c] = t]) :
          /\ clock' = t
          /\ handler' = [op |-> "join", conn |-> c, id |-> i, at |-> t, seen |-> s,
               row |-> [row0 EXCEPT !.host = h, !.parts = @ \cup ({UserOf[c]} \ {Bot})],
               pc |-> IF s.conns \cup {c} = {c} THEN "create" ELSE "call"]
  BY <1>1
<1> DEFINE at == [joinAt EXCEPT ![c] = t]
<1>h. PICK h \in HostCandidates(row0, s.conns \cup {c}, at) :
          /\ clock' = t
          /\ handler' = [op |-> "join", conn |-> c, id |-> i, at |-> t, seen |-> s,
               row |-> [row0 EXCEPT !.host = h, !.parts = @ \cup ({UserOf[c]} \ {Bot})],
               pc |-> IF s.conns \cup {c} = {c} THEN "create" ELSE "call"]
  BY <1>2
<1> HIDE DEF at
<1>3. /\ s \in View
      /\ s.open => Batching
      /\ NoLostJoin => Active \subseteq {s.id}
      /\ s.id = 0 => s.conns = {}
      /\ s.row.st = "active" => s.row.final = {}
      /\ s.id # 0 => /\ s.id \in Id
                     /\ s.row.st = "active" /\ s.row.final = {}
                     /\ Unforced(s.id) => /\ calls[s.id].st = "active"
                                          /\ everIn[s.id] \subseteq s.row.parts
  BY JoinViewsKey DEF addUserSession
<1>4. /\ i \in Id
      /\ s.id = 0 => calls[i].st = "none"
      /\ s.id # 0 => i = s.id
  BY <1>3 DEF NewCallIds, Id
<1>5. row0 \in Row /\ row0.st = "active" /\ row0.final = {}
  BY <1>3, NothingTyped DEF Row, NoRow, View
<1>6. h \in Humans \cup {None}
  BY <1>3, <1>5, HostTyped DEF View
<1> DEFINE row == [row0 EXCEPT !.host = h, !.parts = @ \cup ({UserOf[c]} \ {Bot})]
<1>7. /\ row \in Row /\ row.st = "active" /\ row.final = {}
      /\ row.parts = row0.parts \cup ({UserOf[c]} \ {Bot})
  <2>1. UserOf[c] \in User
    OBVIOUS
  <2> HIDE DEF row0
  <2> DEFINE P == row0.parts \cup ({UserOf[c]} \ {Bot})
  <2>2. P \in SUBSET Humans
    BY <1>5, <2>1 DEF Row, Humans
  <2>3. row = [row0 EXCEPT !.host = h, !.parts = P]
    BY <1>5 DEF Row
  <2> HIDE DEF P, row
  <2>4. row \in Row /\ row.st = "active" /\ row.final = {} /\ row.parts = P
    BY <1>5, <1>6, <2>2, <2>3 DEF Row
  <2> QED
    BY <2>4 DEF P
<1>8. Unforced(i) => everIn[i] \subseteq row0.parts
  BY <1>3, <1>4 DEF IInv, FreshKey
<1>9. /\ clock' \in Nat
      /\ handler' \in Handler
      /\ handler'.op = "join" /\ handler'.conn = c /\ handler'.id = i /\ handler'.seen = s
      /\ handler'.row = row /\ handler'.pc \in {"create", "call"}
  <2>1. t \in Nat
    BY DEF IInv, TypeOK
  <2>2. i \in 0..MaxCall
    BY <1>4 DEF Id
  <2> HIDE DEF row, row0
  <2> QED
    BY <1>h, <1>3, <1>7, <2>1, <2>2 DEF Handler, row
<1> HIDE DEF row, row0
<1>10. /\ batch' = Closed /\ ~batch'.open /\ batch' \in View /\ ~booting
       /\ UNCHANGED <<calls, inCall, joinAt, everIn, mem, asked, force, booting, faults, crashes>>
  BY NothingTyped DEF addUserSession, bounds, Closed, Ready, IInv, BootKey
<1>11. Active' = Active
  BY <1>10 DEF Active
<1>12. TypeOK'
  BY <1>9, <1>10 DEF IInv, TypeOK
<1>13. HandlerKey'
  <2>1. (NoLostJoin => Active \subseteq {i})'
    BY <1>3, <1>4, <1>11 DEF Active, NoLostJoin, Id
  <2>2. (Unforced(i) => calls[i].st # "ended")'
    BY <1>3, <1>4, <1>10 DEF Unforced
  <2> QED
    BY <1>4, <1>7, <1>9, <1>10, <2>1, <2>2 DEF HandlerKey, Unforced
<1>14. JoinKey'
  <2>1. UserOf[c] # Bot => UserOf[c] \in row.parts
    BY <1>7
  <2>2. Unforced(i)' = Unforced(i)
    BY <1>10 DEF Unforced
  <2>3. handler'.pc = "call" /\ Unforced(i) => calls[i].st = "active"
    BY <1>h, <1>3, <1>4
  <2>4. s.open /\ s.id # 0 /\ Unforced(i) =>
          calls[i].st = "active" /\ everIn[i] \subseteq s.row.parts
    BY <1>3, <1>4
  <2> QED
    BY <1>3, <1>4, <1>9, <1>10, <2>1, <2>2, <2>3, <2>4 DEF JoinKey
<1>15. RowKey'
  BY <1>7, <1>8, <1>9, <1>10 DEF RowKey, Unforced
<1>16. RemoveKey' /\ BatchKey' /\ BootKey'
  BY <1>9, <1>10 DEF RemoveKey, BatchKey, BootKey
<1>17. FinalKey'
  BY <1>3, <1>7, <1>9, <1>10 DEF FinalKey, IInv, Closed, NoRow
<1> QED
  BY <1>10, <1>11, <1>12, <1>13, <1>14, <1>15, <1>16, <1>17 DEF IInv, OneActiveCall,
     ParticipantsComplete, ForceKey, FreshKey, Unforced, ServedSessionInActiveCall

\* A handler that gives up leaves the tables as they are; if it was a join of
\* a batch, the state it hands back is still right unless it wrote something.
LEMMA GiveUpIInv ==
  ASSUME IInv, handler.pc # "done", GiveUp,
         UNCHANGED <<tables, mem, asked, force, booting, crashes>>,
         faults' \in 0..MaxFaults,
         NoLostJoin /\ handler.op = "join" /\ handler.seen.open =>
             Active \subseteq {handler.seen.id}
  PROVE  IInv'
<1> USE SessionsAssumption DEF SessionsAssumption
<1>1. /\ handler' = Free /\ handler'.pc = "done" /\ handler'.op = "free"
      /\ handler'.row.st = "none" /\ handler'.seen.row.st = "none"
  BY DEF GiveUp, Free, Closed, NoRow
<1>2. batch' \in View /\ handler' \in Handler
  BY NothingTyped DEF GiveUp, IInv, TypeOK, Handler
<1>3. Active' = Active
  BY DEF Active, tables
<1>4. TypeOK'
  BY <1>1, <1>2 DEF IInv, TypeOK, tables
<1>5. HandlerKey' /\ JoinKey' /\ RemoveKey' /\ RowKey'
  BY <1>1 DEF HandlerKey, JoinKey, RemoveKey, RowKey
<1>6. CASE handler.op = "join" /\ handler.seen.open
  <2>1. batch' = handler.seen /\ ~booting
    BY <1>6 DEF GiveUp, IInv, BootKey
  <2>2. BatchKey'
    BY <1>3, <1>6, <2>1 DEF IInv, JoinKey, BatchKey, Unforced, tables, NoLostJoin
  <2>3. FinalKey' /\ BootKey'
    BY <1>1, <2>1 DEF IInv, FinalKey, BootKey, tables
  <2> QED
    BY <1>3, <1>4, <1>5, <2>2, <2>3 DEF IInv, OneActiveCall, ServedSessionInActiveCall,
       ParticipantsComplete, ForceKey, FreshKey, Unforced, tables
<1>7. CASE ~(handler.op = "join" /\ handler.seen.open)
  <2>1. ~batch'.open /\ batch'.row.st = "none"
    BY <1>7 DEF GiveUp, Closed, NoRow
  <2>2. BatchKey' /\ FinalKey' /\ BootKey'
    BY <1>1, <2>1 DEF IInv, BatchKey, FinalKey, BootKey, tables
  <2> QED
    BY <1>3, <1>4, <1>5, <2>2 DEF IInv, OneActiveCall, ServedSessionInActiveCall,
       ParticipantsComplete, ForceKey, FreshKey, Unforced, tables
<1> QED
  BY <1>6, <1>7

\* So does one whose query fails: under NoLostJoin that is no join of a batch.
LEMMA AbandonIInv ==
  ASSUME IInv, handler.pc # "done", Abandon,
         UNCHANGED <<tables, mem, asked, force, booting, crashes>>
  PROVE  IInv'
<1> USE SessionsAssumption DEF SessionsAssumption
<1>1. faults' \in 0..MaxFaults /\ MaxFaults # 0
  BY DEF Abandon, Fault, IInv, TypeOK
<1>2. handler.op = "join" /\ handler.seen.open => Batching
  BY DEF IInv, JoinKey
<1> QED
  BY <1>1, <1>2, GiveUpIInv DEF Abandon, NoLostJoin

\* A new call is the only active one, and has its first participant.
LEMMA CreateCallIInv ==
  ASSUME IInv, CreateCall
  PROVE  IInv'
<1> USE SessionsAssumption DEF SessionsAssumption
<1> DEFINE id == handler.id
<1>1. /\ handler.pc = "create" /\ handler.op = "join" /\ id \in Id
      /\ handler.conn \in Conn /\ handler.row \in Row /\ handler.row.st = "active"
      /\ handler.row.final = {}
      /\ ~batch.open
  BY DEF CreateCall, IInv, HandlerKey, JoinKey, TypeOK, Handler, FinalKey
<1>2. CASE Abandon /\ UNCHANGED calls
  BY <1>1, <1>2, AbandonIInv DEF CreateCall, tables
<1>3. CASE calls[id].st # "none" /\ GiveUp /\ UNCHANGED <<calls, faults>>
  <2>1. handler.seen.open => handler.seen.id = id
    BY <1>1, <1>3 DEF IInv, HandlerKey, JoinKey
  <2>2. NoLostJoin => Active \subseteq {id}
    BY <1>1 DEF IInv, HandlerKey
  <2>3. faults' \in 0..MaxFaults
    BY <1>3 DEF IInv, TypeOK
  <2>4. UNCHANGED <<tables, mem, asked, force, booting, crashes>>
    BY <1>3 DEF CreateCall, tables
  <2> QED
    BY <1>1, <1>3, <2>1, <2>2, <2>3, <2>4, GiveUpIInv
<1>4. CASE /\ calls[id].st = "none"
           /\ calls' = [calls EXCEPT ![id] = handler.row]
           /\ handler' = [handler EXCEPT !.pc = "session"]
           /\ UNCHANGED <<batch, faults>>
  <2>1. /\ handler' \in Handler /\ handler'.pc = "session" /\ handler'.op = "join"
        /\ handler'.id = id /\ handler'.conn = handler.conn /\ handler'.row = handler.row
        /\ handler'.seen = handler.seen
    BY <1>1, <1>4 DEF Handler, IInv, TypeOK
  <2>2. calls' \in [Id -> Row] /\ calls'[id] = handler.row
        /\ \A i \in Id : i # id => calls'[i] = calls[i]
    BY <1>1, <1>4 DEF IInv, TypeOK
  <2>3. UNCHANGED <<inCall, joinAt, clock, everIn, mem, asked, force, booting, batch, faults, crashes>>
    BY <1>4 DEF CreateCall
  <2> HIDE DEF id
  <2>4. TypeOK'
    BY <2>1, <2>2, <2>3 DEF IInv, TypeOK
  <2>5. NoLostJoin => Active' \subseteq {id}
    BY <1>1, <2>2 DEF Active, IInv, HandlerKey, id
  <2>6. (NoLostJoin => OneActiveCall)'
    BY <2>5 DEF OneActiveCall, NoLostJoin
  <2>7. ServedSessionInActiveCall'
    <3>1. \A i \in Id : calls[i].st = "active" => calls'[i].st = "active"
      BY <1>1, <2>2
    <3> SUFFICES ASSUME NEW c \in Conn, mem[c] \in {"live", "removing"}
                 PROVE  IF inCall[c] = 0 THEN \E i \in Id : force[i].st # "idle"
                        ELSE calls'[inCall[c]].st = "active" \/ force[inCall[c]].st # "idle"
      BY <2>3 DEF ServedSessionInActiveCall, Unforced
    <3>2. inCall[c] # 0 => inCall[c] \in Id
      BY DEF IInv, TypeOK, Id
    <3> QED
      BY <3>1, <3>2 DEF IInv, ServedSessionInActiveCall, Unforced
  <2>8. ParticipantsComplete' /\ RowKey'
    BY <1>1, <2>1, <2>2, <2>3 DEF IInv, ParticipantsComplete, RowKey, Unforced, id
  <2>9. HandlerKey'
    BY <1>1, <2>1, <2>2, <2>3, <2>5 DEF HandlerKey, NoLostJoin
  <2>10. JoinKey'
    BY <1>1, <2>1, <2>2, <2>3 DEF IInv, JoinKey, Unforced, id
  <2>11. RemoveKey' /\ BatchKey' /\ BootKey'
    BY <1>1, <2>1, <2>3 DEF IInv, RemoveKey, BatchKey, BootKey
  <2>12. ForceKey' /\ FreshKey' /\ FinalKey'
    BY <1>1, <2>1, <2>2, <2>3 DEF IInv, ForceKey, FreshKey, FinalKey, Unforced
  <2> QED
    BY <2>4, <2>6, <2>7, <2>8, <2>9, <2>10, <2>11, <2>12 DEF IInv
<1> QED
  BY <1>1, <1>2, <1>3, <1>4 DEF CreateCall

\* The new session's call is active, and has its user among the participants.
LEMMA CreateCallSessionIInv ==
  ASSUME IInv, CreateCallSession
  PROVE  IInv'
<1> USE SessionsAssumption DEF SessionsAssumption
<1> DEFINE id == handler.id
           c == handler.conn
<1>1. /\ handler.pc = "session" /\ handler.op = "join" /\ id \in Id
      /\ c \in Conn /\ handler.row \in Row /\ handler.row.st = "active"
      /\ handler.row.final = {} /\ handler.at \in Nat
      /\ ~batch.open /\ ~booting
  BY DEF CreateCallSession, IInv, HandlerKey, JoinKey, TypeOK, Handler, FinalKey, BootKey
<1>2. CASE Abandon /\ UNCHANGED <<inCall, joinAt, mem, everIn>>
  BY <1>1, <1>2, AbandonIInv DEF CreateCallSession, tables
<1>3. CASE /\ inCall' = [inCall EXCEPT ![c] = id]
           /\ joinAt' = [joinAt EXCEPT ![c] = handler.at]
           /\ mem' = [mem EXCEPT ![c] = "live"]
           /\ everIn' = [everIn EXCEPT ![id] = @ \cup ({UserOf[c]} \ {Bot})]
           /\ handler' = Free
           /\ batch' = IF handler.seen.open
                       THEN [open |-> TRUE, id |-> id, row |-> handler.row,
                             conns |-> handler.seen.conns \cup {c}]
                       ELSE Closed
           /\ UNCHANGED faults
  <2>1. /\ handler'.pc = "done" /\ handler'.op = "free" /\ handler' \in Handler
        /\ handler'.row.st = "none" /\ handler'.seen.row.st = "none"
    BY <1>3, NothingTyped DEF Free, Closed, NoRow
  <2>2. UNCHANGED <<calls, clock, asked, force, booting, faults, crashes>>
    BY <1>3 DEF CreateCallSession
  <2>3. batch' \in View
    <3>1. CASE handler.seen.open
      <4>1. handler.seen.conns \cup {c} \in SUBSET Conn /\ id \in 0..MaxCall
        BY <1>1 DEF IInv, TypeOK, Handler, View
      <4> HIDE DEF id, c
      <4> QED
        BY <1>1, <1>3, <3>1, <4>1 DEF View
    <3> QED
      BY <1>3, <3>1, NothingTyped
  <2>4. /\ inCall' \in [Conn -> 0..MaxCall] /\ joinAt' \in [Conn -> Nat]
        /\ mem' \in [Conn -> {"out", "live", "removing", "gone"}]
    BY <1>1, <1>3 DEF IInv, TypeOK, Id
  <2>5. /\ everIn' \in [Id -> SUBSET Humans]
        /\ everIn'[id] = everIn[id] \cup ({UserOf[c]} \ {Bot})
        /\ \A i \in Id : i # id => everIn'[i] = everIn[i]
    BY <1>1, <1>3 DEF IInv, TypeOK, Humans
  <2>6. /\ inCall'[c] = id
        /\ \A d \in Conn : d # c => inCall'[d] = inCall[d] /\ mem'[d] = mem[d]
    BY <1>1, <1>3 DEF IInv, TypeOK
  <2>7. Unforced(id) => calls[id] = handler.row
    BY <1>1 DEF IInv, JoinKey
  <2>8. UserOf[c] # Bot => UserOf[c] \in handler.row.parts
    BY <1>1 DEF IInv, JoinKey
  <2>9. Unforced(id) => everIn[id] \subseteq handler.row.parts
    BY <1>1 DEF IInv, RowKey
  <2>10. id # 0 /\ (Unforced(id) => calls[id].st = "active")
    BY <1>1, <2>7 DEF Id
  <2> HIDE DEF id, c
  <2>11. TypeOK'
    BY <2>1, <2>2, <2>3, <2>4, <2>5 DEF IInv, TypeOK
  <2>12. (NoLostJoin => OneActiveCall)'
    BY <2>2 DEF IInv, OneActiveCall, Active
  <2>13. ServedSessionInActiveCall'
    BY <1>1, <2>2, <2>6, <2>10 DEF IInv, ServedSessionInActiveCall, Unforced
  <2>14. ParticipantsComplete'
    BY <1>1, <2>2, <2>5, <2>7, <2>8, <2>9 DEF IInv, ParticipantsComplete, Unforced
  <2>15. HandlerKey' /\ JoinKey' /\ RemoveKey' /\ RowKey'
    BY <2>1 DEF HandlerKey, JoinKey, RemoveKey, RowKey
  <2>16. BatchKey'
    <3>1. CASE handler.seen.open
      <4>1. batch'.id = id /\ batch'.row = handler.row
        BY <1>3, <3>1 DEF id, c
      <4>2. NoLostJoin => Active' \subseteq {id}
        BY <1>1, <2>2 DEF IInv, HandlerKey, Active, id
      <4>3. Batching
        BY <1>1, <3>1 DEF IInv, JoinKey
      <4>4. Unforced(id) => everIn'[id] \subseteq handler.row.parts
        BY <2>5, <2>8, <2>9
      <4> QED
        BY <1>1, <2>2, <2>10, <4>1, <4>2, <4>3, <4>4 DEF BatchKey, Unforced, NoLostJoin
    <3>2. CASE ~handler.seen.open
      BY <1>3, <3>2 DEF BatchKey, Closed
    <3> QED
      BY <3>1, <3>2
  <2>17. BootKey' /\ ForceKey'
    BY <1>1, <2>1, <2>2 DEF IInv, BootKey, ForceKey
  <2>18. FreshKey'
    <3>1. calls[id].st # "none"
      BY <1>1, <2>10 DEF IInv, FreshKey
    <3> QED
      BY <2>2, <2>5, <3>1 DEF IInv, FreshKey, Unforced
  <2>19. FinalKey'
    <3>1. batch'.row.st = "active" => batch'.row.final = {}
      BY <1>1, <1>3 DEF Closed, NoRow
    <3> QED
      BY <2>1, <2>2, <3>1 DEF IInv, FinalKey
  <2> QED
    BY <2>11, <2>12, <2>13, <2>14, <2>15, <2>16, <2>17, <2>18, <2>19 DEF IInv
<1> QED
  BY <1>1, <1>2, <1>3 DEF CreateCallSession

\* The row written over the call is that of the only active call, has all its
\* participants, and ends it only when no served session is in it.
LEMMA UpdateCallIInv ==
  ASSUME IInv, UpdateCall
  PROVE  IInv'
<1> USE SessionsAssumption DEF SessionsAssumption
<1> DEFINE id == handler.id
<1>1. /\ handler.pc = "call" /\ id \in Id
      /\ handler \in Handler /\ handler.row \in Row
      /\ handler.row.st = "active"
         \/ (handler.row.st = "ended" /\ handler.op \in {"remove", "clean"})
      /\ handler.row.st = "active" => handler.row.final = {}
      /\ ~batch.open
  BY DEF UpdateCall, IInv, HandlerKey, TypeOK, Handler, FinalKey
<1>2. CASE Abandon /\ UNCHANGED calls
  BY <1>1, <1>2, AbandonIInv DEF UpdateCall, tables
<1>3. CASE /\ calls' = [calls EXCEPT ![id] = handler.row]
           /\ handler' = IF handler.op = "join" THEN [handler EXCEPT !.pc = "session"] ELSE Free
           /\ UNCHANGED <<batch, faults>>
  <2>1. /\ handler' \in Handler
        /\ \/ /\ handler.op = "join" /\ handler'.pc = "session" /\ handler'.op = "join"
              /\ handler'.id = id /\ handler'.conn = handler.conn /\ handler'.row = handler.row
              /\ handler'.seen = handler.seen
           \/ /\ handler.op # "join" /\ handler'.pc = "done" /\ handler'.op = "free"
              /\ handler'.row.st = "none" /\ handler'.seen.row.st = "none"
    <3>1. CASE handler.op = "join"
      BY <1>1, <1>3, <3>1 DEF Handler
    <3>2. CASE handler.op # "join"
      BY <1>3, <3>2, NothingTyped DEF Free, Closed, NoRow
    <3> QED
      BY <3>1, <3>2
  <2>2. calls' \in [Id -> Row] /\ calls'[id] = handler.row
        /\ \A i \in Id : i # id => calls'[i] = calls[i]
    BY <1>1, <1>3 DEF IInv, TypeOK
  <2>3. UNCHANGED <<inCall, joinAt, clock, everIn, mem, asked, force, booting, batch, faults, crashes>>
    BY <1>3 DEF UpdateCall
  <2> HIDE DEF id
  <2>4. TypeOK'
    BY <2>1, <2>2, <2>3 DEF IInv, TypeOK
  <2>5. NoLostJoin => Active' \subseteq {id}
    BY <1>1, <2>2 DEF Active, IInv, HandlerKey, id
  <2>6. (NoLostJoin => OneActiveCall)'
    BY <2>5 DEF OneActiveCall, NoLostJoin
  <2>7. ServedSessionInActiveCall'
    <3> SUFFICES ASSUME NEW c \in Conn, mem[c] \in {"live", "removing"}
                 PROVE  IF inCall[c] = 0 THEN \E i \in Id : force[i].st # "idle"
                        ELSE calls'[inCall[c]].st = "active" \/ force[inCall[c]].st # "idle"
      BY <2>3 DEF ServedSessionInActiveCall, Unforced
    <3>1. inCall[c] # 0 => inCall[c] \in Id
      BY DEF IInv, TypeOK, Id
    <3>2. handler.row.st = "ended" => inCall[c] # id
      <4>1. CASE handler.op = "clean"
        BY <4>1 DEF IInv, BootKey
      <4>2. CASE handler.op = "remove"
        BY <1>1, <4>2 DEF IInv, RemoveKey, id
      <4> QED
        BY <1>1, <4>1, <4>2
    <3> QED
      BY <1>1, <2>2, <3>1, <3>2 DEF IInv, ServedSessionInActiveCall, Unforced
  <2>8. ParticipantsComplete' /\ RowKey'
    BY <1>1, <2>1, <2>2, <2>3 DEF IInv, ParticipantsComplete, RowKey, Unforced, id
  <2>9. HandlerKey'
    BY <1>1, <2>1, <2>2, <2>3, <2>5 DEF HandlerKey, NoLostJoin
  <2>10. JoinKey'
    <3>1. handler.op = "join" => handler.row.st = "active"
      BY <1>1
    <3> QED
      BY <1>1, <2>1, <2>2, <2>3, <3>1 DEF IInv, JoinKey, Unforced, id
  <2>11. RemoveKey' /\ BatchKey' /\ BootKey'
    BY <1>1, <2>1, <2>3 DEF IInv, RemoveKey, BatchKey, BootKey
  <2>12. ForceKey' /\ FreshKey' /\ FinalKey'
    BY <1>1, <2>1, <2>2, <2>3 DEF IInv, ForceKey, FreshKey, FinalKey, Unforced
  <2> QED
    BY <2>4, <2>6, <2>7, <2>8, <2>9, <2>10, <2>11, <2>12 DEF IInv
<1> QED
  BY <1>1, <1>2, <1>3 DEF UpdateCall

\* The end of a batch only unlocks.
LEMMA BatchDoneIInv ==
  ASSUME IInv, BatchDone
  PROVE  IInv'
<1> USE SessionsAssumption DEF SessionsAssumption
<1>1. /\ batch' \in View /\ ~batch'.open /\ batch'.row.st = "none" /\ batch.open
      /\ UNCHANGED <<tables, mem, asked, handler, force, booting, faults, crashes>>
  BY NothingTyped DEF BatchDone, Closed, NoRow, bounds
<1>2. Active' = Active
  BY <1>1 DEF Active, tables
<1>3. TypeOK'
  BY <1>1 DEF IInv, TypeOK, tables
<1>4. HandlerKey' /\ JoinKey' /\ RemoveKey' /\ RowKey' /\ BatchKey' /\ BootKey' /\ FinalKey'
  BY <1>1, <1>2 DEF IInv, HandlerKey, JoinKey, RemoveKey, RowKey, BatchKey, BootKey, FinalKey,
     Unforced, tables
<1> QED
  BY <1>1, <1>2, <1>3, <1>4 DEF IInv, OneActiveCall, ServedSessionInActiveCall,
     ParticipantsComplete, ForceKey, FreshKey, Unforced, tables

\* The row that a removal will write: the call goes on, or has no session left.
LEMMA RowsWithoutKey ==
  ASSUME IInv, NEW c \in Conn, NEW i \in Active, NEW row \in RowsWithout(i, c)
  PROVE  /\ row \in Row
         /\ \/ row.st = "active" /\ row.final = {} /\ row.parts = calls[i].parts
            \/ row.st = "ended" /\ row.final = calls[i].parts
               /\ \A d \in Conn : inCall[d] = i => d = c
<1> USE SessionsAssumption DEF SessionsAssumption
<1>1. /\ i \in Id /\ i # 0
      /\ calls[i] \in Row /\ calls[i].st = "active" /\ calls[i].final = {}
  BY DEF Active, IInv, TypeOK, FinalKey, Id
<1> DEFINE s == IF calls[i].screen = c THEN None ELSE calls[i].screen
           row0 == [calls[i] EXCEPT !.screen = s]
           C == ConnsOf(i) \ {c}
<1>2. s \in Conn \cup {None}
  BY <1>1 DEF Row
<1>3. row0 = [calls[i] EXCEPT !.screen = IF @ = c THEN None ELSE @]
  BY <1>1 DEF Row
<1>4. row \in IF C = {} THEN {Ended(row0)}
              ELSE IF row0.host # UserOf[c] THEN {row0}
              ELSE {[row0 EXCEPT !.host = h] : h \in HostCandidates(row0, C, joinAt)}
  BY <1>3 DEF RowsWithout
<1> HIDE DEF s
<1>5. /\ row0 \in Row /\ row0.st = "active" /\ row0.final = {}
      /\ row0.parts = calls[i].parts
  BY <1>1, <1>2 DEF Row
<1> HIDE DEF row0
<1>6. CASE C = {}
  <2>1. row = Ended(row0)
    BY <1>4, <1>6
  <2>2. row \in Row /\ row.st = "ended" /\ row.final = row0.parts
    BY <1>5, <2>1 DEF Ended, Row
  <2> QED
    BY <1>1, <1>5, <1>6, <2>2 DEF ConnsOf
<1>7. CASE C # {} /\ row = row0
  BY <1>5, <1>7
<1>8. CASE \E h \in HostCandidates(row0, C, joinAt) : row = [row0 EXCEPT !.host = h]
  <2>1. PICK h \in HostCandidates(row0, C, joinAt) : row = [row0 EXCEPT !.host = h]
    BY <1>8
  <2>2. C \in SUBSET Conn
    BY DEF ConnsOf
  <2> HIDE DEF C
  <2>3. h \in Humans \cup {None}
    BY <1>5, <2>2, HostTyped
  <2> QED
    BY <1>5, <2>1, <2>3 DEF Row
<1> QED
  BY <1>4, <1>6, <1>7, <1>8

\* A removal finds its session in the only active call, or has nothing to do.
LEMMA RemoveUserSessionIInv ==
  ASSUME IInv, NEW c \in Conn, removeUserSession(c)
  PROVE  IInv'
<1> USE SessionsAssumption DEF SessionsAssumption
<1> DEFINE id == inCall[c]
<1>1. /\ Ready /\ mem[c] = "removing" /\ mem' = [mem EXCEPT ![c] = "gone"]
      /\ UNCHANGED <<calls, inCall, joinAt, clock, everIn, asked, batch, force, booting,
                     faults, crashes>>
      /\ handler.pc = "done" /\ handler.op = "free" /\ ~batch.open /\ ~booting
  BY DEF removeUserSession, tables, bounds, Ready, Free
<1>2. /\ mem' \in [Conn -> {"out", "live", "removing", "gone"}]
      /\ mem'[c] = "gone"
      /\ \A d \in Conn : d # c => mem'[d] = mem[d]
  BY <1>1 DEF IInv, TypeOK
<1>3. Active' = Active
  BY <1>1 DEF Active
<1>4. /\ (NoLostJoin => OneActiveCall)' /\ ParticipantsComplete' /\ BatchKey'
      /\ ForceKey' /\ FreshKey'
  BY <1>1, <1>3 DEF IInv, OneActiveCall, ParticipantsComplete, BatchKey, ForceKey, FreshKey,
     Unforced
<1>5. ServedSessionInActiveCall'
  BY <1>1, <1>2 DEF IInv, ServedSessionInActiveCall, Unforced
<1>6. CASE UNCHANGED handler
  <2>1. TypeOK'
    BY <1>1, <1>2, <1>6 DEF IInv, TypeOK
  <2>2. /\ HandlerKey' /\ JoinKey' /\ RemoveKey' /\ RowKey' /\ BootKey' /\ FinalKey'
    BY <1>1, <1>3, <1>6 DEF IInv, HandlerKey, JoinKey, RemoveKey, RowKey, BootKey, FinalKey,
       Unforced
  <2> QED
    BY <1>4, <1>5, <2>1, <2>2 DEF IInv
<1>7. CASE \E row \in RowsWithout(id, c) : id \in ActiveCall
                 /\ handler' = Doing("remove", c, id, row, "session")
  <2>1. PICK row \in RowsWithout(id, c) : handler' = Doing("remove", c, id, row, "session")
    BY <1>7
  <2>2. id \in Active /\ id \in Id /\ calls[id].st = "active"
    BY <1>7 DEF ActiveCall, Active
  <2> HIDE DEF id
  <2>3. /\ row \in Row
        /\ \/ row.st = "active" /\ row.final = {} /\ row.parts = calls[id].parts
           \/ row.st = "ended" /\ row.final = calls[id].parts
              /\ \A d \in Conn : inCall[d] = id => d = c
    BY <2>1, <2>2, RowsWithoutKey
  <2>4. /\ handler' \in Handler /\ handler'.op = "remove" /\ handler'.conn = c
        /\ handler'.id = id /\ handler'.row = row /\ handler'.pc = "session"
        /\ handler'.seen.row.st = "none" /\ ~handler'.seen.open
    BY <2>1, <2>2, <2>3, NothingTyped DEF Doing, Handler, Closed, NoRow, Id
  <2>5. TypeOK'
    BY <1>1, <1>2, <2>4 DEF IInv, TypeOK
  <2>6. NoLostJoin => Active \subseteq {id}
    BY <2>2 DEF IInv, OneActiveCall
  <2>7. HandlerKey'
    BY <1>1, <1>3, <2>2, <2>3, <2>4, <2>6 DEF HandlerKey, NoLostJoin
  <2>8. JoinKey' /\ BootKey' /\ FinalKey'
    BY <1>1, <2>3, <2>4 DEF IInv, JoinKey, BootKey, FinalKey
  <2>9. RemoveKey'
    BY <1>1, <1>2, <2>3, <2>4 DEF RemoveKey
  <2>10. RowKey'
    <3>1. Unforced(id) => everIn[id] \subseteq calls[id].parts \cup calls[id].final
      BY <2>2 DEF IInv, ParticipantsComplete
    <3>2. calls[id].final = {}
      BY <2>2 DEF IInv, FinalKey
    <3> QED
      BY <1>1, <2>3, <2>4, <3>1, <3>2 DEF RowKey, Unforced
  <2> QED
    BY <1>4, <1>5, <2>5, <2>7, <2>8, <2>9, <2>10 DEF IInv
<1> QED
  BY <1>6, <1>7 DEF removeUserSession

\* The row deleted is that of a session that nobody serves any more.
LEMMA DeleteCallSessionIInv ==
  ASSUME IInv, DeleteCallSession
  PROVE  IInv'
<1> USE SessionsAssumption DEF SessionsAssumption
<1> DEFINE c == handler.conn
<1>1. /\ handler.op = "remove" /\ handler.pc = "session" /\ handler \in Handler
      /\ c \in Conn /\ mem[c] = "gone" /\ ~batch.open
  BY DEF DeleteCallSession, IInv, TypeOK, RemoveKey, HandlerKey
<1>2. CASE Abandon /\ UNCHANGED <<inCall, joinAt>>
  BY <1>1, <1>2, AbandonIInv DEF DeleteCallSession, tables
<1>3. CASE /\ inCall' = [inCall EXCEPT ![c] = 0]
           /\ joinAt' = [joinAt EXCEPT ![c] = 0]
           /\ handler' = [handler EXCEPT !.pc = "call"]
           /\ UNCHANGED <<batch, faults>>
  <2>1. UNCHANGED <<calls, clock, everIn, mem, asked, force, booting, batch, faults, crashes>>
    BY <1>3 DEF DeleteCallSession
  <2>2. /\ handler' \in Handler /\ handler'.op = "remove" /\ handler'.pc = "call"
        /\ handler'.id = handler.id /\ handler'.conn = c /\ handler'.row = handler.row
        /\ handler'.seen = handler.seen
    BY <1>1, <1>3 DEF Handler
  <2>3. /\ inCall' \in [Conn -> 0..MaxCall] /\ joinAt' \in [Conn -> Nat]
        /\ inCall'[c] = 0 /\ \A d \in Conn : d # c => inCall'[d] = inCall[d]
    BY <1>1, <1>3 DEF IInv, TypeOK
  <2> HIDE DEF c
  <2>4. Active' = Active
    BY <2>1 DEF Active
  <2>5. TypeOK'
    BY <2>1, <2>2, <2>3 DEF IInv, TypeOK
  <2>6. ServedSessionInActiveCall'
    BY <1>1, <2>1, <2>3 DEF IInv, ServedSessionInActiveCall, Unforced
  <2>7. HandlerKey'
    BY <1>1, <2>1, <2>2, <2>4 DEF IInv, HandlerKey, Unforced, NoLostJoin
  <2>8. JoinKey' /\ BootKey' /\ FinalKey' /\ BatchKey'
    BY <1>1, <2>1, <2>2 DEF IInv, JoinKey, BootKey, FinalKey, BatchKey
  <2>9. RemoveKey'
    <3>1. handler.id # 0
      BY <1>1 DEF IInv, HandlerKey, Id
    <3>2. handler.row.st = "ended" => \A d \in Conn : inCall[d] = handler.id => d = c
      BY <1>1 DEF IInv, RemoveKey, c
    <3> QED
      BY <1>1, <2>1, <2>2, <2>3, <3>1, <3>2 DEF RemoveKey
  <2>10. RowKey'
    BY <1>1, <2>1, <2>2 DEF IInv, RowKey, Unforced
  <2> QED
    BY <2>1, <2>4, <2>5, <2>6, <2>7, <2>8, <2>9, <2>10 DEF IInv, OneActiveCall,
       ParticipantsComplete, ForceKey, FreshKey, Unforced
<1> QED
  BY <1>1, <1>2, <1>3 DEF DeleteCallSession

\* From hostEnd on, nothing is promised of that call but that it ends.
LEMMA HostEndIInv ==
  ASSUME IInv, hostEnd
  PROVE  IInv'
<1> USE SessionsAssumption DEF SessionsAssumption
<1>1. PICK i \in ActiveCall : force' = [force EXCEPT ![i].st = "asked"]
  BY DEF hostEnd
<1>2. /\ i \in Id /\ calls[i].st = "active"
      /\ UNCHANGED <<calls, inCall, joinAt, clock, everIn, mem, asked, handler, batch, booting,
                     faults, crashes>>
  BY DEF hostEnd, ActiveCall, Active, tables, bounds
<1>3. /\ force' \in [Id -> ForceTask] /\ force'[i].st = "asked"
      /\ \A j \in Id : j # i => force'[j] = force[j]
  BY <1>1, <1>2 DEF IInv, TypeOK, ForceTask
<1>4. \A j \in Id : force'[j].st = "idle" => force[j].st = "idle"
  BY <1>3
<1>5. Active' = Active
  BY <1>2 DEF Active
<1>6. TypeOK'
  BY <1>2, <1>3 DEF IInv, TypeOK
<1>7. ServedSessionInActiveCall'
  <2>1. \A c \in Conn : inCall[c] # 0 => inCall[c] \in Id
    BY DEF IInv, TypeOK, Id
  <2> QED
    BY <1>2, <1>3, <2>1 DEF IInv, ServedSessionInActiveCall, Unforced
<1>8. (NoLostJoin => OneActiveCall)' /\ ParticipantsComplete' /\ RemoveKey' /\ BootKey' /\ FinalKey'
  BY <1>2, <1>4, <1>5 DEF IInv, OneActiveCall, ParticipantsComplete, RemoveKey, BootKey, FinalKey,
     Unforced
<1>9. HandlerKey' /\ RowKey'
  BY <1>2, <1>4, <1>5 DEF IInv, HandlerKey, RowKey, Unforced
<1>10. JoinKey'
  <2>1. handler.op = "join" => handler.id \in Id
    BY DEF IInv, HandlerKey, JoinKey
  <2> QED
    BY <1>2, <1>4, <2>1 DEF IInv, JoinKey, Unforced
<1>11. BatchKey'
  <2>1. batch.id # 0 => batch.id \in Id
    BY DEF IInv, TypeOK, View, Id
  <2> QED
    BY <1>2, <1>4, <1>5, <2>1 DEF IInv, BatchKey, Unforced
<1>12. ForceKey' /\ FreshKey'
  BY <1>2, <1>3 DEF IInv, ForceKey, FreshKey, Unforced
<1> QED
  BY <1>6, <1>7, <1>8, <1>9, <1>10, <1>11, <1>12 DEF IInv

\* The goroutine changes only the row and the sessions of its own call.
LEMMA ForceStepIInv ==
  ASSUME IInv, NEW i \in Id, ForceStep(i)
  PROVE  IInv'
<1> USE SessionsAssumption DEF SessionsAssumption
<1>1. /\ force[i].st # "idle" /\ calls[i].st # "none"
      /\ calls[i] \in Row /\ force[i] \in ForceTask
      /\ force[i].st \in {"read", "purged"} => force[i].row.st = "ended"
  BY DEF ForceStep, ForceRead, ForcePurge, ForceWrite, IInv, FreshKey, TypeOK, ForceKey, Unforced
<1>2. /\ UNCHANGED <<clock, everIn, mem, asked, handler, batch, booting, crashes>>
      /\ faults' \in 0..MaxFaults
  BY DEF ForceStep, ForceRead, ForcePurge, ForceWrite, tables, Fault, IInv, TypeOK
<1>3. /\ force' \in [Id -> ForceTask] /\ force'[i].st # "idle"
      /\ force'[i].st \in {"read", "purged"} => force'[i].row.st = "ended"
      /\ \A j \in Id : j # i => force'[j] = force[j]
  <2>1. \E t \in ForceTask : /\ force' = [force EXCEPT ![i] = t] /\ t.st # "idle"
                             /\ t.st \in {"read", "purged"} => t.row.st = "ended"
    <3>1. CASE ForceRead(i)
      <4>1. CASE force' = [force EXCEPT ![i] = ForceDone]
        BY <4>1, NothingTyped DEF ForceDone
      <4>2. CASE force' = [force EXCEPT ![i] = [st |-> "read",
                 row |-> IF calls[i].st = "active" THEN Ended(calls[i]) ELSE calls[i]]]
        <5> DEFINE row == IF calls[i].st = "active" THEN Ended(calls[i]) ELSE calls[i]
        <5>1. row \in Row /\ row.st = "ended"
          BY <1>1 DEF Row, Ended
        <5> HIDE DEF row
        <5>2. [st |-> "read", row |-> row] \in ForceTask
          BY <5>1 DEF ForceTask
        <5> QED
          BY <4>2, <5>1, <5>2 DEF row
      <4> QED
        BY <3>1, <4>1, <4>2 DEF ForceRead
    <3>2. CASE ForcePurge(i)
      <4>1. [force[i] EXCEPT !.st = "purged"] \in ForceTask
        BY <1>1 DEF ForceTask
      <4>2. [force[i] EXCEPT !.st = "purged"].row.st = "ended"
        BY <1>1, <3>2 DEF ForceTask, ForcePurge
      <4>3. [force[i] EXCEPT !.st = "purged"].st = "purged"
        BY <1>1 DEF ForceTask
      <4>4. force' = [force EXCEPT ![i] = [force[i] EXCEPT !.st = "purged"]]
        BY <3>2 DEF ForcePurge, IInv, TypeOK
      <4> QED
        BY <4>1, <4>2, <4>3, <4>4
    <3>3. CASE ForceWrite(i)
      BY <3>3, NothingTyped DEF ForceWrite, ForceDone
    <3> QED
      BY <3>1, <3>2, <3>3 DEF ForceStep
  <2>2. PICK t \in ForceTask : /\ force' = [force EXCEPT ![i] = t] /\ t.st # "idle"
                               /\ t.st \in {"read", "purged"} => t.row.st = "ended"
    BY <2>1
  <2>3. /\ force' \in [Id -> ForceTask] /\ force'[i] = t
        /\ \A j \in Id : j # i => force'[j] = force[j]
    BY <2>2 DEF IInv, TypeOK
  <2> QED
    BY <2>2, <2>3
<1>4. \A j \in Id : (force'[j].st = "idle") <=> (force[j].st = "idle")
  BY <1>1, <1>3
<1>5. /\ calls' \in [Id -> Row]
      /\ \A j \in Id : j # i => calls'[j] = calls[j]
      /\ calls'[i] = calls[i] \/ calls'[i].st = "ended"
  <2>1. CASE UNCHANGED calls
    BY <2>1 DEF IInv, TypeOK
  <2>2. CASE force[i].st = "purged" /\ calls' = [calls EXCEPT ![i] = force[i].row]
    BY <1>1, <2>2 DEF IInv, TypeOK, ForceTask
  <2> QED
    BY <2>1, <2>2 DEF ForceStep, ForceRead, ForcePurge, ForceWrite, tables
<1>6. /\ inCall' \in [Conn -> 0..MaxCall] /\ joinAt' \in [Conn -> Nat]
      /\ \A c \in Conn : inCall'[c] = inCall[c] \/ (inCall[c] = i /\ inCall'[c] = 0)
  <2>1. CASE UNCHANGED <<inCall, joinAt>>
    BY <2>1 DEF IInv, TypeOK
  <2>2. CASE Purge(i)
    BY <2>2 DEF IInv, TypeOK, Purge
  <2>3. UNCHANGED <<inCall, joinAt>> \/ Purge(i)
    <3>1. ForceRead(i) => UNCHANGED <<inCall, joinAt>>
      BY DEF ForceRead, tables
    <3>2. ForceWrite(i) => UNCHANGED <<inCall, joinAt>>
      BY DEF ForceWrite
    <3>3. ForcePurge(i) => UNCHANGED <<inCall, joinAt>> \/ Purge(i)
      BY DEF ForcePurge
    <3> QED
      BY <3>1, <3>2, <3>3 DEF ForceStep
  <2> QED
    BY <2>1, <2>2, <2>3
<1>7. Active' \subseteq Active
  BY <1>5 DEF Active
<1>8. TypeOK'
  BY <1>2, <1>3, <1>5, <1>6 DEF IInv, TypeOK
<1>9. ServedSessionInActiveCall'
  <2>1. \A c \in Conn : inCall[c] # 0 => inCall[c] \in Id
    BY DEF IInv, TypeOK, Id
  <2> QED
    BY <1>1, <1>2, <1>4, <1>5, <1>6, <2>1 DEF IInv, ServedSessionInActiveCall, Unforced
<1>10. (NoLostJoin => OneActiveCall)' /\ ParticipantsComplete'
  BY <1>1, <1>2, <1>4, <1>5, <1>7 DEF IInv, OneActiveCall, ParticipantsComplete, Unforced,
     NoLostJoin
<1>11. RemoveKey' /\ BootKey'
  <2>1. handler.op = "remove" => handler.id # 0
    BY DEF IInv, RemoveKey, HandlerKey, Id
  <2> QED
    BY <1>2, <1>6, <2>1 DEF IInv, RemoveKey, BootKey
<1>12. HandlerKey' /\ RowKey'
  BY <1>1, <1>2, <1>4, <1>5, <1>7 DEF IInv, HandlerKey, RowKey, Unforced, NoLostJoin
<1>13. JoinKey'
  <2>1. handler.op = "join" => handler.id \in Id
    BY DEF IInv, HandlerKey, JoinKey
  <2> QED
    BY <1>1, <1>2, <1>4, <1>5, <2>1 DEF IInv, JoinKey, Unforced
<1>14. BatchKey'
  <2>1. batch.id # 0 => batch.id \in Id
    BY DEF IInv, TypeOK, View, Id
  <2> QED
    BY <1>1, <1>2, <1>4, <1>5, <1>7, <2>1 DEF IInv, BatchKey, Unforced, NoLostJoin
<1>15. ForceKey' /\ FreshKey' /\ FinalKey'
  BY <1>1, <1>2, <1>3, <1>4, <1>5 DEF IInv, ForceKey, FreshKey, FinalKey, Unforced
<1> QED
  BY <1>8, <1>9, <1>10, <1>11, <1>12, <1>13, <1>14, <1>15 DEF IInv

\* A crash leaves the tables, and no session of the node.
LEMMA CrashIInv ==
  ASSUME IInv, Crash
  PROVE  IInv'
<1> USE SessionsAssumption DEF SessionsAssumption
<1>1. /\ UNCHANGED <<calls, inCall, joinAt, clock, everIn, faults>>
      /\ booting' = TRUE /\ handler' = Free /\ batch' = Closed
      /\ handler'.pc = "done" /\ handler'.op = "free" /\ ~batch'.open
      /\ handler'.row.st = "none" /\ handler'.seen.row.st = "none" /\ batch'.row.st = "none"
  BY DEF Crash, tables, Free, Closed, NoRow
<1>2. /\ force' \in [Id -> ForceTask]
      /\ \A j \in Id : /\ (force'[j].st = "idle") <=> (force[j].st = "idle")
                       /\ force'[j].st \in {"idle", "done"}
  <2>1. \A j \in Id : force'[j] = IF force[j].st = "idle" THEN NoForce ELSE ForceDone
    BY DEF Crash
  <2>2. \A j \in Id : force'[j] \in ForceTask
    BY <2>1, NothingTyped
  <2>3. force' \in [Id -> ForceTask]
    BY <2>2 DEF Crash
  <2> QED
    BY <2>1, <2>3 DEF NoForce, ForceDone
<1>3. /\ mem' \in [Conn -> {"out", "live", "removing", "gone"}]
      /\ \A c \in Conn : mem'[c] \notin {"live", "removing"}
  BY DEF Crash, IInv, TypeOK
<1>4. Active' = Active
  BY <1>1 DEF Active
<1>5. asked' \in [Conn -> {"none", "on", "off"}] /\ crashes' \in 0..MaxCrashes
  BY DEF Crash, IInv, TypeOK
<1>6. TypeOK'
  <2>1. handler' \in Handler /\ batch' \in View
    BY <1>1, NothingTyped
  <2>2. booting' \in BOOLEAN
    BY <1>1
  <2> QED
    BY <1>1, <1>2, <1>3, <1>5, <2>1, <2>2 DEF IInv, TypeOK
<1>7. HandlerKey' /\ JoinKey' /\ RemoveKey' /\ BatchKey' /\ RowKey' /\ BootKey' /\ FinalKey'
  BY <1>1, <1>3 DEF IInv, HandlerKey, JoinKey, RemoveKey, BatchKey, RowKey, BootKey, FinalKey
<1>8. ForceKey' /\ FreshKey'
  BY <1>1, <1>2 DEF IInv, ForceKey, FreshKey, Unforced
<1> QED
  BY <1>1, <1>2, <1>3, <1>4, <1>6, <1>7, <1>8 DEF IInv, OneActiveCall,
     ServedSessionInActiveCall, ParticipantsComplete, Unforced

\* cleanUpState ends calls that no session is served in.
LEMMA CleanSessionsIInv ==
  ASSUME IInv, NEW i \in Id, CleanSessions(i)
  PROVE  IInv'
<1> USE SessionsAssumption DEF SessionsAssumption
<1> DEFINE row == Ended(calls[i])
<1>1. /\ booting /\ calls[i] \in Row /\ calls[i].st = "active" /\ i \in Active
      /\ UNCHANGED <<calls, clock, everIn, mem, asked, batch, force, booting, crashes>>
      /\ ~batch.open /\ \A c \in Conn : mem[c] \notin {"live", "removing"}
      /\ handler' = Doing("clean", None, i, row, "call")
  BY DEF CleanSessions, IInv, TypeOK, BootKey, Active
<1>2. row \in Row /\ row.st = "ended" /\ row.final = calls[i].parts
  BY <1>1 DEF Ended, Row
<1> HIDE DEF row
<1>3. /\ handler' \in Handler /\ handler'.op = "clean" /\ handler'.pc = "call"
      /\ handler'.id = i /\ handler'.row = row /\ handler'.seen.row.st = "none"
  BY <1>1, <1>2, NothingTyped DEF Doing, Handler, Closed, NoRow, Id
<1>4. /\ inCall' \in [Conn -> 0..MaxCall] /\ joinAt' \in [Conn -> Nat] /\ faults' \in 0..MaxFaults
  BY DEF CleanSessions, Purge, Fault, IInv, TypeOK
<1>5. Active' = Active
  BY <1>1 DEF Active
<1>6. TypeOK'
  BY <1>1, <1>3, <1>4 DEF IInv, TypeOK
<1>7. HandlerKey'
  <2>1. NoLostJoin => Active \subseteq {i}
    BY <1>1 DEF IInv, OneActiveCall
  <2> QED
    BY <1>1, <1>2, <1>3, <1>5, <2>1 DEF HandlerKey, NoLostJoin
<1>8. JoinKey' /\ RemoveKey' /\ BatchKey' /\ BootKey' /\ FinalKey'
  BY <1>1, <1>2, <1>3 DEF IInv, JoinKey, RemoveKey, BatchKey, BootKey, FinalKey
<1>9. RowKey'
  <2>1. Unforced(i) => everIn[i] \subseteq calls[i].parts \cup calls[i].final
    BY DEF IInv, ParticipantsComplete
  <2>2. calls[i].final = {}
    BY <1>1 DEF IInv, FinalKey
  <2> QED
    BY <1>1, <1>2, <1>3, <2>1, <2>2 DEF RowKey, Unforced
<1>10. ServedSessionInActiveCall'
  BY <1>1 DEF ServedSessionInActiveCall
<1> QED
  BY <1>1, <1>5, <1>6, <1>7, <1>8, <1>9, <1>10 DEF IInv, OneActiveCall, ParticipantsComplete,
     ForceKey, FreshKey, Unforced, NoLostJoin

\* The end of the activation changes nothing else.
LEMMA ActivatedIInv ==
  ASSUME IInv, Activated
  PROVE  IInv'
<1> USE SessionsAssumption DEF SessionsAssumption
<1>1. /\ UNCHANGED <<calls, inCall, joinAt, clock, everIn, mem, asked, handler, batch, force,
                     crashes>>
      /\ booting' = FALSE /\ handler.op = "free" /\ faults' \in 0..MaxFaults
  BY DEF Activated, tables, Fault, Free, IInv, TypeOK
<1>2. Active' = Active
  BY <1>1 DEF Active
<1>3. TypeOK'
  BY <1>1 DEF IInv, TypeOK
<1> QED
  BY <1>1, <1>2, <1>3 DEF IInv, OneActiveCall, ParticipantsComplete, HandlerKey, JoinKey, BatchKey,
     RowKey, ForceKey, FreshKey, FinalKey, Unforced, ServedSessionInActiveCall, RemoveKey, BootKey,
     NoLostJoin

\* Every step of the specification keeps the invariant.
LEMMA NextIInv == IInv /\ [Next]_vars => IInv'
<1> SUFFICES ASSUME IInv, [Next]_vars PROVE IInv'
  OBVIOUS
<1>1. ASSUME NEW c \in Conn, ConnStep(c) PROVE IInv'
  BY <1>1, AddUserSessionIInv, RemoveSessionIInv, RemoveUserSessionIInv, ScreenMessageIInv,
     HandleScreenIInv DEF ConnStep
<1>2. CASE Write
  BY <1>2, CreateCallIInv, CreateCallSessionIInv, UpdateCallIInv, DeleteCallSessionIInv,
     BatchDoneIInv DEF Write
<1>3. ASSUME NEW u \in User, changeHost(u) PROVE IInv'
  BY <1>3, ChangeHostIInv
<1>4. CASE hostEnd
  BY <1>4, HostEndIInv
<1>5. ASSUME NEW i \in Id, ForceStep(i) \/ CleanSessions(i) PROVE IInv'
  BY <1>5, ForceStepIInv, CleanSessionsIInv
<1>6. CASE Crash \/ Activated
  BY <1>6, CrashIInv, ActivatedIInv
<1>7. CASE UNCHANGED vars
  <2>1. Active' = Active
    BY <1>7 DEF vars, Active
  <2> QED
    BY <1>7, <2>1 DEF vars, IInv, TypeOK, OneActiveCall, ParticipantsComplete, HandlerKey, JoinKey,
       BatchKey, RowKey, ForceKey, FreshKey, FinalKey, Unforced, ServedSessionInActiveCall,
       RemoveKey, BootKey, NoLostJoin
<1> QED
  BY <1>1, <1>2, <1>3, <1>4, <1>5, <1>6, <1>7 DEF Next

\* The tables, the memory of the node and the handler in the lock always agree.
THEOREM IInvAlways == Spec => []IInv
  BY InitIInv, NextIInv, PTL DEF Spec

\* Every variable keeps its type.
THEOREM Typing == Spec => []TypeOK
<1>1. IInv => TypeOK
  BY DEF IInv
<1> QED
  BY <1>1, IInvAlways, PTL

\* A channel never has two active calls, whatever the interleaving of joins,
\* leaves, host controls and restarts, if joins are not batched or no query
\* fails (addUserSession, removeUserSession, cleanUpState).
THEOREM OneCallPerChannel == Spec => [](NoLostJoin => OneActiveCall)
<1>1. IInv => (NoLostJoin => OneActiveCall)
  BY DEF IInv
<1> QED
  BY <1>1, IInvAlways, PTL

\* No session of the node loses its row or its call, unless the host ends the
\* call for everyone: whichever query fails, in whatever order sessions leave.
THEOREM ServedSessions == Spec => []ServedSessionInActiveCall
<1>1. IInv => ServedSessionInActiveCall
  BY DEF IInv
<1> QED
  BY <1>1, IInvAlways, PTL

\* No participant is lost from the row of a call, while it is on or when it
\* ends, whichever query fails.
THEOREM Participants == Spec => []ParticipantsComplete
<1>1. IInv => ParticipantsComplete
  BY DEF IInv
<1> QED
  BY <1>1, IInvAlways, PTL

\* A step that writes the row of a call leaves an ended call alone.
LEMMA StepKeepsEnded ==
  ASSUME IInv, [Next]_vars, NEW i \in Id, calls[i].st = "ended", Unforced(i)
  PROVE  calls'[i] = calls[i]
<1> USE SessionsAssumption DEF SessionsAssumption
<1>1. CASE UNCHANGED calls
  BY <1>1
<1>2. CASE CreateCall
  <2>1. CASE /\ calls[handler.id].st = "none"
             /\ calls' = [calls EXCEPT ![handler.id] = handler.row]
    BY <2>1 DEF IInv, TypeOK
  <2> QED
    BY <1>2, <2>1 DEF CreateCall, Abandon, Fault
<1>3. CASE UpdateCall
  <2>1. handler.id = i => FALSE
    BY <1>3 DEF UpdateCall, IInv, HandlerKey, Unforced
  <2> QED
    BY <1>3, <2>1 DEF UpdateCall, IInv, TypeOK
<1>4. CASE \E j \in Id : ForceWrite(j)
  <2>1. PICK j \in Id : ForceWrite(j)
    BY <1>4
  <2>2. j # i
    BY <2>1 DEF ForceWrite, Unforced
  <2> QED
    BY <2>1, <2>2 DEF ForceWrite, IInv, TypeOK
<1>5. Next => UNCHANGED calls \/ CreateCall \/ UpdateCall \/ \E j \in Id : ForceWrite(j)
  <2>1. ASSUME NEW c \in Conn, ConnStep(c) PROVE UNCHANGED calls
    BY <2>1 DEF ConnStep, addUserSession, removeSession, removeUserSession, removeSessionFails,
       ScreenMessage, HandleScreen, tables
  <2>2. Write => UNCHANGED calls \/ CreateCall \/ UpdateCall
    BY DEF Write, CreateCallSession, DeleteCallSession, BatchDone, tables
  <2>3. ASSUME NEW u \in User, changeHost(u) PROVE UNCHANGED calls
    BY <2>3 DEF changeHost, tables
  <2>4. ASSUME NEW j \in Id, ForceStep(j) \/ CleanSessions(j)
        PROVE  UNCHANGED calls \/ ForceWrite(j)
    BY <2>4 DEF ForceStep, ForceRead, ForcePurge, CleanSessions, tables
  <2>5. hostEnd \/ Crash \/ Activated => UNCHANGED calls
    BY DEF hostEnd, Crash, Activated, tables
  <2> QED
    BY <2>1, <2>2, <2>3, <2>4, <2>5 DEF Next
<1>6. UNCHANGED vars => UNCHANGED calls
  BY DEF vars
<1> QED
  BY <1>1, <1>2, <1>3, <1>4, <1>5, <1>6

\* Nobody writes the row of a call that has ended: neither a handler that read
\* it before, nor one that finds it by its id; unless the host ended it for
\* everyone, whose goroutine does not lock.
THEOREM NeverReopenedAlways == Spec => NeverReopened
<1> DEFINE Kept == \A i \in Id : calls[i].st = "ended" /\ Unforced(i) => calls'[i] = calls[i]
<1>1. IInv /\ [Next]_vars => [Kept]_vars
  BY StepKeepsEnded
<1> QED
  BY <1>1, IInvAlways, PTL DEF Spec, NeverReopened

---------------------------------------------------------------------------
(* While nothing has failed: CalmIInv *)

\* Whoever getHostID elects is the right host.
LEMMA ElectedHost ==
  ASSUME NEW row \in Row, NEW C \in SUBSET Conn, NEW at,
         NEW h \in HostCandidates(row, C, at),
         NEW r, r.host = h, r.locked = row.locked
  PROVE  GoodHost(r, C)
<1> USE SessionsAssumption DEF SessionsAssumption
<1> DEFINE us == {UserOf[c] : c \in C}
           humans == {c \in C : UserOf[c] # Bot}
<1>1. us \subseteq User /\ row.host \in Humans \cup {None} /\ row.locked \in Humans \cup {None}
  BY DEF Row
<1>2. row.locked \in us => row.locked # None
  BY <1>1
<1>3. CASE row.locked # None /\ row.locked \in us
  <2>1. h = row.locked /\ h # Bot
    BY <1>1, <1>3 DEF HostCandidates, Humans
  <2> QED
    BY <1>3, <2>1 DEF GoodHost
<1>4. CASE row.locked \notin us /\ row.host \in us
  <2>1. h = row.host /\ h \in us \ {Bot}
    BY <1>1, <1>4 DEF HostCandidates, Humans
  <2> QED
    BY <1>4, <2>1 DEF GoodHost
<1>5. CASE row.locked \notin us /\ row.host \notin us /\ humans = {}
  <2>1. h = None /\ us \subseteq {Bot}
    BY <1>5 DEF HostCandidates
  <2> QED
    BY <1>5, <2>1 DEF GoodHost
<1>6. CASE row.locked \notin us /\ row.host \notin us /\ humans # {}
  <2>1. h \in {UserOf[c] : c \in humans}
    BY <1>6 DEF HostCandidates
  <2>2. h \in us \ {Bot}
    BY <2>1
  <2> QED
    BY <1>6, <2>2 DEF GoodHost
<1> QED
  BY <1>2, <1>3, <1>4, <1>5, <1>6

\* Who leaves without being the host leaves the right host.
LEMMA OtherLeaves ==
  ASSUME NEW row \in Row, NEW C \in SUBSET Conn, NEW c \in Conn,
         GoodHost(row, C), row.host # UserOf[c]
  PROVE  GoodHost(row, C \ {c})
<1> USE SessionsAssumption DEF SessionsAssumption
<1> DEFINE us == {UserOf[d] : d \in C}
           vs == {UserOf[d] : d \in C \ {c}}
<1>1. vs \subseteq us /\ us \subseteq vs \cup {UserOf[c]} /\ us \subseteq User
  OBVIOUS
<1>2. row.locked \in vs => row.host = row.locked
  BY <1>1 DEF GoodHost
<1>3. CASE us \subseteq {Bot}
  BY <1>1, <1>2, <1>3 DEF GoodHost
<1>4. CASE ~(us \subseteq {Bot})
  <2>1. row.host \in us \ {Bot}
    BY <1>4 DEF GoodHost
  <2>2. row.host \in vs \ {Bot}
    BY <1>1, <2>1
  <2> QED
    BY <1>2, <2>2 DEF GoodHost
<1> QED
  BY <1>3, <1>4

\* The host of a row is right or not whatever else is in it.
LEMMA SameHost ==
  ASSUME NEW row, NEW r, NEW C, GoodHost(row, C), r.host = row.host, r.locked = row.locked
  PROVE  GoodHost(r, C)
  BY DEF GoodHost

\* Calm does not come back.
LEMMA CalmBefore ==
  ASSUME IInv, [Next]_vars, Calm'
  PROVE  Calm /\ faults' = 0
<1> USE SessionsAssumption DEF SessionsAssumption
<1>1. faults' = 0 /\ \A i \in Id : force'[i].st = "idle"
  BY DEF Calm, Unforced
<1>2. faults \in 0..MaxFaults /\ force \in [Id -> ForceTask]
  BY DEF IInv, TypeOK
<1>3. ASSUME NEW c \in Conn, ConnStep(c) PROVE Calm
  <2>1. addUserSession(c) => UNCHANGED <<force, faults>>
    BY DEF addUserSession, bounds
  <2>2. removeSession(c) \/ removeUserSession(c) \/ ScreenMessage(c) \/ HandleScreen(c)
          => UNCHANGED <<force, faults>>
    BY DEF removeSession, removeUserSession, ScreenMessage, HandleScreen, bounds
  <2>3. removeSessionFails(c) => faults' = faults + 1
    BY DEF removeSessionFails, Fault
  <2> QED
    BY <1>1, <1>2, <1>3, <2>1, <2>2, <2>3 DEF ConnStep, Calm, Unforced
<1>4. ASSUME Write PROVE Calm
  <2>1. faults = 0 /\ UNCHANGED force
    BY <1>1, <1>2, <1>4 DEF Write, CreateCall, CreateCallSession, UpdateCall, DeleteCallSession,
       BatchDone, Abandon, Fault, bounds
  <2> QED
    BY <1>1, <2>1 DEF Calm, Unforced
<1>5. ASSUME NEW u \in User, changeHost(u) PROVE Calm
  BY <1>1, <1>5 DEF changeHost, bounds, Calm, Unforced
<1>6. ASSUME hostEnd PROVE Calm
  <2>1. PICK i \in ActiveCall : force' = [force EXCEPT ![i].st = "asked"]
    BY <1>6 DEF hostEnd
  <2>2. i \in Id
    BY DEF ActiveCall, Active
  <2>3. force'[i].st = "asked"
    BY <1>2, <2>1, <2>2 DEF ForceTask
  <2> QED
    BY <1>1, <2>2, <2>3
<1>7. ASSUME NEW i \in Id, ForceStep(i) \/ CleanSessions(i) PROVE Calm
  <2>1. ASSUME ForceStep(i) PROVE FALSE
    <3>1. force'[i].st # "idle"
      <4>1. ForceRead(i) => force'[i].st \in {"read", "done"}
        BY <1>2 DEF ForceRead, ForceDone
      <4>2. ForcePurge(i) => force'[i].st = "purged"
        BY <1>2 DEF ForcePurge, ForceTask
      <4>3. ForceWrite(i) => force'[i].st = "done"
        BY <1>2 DEF ForceWrite, ForceDone
      <4> QED
        BY <2>1, <4>1, <4>2, <4>3 DEF ForceStep
    <3> QED
      BY <1>1, <3>1
  <2>2. CASE CleanSessions(i)
    BY <1>1, <1>2, <2>2 DEF CleanSessions, Fault, Calm, Unforced
  <2> QED
    BY <1>7, <2>1, <2>2
<1>8. ASSUME Crash PROVE Calm
  <2>1. faults = 0
    BY <1>1, <1>8 DEF Crash
  <2>2. \A i \in Id : force[i].st = "idle"
    BY <1>1, <1>8 DEF Crash, ForceDone
  <2> QED
    BY <2>1, <2>2 DEF Calm, Unforced
<1>9. ASSUME Activated PROVE Calm
  BY <1>1, <1>2, <1>9 DEF Activated, Fault, Calm, Unforced
<1>10. ASSUME UNCHANGED vars PROVE Calm
  BY <1>1, <1>10 DEF vars, Calm, Unforced
<1> QED
  BY <1>1, <1>3, <1>4, <1>5, <1>6, <1>7, <1>8, <1>9, <1>10 DEF Next

\* A row of calls_sessions is of one of the calls.
LEMMA RowsOfCalls ==
  ASSUME IInv
  PROVE  /\ \A c \in Conn : inCall[c] # 0 => inCall[c] \in Id
         /\ \A i \in Id : i # 0 /\ ConnsOf(i) = {c \in Conn : inCall[c] = i}
         /\ \A i : ConnsOf(i) \in SUBSET Conn
  BY SessionsAssumption DEF SessionsAssumption, IInv, TypeOK, Id, ConnsOf

\* What happens to a session outside the lock, before it has left.
LEMMA OutsideCalm ==
  ASSUME IInv, RowsKey, LockKey, HostKey,
         UNCHANGED <<calls, inCall, handler, batch, booting>>,
         \A c \in Conn : /\ mem'[c] = "out" <=> mem[c] = "out"
                         /\ mem[c] \in {"live", "removing"} => mem'[c] \in {"live", "removing"}
  PROVE  RowsKey' /\ LockKey' /\ HostKey'
<1>1. Active' = Active /\ \A i : ConnsOf(i)' = ConnsOf(i)
  BY DEF Active, ConnsOf
<1>2. RowsKey'
  BY <1>1 DEF RowsKey, OneActiveCall
<1>3. LockKey'
  BY <1>1 DEF LockKey
<1>4. HostKey'
  <2>1. handler.op = "join" => (mem'[handler.conn] = "out" <=> mem[handler.conn] = "out")
    BY DEF IInv, JoinKey
  <2> QED
    BY <1>1, <2>1 DEF HostKey, GoodHost
<1> QED
  BY <1>2, <1>3, <1>4

\* An update that starts with the lock has the call it has read, and the right
\* host.
LEMMA UpdateStartsCalm ==
  ASSUME IInv, RowsKey, LockKey, HostKey, Ready,
         NEW i \in ActiveCall, NEW c \in Conn \cup {None}, NEW row,
         GoodHost(row, ConnsOf(i)),
         handler' = Doing("update", c, i, row, "call"),
         UNCHANGED <<calls, inCall, mem, batch, booting>>
  PROVE  RowsKey' /\ LockKey' /\ HostKey'
<1>1. Active' = Active /\ \A j : ConnsOf(j)' = ConnsOf(j)
  BY DEF Active, ConnsOf
<1>2. /\ handler'.op = "update" /\ handler'.pc = "call" /\ handler'.id = i /\ handler'.row = row
      /\ handler.pc = "done" /\ handler.op = "free" /\ ~batch.open /\ ~booting
  BY DEF Doing, Ready, Free
<1>3. i \in Active /\ Active \subseteq {i}
  BY DEF ActiveCall, RowsKey, OneActiveCall
<1>4. RowsKey'
  BY <1>1, <1>2 DEF RowsKey, OneActiveCall
<1>5. LockKey'
  BY <1>1, <1>2, <1>3 DEF LockKey
<1>6. HostKey'
  BY <1>1, <1>2, <1>3 DEF HostKey, GoodHost
<1> QED
  BY <1>4, <1>5, <1>6

LEMMA HandleScreenCalm ==
  ASSUME IInv, RowsKey, LockKey, HostKey, NEW c \in Conn, HandleScreen(c)
  PROVE  RowsKey' /\ LockKey' /\ HostKey'
<1>1. UNCHANGED <<calls, inCall, mem, batch, booting>> /\ Ready
  BY DEF HandleScreen, tables
<1>2. CASE UNCHANGED handler
  BY <1>1, <1>2, OutsideCalm
<1>3. CASE ~UNCHANGED handler
  <2>1. PICK i \in ActiveCall, s \in Conn \cup {None} :
          handler' = Doing("update", c, i, [calls[i] EXCEPT !.screen = s], "call")
    BY <1>3 DEF HandleScreen
  <2> DEFINE row == [calls[i] EXCEPT !.screen = s]
  <2>2. i \in Active /\ calls[i] \in Row
    BY DEF ActiveCall, Active, IInv, TypeOK
  <2>3. GoodHost(calls[i], ConnsOf(i))
    BY <1>1, <2>2 DEF HostKey, Ready, Free
  <2>4. row.host = calls[i].host /\ row.locked = calls[i].locked
    BY <2>2 DEF Row
  <2> HIDE DEF row
  <2>5. GoodHost(row, ConnsOf(i))
    BY <2>3, <2>4, SameHost
  <2> QED
    BY <1>1, <2>1, <2>5, UpdateStartsCalm DEF row
<1> QED
  BY <1>2, <1>3

\* The new host is in the call, and is the one that is locked.
LEMMA ChangeHostCalm ==
  ASSUME IInv, RowsKey, LockKey, HostKey, NEW u \in User, changeHost(u)
  PROVE  RowsKey' /\ LockKey' /\ HostKey'
<1> USE SessionsAssumption DEF SessionsAssumption
<1>1. UNCHANGED <<calls, inCall, mem, batch, booting>> /\ Ready
  BY DEF changeHost, tables
<1>2. PICK i \in ActiveCall :
        /\ IF calls[i].host = u THEN calls[i].locked = None
           ELSE u \in {UserOf[c] : c \in ConnsOf(i)}
        /\ handler' = Doing("update", None, i, [calls[i] EXCEPT !.host = u, !.locked = u], "call")
  BY DEF changeHost
<1> DEFINE row == [calls[i] EXCEPT !.host = u, !.locked = u]
           us == {UserOf[c] : c \in ConnsOf(i)}
<1>3. i \in Active /\ calls[i] \in Row
  BY DEF ActiveCall, Active, IInv, TypeOK
<1>4. GoodHost(calls[i], ConnsOf(i))
  BY <1>1, <1>3 DEF HostKey, Ready, Free
<1>5. row.host = u /\ row.locked = u
  BY <1>3 DEF Row
<1>6. u \in us \ {Bot}
  <2>1. u # Bot /\ u # None
    BY DEF changeHost
  <2> QED
    BY <1>2, <1>4, <2>1 DEF GoodHost
<1> HIDE DEF row
<1>7. GoodHost(row, ConnsOf(i))
  BY <1>5, <1>6 DEF GoodHost
<1> QED
  BY <1>1, <1>2, <1>7, UpdateStartsCalm DEF row

\* The state a join starts from is that of the tables.
LEMMA JoinViewsCalm ==
  ASSUME IInv, RowsKey, LockKey, HostKey, ~booting,
         Ready \/ (batch.open /\ handler = Free), NEW s \in JoinViews
  PROVE  /\ Active \subseteq {s.id}
         /\ s.conns = ConnsOf(s.id)
         /\ s.id # 0 => s.row = calls[s.id]
<1> USE SessionsAssumption DEF SessionsAssumption
<1>1. CASE batch.open
  BY <1>1 DEF JoinViews, LockKey
<1>2. CASE ~batch.open /\ Active = {}
  <2>1. s = View0
    BY <1>2 DEF JoinViews
  <2> QED
    BY <1>2, <2>1 DEF View0, Closed, ConnsOf
<1>3. CASE ~batch.open /\ Active # {}
  <2>1. PICK i \in ActiveCall : s = ViewOf(i)
    BY <1>3 DEF JoinViews
  <2>2. i \in Active
    BY DEF ActiveCall
  <2> QED
    BY <2>1, <2>2 DEF ViewOf, RowsKey, OneActiveCall
<1> QED
  BY <1>1, <1>2, <1>3

\* A join has read the sessions of the only active call, and elects its host;
\* it creates a call only when there is none.
LEMMA AddUserSessionCalm ==
  ASSUME IInv, Calm, RowsKey, LockKey, HostKey, NEW c \in Conn, addUserSession(c)
  PROVE  RowsKey' /\ LockKey' /\ HostKey'
<1> USE SessionsAssumption DEF SessionsAssumption
<1>1. PICK s \in JoinViews :
        \E i \in IF s.id = 0 THEN NewCallIds ELSE {s.id} :
        \E t \in {clock, clock + 1} \cap 0..Cardinality(Conn) :
        \E h \in HostCandidates(IF s.id = 0 THEN [NoRow EXCEPT !.st = "active"] ELSE s.row,
                                s.conns \cup {c}, [joinAt EXCEPT ![c] = t]) :
          /\ clock' = t
          /\ handler' = [op |-> "join", conn |-> c, id |-> i, at |-> t, seen |-> s,
               row |-> [(IF s.id = 0 THEN [NoRow EXCEPT !.st = "active"] ELSE s.row)
                          EXCEPT !.host = h, !.parts = @ \cup ({UserOf[c]} \ {Bot})],
               pc |-> IF s.conns \cup {c} = {c} THEN "create" ELSE "call"]
  BY ZenonT(30) DEF addUserSession
<1> DEFINE row0 == IF s.id = 0 THEN [NoRow EXCEPT !.st = "active"] ELSE s.row
<1>2. PICK i \in IF s.id = 0 THEN NewCallIds ELSE {s.id}, t \in {clock, clock + 1} :
        \E h \in HostCandidates(row0, s.conns \cup {c}, [joinAt EXCEPT ![c] = t]) :
          handler' = [op |-> "join", conn |-> c, id |-> i, at |-> t, seen |-> s,
            row |-> [row0 EXCEPT !.host = h, !.parts = @ \cup ({UserOf[c]} \ {Bot})],
            pc |-> IF s.conns \cup {c} = {c} THEN "create" ELSE "call"]
  BY <1>1
<1> DEFINE at == [joinAt EXCEPT ![c] = t]
<1>3. PICK h \in HostCandidates(row0, s.conns \cup {c}, at) :
          handler' = [op |-> "join", conn |-> c, id |-> i, at |-> t, seen |-> s,
            row |-> [row0 EXCEPT !.host = h, !.parts = @ \cup ({UserOf[c]} \ {Bot})],
            pc |-> IF s.conns \cup {c} = {c} THEN "create" ELSE "call"]
  BY <1>2
<1> HIDE DEF at
<1>4. /\ ~booting /\ mem[c] = "out" /\ handler = Free /\ handler.pc = "done"
      /\ Ready \/ (batch.open /\ handler = Free)
      /\ ~batch'.open
      /\ UNCHANGED <<calls, inCall, mem, booting>>
  BY DEF addUserSession, Ready, IInv, BootKey, Free, Closed
<1>5. /\ s \in View
      /\ s.id # 0 => /\ s.id \in Id /\ s.row.st = "active"
                     /\ Unforced(s.id) => calls[s.id].st = "active"
  BY <1>4, JoinViewsKey
<1>6. /\ Active \subseteq {s.id}
      /\ s.conns = ConnsOf(s.id)
      /\ s.id # 0 => s.row = calls[s.id]
  BY <1>4, JoinViewsCalm
<1>7. /\ i \in Id
      /\ s.id = 0 => calls[i].st = "none"
      /\ s.id # 0 => i = s.id
  BY <1>5 DEF NewCallIds, Id
<1>8. Active \subseteq {i}
  BY <1>6, <1>7 DEF Active, Id
<1>9. s.conns = ConnsOf(i)
  <2>1. CASE s.id = 0
    <3>1. \A d \in Conn : inCall[d] = 0
      BY <1>6, <2>1, RowsOfCalls DEF RowsKey, Active, Id
    <3> QED
      BY <1>6, <2>1, <3>1 DEF ConnsOf
  <2> QED
    BY <1>6, <1>7, <2>1
<1>10. row0 \in Row
  BY <1>5, NothingTyped DEF Row, NoRow, View
<1> DEFINE row == [row0 EXCEPT !.host = h, !.parts = @ \cup ({UserOf[c]} \ {Bot})]
<1>11. row.host = h /\ row.locked = row0.locked
  BY <1>10 DEF Row
<1> HIDE DEF row0, row
<1>12. GoodHost(row, ConnsOf(i) \cup {c})
  BY <1>9, <1>10, <1>11, RowsOfCalls, ElectedHost
<1>13. /\ handler'.op = "join" /\ handler'.conn = c /\ handler'.id = i /\ handler'.seen = s
       /\ handler'.row = row
       /\ handler'.pc = IF s.conns \cup {c} = {c} THEN "create" ELSE "call"
  BY <1>3 DEF row
<1>14. handler'.pc = "create" => calls[i].st = "none"
  <2> SUFFICES ASSUME handler'.pc = "create", s.id # 0 PROVE FALSE
    BY <1>7
  <2>1. s.conns \subseteq {c} /\ inCall[c] = 0
    BY <1>4, <1>13 DEF RowsKey
  <2>2. s.conns = {}
    BY <1>6, <2>1 DEF ConnsOf
  <2>3. s.id \in Active
    BY <1>5 DEF Calm, Active
  <2> QED
    BY <1>4, <1>6, <2>2, <2>3 DEF HostKey
<1>15. Active' = Active /\ \A j : ConnsOf(j)' = ConnsOf(j)
  BY <1>4 DEF Active, ConnsOf
<1>16. RowsKey'
  BY <1>4, <1>15 DEF RowsKey, OneActiveCall, Free
<1>17. LockKey'
  BY <1>4, <1>8, <1>13, <1>15 DEF LockKey
<1>18. HostKey'
  BY <1>4, <1>9, <1>12, <1>13, <1>14, <1>15 DEF HostKey, GoodHost
<1> QED
  BY <1>16, <1>17, <1>18

\* The new call is the only one.
LEMMA CreateCallCalm ==
  ASSUME IInv, Calm, RowsKey, LockKey, HostKey, CreateCall, faults' = 0
  PROVE  RowsKey' /\ LockKey' /\ HostKey'
<1> USE SessionsAssumption DEF SessionsAssumption
<1> DEFINE id == handler.id
<1>1. /\ handler.pc = "create" /\ handler.op = "join" /\ id \in Id /\ handler.conn \in Conn
      /\ handler.row \in Row /\ handler.row.st = "active" /\ ~batch.open /\ ~booting
  BY DEF CreateCall, IInv, HandlerKey, JoinKey, TypeOK, Handler, BootKey
<1>2. calls[id].st = "none"
  BY <1>1 DEF HostKey
<1>3. ~Abandon
  BY DEF Abandon, Fault, Calm
<1>4. /\ calls' = [calls EXCEPT ![id] = handler.row]
      /\ handler' = [handler EXCEPT !.pc = "session"]
      /\ UNCHANGED <<batch, inCall, mem, booting>>
  BY <1>2, <1>3 DEF CreateCall
<1>5. /\ handler'.pc = "session" /\ handler'.op = "join" /\ handler'.id = id
      /\ handler'.conn = handler.conn /\ handler'.row = handler.row /\ handler'.seen = handler.seen
  BY <1>1, <1>4 DEF Handler, IInv, TypeOK
<1>6. calls'[id] = handler.row /\ \A i \in Id : i # id => calls'[i] = calls[i]
  BY <1>1, <1>4 DEF IInv, TypeOK
<1> HIDE DEF id
<1>7. Active' \subseteq {id} /\ \A j : ConnsOf(j)' = ConnsOf(j)
  BY <1>1, <1>4, <1>6 DEF LockKey, Active, ConnsOf, id
<1>8. RowsKey'
  <2>1. \A d \in Conn : inCall[d] # 0 => calls'[inCall[d]].st = "active"
    BY <1>1, <1>6, RowsOfCalls DEF RowsKey
  <2> QED
    BY <1>1, <1>4, <1>5, <1>7, <2>1 DEF RowsKey, OneActiveCall
<1>9. LockKey'
  BY <1>1, <1>4, <1>5, <1>7 DEF LockKey
<1>10. HostKey'
  BY <1>1, <1>4, <1>5, <1>7 DEF HostKey, GoodHost, id
<1> QED
  BY <1>8, <1>9, <1>10

\* The new session is in the call whose host was elected with it.
LEMMA CreateCallSessionCalm ==
  ASSUME IInv, Calm, RowsKey, LockKey, HostKey, CreateCallSession, faults' = 0
  PROVE  RowsKey' /\ LockKey' /\ HostKey'
<1> USE SessionsAssumption DEF SessionsAssumption
<1>0. PICK id \in Id, c \in Conn : id = handler.id /\ c = handler.conn
  BY DEF CreateCallSession, IInv, HandlerKey, JoinKey
<1>1. /\ handler.pc = "session" /\ handler.op = "join" /\ id # 0
      /\ handler.row.st = "active" /\ ~batch.open /\ ~booting
      /\ calls[id] = handler.row
  BY <1>0 DEF CreateCallSession, IInv, HandlerKey, JoinKey, BootKey, Calm, Id
<1>2. ~Abandon
  BY DEF Abandon, Fault, Calm
<1>3. /\ inCall' = [inCall EXCEPT ![c] = id]
      /\ mem' = [mem EXCEPT ![c] = "live"]
      /\ handler' = Free
      /\ batch' = IF handler.seen.open
                  THEN [open |-> TRUE, id |-> id, row |-> handler.row,
                        conns |-> handler.seen.conns \cup {c}]
                  ELSE Closed
      /\ UNCHANGED <<calls, booting>>
  BY <1>0, <1>2 DEF CreateCallSession
<1>4. handler'.pc = "done" /\ handler'.op = "free"
  BY <1>3 DEF Free
<1>5. /\ inCall'[c] = id /\ mem'[c] = "live"
      /\ \A d \in Conn : d # c => inCall'[d] = inCall[d] /\ mem'[d] = mem[d]
  BY <1>1, <1>3 DEF IInv, TypeOK
<1>6. handler.seen.conns = ConnsOf(id) /\ GoodHost(handler.row, ConnsOf(id) \cup {c})
  BY <1>0, <1>1 DEF HostKey
<1>7. Active' = Active /\ Active \subseteq {id}
  BY <1>0, <1>1, <1>3 DEF Active, LockKey
<1>8. ConnsOf(id)' = ConnsOf(id) \cup {c}
  <2>1. inCall[c] = 0
    BY <1>0, <1>1 DEF HostKey, RowsKey
  <2> QED
    BY <1>1, <1>5, <2>1 DEF ConnsOf
<1>9. RowsKey'
  BY <1>1, <1>3, <1>5, <1>7 DEF RowsKey, OneActiveCall
<1>10. LockKey'
  BY <1>3, <1>4, <1>1, <1>6, <1>7, <1>8 DEF LockKey, Closed
<1>11. HostKey'
  <2>1. \A i \in Active' : ConnsOf(i)' # {} /\ GoodHost(calls[i], ConnsOf(i)')
    BY <1>1, <1>6, <1>7, <1>8
  <2> QED
    BY <1>3, <1>4, <2>1 DEF HostKey, GoodHost
<1> QED
  BY <1>9, <1>10, <1>11

\* The call written is the only one; when it goes on, the sessions in it are
\* those its host was elected among, and when it is over, there are none.
LEMMA UpdateCallCalm ==
  ASSUME IInv, Calm, RowsKey, LockKey, HostKey, UpdateCall, faults' = 0
  PROVE  RowsKey' /\ LockKey' /\ HostKey'
<1> USE SessionsAssumption DEF SessionsAssumption
<1> DEFINE id == handler.id
<1>1. /\ handler.pc = "call" /\ id \in Id /\ id # 0 /\ handler \in Handler /\ handler.row \in Row
      /\ handler.row.st = "active"
         \/ (handler.row.st = "ended" /\ handler.op \in {"remove", "clean"})
      /\ ~batch.open
  BY DEF UpdateCall, IInv, HandlerKey, TypeOK, Handler, Id
<1>2. ~Abandon
  BY DEF Abandon, Fault, Calm
<1>3. /\ calls' = [calls EXCEPT ![id] = handler.row]
      /\ handler' = IF handler.op = "join" THEN [handler EXCEPT !.pc = "session"] ELSE Free
      /\ UNCHANGED <<batch, inCall, mem, booting>>
  BY <1>2 DEF UpdateCall
<1>4. \/ /\ handler.op = "join" /\ handler'.pc = "session" /\ handler'.op = "join"
         /\ handler'.id = id /\ handler'.conn = handler.conn /\ handler'.row = handler.row
         /\ handler'.seen = handler.seen
      \/ handler.op # "join" /\ handler'.pc = "done" /\ handler'.op = "free"
  BY <1>1, <1>3 DEF Handler, Free
<1>5. calls'[id] = handler.row /\ \A i \in Id : i # id => calls'[i] = calls[i]
  BY <1>1, <1>3 DEF IInv, TypeOK
<1> HIDE DEF id
<1>6. Active' \subseteq {id} /\ \A j : ConnsOf(j)' = ConnsOf(j)
  BY <1>1, <1>3, <1>5 DEF LockKey, Active, ConnsOf, id
<1>7. handler.row.st = "ended" => \A d \in Conn : inCall[d] # id
  <2>1. CASE handler.op = "clean"
    BY <1>1, <2>1 DEF LockKey, ConnsOf, id
  <2>2. CASE handler.op = "remove"
    BY <1>1, <2>2 DEF IInv, RemoveKey, id
  <2> QED
    BY <1>1, <2>1, <2>2
<1>8. RowsKey'
  <2>1. \A d \in Conn : inCall[d] # 0 => calls'[inCall[d]].st = "active"
    BY <1>1, <1>5, <1>7, RowsOfCalls DEF RowsKey
  <2> QED
    BY <1>1, <1>3, <1>4, <1>6, <2>1 DEF RowsKey, OneActiveCall
<1>9. LockKey'
  BY <1>1, <1>3, <1>4, <1>6 DEF LockKey
<1>10. HostKey'
  <2>1. CASE handler.op = "join"
    BY <1>1, <1>3, <1>4, <1>6, <2>1 DEF HostKey, GoodHost, id
  <2>2. CASE handler.op # "join"
    <3> SUFFICES ASSUME NEW i \in Active', ~booting
                 PROVE  ConnsOf(i) # {} /\ GoodHost(handler.row, ConnsOf(i))
      BY <1>3, <1>4, <1>5, <1>6, <2>2 DEF HostKey, GoodHost
    <3>1. i = id /\ handler.row.st = "active"
      BY <1>5, <1>6 DEF Active
    <3>2. handler.op \in {"remove", "update"}
      BY <1>1, <2>2 DEF Handler, IInv, BootKey, LockKey
    <3>3. CASE handler.op = "update"
      BY <3>1, <3>3 DEF HostKey, id
    <3>4. CASE handler.op = "remove"
      <4>1. inCall[handler.conn] = 0
        BY <1>1, <3>4 DEF RowsKey, IInv, RemoveKey, BootKey
      <4>2. ConnsOf(id) \ {handler.conn} = ConnsOf(id)
        BY <1>1, <4>1 DEF ConnsOf
      <4> QED
        BY <3>1, <3>4, <4>2 DEF HostKey, id
    <3> QED
      BY <3>2, <3>3, <3>4
  <2> QED
    BY <2>1, <2>2
<1> QED
  BY <1>8, <1>9, <1>10

LEMMA BatchDoneCalm ==
  ASSUME IInv, RowsKey, LockKey, HostKey, BatchDone
  PROVE  RowsKey' /\ LockKey' /\ HostKey'
<1>1. UNCHANGED <<calls, inCall, mem, handler, booting>> /\ ~batch'.open
  BY DEF BatchDone, tables, Closed
<1>2. Active' = Active /\ \A j : ConnsOf(j)' = ConnsOf(j)
  BY <1>1 DEF Active, ConnsOf
<1> QED
  BY <1>1, <1>2 DEF RowsKey, OneActiveCall, LockKey, HostKey, GoodHost

\* A removal finds its session, and keeps the call on with the right host for
\* the others.
LEMMA RemoveUserSessionCalm ==
  ASSUME IInv, Calm, RowsKey, LockKey, HostKey, NEW c \in Conn, removeUserSession(c)
  PROVE  RowsKey' /\ LockKey' /\ HostKey'
<1> USE SessionsAssumption DEF SessionsAssumption
<1>1. /\ Ready /\ handler.pc = "done" /\ ~batch.open /\ ~booting
      /\ mem[c] = "removing" /\ mem' = [mem EXCEPT ![c] = "gone"]
      /\ UNCHANGED <<calls, inCall, batch, booting>>
  BY DEF removeUserSession, tables, Ready, Free
<1>2. PICK i \in Id : i = inCall[c] /\ i \in Active
  <2>1. inCall[c] # 0 /\ calls[inCall[c]].st = "active"
    <3>1. \A i \in Id : Unforced(i)
      BY DEF Calm
    <3>2. IF inCall[c] = 0 THEN \E i \in Id : ~Unforced(i)
          ELSE calls[inCall[c]].st = "active" \/ ~Unforced(inCall[c])
      BY <1>1 DEF IInv, ServedSessionInActiveCall
    <3> QED
      BY <3>1, <3>2, RowsOfCalls
  <2>2. inCall[c] \in Id
    BY <2>1, RowsOfCalls
  <2>3. inCall[c] \in Active
    BY <2>1, <2>2 DEF Active
  <2> QED
    BY <2>2, <2>3
<1>3. i \in ActiveCall /\ Active \subseteq {i}
  BY <1>2 DEF ActiveCall, RowsKey, OneActiveCall, Id
<1>4. PICK row \in RowsWithout(i, c) : handler' = Doing("remove", c, i, row, "session")
  BY <1>2, <1>3 DEF removeUserSession
<1>5. /\ handler'.op = "remove" /\ handler'.pc = "session" /\ handler'.conn = c
      /\ handler'.id = i /\ handler'.row = row
  BY <1>4 DEF Doing
<1>6. calls[i] \in Row /\ calls[i].st = "active" /\ GoodHost(calls[i], ConnsOf(i))
  BY <1>1, <1>2 DEF IInv, TypeOK, Active, HostKey
<1> DEFINE C == ConnsOf(i) \ {c}
<1>7. row.st = "active" => C # {} /\ GoodHost(row, C)
  <2> SUFFICES ASSUME row.st = "active" PROVE C # {} /\ GoodHost(row, C)
    OBVIOUS
  <2> DEFINE s == IF calls[i].screen = c THEN None ELSE calls[i].screen
             row0 == [calls[i] EXCEPT !.screen = s]
  <2>1. s \in Conn \cup {None}
    BY <1>6 DEF Row
  <2>2. row0 = [calls[i] EXCEPT !.screen = IF @ = c THEN None ELSE @]
    BY <1>6 DEF Row
  <2>3. row \in IF C = {} THEN {Ended(row0)}
                ELSE IF row0.host # UserOf[c] THEN {row0}
                ELSE {[row0 EXCEPT !.host = h] : h \in HostCandidates(row0, C, joinAt)}
    BY <2>2 DEF RowsWithout
  <2> HIDE DEF s
  <2>4. row0 \in Row /\ row0.host = calls[i].host /\ row0.locked = calls[i].locked
    BY <1>6, <2>1 DEF Row
  <2> HIDE DEF row0
  <2>5. C # {}
    <3>1. Ended(row0).st = "ended"
      BY <2>4 DEF Ended, Row
    <3> QED
      BY <2>3, <3>1
  <2>6. C \in SUBSET Conn /\ ConnsOf(i) \in SUBSET Conn
    BY DEF ConnsOf
  <2>7. CASE row0.host # UserOf[c]
    <3>1. row = row0 /\ GoodHost(row0, ConnsOf(i))
      BY <1>6, <2>3, <2>4, <2>5, <2>7, SameHost
    <3> QED
      BY <2>4, <2>5, <2>6, <2>7, <3>1, OtherLeaves
  <2>8. CASE row0.host = UserOf[c]
    <3>1. PICK h \in HostCandidates(row0, C, joinAt) : row = [row0 EXCEPT !.host = h]
      BY <2>3, <2>5, <2>8
    <3>2. row.host = h /\ row.locked = row0.locked
      BY <2>4, <3>1 DEF Row
    <3> HIDE DEF C
    <3> QED
      BY <2>4, <2>5, <2>6, <3>2, ElectedHost
  <2> QED
    BY <2>7, <2>8
<1>8. Active' = Active /\ \A j : ConnsOf(j)' = ConnsOf(j)
  BY <1>1 DEF Active, ConnsOf
<1>9. RowsKey'
  <2>1. mem'[c] = "gone" /\ \A d \in Conn : d # c => mem'[d] = mem[d]
    BY <1>1 DEF IInv, TypeOK
  <2> QED
    BY <1>1, <1>5, <1>8, <2>1 DEF RowsKey, OneActiveCall
<1>10. LockKey'
  BY <1>1, <1>3, <1>5, <1>8 DEF LockKey
<1>11. HostKey'
  BY <1>5, <1>7, <1>8 DEF HostKey, GoodHost
<1> QED
  BY <1>9, <1>10, <1>11

\* The sessions that remain are those the host was chosen among.
LEMMA DeleteCallSessionCalm ==
  ASSUME IInv, Calm, RowsKey, LockKey, HostKey, DeleteCallSession, faults' = 0
  PROVE  RowsKey' /\ LockKey' /\ HostKey'
<1> USE SessionsAssumption DEF SessionsAssumption
<1>0. PICK id \in Id, c \in Conn : id = handler.id /\ c = handler.conn
  BY DEF DeleteCallSession, IInv, HandlerKey, RemoveKey
<1>1. /\ handler.pc = "session" /\ handler.op = "remove" /\ id # 0
      /\ handler \in Handler /\ mem[c] = "gone" /\ ~batch.open /\ ~booting
  BY <1>0 DEF DeleteCallSession, IInv, TypeOK, HandlerKey, RemoveKey, BootKey, Id
<1>2. ~Abandon
  BY DEF Abandon, Fault, Calm
<1>3. /\ inCall' = [inCall EXCEPT ![c] = 0]
      /\ handler' = [handler EXCEPT !.pc = "call"]
      /\ UNCHANGED <<calls, mem, batch, booting>>
  BY <1>0, <1>2 DEF DeleteCallSession
<1>4. /\ handler'.pc = "call" /\ handler'.op = "remove" /\ handler'.id = id
      /\ handler'.conn = c /\ handler'.row = handler.row
  BY <1>0, <1>1, <1>3 DEF Handler
<1>5. inCall'[c] = 0 /\ \A d \in Conn : d # c => inCall'[d] = inCall[d]
  BY <1>3 DEF IInv, TypeOK
<1>6. Active' = Active /\ Active \subseteq {id}
  BY <1>0, <1>1, <1>3 DEF Active, LockKey
<1>7. ConnsOf(id)' = ConnsOf(id) \ {c}
  BY <1>1, <1>5 DEF ConnsOf
<1>8. RowsKey'
  BY <1>0, <1>1, <1>3, <1>5, <1>6 DEF RowsKey, OneActiveCall
<1>9. LockKey'
  BY <1>1, <1>3, <1>4, <1>6 DEF LockKey
<1>10. HostKey'
  <2>1. handler.row.st = "active" =>
          /\ ConnsOf(id) \ {c} # {} /\ GoodHost(handler.row, ConnsOf(id) \ {c})
          /\ ConnsOf(id)' \ {c} = ConnsOf(id) \ {c}
    BY <1>0, <1>1, <1>7 DEF HostKey
  <2> QED
    BY <1>1, <1>4, <2>1 DEF HostKey, GoodHost
<1> QED
  BY <1>8, <1>9, <1>10

\* A restart leaves the tables to cleanUpState.
LEMMA CrashCalm ==
  ASSUME IInv, RowsKey, LockKey, HostKey, Crash
  PROVE  RowsKey' /\ LockKey' /\ HostKey'
<1>1. /\ UNCHANGED <<calls, inCall>> /\ booting' /\ ~batch'.open
      /\ handler'.pc = "done" /\ handler'.op = "free"
      /\ \A c \in Conn : mem'[c] = "out" => mem[c] = "out"
  BY DEF Crash, tables, Free, Closed
<1>2. Active' = Active
  BY <1>1 DEF Active
<1>3. RowsKey'
  BY <1>1, <1>2 DEF RowsKey, OneActiveCall
<1> QED
  BY <1>1, <1>3 DEF LockKey, HostKey

LEMMA CleanSessionsCalm ==
  ASSUME IInv, Calm, RowsKey, LockKey, HostKey, NEW i \in Id, CleanSessions(i), faults' = 0
  PROVE  RowsKey' /\ LockKey' /\ HostKey'
<1> USE SessionsAssumption DEF SessionsAssumption
<1>1. /\ Purge(i) /\ calls[i].st = "active" /\ booting /\ ~batch.open /\ i # 0
      /\ UNCHANGED <<calls, mem, batch, booting>>
      /\ handler'.pc = "call" /\ handler'.op = "clean" /\ handler'.id = i
  BY DEF CleanSessions, Fault, Calm, IInv, BootKey, Doing, Id
<1>2. \A c \in Conn : inCall'[c] = IF inCall[c] = i THEN 0 ELSE inCall[c]
  BY <1>1 DEF Purge
<1>3. Active' = Active /\ Active \subseteq {i}
  BY <1>1 DEF Active, RowsKey, OneActiveCall
<1>4. ConnsOf(i)' = {}
  BY <1>1, <1>2 DEF ConnsOf
<1>5. RowsKey'
  BY <1>1, <1>2, <1>3 DEF RowsKey, OneActiveCall
<1>6. LockKey'
  BY <1>1, <1>3, <1>4 DEF LockKey
<1>7. HostKey'
  BY <1>1 DEF HostKey
<1> QED
  BY <1>5, <1>6, <1>7

\* When the activation is done there is no active call, and so no row.
LEMMA ActivatedCalm ==
  ASSUME IInv, Calm, RowsKey, LockKey, HostKey, Activated, faults' = 0
  PROVE  RowsKey' /\ LockKey' /\ HostKey'
<1>1. /\ Active = {} /\ UNCHANGED <<calls, inCall, mem, batch, handler>>
      /\ handler.pc = "done" /\ handler.op = "free" /\ booting
  BY DEF Activated, tables, Fault, Calm, Free
<1>2. \A c \in Conn : inCall[c] = 0
  BY <1>1, RowsOfCalls DEF RowsKey, Active
<1>3. ~batch.open
  BY <1>1 DEF IInv, BootKey
<1>4. Active' = {}
  BY <1>1 DEF Active
<1> QED
  BY <1>1, <1>2, <1>3, <1>4 DEF RowsKey, OneActiveCall, LockKey, HostKey

\* Every step keeps CalmIInv.
LEMMA NextCalm == CalmIInv /\ [Next]_vars => CalmIInv'
<1> SUFFICES ASSUME CalmIInv, [Next]_vars PROVE CalmIInv'
  OBVIOUS
<1>1. IInv'
  BY NextIInv DEF CalmIInv
<1> SUFFICES ASSUME Calm' PROVE RowsKey' /\ LockKey' /\ HostKey'
  BY <1>1 DEF CalmIInv
<1>2. IInv /\ Calm /\ faults' = 0 /\ RowsKey /\ LockKey /\ HostKey
  BY CalmBefore DEF CalmIInv
<1>3. ASSUME NEW c \in Conn, ConnStep(c) PROVE RowsKey' /\ LockKey' /\ HostKey'
  <2>1. CASE removeSession(c) \/ ScreenMessage(c)
    <3>1. /\ UNCHANGED <<calls, inCall, handler, batch, booting>>
          /\ \A d \in Conn : /\ mem'[d] = "out" <=> mem[d] = "out"
                             /\ mem[d] \in {"live", "removing"} => mem'[d] \in {"live", "removing"}
      BY <1>2, <2>1 DEF removeSession, ScreenMessage, tables, IInv, TypeOK
    <3> QED
      BY <1>2, <3>1, OutsideCalm
  <2>2. ~removeSessionFails(c)
    BY <1>2 DEF removeSessionFails, Fault, Calm
  <2> QED
    BY <1>2, <1>3, <2>1, <2>2, AddUserSessionCalm, RemoveUserSessionCalm, HandleScreenCalm
       DEF ConnStep
<1>4. CASE Write
  BY <1>2, <1>4, CreateCallCalm, CreateCallSessionCalm, UpdateCallCalm, DeleteCallSessionCalm,
     BatchDoneCalm DEF Write
<1>5. ASSUME NEW u \in User, changeHost(u) PROVE RowsKey' /\ LockKey' /\ HostKey'
  BY <1>2, <1>5, ChangeHostCalm
<1>6. CASE hostEnd
  BY <1>2, <1>6, OutsideCalm DEF hostEnd, tables
<1>7. ASSUME NEW i \in Id, ForceStep(i) \/ CleanSessions(i) PROVE RowsKey' /\ LockKey' /\ HostKey'
  <2>1. ~ForceStep(i)
    BY <1>2 DEF ForceStep, ForceRead, ForcePurge, ForceWrite, Calm, Unforced
  <2> QED
    BY <1>2, <1>7, <2>1, CleanSessionsCalm
<1>8. CASE Crash \/ Activated
  BY <1>2, <1>8, CrashCalm, ActivatedCalm
<1>9. CASE UNCHANGED vars
  BY <1>2, <1>9, OutsideCalm DEF vars
<1> QED
  BY <1>3, <1>4, <1>5, <1>6, <1>7, <1>8, <1>9 DEF Next

\* There is no call and no row in the beginning.
LEMMA InitCalm == Init => CalmIInv
<1> SUFFICES ASSUME Init PROVE CalmIInv
  OBVIOUS
<1>1. Active = {} /\ \A i : ConnsOf(i) = {}
  BY SessionsAssumption DEF SessionsAssumption, Init, Active, ConnsOf, NoRow
<1>2. RowsKey /\ LockKey /\ HostKey
  BY <1>1 DEF Init, RowsKey, OneActiveCall, LockKey, HostKey, Free, Closed
<1> QED
  BY <1>2, InitIInv DEF CalmIInv

\* Until a query fails or the host ends a call, the tables are those of the
\* sessions of the node, and each handler writes what they will be.
THEOREM CalmIInvAlways == Spec => []CalmIInv
  BY InitCalm, NextCalm, PTL DEF Spec

\* Until a query fails or the host ends a call for everyone, the last session
\* to leave ends the call and no call begins without a session
\* (removeUserSession, addUserSession, cleanUpState).
THEOREM LastLeaver == Spec => [](Calm => LastLeaverEndsCall)
<1>1. CalmIInv => (Calm => LastLeaverEndsCall)
  BY DEF CalmIInv, HostKey, LastLeaverEndsCall, Ready, Free
<1> QED
  BY <1>1, CalmIInvAlways, PTL

\* Until then, the host is a human in the call, the locked one if that one is
\* in: whoever joins, leaves or is made host (getHostID, changeHost).
THEOREM Host == Spec => [](Calm => HostIsInCall)
<1>1. CalmIInv => (Calm => HostIsInCall)
  <2> SUFFICES ASSUME CalmIInv, Calm, Ready, NEW i \in Active
               PROVE  LET us == {UserOf[c] : c \in ConnsOf(i)}
                      IN  /\ calls[i].host \in IF us \subseteq {Bot} THEN {None} ELSE us \ {Bot}
                          /\ calls[i].locked \in us => calls[i].host = calls[i].locked
    BY DEF HostIsInCall
  <2>1. GoodHost(calls[i], ConnsOf(i))
    BY DEF CalmIInv, HostKey, Ready, Free
  <2> QED
    BY <2>1 DEF GoodHost
<1> QED
  BY <1>1, CalmIInvAlways, PTL

\* Until then, every row of calls_sessions is that of a session that the node
\* serves or removes, also after a restart.
THEOREM NothingLeftBehind == Spec => [](Calm => NoSessionLeftBehind)
<1>1. CalmIInv => (Calm => NoSessionLeftBehind)
  BY DEF CalmIInv, RowsKey, NoSessionLeftBehind
<1> QED
  BY <1>1, CalmIInvAlways, PTL
=============================================================================

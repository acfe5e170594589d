---------------------------- MODULE CallSessions ----------------------------
(***************************************************************************)
(* The calls of one channel and the sessions in them: what the handlers of *)
(* server/session.go, websocket.go, host_controls.go and state.go do to    *)
(* the tables calls and calls_sessions.                                    *)
(*                                                                         *)
(* A handler locks the channel (ClusterMutex shows what that lock is       *)
(* worth), reads the active call and its sessions, and writes rows one by  *)
(* one; each write may fail or be the last before a crash. handler is the  *)
(* one in the lock. The goroutine hostEnd leaves behind does not lock.     *)
(***************************************************************************)
EXTENDS Integers, FiniteSets

CONSTANTS
    Conn,           \* websocket connections, each used for one session
    User,           \* users
    UserOf,         \* the user of each connection
    Bot,            \* the Calls bot, a user
    None,           \* no user, no connection
    MaxCall,        \* bound: calls ever created in the channel
    Sharers,        \* bound: connections that send screen messages
    Limit,          \* MaxCallParticipants, 0 for no limit
    ForceEnd,       \* whether the host may end the call for everyone
    Batching,       \* whether joins are batched (channels of 50 members or more)
    MaxFaults,      \* bound: failed writes to the database
    MaxCrashes      \* bound: restarts of the (only) node

ASSUME SessionsAssumption ==
    /\ UserOf \in [Conn -> User]
    /\ Bot \in User /\ None \notin User /\ None \notin Conn
    /\ Sharers \subseteq Conn
    /\ MaxCall \in Nat /\ Limit \in Nat
    /\ ForceEnd \in BOOLEAN /\ Batching \in BOOLEAN
    /\ MaxFaults \in Nat /\ MaxCrashes \in Nat

VARIABLES
    calls,      \* table calls: id -> row
    inCall,     \* table calls_sessions: connection -> id of its call, 0 if no row
    joinAt,     \* table calls_sessions: JoinAt of the row
    clock,      \* the time, advanced by at most one per connection
    mem,        \* p.sessions and session.removed of each connection
    asked,      \* screen messages the wsReader of a connection has received
    handler,    \* the handler holding the channel's lock
    batch,      \* the state a batch of joins carries from one to the next
    force,      \* id -> the goroutine of hostEnd for that call
    booting,    \* the node is in OnActivate, before cleanUpState is done
    everIn,     \* history: id -> users that ever had a session in the call
    faults, crashes

tables == <<calls, inCall, joinAt, clock, everIn>>
bounds == <<faults, crashes>>
vars == <<calls, inCall, joinAt, clock, mem, asked, handler, batch, force, booting,
          everIn, faults, crashes>>

Id == 1..MaxCall
Humans == User \ {Bot}

\* A row of calls. parts is Props.Participants while the call is on, final is
\* the column Participants, set when it ends.
Row == [st : {"none", "active", "ended"}, host : Humans \cup {None},
        locked : Humans \cup {None},
        screen : Conn \cup {None}, parts : SUBSET Humans, final : SUBSET Humans]

NoRow == [st |-> "none", host |-> None, locked |-> None, screen |-> None,
          parts |-> {}, final |-> {}]

\* callState: the call a handler works on, and its sessions; id 0 is nil.
View == [open : BOOLEAN, id : 0..MaxCall, row : Row, conns : SUBSET Conn]
Closed == [open |-> FALSE, id |-> 0, row |-> NoRow, conns |-> {}]

Handler == [op : {"free", "join", "remove", "update", "clean"}, conn : Conn \cup {None},
            id : 0..MaxCall, row : Row, at : Nat, seen : View,
            pc : {"create", "call", "session", "done"}]
Free == [op |-> "free", conn |-> None, id |-> 0, row |-> NoRow, at |-> 0, seen |-> Closed,
         pc |-> "done"]

\* hostEnd starts its goroutine once for a call (bound).
ForceTask == [st : {"idle", "asked", "read", "purged", "done"}, row : Row]
NoForce == [st |-> "idle", row |-> NoRow]
ForceDone == [st |-> "done", row |-> NoRow]

Init ==
    /\ calls = [i \in Id |-> NoRow]
    /\ inCall = [c \in Conn |-> 0]
    /\ joinAt = [c \in Conn |-> 0]
    /\ clock = 0
    /\ mem = [c \in Conn |-> "out"]
    /\ asked = [c \in Conn |-> "none"]
    /\ handler = Free
    /\ batch = Closed
    /\ force = [i \in Id |-> NoForce]
    /\ booting = FALSE
    /\ everIn = [i \in Id |-> {}]
    /\ faults = 0 /\ crashes = 0

---------------------------------------------------------------------------
(* Reading the state: getCallState *)

ActiveAny == {i \in Id : calls[i].st # "none"}   \* mutant: no EndAt = 0 in the query

Active == {i \in Id : calls[i].st = "active"}

\* GetActiveCallByChannelID: the latest of the active calls.
ActiveCall == {i \in Active : \A j \in Active : j <= i}

ConnsOf(i) == {c \in Conn : inCall[c] = i /\ i # 0}

\* Mutant: the host lock is ignored.
HostCandidatesNoLock(row, C, at) ==
    LET humans == {c \in C : UserOf[c] # Bot}
        first == {c \in humans : \A d \in humans : at[c] <= at[d]}
    IN  IF row.host \in {UserOf[c] : c \in C} THEN {row.host}
        ELSE IF humans = {} THEN {None}
        ELSE {UserOf[c] : c \in first}

\* getHostID: the candidates for host among the connections C of a call. Two
\* sessions of the same millisecond come in the order of a Go map.
HostCandidates(row, C, at) ==
    LET us == {UserOf[c] : c \in C}
        humans == {c \in C : UserOf[c] # Bot}
        first == {c \in humans : \A d \in humans : at[c] <= at[d]}
    IN  IF row.locked # None /\ row.locked \in us THEN {row.locked}
        ELSE IF row.host \in us THEN {row.host}
        ELSE IF humans = {} THEN {None}
        ELSE {UserOf[c] : c \in first}

\* A query fails.
Fault ==
    /\ faults < MaxFaults
    /\ faults' = faults + 1

PurgeNone(i) == UNCHANGED <<inCall, joinAt>>   \* mutant: the rows stay

\* DeleteCallsSessions
Purge(i) ==
    /\ inCall' = [c \in Conn |-> IF inCall[c] = i THEN 0 ELSE inCall[c]]
    /\ joinAt' = [c \in Conn |-> IF inCall[c] = i THEN 0 ELSE joinAt[c]]

\* Mutant: Props.Participants is cleared before it is copied.
EndedLate(row) == [row EXCEPT !.st = "ended", !.parts = {}, !.host = None]

\* setCallEnded
Ended(row) == [row EXCEPT !.st = "ended", !.final = row.parts, !.parts = {}, !.host = None]

\* lockCallReturnState gets the lock: nobody has it.
Ready == handler = Free /\ ~batch.open /\ ~booting

\* The handler has to do these writes on the row of call i.
Doing(op, c, i, row, pc) ==
    [op |-> op, conn |-> c, id |-> i, row |-> row, at |-> 0, seen |-> Closed, pc |-> pc]

---------------------------------------------------------------------------
(* Joining: handleJoin, addUserSession *)

\* A new call gets an id that no call has had: the next one here.
NewCallIds == {i \in Id : \A j \in Id : (calls[j].st = "none") <=> (j >= i)}

View0 == [Closed EXCEPT !.open = Batching]
ViewOf(i) == [open |-> Batching, id |-> i, row |-> calls[i], conns |-> ConnsOf(i)]

\* The state a join starts from: what the tables say, or what the join before
\* it in the same batch returned.
JoinViews ==
    IF batch.open THEN {batch}
    ELSE IF Active = {} THEN {View0} ELSE {ViewOf(i) : i \in ActiveCall}

\* The checks of addUserSession and the row it is going to write.
addUserSession(c) ==
    /\ Ready \/ (batch.open /\ handler = Free)
    /\ mem[c] = "out"
    /\ \E s \in JoinViews :
         LET row == IF s.id = 0 THEN [NoRow EXCEPT !.st = "active"] ELSE s.row
             C == s.conns \cup {c}
             u == UserOf[c]
         IN
         /\ Limit # 0 => Cardinality(s.conns) < Limit
         /\ u = Bot => s.id # 0
         /\ \E i \in IF s.id = 0 THEN NewCallIds ELSE {s.id} :
            \E t \in {clock, clock + 1} \cap 0..Cardinality(Conn) :
            \E h \in HostCandidates(row, C, [joinAt EXCEPT ![c] = t]) :
              /\ clock' = t
              /\ handler' = [op |-> "join", conn |-> c, id |-> i, at |-> t, seen |-> s,
                             row |-> [row EXCEPT !.host = h,
                                                 !.parts = @ \cup ({u} \ {Bot})],
                             pc |-> IF C = {c} THEN "create" ELSE "call"]
    /\ batch' = Closed
    /\ UNCHANGED <<calls, inCall, joinAt, everIn, mem, asked, force, booting, bounds>>

\* A write fails: the handler skips the others. A join returns the state it
\* was given, which the next join of its batch starts from.
GiveUp ==
    /\ handler' = Free
    /\ batch' = IF handler.op = "join" /\ handler.seen.open THEN handler.seen ELSE Closed

Abandon == Fault /\ GiveUp

\* CreateCall, for the first session: the insert fails on an existing id.
CreateCall ==
    /\ handler.pc = "create"
    /\ \/ /\ calls[handler.id].st = "none"
          /\ calls' = [calls EXCEPT ![handler.id] = handler.row]
          /\ handler' = [handler EXCEPT !.pc = "session"]
          /\ UNCHANGED <<batch, faults>>
       \/ /\ calls[handler.id].st # "none"
          /\ GiveUp
          /\ UNCHANGED <<calls, faults>>
       \/ Abandon /\ UNCHANGED calls
    /\ UNCHANGED <<inCall, joinAt, clock, everIn, mem, asked, force, booting, crashes>>

\* CreateCallSession, then the session is known to the node. What follows on
\* the first session (createCallStartedPost, UpdateCall) rewrites the same row.
CreateCallSession ==
    LET c == handler.conn IN
    /\ handler.op = "join" /\ handler.pc = "session"
    /\ \/ /\ inCall' = [inCall EXCEPT ![c] = handler.id]
          /\ joinAt' = [joinAt EXCEPT ![c] = handler.at]
          /\ mem' = [mem EXCEPT ![c] = "live"]
          /\ everIn' = [everIn EXCEPT ![handler.id] = @ \cup ({UserOf[c]} \ {Bot})]
          /\ handler' = Free
          /\ batch' = IF handler.seen.open
                      THEN [open |-> TRUE, id |-> handler.id, row |-> handler.row,
                            conns |-> handler.seen.conns \cup {c}]
                      ELSE Closed
          /\ UNCHANGED faults
       \/ Abandon /\ UNCHANGED <<inCall, joinAt, mem, everIn>>
    /\ UNCHANGED <<calls, clock, asked, force, booting, crashes>>

\* PostRunCb of the batch: unlock.
BatchDone ==
    /\ batch.open
    /\ batch' = Closed
    /\ UNCHANGED <<tables, mem, asked, handler, force, booting, bounds>>

\* UpdateCall: the whole row is written over whatever the table has by now.
UpdateCall ==
    /\ handler.pc = "call"
    /\ \/ /\ calls' = [calls EXCEPT ![handler.id] = handler.row]
          /\ handler' = IF handler.op = "join" THEN [handler EXCEPT !.pc = "session"] ELSE Free
          /\ UNCHANGED <<batch, faults>>
       \/ Abandon /\ UNCHANGED calls
    /\ UNCHANGED <<inCall, joinAt, clock, everIn, mem, asked, force, booting, crashes>>

---------------------------------------------------------------------------
(* Leaving: removeSession, removeUserSession *)

\* A leave message, a websocket or RTC disconnect, on any node: the first one
\* sets session.removed.
removeSession(c) ==
    /\ mem[c] = "live"
    /\ ~booting
    /\ mem' = [mem EXCEPT ![c] = "removing"]
    /\ UNCHANGED <<tables, asked, handler, batch, force, booting, bounds>>

\* It does not get the lock in time, or cannot read the state: an error is
\* logged, and session.removed stays set.
removeSessionFails(c) ==
    /\ mem[c] = "removing"
    /\ Fault
    /\ mem' = [mem EXCEPT ![c] = "gone"]
    /\ UNCHANGED <<tables, asked, handler, batch, force, booting, crashes>>

\* Mutants: the session is still counted; the call ends when its host leaves.
RowsWithoutStale(i, c) ==
    LET row == [calls[i] EXCEPT !.screen = IF @ = c THEN None ELSE @]
        C == ConnsOf(i)
    IN  IF C = {} THEN {Ended(row)}
        ELSE IF row.host # UserOf[c] THEN {row}
        ELSE {[row EXCEPT !.host = h] : h \in HostCandidates(row, C, joinAt)}

RowsWithoutHost(i, c) ==
    LET row == [calls[i] EXCEPT !.screen = IF @ = c THEN None ELSE @]
        C == ConnsOf(i) \ {c}
    IN  IF C = {} \/ row.host = UserOf[c] THEN {Ended(row)}
        ELSE {[row EXCEPT !.host = h] : h \in HostCandidates(row, C, joinAt)}

\* The row that removeUserSession writes when c leaves the call i.
RowsWithout(i, c) ==
    LET row == [calls[i] EXCEPT !.screen = IF @ = c THEN None ELSE @]
        C == ConnsOf(i) \ {c}
    IN  IF C = {} THEN {Ended(row)}
        ELSE IF row.host # UserOf[c] THEN {row}
        ELSE {[row EXCEPT !.host = h] : h \in HostCandidates(row, C, joinAt)}

removeUserSession(c) ==
    /\ Ready
    /\ mem[c] = "removing"
    /\ mem' = [mem EXCEPT ![c] = "gone"]
    /\ IF inCall[c] \in ActiveCall
       THEN \E row \in RowsWithout(inCall[c], c) :
              handler' = Doing("remove", c, inCall[c], row, "session")
       ELSE UNCHANGED handler   \* "session not found in call state"
    /\ UNCHANGED <<tables, asked, batch, force, booting, bounds>>

DeleteCallSession ==
    /\ handler.op = "remove" /\ handler.pc = "session"
    /\ \/ /\ inCall' = [inCall EXCEPT ![handler.conn] = 0]
          /\ joinAt' = [joinAt EXCEPT ![handler.conn] = 0]
          /\ handler' = [handler EXCEPT !.pc = "call"]
          /\ UNCHANGED <<batch, faults>>
       \/ Abandon /\ UNCHANGED <<inCall, joinAt>>
    /\ UNCHANGED <<calls, clock, everIn, mem, asked, force, booting, crashes>>

---------------------------------------------------------------------------
(* Screen sharing: handleClientMessageTypeScreen *)

\* WebSocketMessageHasBeenPosted finds the session in p.sessions and queues the
\* message; its wsReader takes it and waits for the lock.
ScreenMessage(c) ==
    /\ c \in Sharers
    /\ mem[c] \in {"live", "removing"}
    /\ asked[c] = "none"
    /\ \E m \in {"on", "off"} : asked' = [asked EXCEPT ![c] = m]
    /\ UNCHANGED <<tables, mem, handler, batch, force, booting, bounds>>

HandleScreen(c) ==
    LET holder == IF asked[c] = "on" THEN None ELSE c
        sharer == IF asked[c] = "on" THEN c ELSE None
    IN
    /\ Ready
    /\ asked[c] # "none"
    /\ asked' = [asked EXCEPT ![c] = "none"]
    /\ \/ \E i \in ActiveCall :
            /\ calls[i].screen = holder
            /\ handler' = Doing("update", c, i, [calls[i] EXCEPT !.screen = sharer], "call")
       \/ /\ \A i \in ActiveCall : calls[i].screen # holder   \* "someone else is sharing"
          /\ UNCHANGED handler
    /\ UNCHANGED <<tables, mem, batch, force, booting, bounds>>

---------------------------------------------------------------------------
(* Host controls: changeHost, hostEnd *)

\* The requester is the host or an admin. A host that stays the same is only
\* locked if nobody is.
changeHost(u) ==
    /\ Ready
    /\ u # Bot
    /\ \E i \in ActiveCall :
         /\ IF calls[i].host = u THEN calls[i].locked = None
            ELSE u \in {UserOf[c] : c \in ConnsOf(i)}
         /\ handler' = Doing("update", None, i, [calls[i] EXCEPT !.host = u, !.locked = u], "call")
    /\ UNCHANGED <<tables, mem, asked, batch, force, booting, bounds>>

hostEnd ==
    /\ ForceEnd
    /\ Ready
    /\ \E i \in ActiveCall :
         /\ force[i].st = "idle"
         /\ force' = [force EXCEPT ![i].st = "asked"]
    /\ UNCHANGED <<tables, mem, asked, handler, batch, booting, bounds>>

\* Mutant: the goroutine writes the call back without ending it.
ForceReadOpen(i) ==
    /\ force[i].st = "asked"
    /\ \/ force' = [force EXCEPT ![i] = [st |-> "read", row |-> calls[i]]] /\ UNCHANGED faults
       \/ Fault /\ force' = [force EXCEPT ![i] = ForceDone]
    /\ UNCHANGED <<tables, mem, asked, handler, batch, booting, crashes>>

\* Five seconds later, without the lock: GetCall, then the RTC sessions are
\* closed (which lets removeSession happen), then cleanCallState. Of nil, when
\* GetCall failed, it does nothing.
ForceRead(i) ==
    /\ force[i].st = "asked"
    /\ \/ /\ force' = [force EXCEPT ![i] = [st |-> "read",
               row |-> IF calls[i].st = "active" THEN Ended(calls[i]) ELSE calls[i]]]
          /\ UNCHANGED faults
       \/ Fault /\ force' = [force EXCEPT ![i] = ForceDone]
    /\ UNCHANGED <<tables, mem, asked, handler, batch, booting, crashes>>

\* cleanCallState: DeleteCallsSessions, whose error is only logged.
ForcePurge(i) ==
    /\ force[i].st = "read"
    /\ \/ Purge(i) /\ UNCHANGED faults
       \/ Fault /\ UNCHANGED <<inCall, joinAt>>
    /\ force' = [force EXCEPT ![i].st = "purged"]
    /\ UNCHANGED <<calls, clock, everIn, mem, asked, handler, batch, booting, crashes>>

\* cleanCallState: UpdateCall of the row read before.
ForceWrite(i) ==
    /\ force[i].st = "purged"
    /\ \/ calls' = [calls EXCEPT ![i] = force[i].row] /\ UNCHANGED faults
       \/ Fault /\ UNCHANGED calls
    /\ force' = [force EXCEPT ![i] = ForceDone]
    /\ UNCHANGED <<inCall, joinAt, clock, everIn, mem, asked, handler, batch, booting, crashes>>

---------------------------------------------------------------------------
(* A crash of the only node and its next activation *)

Crash ==
    /\ crashes < MaxCrashes
    /\ crashes' = crashes + 1
    /\ booting' = TRUE
    /\ handler' = Free
    /\ batch' = Closed
    /\ force' = [i \in Id |-> IF force[i].st = "idle" THEN NoForce ELSE ForceDone]
    /\ mem' = [c \in Conn |-> IF mem[c] \in {"live", "removing"} THEN "gone" ELSE mem[c]]
    /\ asked' = [c \in Conn |-> "none"]
    /\ UNCHANGED <<tables, faults>>

\* Mutant: the call is written back without being ended.
CleanSessionsOpen(i) ==
    /\ booting
    /\ calls[i].st = "active"
    /\ handler = Free
    /\ Purge(i)
    /\ handler' = Doing("clean", None, i, calls[i], "call")
    /\ UNCHANGED <<calls, clock, everIn, mem, asked, batch, force, booting, bounds>>

\* cleanUpState, one active call after the other: cleanCallState deletes the
\* rows of the sessions, then writes the ended call. An error of the second
\* fails the activation, which is tried again.
CleanSessions(i) ==
    /\ booting
    /\ calls[i].st = "active"
    /\ handler = Free
    /\ \/ Purge(i) /\ UNCHANGED faults
       \/ Fault /\ UNCHANGED <<inCall, joinAt>>
    /\ handler' = Doing("clean", None, i, Ended(calls[i]), "call")
    /\ UNCHANGED <<calls, clock, everIn, mem, asked, batch, force, booting, crashes>>

\* A call whose lock cannot be taken is skipped.
Activated ==
    /\ booting
    /\ handler = Free
    /\ \/ Active = {} /\ UNCHANGED faults
       \/ Active # {} /\ Fault
    /\ booting' = FALSE
    /\ UNCHANGED <<tables, mem, asked, handler, batch, force, crashes>>

---------------------------------------------------------------------------

ConnStep(c) ==
    \/ addUserSession(c) \/ removeSession(c) \/ removeUserSession(c) \/ removeSessionFails(c)
    \/ ScreenMessage(c) \/ HandleScreen(c)

Write == CreateCall \/ CreateCallSession \/ UpdateCall \/ DeleteCallSession \/ BatchDone

ForceStep(i) == ForceRead(i) \/ ForcePurge(i) \/ ForceWrite(i)

Next ==
    \/ \E c \in Conn : ConnStep(c)
    \/ Write
    \/ \E u \in User : changeHost(u)
    \/ hostEnd
    \/ \E i \in Id : ForceStep(i) \/ CleanSessions(i)
    \/ Crash \/ Activated

Spec == Init /\ [][Next]_vars

\* A handler in the lock goes on, queued work is taken, and the lock is not
\* kept from one goroutine of the node for ever (sync.Mutex hands it over to
\* who has waited long enough).
Fairness ==
    /\ WF_vars(Write)
    /\ \A i \in Id : WF_vars(ForceStep(i)) /\ WF_vars(CleanSessions(i))
    /\ WF_vars(Activated)
    /\ \A c \in Conn : SF_vars(removeUserSession(c))

FairSpec == Spec /\ Fairness

---------------------------------------------------------------------------
(* Properties *)

\* Every variable has its type.
TypeOK ==
    /\ calls \in [Id -> Row]
    /\ inCall \in [Conn -> 0..MaxCall]
    /\ joinAt \in [Conn -> Nat]
    /\ clock \in Nat
    /\ mem \in [Conn -> {"out", "live", "removing", "gone"}]
    /\ asked \in [Conn -> {"none", "on", "off"}]
    /\ handler \in Handler
    /\ batch \in View
    /\ force \in [Id -> ForceTask]
    /\ booting \in BOOLEAN
    /\ everIn \in [Id -> SUBSET Humans]
    /\ faults \in 0..MaxFaults /\ crashes \in 0..MaxCrashes

\* A channel has one active call at most: GetActiveCallByChannelID would hide
\* the others from every handler, whoever is in them.
OneActiveCall == \A i, j \in Active : i = j

\* The host never asked to end call i for everyone.
Unforced(i) == force[i].st = "idle"

\* A session that the node serves has its row, in a call that is not over: a
\* handler never ends a call under the feet of a session (removeUserSession,
\* cleanUpState), whatever write fails and whenever the node restarts.
ServedSessionInActiveCall ==
    \A c \in Conn : mem[c] \in {"live", "removing"} =>
        IF inCall[c] = 0 THEN \E i \in Id : ~Unforced(i)
        ELSE calls[inCall[c]].st = "active" \/ ~Unforced(inCall[c])

\* Between handlers, an active call has a session: the last one to leave ends
\* the call (removeUserSession), the first one to join is in it (addUserSession).
LastLeaverEndsCall == Ready => \A i \in Active : ConnsOf(i) # {}

\* Between handlers, the host of a call is a human in it, the locked one if
\* that one is in; there is no host only if the bot is left alone.
HostIsInCall ==
    Ready => \A i \in Active :
        LET us == {UserOf[c] : c \in ConnsOf(i)}
            row == calls[i]
        IN  /\ row.host \in IF us \subseteq {Bot} THEN {None} ELSE us \ {Bot}
            /\ row.locked \in us => row.host = row.locked

\* Whoever was in a call is among its participants, in Props while it is on
\* and in the column when it has ended: no handler writes a row that it read
\* before somebody else joined.
ParticipantsComplete ==
    \A i \in Id : Unforced(i) => everIn[i] \subseteq calls[i].parts \cup calls[i].final

\* Nobody shares the screen of a call without being in it; otherwise all the
\* others are refused because "someone else is sharing already".
ScreenSharerInCall ==
    \A i \in Active : calls[i].screen # None => inCall[calls[i].screen] = i

\* A row of calls_sessions belongs to a session of the node, or to one that is
\* being removed; a restart leaves none of the sessions of before.
NoSessionLeftBehind ==
    ~booting => \A c \in Conn :
        inCall[c] # 0 => mem[c] \in {"live", "removing"} \/ handler.conn = c

\* A call that has ended stays as it is: nobody writes its row again.
NeverReopened ==
    [][\A i \in Id : calls[i].st = "ended" /\ Unforced(i) => calls'[i] = calls[i]]_vars

\* Not even a call that the host ended for everyone is active again.
NeverActiveAgain ==
    [][\A i \in Id : calls[i].st = "ended" => calls'[i].st = "ended"]_vars

\* A session that is being removed leaves the tables, and when all are leaving
\* or have left, the call ends.
EmptyCallEnds ==
    (\A c \in Conn : mem[c] \in {"removing", "gone"}) ~> (Active = {})

\* A node that restarts becomes active again, without any call.
RestartCompletes == booting ~> (~booting /\ Active = {})

---------------------------------------------------------------------------
(* The inductive invariant *)

\* No join of a batch can fail after it wrote to the tables.
NoLostJoin == ~Batching \/ MaxFaults = 0

\* The handler in the lock has the only active call in hand, and ends it only
\* when no served session is left in it.
HandlerKey ==
    handler.pc # "done" =>
        /\ handler.id \in Id
        /\ ~batch.open
        /\ NoLostJoin => Active \subseteq {handler.id}
        /\ Unforced(handler.id) => calls[handler.id].st # "ended"
        /\ handler.pc = "create" /\ handler.seen.id = 0 => calls[handler.id].st = "none"
        /\ handler.pc = "create" => handler.op = "join"
        /\ handler.row.st = "active"
           \/ (handler.row.st = "ended" /\ handler.op \in {"remove", "clean"})

JoinKey ==
    handler.op = "join" =>
        /\ handler.pc \in {"create", "call", "session"}
        /\ handler.conn \in Conn
        /\ UserOf[handler.conn] # Bot => UserOf[handler.conn] \in handler.row.parts
        /\ handler.seen.open => Batching /\ handler.seen.id \in {0, handler.id}
        /\ handler.seen.open =>
               IF handler.seen.id = 0 THEN handler.seen.conns = {}
               ELSE handler.seen.row.st = "active"
        /\ handler.seen.open /\ handler.seen.id # 0 /\ Unforced(handler.id) =>
               /\ calls[handler.id].st = "active"
               /\ everIn[handler.id] \subseteq handler.seen.row.parts
        /\ handler.pc = "call" /\ Unforced(handler.id) => calls[handler.id].st = "active"
        /\ handler.pc = "session" /\ Unforced(handler.id) => calls[handler.id] = handler.row

RemoveKey ==
    handler.op = "remove" =>
        /\ handler.pc \in {"session", "call"}
        /\ handler.conn \in Conn
        /\ mem[handler.conn] = "gone"
        /\ handler.row.st = "ended" =>
               \A c \in Conn : inCall[c] = handler.id =>
                   c = handler.conn /\ handler.pc = "session"

\* The state that a batch carries is that of the tables.
BatchKey ==
    batch.open =>
        /\ Batching
        /\ NoLostJoin => Active \subseteq {batch.id}
        /\ IF batch.id = 0 THEN batch.conns = {} ELSE batch.row.st = "active"
        /\ batch.id # 0 /\ Unforced(batch.id) =>
               calls[batch.id].st = "active" /\ everIn[batch.id] \subseteq batch.row.parts

\* A row in hand has all the participants that the call has had.
RowKey ==
    handler.pc # "done" /\ Unforced(handler.id) =>
        everIn[handler.id] \subseteq handler.row.parts \cup handler.row.final

BootKey ==
    /\ handler.op = "clean" => booting
    /\ booting => /\ ~batch.open /\ handler.op \in {"free", "clean"}
                  /\ \A c \in Conn : mem[c] \notin {"live", "removing"}

\* An active call has not yet the participants of an ended one.
FinalKey ==
    /\ \A i \in Id : calls[i].st = "active" => calls[i].final = {}
    /\ handler.row.st = "active" => handler.row.final = {}
    /\ handler.seen.row.st = "active" => handler.seen.row.final = {}
    /\ batch.row.st = "active" => batch.row.final = {}

ForceKey ==
    \A i \in Id : force[i].st \in {"read", "purged"} => force[i].row.st = "ended"

\* A call that is not there yet has had nobody in it.
FreshKey == \A i \in Id : calls[i].st = "none" => everIn[i] = {} /\ Unforced(i)

IInv ==
    /\ TypeOK
    /\ NoLostJoin => OneActiveCall
    /\ ServedSessionInActiveCall /\ ParticipantsComplete
    /\ HandlerKey /\ JoinKey /\ RemoveKey /\ BatchKey /\ RowKey /\ BootKey /\ ForceKey
    /\ FreshKey /\ FinalKey

---------------------------------------------------------------------------
(* While nothing has failed *)

\* No query has failed and the host has not ended a call for everyone.
Calm == faults = 0 /\ \A i \in Id : Unforced(i)

\* The host in this row is right for the connections C.
GoodHost(row, C) ==
    LET us == {UserOf[c] : c \in C}
    IN  /\ row.host \in IF us \subseteq {Bot} THEN {None} ELSE us \ {Bot}
        /\ row.locked \in us => row.host = row.locked

\* A row of calls_sessions belongs to an active call and to a session of the
\* node, or to one that a handler is deleting. A restart breaks that until
\* cleanUpState is done.
RowsKey ==
    /\ OneActiveCall
    /\ \A c \in Conn :
        /\ inCall[c] # 0 => calls[inCall[c]].st = "active"
        /\ mem[c] = "out" => inCall[c] = 0
        /\ ~booting /\ inCall[c] # 0 =>
               \/ mem[c] \in {"live", "removing"}
               \/ handler.op = "remove" /\ handler.pc = "session" /\ handler.conn = c

\* The handler in the lock, or the batch, has the only active call, and read
\* its sessions as they are.
LockKey ==
    /\ handler.pc # "done" => handler.op # "free" /\ Active \subseteq {handler.id}
    /\ handler.op = "clean" => ConnsOf(handler.id) = {}
    /\ batch.open =>
        /\ Active \subseteq {batch.id}
        /\ batch.conns = ConnsOf(batch.id)
        /\ batch.id # 0 => batch.row = calls[batch.id]

\* The row the handler is going to write has the right host for the sessions
\* that there will be.
HostKey ==
    /\ handler.pc = "done" /\ ~booting =>
        \A i \in Active : ConnsOf(i) # {} /\ GoodHost(calls[i], ConnsOf(i))
    /\ handler.op = "join" =>
        /\ handler.seen.conns = ConnsOf(handler.id)
        /\ mem[handler.conn] = "out"
        /\ handler.pc = "create" => calls[handler.id].st = "none"
        /\ GoodHost(handler.row, ConnsOf(handler.id) \cup {handler.conn})
    /\ handler.op = "remove" /\ handler.row.st = "active" =>
        LET C == ConnsOf(handler.id) \ {handler.conn}
        IN  C # {} /\ GoodHost(handler.row, C)
    /\ handler.op = "update" =>
        ConnsOf(handler.id) # {} /\ GoodHost(handler.row, ConnsOf(handler.id))

CalmIInv == IInv /\ (Calm => RowsKey /\ LockKey /\ HostKey)
=============================================================================

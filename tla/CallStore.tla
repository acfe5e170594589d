------------------------------ MODULE CallStore ------------------------------
(***************************************************************************)
(* What one client of the web application knows about the call of one      *)
(* direct-message channel: webapp/src/reducers.ts, websocket_handlers.ts,  *)
(* actions.ts, the loading and connecting in index.tsx and the ringing in  *)
(* components/incoming_calls/hooks.ts.                                     *)
(*                                                                         *)
(* The plugin publishes events, which arrive in order until the connection *)
(* is lost; the answer to an HTTP request overtakes them or is overtaken.  *)
(* The handlers are synchronous, so that each is one step. The plugin is   *)
(* taken as what it publishes; CallSessions is the module about it.        *)
(***************************************************************************)
EXTENDS Integers, Sequences, FiniteSets

CONSTANTS
    Me,         \* the session of this client
    Phone,      \* a session of the same user on another device
    Others,     \* sessions of other users
    Nobody,
    MaxCall,    \* bound: calls started in the channel
    MaxOps,     \* bound: operations of the plugin
    MaxFeed,    \* bound: events on their way when the plugin does something
    DropCost    \* bound: operations of the plugin that a lost connection takes the place of

Mine == {Me, Phone}
Sess == Mine \cup Others
Call == 1..MaxCall
Invite == [c : Call, mine : BOOLEAN, at : {"channel", "profile"}]

ASSUME StoreAssumption ==
    /\ Nobody \notin Sess /\ Me # Phone /\ Mine \cap Others = {}
    /\ MaxCall \in Nat /\ MaxOps \in Nat /\ DropCost \in Nat \ {0}

VARIABLES
    truth,      \* the call as the plugin has it
    feed,       \* events published to this client that have not arrived
    online,     \* the websocket of the web application is open
    voice,      \* voice events the plugin has addressed but not yet published
    store,      \* the Redux state, with window.callsClient and what runs beside it
    fetch,      \* the load of /channels by onActivate
    asked,      \* a request for the state of the call is under way
    rings,      \* the configuration EnableRinging, which stays as it is
    gaps,       \* history: why the view may differ from the truth
    ops

storeVars == <<truth, feed, online, voice, store, fetch, asked, rings, gaps, ops>>
server == <<truth, feed, voice, asked, ops>>
client == <<online, store, fetch, rings>>

\* A recording is known with the call it belongs to. attr stands for what the
\* reducers of a session's microphone, hand and camera do alike.
\* last and was are the calls and the sessions so far: an id is used once.
NoRecording == [c |-> 0, on |-> FALSE]
NoCall(last, was) ==
    [call |-> 0, mine |-> FALSE, sess |-> {}, attr |-> {}, screen |-> Nobody, host |-> Nobody,
     rec |-> NoRecording, dismissed |-> FALSE, ending |-> FALSE, last |-> last, was |-> was]

StoreInit ==
    /\ truth = NoCall(0, {}) /\ feed = <<>> /\ online = TRUE /\ voice = {}
    /\ store = [call |-> 0, sess |-> {}, attr |-> {}, screen |-> Nobody, host |-> Nobody,
                rec |-> NoRecording, client |-> FALSE, invites |-> {}, incoming |-> {},
                mounted |-> {}, ringing |-> {}, didRing |-> {}, dismissed |-> {},
                timers |-> {}, sound |-> FALSE]
    /\ fetch = [st |-> "no"] /\ asked = FALSE /\ rings \in BOOLEAN
    /\ gaps = {} /\ ops = 0

---------------------------------------------------------------------------
(* Reducers and synchronous actions, as functions of the store *)

\* Mutant of StopRinging: the sound goes on.
StopRingingSounds(st, c) ==
    [st EXCEPT !.ringing = @ \ {c}, !.didRing = @ \cup ({c} \ {0})]

StopRinging(st, c) ==
    [st EXCEPT !.sound = @ /\ c \notin st.ringing, !.ringing = @ \ {c},
               !.didRing = @ \cup ({c} \ {0})]

RemoveIncoming(st, c) ==
    [StopRinging(st, c) EXCEPT !.incoming = @ \ {c}, !.mounted = @ \ {c}]

\* The close handler of the calls client, also when nothing was open.
SessionClosed(st) ==
    [st EXCEPT !.rec = IF st.client THEN NoRecording ELSE @, !.client = FALSE]

\* CALL_END carries no session, so that the screen sharer is kept.
CallEnds(st) ==
    RemoveIncoming([SessionClosed(st) EXCEPT !.call = 0, !.sess = {}, !.attr = {}], st.call)

\* Mutant of UserLeaves: the call stays when its last session leaves.
UserLeavesOpen(st, s) ==
    [st EXCEPT !.sess = @ \ {s}, !.attr = @ \ {s}, !.screen = IF @ = s THEN Nobody ELSE @]

UserLeaves(st, s) ==
    LET rest == [st EXCEPT !.sess = @ \ {s}, !.attr = @ \ {s},
                           !.screen = IF @ = s THEN Nobody ELSE @]
    IN IF rest.sess = {} THEN CallEnds(rest) ELSE rest

UserJoins(st, s) ==
    LET seen == IF rings /\ s \in Mine THEN [RemoveIncoming(st, st.call) EXCEPT !.sound = FALSE] ELSE st
    IN [seen EXCEPT !.sess = @ \cup {s}, !.attr = @ \ {s}]

\* A session that the store does not know is added.
SetAttr(st, s, on) ==
    [st EXCEPT !.sess = @ \cup {s}, !.attr = IF on THEN @ \cup {s} ELSE @ \ {s}]

\* The null state of the recording is merged into the old one, which stays.
CallStarts(st, e) ==
    [st EXCEPT !.call = e.c, !.host = e.s,
               !.invites = IF st.client \/ ~rings THEN @
                           ELSE @ \cup {[c |-> e.c, mine |-> e.on, at |-> "channel"]}]

LoadCall(st, snap) ==
    [st EXCEPT !.call = snap.call, !.sess = snap.sess, !.attr = snap.attr,
               !.screen = snap.screen, !.host = snap.host,
               !.rec = IF snap.rec = NoRecording THEN @ ELSE snap.rec,
               !.dismissed = IF snap.dismissed THEN @ \cup {snap.call} ELSE @]

Dismissal(st, c) == [RemoveIncoming(st, c) EXCEPT !.dismissed = @ \cup {c}]

Uninit(st) ==
    [st EXCEPT !.call = 0, !.sess = {}, !.attr = {}, !.screen = Nobody,
               !.host = Nobody, !.rec = NoRecording]

\* onActivate's batch for a channel that is not the one of the current call.
LoadChannels(st, snap) ==
    IF snap.sess = {} \/ st.call # 0 THEN st
    ELSE LET loaded == [st EXCEPT !.call = snap.call, !.sess = snap.sess, !.attr = snap.attr]
         IN IF ~rings THEN loaded ELSE IF snap.dismissed
            THEN [loaded EXCEPT !.dismissed = @ \cup {snap.call}]
            ELSE [loaded EXCEPT !.invites =
                    @ \cup {[c |-> snap.call, mine |-> snap.mine, at |-> "channel"]}]

\* Only the user who shares may be shown, and only while the session is known.
ScreenSharer(st) == IF st.screen \in st.sess THEN st.screen ELSE Nobody

---------------------------------------------------------------------------
(* What the plugin publishes: every operation but a voice event holds the lock *)

Ev(k, s, c, on) == [k |-> k, s |-> s, c |-> c, on |-> on]

Publish(evs) == feed' = IF online THEN feed \o evs ELSE feed
ToChannel(ev) == <<ev>>
ToSessions(t, ev) == IF t.sess \cap Mine # {} THEN <<ev>> ELSE <<>>
Maybe(cond, evs) == IF cond THEN evs ELSE <<>>

Op ==
    /\ ops < MaxOps /\ ops' = ops + 1 /\ Len(feed) < MaxFeed
    /\ UNCHANGED client

\* Bound: what ringing does not depend on happens without it only.
ViewOp == Op /\ ~rings

PluginJoin(s) ==
    /\ Op /\ s \notin truth.was
    /\ s = Me => store.client
    /\ LET new == truth.call = 0
           c == IF new THEN truth.last + 1 ELSE truth.call
           t == IF new THEN [NoCall(c, truth.was) EXCEPT !.call = c, !.mine = s \in Mine, !.host = s]
                ELSE truth
       IN /\ c \in Call
          /\ truth' = [t EXCEPT !.sess = @ \cup {s}, !.was = @ \cup {s}]
          /\ Publish(Maybe(new, <<Ev("start", s, c, s \in Mine)>>)
                     \o ToChannel(Ev("joined", s, c, TRUE))
                     \o Maybe(s \in Mine, <<[k |-> "state", snap |-> truth']>>))
    /\ UNCHANGED <<voice, asked, gaps>>

\* A client's session goes when the client has left or has lost its connections.
PluginLeave(s) ==
    /\ Op /\ s \in truth.sess
    /\ s = Me => ~store.client \/ ~online
    /\ LET rest == truth.sess \ {s}
           t == [truth EXCEPT !.sess = rest, !.attr = @ \ {s},
                              !.screen = IF @ = s THEN Nobody ELSE @]
       IN \E h \in IF truth.host = s /\ rest # {} THEN rest ELSE {truth.host} :
            /\ truth' = IF rest = {} THEN NoCall(truth.last, truth.was) ELSE [t EXCEPT !.host = h]
            /\ Publish(Maybe(truth.screen = s, ToSessions(t, Ev("screenOff", Nobody, truth.call, FALSE)))
                       \o ToChannel(Ev("left", s, truth.call, FALSE))
                       \o Maybe(h # truth.host, ToSessions(t, Ev("host", h, truth.call, TRUE))))
    /\ UNCHANGED <<voice, asked, gaps>>

PluginAttr(s, on) ==
    /\ ViewOp /\ s \in truth.sess /\ on # (s \in truth.attr)
    /\ truth' = [truth EXCEPT !.attr = IF on THEN @ \cup {s} ELSE @ \ {s}]
    /\ Publish(ToSessions(truth, Ev("attr", s, truth.call, on)))
    /\ UNCHANGED <<voice, asked, gaps>>

PluginScreen(s) ==
    /\ ViewOp /\ s \in truth.sess
    /\ \/ /\ truth.screen = Nobody
          /\ truth' = [truth EXCEPT !.screen = s]
          /\ Publish(ToSessions(truth, Ev("screenOn", s, truth.call, TRUE)))
       \/ /\ truth.screen = s
          /\ truth' = [truth EXCEPT !.screen = Nobody]
          /\ Publish(ToSessions(truth, Ev("screenOff", s, truth.call, FALSE)))
    /\ UNCHANGED <<voice, asked, gaps>>

PluginHost(h) ==
    /\ ViewOp /\ h \in truth.sess \ {truth.host}
    /\ truth' = [truth EXCEPT !.host = h]
    /\ Publish(ToSessions(truth, Ev("host", h, truth.call, TRUE)))
    /\ UNCHANGED <<voice, asked, gaps>>

PluginRecord ==
    /\ ViewOp /\ truth.call # 0
    /\ truth' = [truth EXCEPT !.rec = [c |-> truth.call, on |-> ~@.on]]
    /\ Publish(ToSessions(truth, Ev("job", Nobody, truth.call, truth'.rec.on)))
    /\ UNCHANGED <<voice, asked, gaps>>

\* The clients are told to leave; the call ends with the last session.
PluginEnd ==
    /\ Op /\ truth.call # 0 /\ ~truth.ending
    /\ truth' = [truth EXCEPT !.ending = TRUE]
    /\ Publish(ToChannel(Ev("end", Nobody, truth.call, FALSE)))
    /\ UNCHANGED <<voice, asked, gaps>>

\* A request of this client, or of another one of the user, to dismiss the call.
PluginDismiss ==
    /\ Op /\ truth.call # 0 /\ ~truth.dismissed
    /\ truth' = [truth EXCEPT !.dismissed = TRUE]
    /\ Publish(<<Ev("dismissed", Nobody, truth.call, TRUE)>>)
    /\ UNCHANGED <<voice, asked, gaps>>

\* Voice is announced without the lock: the addressees are read first.
PluginVoiceRead(s) ==
    /\ ViewOp /\ s \in truth.sess /\ Mine \cap truth.sess # {} /\ voice = {}
    /\ voice' = {s}
    /\ UNCHANGED <<truth, feed, asked, gaps>>

PluginVoice(s) ==
    /\ s \in voice /\ voice' = {}
    /\ Publish(<<Ev("voice", s, 0, TRUE)>>)
    /\ gaps' = IF s \in truth.sess THEN gaps ELSE gaps \cup {"voice"}
    /\ UNCHANGED <<truth, asked, ops, client>>

\* The state is read and published under the lock, or there is no call.
PluginState ==
    /\ asked /\ asked' = FALSE
    /\ Publish(Maybe(truth.call # 0, <<[k |-> "state", snap |-> truth]>>))
    /\ UNCHANGED <<truth, voice, gaps, ops, client>>

PluginChannels ==
    /\ fetch.st = "asked"
    /\ fetch' = [st |-> "answered", skip |-> fetch.skip, snap |-> truth]
    /\ UNCHANGED <<server, online, store, rings, gaps>>

---------------------------------------------------------------------------
(* The handlers of the events, in the order they were published *)

Arrives(k) ==
    /\ feed # <<>> /\ Head(feed).k = k /\ feed' = Tail(feed)
    /\ gaps' = IF fetch.st = "answered" /\ ~fetch.skip THEN gaps \cup {"fetch"}
               ELSE IF k = "state" THEN gaps \cap {"voice"} ELSE gaps
    /\ UNCHANGED <<truth, voice, asked, ops, online, fetch, rings>>

E == Head(feed)

HandleCallStart == Arrives("start") /\ store' = CallStarts(store, E)
HandleUserJoined == Arrives("joined") /\ store' = UserJoins(store, E.s)
HandleUserLeft == Arrives("left") /\ store' = UserLeaves(store, E.s)
HandleUserAttr == Arrives("attr") /\ store' = SetAttr(store, E.s, E.on)
HandleUserVoice == Arrives("voice") /\ store' = [store EXCEPT !.sess = @ \cup {E.s}]
HandleUserScreenOn == Arrives("screenOn") /\ store' = [store EXCEPT !.screen = E.s]
HandleUserScreenOff ==
    /\ Arrives("screenOff")
    /\ store' = [store EXCEPT !.screen = IF @ = E.s THEN Nobody ELSE @]
HandleCallHostChanged == Arrives("host") /\ store' = [store EXCEPT !.host = E.s]
HandleCallJobState == Arrives("job") /\ store' = [store EXCEPT !.rec = [c |-> E.c, on |-> E.on]]
HandleCallEnd == Arrives("end") /\ store' = CallEnds(store)
HandleUserDismissed == Arrives("dismissed") /\ store' = Dismissal(store, E.c)
HandleCallState == Arrives("state") /\ store' = LoadCall(store, E.snap)

---------------------------------------------------------------------------
(* Losing and restoring the connection *)

Drop ==
    /\ online /\ ops + DropCost <= MaxOps
    /\ online' = FALSE /\ ops' = ops + DropCost /\ feed' = <<>> /\ asked' = FALSE
    /\ UNCHANGED <<truth, voice, store, fetch, rings, gaps>>

\* onActivate asks for the configuration first. Bound: two loads do not overlap.
Reconnect ==
    /\ ~online /\ online' = TRUE /\ fetch.st = "no"
    /\ store' = IF store.client THEN store ELSE Uninit(store)
    /\ gaps' = IF store.client THEN gaps \cup {"offline"} ELSE {}
    /\ fetch' = [st |-> "config"]
    /\ UNCHANGED <<server, rings>>

FetchChannels ==
    /\ fetch.st = "config" /\ fetch' = [st |-> "asked", skip |-> store.client]
    /\ UNCHANGED <<server, online, store, rings, gaps>>

\* In a call its state is asked for over the websocket instead.
Activated ==
    /\ fetch.st = "answered" /\ fetch' = [st |-> "no"]
    /\ store' = IF fetch.skip THEN store ELSE LoadChannels(store, fetch.snap)
    /\ asked' = (asked \/ (fetch.skip /\ online))
    /\ UNCHANGED <<truth, feed, voice, ops, online, rings, gaps>>

---------------------------------------------------------------------------
(* The user, and what the store starts *)

UserStep == UNCHANGED <<server, online, fetch, rings, gaps>>

\* Bound: a client that has joined is the last one, as it is the session Me.
MayConnect == ~store.client /\ Me \notin truth.was
ConnectCall == UserStep /\ MayConnect /\ store' = [store EXCEPT !.client = TRUE]
LeaveCall == UserStep /\ store.client /\ store' = SessionClosed(store)

OnDismiss(c) == UserStep /\ c \in store.incoming /\ store' = Dismissal(store, c)
OnJoin(c) ==
    /\ UserStep /\ c \in store.incoming /\ MayConnect
    /\ store' = [Dismissal(store, c) EXCEPT !.client = TRUE, !.sound = FALSE]

\* incomingCallOnChannel after loading the channel. The dismissed calls are looked
\* up by the id of the channel, under which there is never one.
InviteChannel(i) ==
    /\ UserStep /\ i \in store.invites /\ i.at = "channel"
    /\ LET ignored == \/ i.c \in store.incoming \/ i.mine
                      \/ store.client /\ store.call = i.c
       IN store' = [store EXCEPT !.invites = (@ \ {i})
                        \cup (IF ignored THEN {} ELSE {[i EXCEPT !.at = "profile"]})]

\* And after loading the caller's profile.
InviteProfile(i) ==
    /\ UserStep /\ i \in store.invites /\ i.at = "profile"
    /\ store' = [store EXCEPT !.invites = @ \ {i}, !.incoming = @ \cup {i.c}]

\* useRingingAndNotification, when the notification is mounted.
RingEffect(c) ==
    /\ UserStep /\ c \in store.incoming \ store.mounted
    /\ LET shown == [store EXCEPT !.mounted = @ \cup {c}]
       IN \/ /\ store.client \/ (store.ringing # {} /\ c \notin store.ringing)
             /\ store' = [shown EXCEPT !.ringing = @ \ {c}, !.didRing = @ \cup {c}]
          \/ /\ ~store.client /\ (store.ringing = {} \/ c \in store.ringing)
             /\ store' = IF c \in store.didRing THEN shown
                         ELSE [shown EXCEPT !.ringing = @ \cup {c}, !.didRing = @ \cup {c},
                                            !.timers = @ \cup {c}, !.sound = TRUE]

\* Mutant of RingTimeout: the timeout does not stop the ringing.
RingTimeoutIdle(c) ==
    UserStep /\ c \in store.timers /\ store' = [store EXCEPT !.timers = @ \ {c}]

RingTimeout(c) ==
    /\ UserStep /\ c \in store.timers
    /\ store' = [StopRinging(store, c) EXCEPT !.timers = @ \ {c}]

---------------------------------------------------------------------------
PluginStep ==
    \/ \E s \in Sess : \/ PluginJoin(s) \/ PluginLeave(s) \/ PluginScreen(s) \/ PluginHost(s)
                       \/ PluginVoiceRead(s) \/ PluginVoice(s)
                       \/ \E on \in BOOLEAN : PluginAttr(s, on)
    \/ PluginRecord \/ PluginEnd \/ PluginDismiss \/ PluginState \/ PluginChannels

Handler ==
    \/ HandleCallStart \/ HandleUserJoined \/ HandleUserLeft \/ HandleUserAttr
    \/ HandleUserVoice \/ HandleUserScreenOn \/ HandleUserScreenOff \/ HandleCallHostChanged
    \/ HandleCallJobState \/ HandleCallEnd \/ HandleUserDismissed \/ HandleCallState

StoreNext ==
    \/ PluginStep \/ Handler
    \/ Drop \/ Reconnect \/ FetchChannels \/ Activated
    \/ ConnectCall \/ LeaveCall
    \/ \E c \in Call : OnDismiss(c) \/ OnJoin(c) \/ RingEffect(c) \/ RingTimeout(c)
    \/ \E i \in Invite : InviteChannel(i) \/ InviteProfile(i)

StoreSpec == StoreInit /\ [][StoreNext]_storeVars

\* The timer of ringForCall fires.
StoreFairness == \A c \in Call : WF_storeVars(RingTimeout(c))
StoreFairSpec == StoreSpec /\ StoreFairness

---------------------------------------------------------------------------
(* Properties *)

Snap == [call : 0..MaxCall, mine : BOOLEAN, sess : SUBSET Sess, attr : SUBSET Sess,
         screen : Sess \cup {Nobody}, host : Sess \cup {Nobody},
         rec : [c : 0..MaxCall, on : BOOLEAN], dismissed : BOOLEAN, ending : BOOLEAN,
         last : 0..MaxCall, was : SUBSET Sess]

\* The types of the state, and of the parts of the store that belong to calls.
StoreTypeOK ==
    /\ truth \in Snap /\ online \in BOOLEAN /\ asked \in BOOLEAN /\ rings \in BOOLEAN
    /\ voice \subseteq Sess /\ ops \in 0..MaxOps /\ gaps \subseteq {"voice", "fetch", "offline"}
    /\ store.call \in 0..MaxCall /\ store.sess \subseteq Sess /\ store.attr \subseteq Sess
    /\ store.screen \in Sess \cup {Nobody} /\ store.host \in Sess \cup {Nobody}
    /\ store.client \in BOOLEAN /\ store.sound \in BOOLEAN
    /\ store.incoming \subseteq Call /\ store.mounted \subseteq Call
    /\ store.ringing \subseteq Call /\ store.timers \subseteq Call
    /\ store.dismissed \subseteq Call

Settled ==
    /\ online /\ feed = <<>> /\ voice = {} /\ ~asked /\ fetch.st = "no" /\ ~truth.ending

\* When every event has arrived the client shows the call that there is, its sessions
\* and, in the call, who is unmuted, hosts and shares: after any order of events, lost
\* connections and loads, but for the gaps the handlers leave. These are a voice event
\* published after its session has left, an event that arrives while the answer of
\* /channels is under way, and an outage in a call until its state has come.
ViewConverges ==
    Settled /\ gaps = {} =>
        /\ store.call = truth.call /\ store.sess = truth.sess
        /\ store.client /\ Me \in truth.sess =>
            /\ store.attr = truth.attr /\ store.host = truth.host
            /\ ScreenSharer(store) = truth.screen

\* The sound is heard for exactly one call that rings, and each call that rings has a
\* timer that stops it, whatever joins, dismissals, ends and restarts come between.
SoundHasTimer ==
    /\ store.ringing \subseteq store.timers
    /\ store.sound => \E c \in store.ringing : store.ringing = {c}

\* A ringing that is heard stops.
RingStops == store.sound ~> ~store.sound
=============================================================================

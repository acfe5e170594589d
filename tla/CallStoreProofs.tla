---------------------------- MODULE CallStoreProofs ----------------------------
(* Proofs about the store of the web application: the types, the ringing   *)
(* of incoming calls, and that the view of the call comes to be the call.  *)
EXTENDS CallStore, NaturalsInduction, WellFoundedInduction, TLAPS

---------------------------------------------------------------------------
(* The ringing: the inductive invariant *)

\* The store is a record with these fields.
IsStore(st) ==
    st \in [call : {st.call}, sess : {st.sess}, attr : {st.attr}, screen : {st.screen},
            host : {st.host}, rec : {st.rec}, client : {st.client}, invites : {st.invites},
            incoming : {st.incoming}, mounted : {st.mounted}, ringing : {st.ringing},
            didRing : {st.didRing}, dismissed : {st.dismissed}, timers : {st.timers},
            sound : {st.sound}]

\* At most one call rings, it is one whose notification is mounted and it has a timer;
\* without it there is no sound. That it is mounted is what keeps an effect that runs for a
\* new notification from silencing a call that rings.
RingsRight(st) ==
    /\ st.ringing \subseteq st.timers \cap st.mounted
    /\ \A c, d \in st.ringing : c = d
    /\ st.sound => st.ringing # {}

Good(st) == IsStore(st) /\ RingsRight(st)

---------------------------------------------------------------------------
(* The functions of the store *)

LEMMA StopRingingGood ==
  ASSUME NEW st, Good(st), NEW c
  PROVE  Good(StopRinging(st, c))
BY DEF Good, IsStore, RingsRight, StopRinging

LEMMA RemoveIncomingGood ==
  ASSUME NEW st, Good(st), NEW c
  PROVE  Good(RemoveIncoming(st, c))
BY DEF Good, IsStore, RingsRight, StopRinging, RemoveIncoming

LEMMA SessionClosedGood ==
  ASSUME NEW st, Good(st)
  PROVE  Good(SessionClosed(st))
BY DEF Good, IsStore, RingsRight, SessionClosed

LEMMA CallEndsGood ==
  ASSUME NEW st, Good(st)
  PROVE  Good(CallEnds(st))
<1> DEFINE left == [SessionClosed(st) EXCEPT !.call = 0, !.sess = {}, !.attr = {}]
<1>1. Good(SessionClosed(st))
  BY SessionClosedGood
<1>2. Good(left)
  BY <1>1 DEF Good, IsStore, RingsRight
<1>3. Good(RemoveIncoming(left, st.call))
  BY <1>2, RemoveIncomingGood
<1> QED
  BY <1>3 DEF CallEnds

LEMMA UserLeavesGood ==
  ASSUME NEW st, Good(st), NEW s
  PROVE  Good(UserLeaves(st, s))
<1> DEFINE rest == [st EXCEPT !.sess = @ \ {s}, !.attr = @ \ {s},
                              !.screen = IF @ = s THEN Nobody ELSE @]
<1>1. Good(rest)
  BY DEF Good, IsStore, RingsRight
<1>2. Good(CallEnds(rest))
  BY <1>1, CallEndsGood
<1> QED
  BY <1>1, <1>2 DEF UserLeaves

LEMMA UserJoinsGood ==
  ASSUME NEW st, Good(st), NEW s
  PROVE  Good(UserJoins(st, s))
<1> DEFINE answered == RemoveIncoming(st, st.call)
           silent == [answered EXCEPT !.sound = FALSE]
           seen == IF rings /\ s \in Mine THEN silent ELSE st
<1>1. Good(answered)
  BY RemoveIncomingGood
<1>2. Good(silent)
  BY <1>1 DEF Good, IsStore, RingsRight
<1>3. Good(seen)
  BY <1>2
<1>4. Good([seen EXCEPT !.sess = @ \cup {s}, !.attr = @ \ {s}])
  BY <1>3 DEF Good, IsStore, RingsRight
<1> QED
  BY <1>4 DEF UserJoins

LEMMA DismissalGood ==
  ASSUME NEW st, Good(st), NEW c
  PROVE  Good(Dismissal(st, c))
<1>1. Good(RemoveIncoming(st, c))
  BY RemoveIncomingGood
<1> QED
  BY <1>1 DEF Dismissal, Good, IsStore, RingsRight

\* What these functions change has nothing to do with ringing.
LEMMA OtherFieldsGood ==
  ASSUME NEW st, Good(st), NEW s, NEW c, NEW on, NEW e, NEW snap
  PROVE  /\ Good(SetAttr(st, s, on))
         /\ Good(CallStarts(st, e))
         /\ Good(LoadCall(st, snap))
         /\ Good(Uninit(st))
         /\ Good([st EXCEPT !.sess = @ \cup {s}])
         /\ Good([st EXCEPT !.screen = s])
         /\ Good([st EXCEPT !.screen = IF @ = s THEN Nobody ELSE @])
         /\ Good([st EXCEPT !.host = s])
         /\ Good([st EXCEPT !.rec = [c |-> c, on |-> on]])
         /\ Good([st EXCEPT !.client = TRUE])
<1> USE DEF Good, IsStore, RingsRight
<1>1. Good(SetAttr(st, s, on))
  BY DEF SetAttr
<1>2. Good(CallStarts(st, e))
  BY DEF CallStarts
<1>3. Good(LoadCall(st, snap))
  BY DEF LoadCall
<1>4. Good(Uninit(st))
  BY DEF Uninit
<1>5. Good([st EXCEPT !.sess = @ \cup {s}])
  OBVIOUS
<1>6. Good([st EXCEPT !.screen = s])
  OBVIOUS
<1>7. Good([st EXCEPT !.screen = IF @ = s THEN Nobody ELSE @])
  OBVIOUS
<1>8. Good([st EXCEPT !.host = s])
  OBVIOUS
<1>9. Good([st EXCEPT !.rec = [c |-> c, on |-> on]])
  OBVIOUS
<1>10. Good([st EXCEPT !.client = TRUE])
  OBVIOUS
<1> HIDE DEF Good
<1> QED
  BY <1>1, <1>2, <1>3, <1>4, <1>5, <1>6, <1>7, <1>8, <1>9, <1>10

LEMMA LoadChannelsGood ==
  ASSUME NEW st, Good(st), NEW snap
  PROVE  Good(LoadChannels(st, snap))
<1> DEFINE loaded == [st EXCEPT !.call = snap.call, !.sess = snap.sess, !.attr = snap.attr]
           known == [loaded EXCEPT !.dismissed = @ \cup {snap.call}]
           invited == [loaded EXCEPT !.invites =
                         @ \cup {[c |-> snap.call, mine |-> snap.mine, at |-> "channel"]}]
<1>1. Good(loaded)
  BY DEF Good, IsStore, RingsRight
<1>2. Good(known) /\ Good(invited)
  BY <1>1 DEF Good, IsStore, RingsRight
<1> QED
  BY <1>1, <1>2 DEF LoadChannels

---------------------------------------------------------------------------
(* The steps *)

LEMMA HandlerGood ==
  ASSUME Good(store), Handler
  PROVE  Good(store')
<1>1. CASE HandleCallStart
  BY <1>1, OtherFieldsGood DEF HandleCallStart
<1>2. CASE HandleUserJoined
  BY <1>2, UserJoinsGood DEF HandleUserJoined
<1>3. CASE HandleUserLeft
  BY <1>3, UserLeavesGood DEF HandleUserLeft
<1>4. CASE HandleUserAttr
  BY <1>4, OtherFieldsGood DEF HandleUserAttr
<1>5. CASE HandleUserVoice
  BY <1>5, OtherFieldsGood DEF HandleUserVoice
<1>6. CASE HandleUserScreenOn
  BY <1>6, OtherFieldsGood DEF HandleUserScreenOn
<1>7. CASE HandleUserScreenOff
  BY <1>7, OtherFieldsGood DEF HandleUserScreenOff
<1>8. CASE HandleCallHostChanged
  BY <1>8, OtherFieldsGood DEF HandleCallHostChanged
<1>9. CASE HandleCallJobState
  BY <1>9, OtherFieldsGood DEF HandleCallJobState
<1>10. CASE HandleCallEnd
  BY <1>10, CallEndsGood DEF HandleCallEnd
<1>11. CASE HandleUserDismissed
  BY <1>11, DismissalGood DEF HandleUserDismissed
<1>12. CASE HandleCallState
  BY <1>12, OtherFieldsGood DEF HandleCallState
<1> QED
  BY <1>1, <1>2, <1>3, <1>4, <1>5, <1>6, <1>7, <1>8, <1>9, <1>10, <1>11, <1>12 DEF Handler

LEMMA PluginKeepsStore ==
  ASSUME PluginStep
  PROVE  UNCHANGED store
<1> USE DEF client, Op, ViewOp
<1>1. ASSUME NEW s \in Sess, NEW on \in BOOLEAN,
             \/ PluginJoin(s) \/ PluginLeave(s) \/ PluginScreen(s) \/ PluginHost(s)
             \/ PluginVoiceRead(s) \/ PluginVoice(s) \/ PluginAttr(s, on)
      PROVE  UNCHANGED store
  <2>1. CASE PluginJoin(s)
    BY <2>1 DEF PluginJoin
  <2>2. CASE PluginLeave(s)
    BY <2>2 DEF PluginLeave
  <2>3. CASE PluginScreen(s) \/ PluginHost(s)
    BY <2>3 DEF PluginScreen, PluginHost
  <2>4. CASE PluginVoiceRead(s) \/ PluginVoice(s)
    BY <2>4 DEF PluginVoiceRead, PluginVoice
  <2>5. CASE PluginAttr(s, on)
    BY <2>5 DEF PluginAttr
  <2> QED
    BY <1>1, <2>1, <2>2, <2>3, <2>4, <2>5
<1>2. CASE PluginRecord \/ PluginEnd \/ PluginDismiss
  BY <1>2 DEF PluginRecord, PluginEnd, PluginDismiss
<1>3. CASE PluginState \/ PluginChannels
  BY <1>3 DEF PluginState, PluginChannels
<1> QED
  BY <1>1, <1>2, <1>3 DEF PluginStep

LEMMA UserGood ==
  ASSUME Good(store), NEW c \in Call,
         OnDismiss(c) \/ OnJoin(c) \/ RingEffect(c) \/ RingTimeout(c)
  PROVE  Good(store')
<1>1. CASE OnDismiss(c)
  BY <1>1, DismissalGood DEF OnDismiss
<1>2. CASE OnJoin(c)
  <2>1. Good(Dismissal(store, c))
    BY DismissalGood
  <2> QED
    BY <1>2, <2>1 DEF OnJoin, Good, IsStore, RingsRight
<1>3. CASE RingEffect(c)
  <2> DEFINE shown == [store EXCEPT !.mounted = @ \cup {c}]
             silent == [shown EXCEPT !.ringing = @ \ {c}, !.didRing = @ \cup {c}]
             heard == [shown EXCEPT !.ringing = @ \cup {c}, !.didRing = @ \cup {c},
                                    !.timers = @ \cup {c}, !.sound = TRUE]
  <2>1. Good(shown) /\ shown.ringing = store.ringing /\ c \notin store.ringing
    BY <1>3 DEF RingEffect, Good, IsStore, RingsRight
  <2>2. Good(silent)
    <3> HIDE DEF shown
    <3>1. shown.ringing \ {c} = shown.ringing
      BY <2>1
    <3> QED
      BY <2>1, <3>1 DEF Good, IsStore, RingsRight
  <2>3. ASSUME store.ringing = {}
        PROVE  Good(heard)
    BY <2>1, <2>3 DEF Good, IsStore, RingsRight
  <2>4. store' \in {shown, silent} \/ (store.ringing = {} /\ store' = heard)
    BY <1>3, <2>1 DEF RingEffect
  <2> HIDE DEF shown, silent, heard
  <2> QED
    BY <2>1, <2>2, <2>3, <2>4
<1>4. CASE RingTimeout(c)
  <2> DEFINE stopped == StopRinging(store, c)
  <2>1. Good(stopped) /\ c \notin stopped.ringing
    BY StopRingingGood DEF StopRinging, Good, IsStore
  <2>2. store' = [stopped EXCEPT !.timers = @ \ {c}]
    BY <1>4 DEF RingTimeout
  <2> HIDE DEF stopped
  <2> QED
    BY <2>1, <2>2 DEF Good, IsStore, RingsRight
<1> QED
  BY <1>1, <1>2, <1>3, <1>4

LEMMA InviteGood ==
  ASSUME Good(store), NEW i \in Invite, InviteChannel(i) \/ InviteProfile(i)
  PROVE  Good(store')
<1>1. CASE InviteChannel(i)
  BY <1>1 DEF InviteChannel, Good, IsStore, RingsRight
<1>2. CASE InviteProfile(i)
  BY <1>2 DEF InviteProfile, Good, IsStore, RingsRight
<1> QED
  BY <1>1, <1>2

LEMMA StoreStep ==
  ASSUME Good(store), [StoreNext]_storeVars
  PROVE  Good(store')
<1>1. CASE PluginStep
  BY <1>1, PluginKeepsStore
<1>2. CASE Handler
  BY <1>2, HandlerGood
<1>3. CASE Drop \/ FetchChannels
  BY <1>3 DEF Drop, FetchChannels
<1>4. CASE Reconnect
  BY <1>4, OtherFieldsGood DEF Reconnect
<1>5. CASE Activated
  BY <1>5, LoadChannelsGood DEF Activated
<1>6. CASE ConnectCall
  BY <1>6, OtherFieldsGood DEF ConnectCall
<1>7. CASE LeaveCall
  BY <1>7, SessionClosedGood DEF LeaveCall
<1>8. ASSUME NEW c \in Call, OnDismiss(c) \/ OnJoin(c) \/ RingEffect(c) \/ RingTimeout(c)
      PROVE  Good(store')
  BY <1>8, UserGood
<1>9. ASSUME NEW i \in Invite, InviteChannel(i) \/ InviteProfile(i)
      PROVE  Good(store')
  BY <1>9, InviteGood
<1>10. CASE UNCHANGED storeVars
  BY <1>10 DEF storeVars
<1> QED
  BY <1>1, <1>2, <1>3, <1>4, <1>5, <1>6, <1>7, <1>8, <1>9, <1>10 DEF StoreNext

---------------------------------------------------------------------------
(* The ringing: the theorem *)

\* Whatever joins, dismissals, ends, timeouts and restarts come between, at most one call
\* rings, a timer that stops it is pending, and there is no sound without it
\* (hooks.ts, stopRingingForCall, ringForCall).
THEOREM SoundHasTimerAlways ==
  StoreSpec => []SoundHasTimer
<1>1. StoreInit => Good(store)
  BY DEF StoreInit, Good, IsStore, RingsRight
<1>2. Good(store) /\ [StoreNext]_storeVars => Good(store')
  BY StoreStep
<1>3. Good(store) => SoundHasTimer
  BY DEF Good, RingsRight, SoundHasTimer
<1>4. Good(store)' <=> Good(store')
  BY DEF Good, IsStore, RingsRight
<1> QED
  BY <1>1, <1>2, <1>3, <1>4, PTL DEF StoreSpec

---------------------------------------------------------------------------
(* The types: the inductive invariant *)

Kind == {"start", "joined", "left", "attr", "voice", "screenOn", "screenOff", "host", "job",
         "end", "dismissed"}

\* An event that starts or dismisses a call, or has its state, is about a call, and one
\* by which a session is listed about a session.
Event ==
    {e \in [k : Kind, s : Sess \cup {Nobody}, c : 0..MaxCall, on : BOOLEAN] :
        /\ e.k \in {"start", "dismissed"} => e.c \in Call
        /\ e.k \in {"joined", "attr", "voice"} => e.s \in Sess}
    \cup {e \in [k : {"state"}, snap : Snap] : e.snap.call \in Call}

Fetch == [st : {"no", "config"}] \cup [st : {"asked"}, skip : BOOLEAN]
         \cup [st : {"answered"}, skip : BOOLEAN, snap : Snap]

\* The plugin has sessions in a call only.
InCalls(t) == t.call = 0 <=> t.sess = {}

TypedStore(st) ==
    /\ IsStore(st)
    /\ st.call \in 0..MaxCall /\ st.sess \subseteq Sess /\ st.attr \subseteq Sess
    /\ st.screen \in Sess \cup {Nobody} /\ st.host \in Sess \cup {Nobody}
    /\ st.client \in BOOLEAN /\ st.sound \in BOOLEAN
    /\ st.incoming \subseteq Call /\ st.mounted \subseteq Call
    /\ st.ringing \subseteq Call /\ st.timers \subseteq Call
    /\ st.dismissed \subseteq Call /\ st.invites \subseteq Invite

TypedPlugin ==
    /\ truth \in Snap /\ InCalls(truth) /\ feed \in Seq(Event) /\ voice \subseteq Sess

TypedLoad ==
    /\ online \in BOOLEAN /\ asked \in BOOLEAN /\ rings \in BOOLEAN /\ ops \in 0..MaxOps
    /\ gaps \subseteq {"voice", "fetch", "offline"}
    /\ fetch \in Fetch /\ (fetch.st = "answered" => InCalls(fetch.snap))

Typed == TypedStore(store) /\ TypedPlugin /\ TypedLoad

LEMMA Bounds ==
  /\ 0 \in 0..MaxCall /\ 0 \in 0..MaxOps
  /\ \A c : c \in Call <=> c \in 0..MaxCall /\ c # 0
  /\ Me \in Sess /\ Phone \in Sess /\ Mine \subseteq Sess /\ Nobody \notin Sess
BY StoreAssumption DEF Call, Sess, Mine

LEMMA TypedInit == StoreInit => Typed
<1> SUFFICES ASSUME StoreInit PROVE Typed
  OBVIOUS
<1>1. TypedStore(store)
  BY Bounds DEF StoreInit, TypedStore, IsStore
<1>2. TypedPlugin
  <2>1. NoCall(0, {}) \in Snap
    BY Bounds DEF NoCall, Snap, NoRecording
  <2>2. InCalls(NoCall(0, {})) /\ <<>> \in Seq(Event)
    BY DEF NoCall, InCalls
  <2> QED
    BY <2>1, <2>2 DEF StoreInit, TypedPlugin
<1>3. TypedLoad
  BY Bounds DEF StoreInit, TypedLoad, Fetch
<1> QED
  BY <1>1, <1>2, <1>3 DEF Typed

---------------------------------------------------------------------------
(* The types: the functions of the store *)

LEMMA RemoveIncomingTyped ==
  ASSUME NEW st, TypedStore(st), NEW c
  PROVE  TypedStore(RemoveIncoming(st, c))
BY DEF TypedStore, IsStore, StopRinging, RemoveIncoming

LEMMA SessionClosedTyped ==
  ASSUME NEW st, TypedStore(st)
  PROVE  TypedStore(SessionClosed(st))
BY DEF TypedStore, IsStore, SessionClosed

LEMMA CallEndsTyped ==
  ASSUME NEW st, TypedStore(st)
  PROVE  TypedStore(CallEnds(st))
<1> DEFINE left == [SessionClosed(st) EXCEPT !.call = 0, !.sess = {}, !.attr = {}]
<1>1. TypedStore(SessionClosed(st))
  BY SessionClosedTyped
<1>2. TypedStore(left)
  BY <1>1, Bounds DEF TypedStore, IsStore
<1>3. TypedStore(RemoveIncoming(left, st.call))
  BY <1>2, RemoveIncomingTyped
<1> QED
  BY <1>3 DEF CallEnds

LEMMA UserLeavesTyped ==
  ASSUME NEW st, TypedStore(st), NEW s
  PROVE  TypedStore(UserLeaves(st, s))
<1> DEFINE rest == [st EXCEPT !.sess = @ \ {s}, !.attr = @ \ {s},
                              !.screen = IF @ = s THEN Nobody ELSE @]
<1>1. TypedStore(rest)
  BY DEF TypedStore, IsStore
<1>2. TypedStore(CallEnds(rest))
  BY <1>1, CallEndsTyped
<1> QED
  BY <1>1, <1>2 DEF UserLeaves

LEMMA UserJoinsTyped ==
  ASSUME NEW st, TypedStore(st), NEW s \in Sess
  PROVE  TypedStore(UserJoins(st, s))
<1> DEFINE answered == RemoveIncoming(st, st.call)
           silent == [answered EXCEPT !.sound = FALSE]
           seen == IF rings /\ s \in Mine THEN silent ELSE st
<1>1. TypedStore(answered)
  BY RemoveIncomingTyped
<1>2. TypedStore(silent)
  BY <1>1 DEF TypedStore, IsStore
<1>3. TypedStore(seen)
  BY <1>2
<1>4. TypedStore([seen EXCEPT !.sess = @ \cup {s}, !.attr = @ \ {s}])
  BY <1>3 DEF TypedStore, IsStore
<1> QED
  BY <1>4 DEF UserJoins

LEMMA DismissalTyped ==
  ASSUME NEW st, TypedStore(st), NEW c \in Call
  PROVE  TypedStore(Dismissal(st, c))
<1>1. TypedStore(RemoveIncoming(st, c))
  BY RemoveIncomingTyped
<1> QED
  BY <1>1 DEF Dismissal, TypedStore, IsStore

LEMMA CallStartsTyped ==
  ASSUME NEW st, TypedStore(st), NEW e, e.c \in Call, e.s \in Sess \cup {Nobody}, e.on \in BOOLEAN
  PROVE  TypedStore(CallStarts(st, e))
<1> DEFINE i == [c |-> e.c, mine |-> e.on, at |-> "channel"]
           new == IF st.client \/ ~rings THEN st.invites ELSE st.invites \cup {i}
<1>1. i \in Invite
  BY DEF Invite
<1>2. new \subseteq Invite
  BY <1>1 DEF TypedStore
<1>3. CallStarts(st, e) = [st EXCEPT !.call = e.c, !.host = e.s, !.invites = new]
  BY DEF CallStarts, TypedStore, IsStore
<1> HIDE DEF new
<1> QED
  BY <1>2, <1>3, Bounds DEF TypedStore, IsStore

LEMMA LoadCallTyped ==
  ASSUME NEW st, TypedStore(st), NEW snap \in Snap, snap.call \in Call
  PROVE  TypedStore(LoadCall(st, snap))
BY Bounds DEF TypedStore, IsStore, Snap, LoadCall

LEMMA LoadChannelsTyped ==
  ASSUME NEW st, TypedStore(st), NEW snap \in Snap, InCalls(snap)
  PROVE  TypedStore(LoadChannels(st, snap))
<1> DEFINE loaded == [st EXCEPT !.call = snap.call, !.sess = snap.sess, !.attr = snap.attr]
           i == [c |-> snap.call, mine |-> snap.mine, at |-> "channel"]
           known == [loaded EXCEPT !.dismissed = @ \cup {snap.call}]
           invited == [loaded EXCEPT !.invites = @ \cup {i}]
<1>1. TypedStore(loaded)
  BY DEF TypedStore, IsStore, Snap
<1>2. CASE snap.sess # {}
  <2>1. snap.call \in Call /\ snap.mine \in BOOLEAN
    BY <1>2, Bounds DEF InCalls, Snap
  <2>2. i \in Invite
    BY <2>1 DEF Invite
  <2> HIDE DEF i, loaded
  <2>3. TypedStore(known) /\ TypedStore(invited)
    BY <1>1, <2>1, <2>2 DEF TypedStore, IsStore
  <2> QED
    BY <1>1, <2>3 DEF LoadChannels, loaded, i
<1> QED
  BY <1>2 DEF LoadChannels

LEMMA OtherFieldsTyped ==
  ASSUME NEW st, TypedStore(st), NEW s \in Sess \cup {Nobody}, NEW on, NEW rec
  PROVE  /\ s \in Sess => TypedStore(SetAttr(st, s, on))
         /\ TypedStore(Uninit(st))
         /\ s \in Sess => TypedStore([st EXCEPT !.sess = @ \cup {s}])
         /\ TypedStore([st EXCEPT !.screen = s])
         /\ TypedStore([st EXCEPT !.screen = IF @ = s THEN Nobody ELSE @])
         /\ TypedStore([st EXCEPT !.host = s])
         /\ TypedStore([st EXCEPT !.rec = rec])
         /\ TypedStore([st EXCEPT !.client = TRUE])
<1> USE DEF TypedStore, IsStore
<1>1. s \in Sess => TypedStore(SetAttr(st, s, on))
  BY DEF SetAttr
<1>2. TypedStore(Uninit(st))
  BY Bounds DEF Uninit
<1>3. s \in Sess => TypedStore([st EXCEPT !.sess = @ \cup {s}])
  OBVIOUS
<1>4. TypedStore([st EXCEPT !.screen = s])
  OBVIOUS
<1>5. TypedStore([st EXCEPT !.screen = IF @ = s THEN Nobody ELSE @])
  OBVIOUS
<1>6. TypedStore([st EXCEPT !.host = s])
  OBVIOUS
<1>7. TypedStore([st EXCEPT !.rec = rec])
  OBVIOUS
<1>8. TypedStore([st EXCEPT !.client = TRUE])
  OBVIOUS
<1> HIDE DEF TypedStore
<1> QED
  BY <1>1, <1>2, <1>3, <1>4, <1>5, <1>6, <1>7, <1>8

---------------------------------------------------------------------------
(* The types: the events *)

LEMMA EvTyped ==
  ASSUME NEW k \in Kind, NEW s \in Sess \cup {Nobody}, NEW c \in 0..MaxCall, NEW on \in BOOLEAN,
         k \in {"start", "dismissed"} => c \in Call,
         k \in {"joined", "attr", "voice"} => s \in Sess
  PROVE  Ev(k, s, c, on) \in Event
BY DEF Ev, Event

LEMMA StateTyped ==
  ASSUME NEW snap \in Snap, snap.call \in Call
  PROVE  [k |-> "state", snap |-> snap] \in Event
BY DEF Event

LEMMA EventParts ==
  ASSUME NEW e \in Event
  PROVE  /\ e.k = "state" => e.snap \in Snap /\ e.snap.call \in Call
         /\ e.k # "state" =>
              /\ e.k \in Kind /\ e.s \in Sess \cup {Nobody} /\ e.c \in 0..MaxCall /\ e.on \in BOOLEAN
              /\ e.k \in {"start", "dismissed"} => e.c \in Call
              /\ e.k \in {"joined", "attr", "voice"} => e.s \in Sess
BY DEF Event, Kind

LEMMA PublishTyped ==
  ASSUME feed \in Seq(Event), NEW evs \in Seq(Event), Publish(evs)
  PROVE  feed' \in Seq(Event)
BY DEF Publish

LEMMA MaybeTyped ==
  ASSUME NEW evs \in Seq(Event), NEW cond
  PROVE  Maybe(cond, evs) \in Seq(Event)
BY DEF Maybe

LEMMA ToTyped ==
  ASSUME NEW e \in Event, NEW t
  PROVE  <<e>> \in Seq(Event) /\ ToChannel(e) \in Seq(Event) /\ ToSessions(t, e) \in Seq(Event)
BY DEF ToChannel, ToSessions

---------------------------------------------------------------------------
(* The types: the plugin *)

LEMMA JoinTyped ==
  ASSUME TypedPlugin, NEW s \in Sess, PluginJoin(s)
  PROVE  TypedPlugin'
<1> DEFINE new == truth.call = 0
           c == IF new THEN truth.last + 1 ELSE truth.call
           t == IF new THEN [NoCall(c, truth.was) EXCEPT !.call = c, !.mine = s \in Mine, !.host = s]
                ELSE truth
           start == Ev("start", s, c, s \in Mine)
           joined == Ev("joined", s, c, TRUE)
           state == [k |-> "state", snap |-> truth']
<1>1. /\ c \in Call
      /\ truth' = [t EXCEPT !.sess = @ \cup {s}, !.was = @ \cup {s}]
      /\ Publish(Maybe(new, <<start>>) \o ToChannel(joined) \o Maybe(s \in Mine, <<state>>))
      /\ voice' = voice
  BY DEF PluginJoin
<1>2. truth \in Snap /\ c \in 0..MaxCall /\ (s \in Mine) \in BOOLEAN
  BY <1>1, Bounds DEF TypedPlugin
<1>3. t \in Snap /\ t.call = c
  <2>1. CASE new
    <3>1. truth.was \subseteq Sess
      BY <1>2 DEF Snap
    <3>2. t = [NoCall(c, truth.was) EXCEPT !.call = c, !.mine = s \in Mine, !.host = s]
      BY <2>1
    <3>3. NoCall(c, truth.was) \in Snap
      <4> HIDE DEF c
      <4> QED
        BY <1>2, <3>1, Bounds DEF NoCall, NoRecording, Snap
    <3> HIDE DEF c, t
    <3> QED
      BY <1>2, <3>2, <3>3 DEF Snap
  <2>2. CASE ~new
    BY <1>2, <2>2
  <2> QED
    BY <2>1, <2>2
<1>4. truth' \in Snap /\ truth'.call = c /\ truth'.sess # {}
  <2> HIDE DEF t, c
  <2> QED
    BY <1>1, <1>3 DEF Snap
<1>5. start \in Event /\ joined \in Event
  <2> HIDE DEF c
  <2> QED
    BY <1>1, <1>2, EvTyped DEF Kind
<1>6. state \in Event
  BY <1>1, <1>4, StateTyped
<1> HIDE DEF start, joined, state, new, c
<1>7. /\ Maybe(new, <<start>>) \in Seq(Event) /\ ToChannel(joined) \in Seq(Event)
      /\ Maybe(s \in Mine, <<state>>) \in Seq(Event)
  BY <1>5, <1>6, MaybeTyped, ToTyped
<1>8. feed' \in Seq(Event)
  <2>1. Maybe(new, <<start>>) \o ToChannel(joined) \o Maybe(s \in Mine, <<state>>) \in Seq(Event)
    BY <1>7
  <2> QED
    BY <1>1, <2>1, PublishTyped DEF TypedPlugin
<1>9. InCalls(truth')
  BY <1>1, <1>4, Bounds DEF InCalls
<1> QED
  BY <1>1, <1>4, <1>8, <1>9 DEF TypedPlugin, InCalls

LEMMA LeaveTyped ==
  ASSUME TypedPlugin, NEW s \in Sess, PluginLeave(s)
  PROVE  TypedPlugin'
<1> DEFINE rest == truth.sess \ {s}
           t == [truth EXCEPT !.sess = rest, !.attr = @ \ {s},
                              !.screen = IF @ = s THEN Nobody ELSE @]
           off == Ev("screenOff", Nobody, truth.call, FALSE)
           left == Ev("left", s, truth.call, FALSE)
<1>1. PICK h \in IF truth.host = s /\ rest # {} THEN rest ELSE {truth.host} :
        /\ truth' = IF rest = {} THEN NoCall(truth.last, truth.was) ELSE [t EXCEPT !.host = h]
        /\ Publish(Maybe(truth.screen = s, ToSessions(t, off)) \o ToChannel(left)
                   \o Maybe(h # truth.host, ToSessions(t, Ev("host", h, truth.call, TRUE))))
        /\ voice' = voice /\ s \in truth.sess
  BY DEF PluginLeave
<1> DEFINE host == Ev("host", h, truth.call, TRUE)
<1>2. truth \in Snap /\ InCalls(truth) /\ h \in Sess \cup {Nobody} /\ truth.call \in 0..MaxCall
  BY DEF TypedPlugin, Snap
<1>3. off \in Event /\ left \in Event /\ host \in Event
  BY <1>2, EvTyped DEF Kind
<1>4. t \in Snap /\ t.call = truth.call /\ t.sess = rest
  BY <1>2 DEF Snap
<1>5. truth' \in Snap /\ InCalls(truth')
  <2>1. CASE rest = {}
    <3>1. truth' = NoCall(truth.last, truth.was)
      BY <1>1, <2>1
    <3>2. truth.last \in 0..MaxCall /\ truth.was \subseteq Sess
      BY <1>2 DEF Snap
    <3> QED
      BY <3>1, <3>2, Bounds DEF NoCall, NoRecording, Snap, InCalls
  <2>2. CASE rest # {}
    <3>1. truth' = [t EXCEPT !.host = h] /\ truth.call # 0
      BY <1>1, <1>2, <2>2 DEF InCalls
    <3> HIDE DEF t
    <3> QED
      BY <1>2, <1>4, <2>2, <3>1 DEF Snap, InCalls
  <2> QED
    BY <2>1, <2>2
<1> HIDE DEF t, off, left, host
<1>6. /\ Maybe(truth.screen = s, ToSessions(t, off)) \in Seq(Event)
      /\ ToChannel(left) \in Seq(Event)
      /\ Maybe(h # truth.host, ToSessions(t, host)) \in Seq(Event)
  BY <1>3, MaybeTyped, ToTyped
<1>7. feed' \in Seq(Event)
  <2>1. Maybe(truth.screen = s, ToSessions(t, off)) \o ToChannel(left)
          \o Maybe(h # truth.host, ToSessions(t, host)) \in Seq(Event)
    BY <1>6
  <2> QED
    BY <1>1, <2>1, PublishTyped DEF TypedPlugin, host
<1> QED
  BY <1>1, <1>5, <1>7 DEF TypedPlugin, InCalls

\* What changes the call without its sessions, and publishes one event about it.
LEMMA ChangeTyped ==
  ASSUME TypedPlugin, NEW e \in Event, NEW t,
         Publish(<<e>>) \/ Publish(ToSessions(t, e)),
         truth' \in Snap, truth'.call = truth.call, truth'.sess = truth.sess, voice' = voice
  PROVE  TypedPlugin'
<1>1. feed' \in Seq(Event)
  BY ToTyped, PublishTyped DEF TypedPlugin
<1> QED
  BY <1>1 DEF TypedPlugin, InCalls

LEMMA ChangesTyped ==
  ASSUME TypedPlugin, NEW s \in Sess, NEW on \in BOOLEAN,
         \/ PluginAttr(s, on) \/ PluginScreen(s) \/ PluginHost(s)
         \/ PluginRecord \/ PluginEnd \/ PluginDismiss
  PROVE  TypedPlugin'
<1>1. truth \in Snap /\ truth.call \in 0..MaxCall
  BY DEF TypedPlugin, Snap
<1>2. \A k \in Kind \ {"start", "dismissed"}, h \in Sess, b \in BOOLEAN :
        Ev(k, h, truth.call, b) \in Event
  BY <1>1, EvTyped
<1>3. CASE PluginAttr(s, on)
  <2>1. /\ truth' = [truth EXCEPT !.attr = IF on THEN @ \cup {s} ELSE @ \ {s}]
        /\ Publish(ToSessions(truth, Ev("attr", s, truth.call, on))) /\ voice' = voice
    BY <1>3 DEF PluginAttr
  <2>2. Ev("attr", s, truth.call, on) \in Event
    BY <1>2 DEF Kind
  <2>3. truth' \in Snap /\ truth'.call = truth.call /\ truth'.sess = truth.sess
    BY <1>1, <2>1 DEF Snap
  <2> QED
    BY <2>1, <2>2, <2>3, ChangeTyped
<1>4. CASE PluginScreen(s)
  <2>1. /\ truth' \in {[truth EXCEPT !.screen = s], [truth EXCEPT !.screen = Nobody]}
        /\ \/ Publish(ToSessions(truth, Ev("screenOn", s, truth.call, TRUE)))
           \/ Publish(ToSessions(truth, Ev("screenOff", s, truth.call, FALSE)))
        /\ voice' = voice
    BY <1>4 DEF PluginScreen
  <2>2. Ev("screenOn", s, truth.call, TRUE) \in Event /\ Ev("screenOff", s, truth.call, FALSE) \in Event
    BY <1>2 DEF Kind
  <2>3. truth' \in Snap /\ truth'.call = truth.call /\ truth'.sess = truth.sess
    BY <1>1, <2>1 DEF Snap
  <2> QED
    BY <2>1, <2>2, <2>3, ChangeTyped
<1>5. CASE PluginHost(s)
  <2>1. /\ truth' = [truth EXCEPT !.host = s]
        /\ Publish(ToSessions(truth, Ev("host", s, truth.call, TRUE))) /\ voice' = voice
    BY <1>5 DEF PluginHost
  <2>2. Ev("host", s, truth.call, TRUE) \in Event
    BY <1>2 DEF Kind
  <2>3. truth' \in Snap /\ truth'.call = truth.call /\ truth'.sess = truth.sess
    BY <1>1, <2>1 DEF Snap
  <2> QED
    BY <2>1, <2>2, <2>3, ChangeTyped
<1>6. CASE PluginRecord
  <2>1. /\ truth' = [truth EXCEPT !.rec = [c |-> truth.call, on |-> ~@.on]]
        /\ Publish(ToSessions(truth, Ev("job", Nobody, truth.call, truth'.rec.on))) /\ voice' = voice
    BY <1>6 DEF PluginRecord
  <2>2. truth' \in Snap /\ truth'.call = truth.call /\ truth'.sess = truth.sess /\ truth'.rec.on \in BOOLEAN
    BY <1>1, <2>1 DEF Snap
  <2>3. Ev("job", Nobody, truth.call, truth'.rec.on) \in Event
    BY <1>1, <2>2, EvTyped DEF Kind
  <2> QED
    BY <2>1, <2>2, <2>3, ChangeTyped
<1>7. CASE PluginEnd
  <2>1. /\ truth' = [truth EXCEPT !.ending = TRUE]
        /\ Publish(<<Ev("end", Nobody, truth.call, FALSE)>>) /\ voice' = voice
    BY <1>7 DEF PluginEnd, ToChannel
  <2>2. truth' \in Snap /\ truth'.call = truth.call /\ truth'.sess = truth.sess
    BY <1>1, <2>1 DEF Snap
  <2>3. Ev("end", Nobody, truth.call, FALSE) \in Event
    BY <1>1, EvTyped DEF Kind
  <2> QED
    BY <2>1, <2>2, <2>3, ChangeTyped
<1>8. CASE PluginDismiss
  <2>1. /\ truth' = [truth EXCEPT !.dismissed = TRUE] /\ truth.call # 0
        /\ Publish(<<Ev("dismissed", Nobody, truth.call, TRUE)>>) /\ voice' = voice
    BY <1>8 DEF PluginDismiss
  <2>2. truth' \in Snap /\ truth'.call = truth.call /\ truth'.sess = truth.sess
    BY <1>1, <2>1 DEF Snap
  <2>3. Ev("dismissed", Nobody, truth.call, TRUE) \in Event
    BY <1>1, <2>1, EvTyped, Bounds DEF Kind
  <2> QED
    BY <2>1, <2>2, <2>3, ChangeTyped
<1> QED
  BY <1>3, <1>4, <1>5, <1>6, <1>7, <1>8

LEMMA VoiceTyped ==
  ASSUME TypedPlugin, NEW s \in Sess, PluginVoiceRead(s) \/ PluginVoice(s)
  PROVE  TypedPlugin'
<1>1. CASE PluginVoiceRead(s)
  BY <1>1 DEF PluginVoiceRead, TypedPlugin, InCalls
<1>2. CASE PluginVoice(s)
  <2>1. Ev("voice", s, 0, TRUE) \in Event
    BY EvTyped, Bounds DEF Kind
  <2>2. feed' \in Seq(Event)
    BY <1>2, <2>1, ToTyped, PublishTyped DEF PluginVoice, TypedPlugin
  <2> QED
    BY <1>2, <2>2 DEF PluginVoice, TypedPlugin, InCalls
<1> QED
  BY <1>1, <1>2

LEMMA StateReadTyped ==
  ASSUME TypedPlugin, PluginState
  PROVE  TypedPlugin'
<1> DEFINE state == [k |-> "state", snap |-> truth]
<1>1. /\ Publish(Maybe(truth.call # 0, <<state>>)) /\ UNCHANGED <<truth, voice>>
      /\ truth \in Snap /\ truth.call \in 0..MaxCall
  BY DEF PluginState, TypedPlugin, Snap
<1>2. truth.call # 0 => state \in Event
  BY <1>1, Bounds, StateTyped
<1> HIDE DEF state
<1>3. Maybe(truth.call # 0, <<state>>) \in Seq(Event)
  BY <1>2 DEF Maybe
<1>4. feed' \in Seq(Event)
  BY <1>1, <1>3, PublishTyped DEF TypedPlugin
<1> QED
  BY <1>1, <1>4 DEF TypedPlugin, InCalls

LEMMA PluginTyped ==
  ASSUME TypedPlugin, PluginStep
  PROVE  TypedPlugin'
<1>1. ASSUME NEW s \in Sess, NEW on \in BOOLEAN,
             \/ PluginJoin(s) \/ PluginLeave(s) \/ PluginScreen(s) \/ PluginHost(s)
             \/ PluginVoiceRead(s) \/ PluginVoice(s) \/ PluginAttr(s, on)
      PROVE  TypedPlugin'
  BY <1>1, JoinTyped, LeaveTyped, ChangesTyped, VoiceTyped
<1>2. CASE PluginRecord \/ PluginEnd \/ PluginDismiss
  BY <1>2, ChangesTyped, Bounds
<1>3. CASE PluginState
  BY <1>3, StateReadTyped
<1>4. CASE PluginChannels
  BY <1>4 DEF PluginChannels, server, TypedPlugin, InCalls
<1> QED
  BY <1>1, <1>2, <1>3, <1>4 DEF PluginStep

\* The load and the bounds change with no operation but that of the load.
LEMMA PluginLoadTyped ==
  ASSUME TypedPlugin, TypedLoad, PluginStep
  PROVE  TypedLoad'
<1>1. ASSUME NEW s \in Sess, NEW on \in BOOLEAN,
             \/ PluginJoin(s) \/ PluginLeave(s) \/ PluginScreen(s) \/ PluginHost(s)
             \/ PluginVoiceRead(s) \/ PluginVoice(s) \/ PluginAttr(s, on)
             \/ PluginRecord \/ PluginEnd \/ PluginDismiss \/ PluginState
      PROVE  /\ online' = online /\ rings' = rings /\ fetch' = fetch
             /\ asked' \in {asked, FALSE} /\ gaps' \in {gaps, gaps \cup {"voice"}}
             /\ ops' \in {ops, ops + 1} /\ (ops' = ops \/ ops < MaxOps)
  <2> USE DEF Op, ViewOp, client
  <2>1. CASE PluginJoin(s) \/ PluginLeave(s)
    BY <2>1 DEF PluginJoin, PluginLeave
  <2>2. CASE PluginScreen(s) \/ PluginHost(s) \/ PluginAttr(s, on)
    BY <2>2 DEF PluginScreen, PluginHost, PluginAttr
  <2>3. CASE PluginVoiceRead(s) \/ PluginVoice(s)
    BY <2>3 DEF PluginVoiceRead, PluginVoice
  <2>4. CASE PluginRecord \/ PluginEnd \/ PluginDismiss
    BY <2>4 DEF PluginRecord, PluginEnd, PluginDismiss
  <2>5. CASE PluginState
    BY <2>5 DEF PluginState
  <2> QED
    BY <1>1, <2>1, <2>2, <2>3, <2>4, <2>5
<1>2. ASSUME online' = online, rings' = rings, fetch' = fetch,
             asked' \in {asked, FALSE}, gaps' \in {gaps, gaps \cup {"voice"}},
             ops' \in {ops, ops + 1}, ops' = ops \/ ops < MaxOps
      PROVE  TypedLoad'
  <2>1. ops' \in 0..MaxOps
    BY <1>2, StoreAssumption DEF TypedLoad
  <2> QED
    BY <1>2, <2>1 DEF TypedLoad, InCalls
<1>3. CASE PluginChannels
  BY <1>3 DEF PluginChannels, server, TypedPlugin, TypedLoad, Fetch, InCalls
<1> QED
  <2>1. Sess # {} /\ TRUE \in BOOLEAN
    BY Bounds
  <2> QED
    BY <1>1, <1>2, <1>3, <2>1 DEF PluginStep

---------------------------------------------------------------------------
(* The types: the client *)

LEMMA HandlerTyped ==
  ASSUME Typed, Handler
  PROVE  Typed'
<1> DEFINE K == {"start", "joined", "left", "attr", "voice", "screenOn", "screenOff", "host",
                 "job", "end", "dismissed", "state"}
<1>1. PICK k \in K : Arrives(k)
  BY DEF Handler, HandleCallStart, HandleUserJoined, HandleUserLeft, HandleUserAttr,
         HandleUserVoice, HandleUserScreenOn, HandleUserScreenOff, HandleCallHostChanged,
         HandleCallJobState, HandleCallEnd, HandleUserDismissed, HandleCallState
<1>2. TypedStore(store) /\ feed \in Seq(Event) /\ feed # <<>>
  BY <1>1 DEF Arrives, Typed, TypedPlugin
<1>3. E \in Event /\ Tail(feed) \in Seq(Event)
  BY <1>2 DEF E
<1>4. TypedPlugin'
  BY <1>1, <1>3 DEF Arrives, Typed, TypedPlugin, InCalls
<1>5. TypedLoad'
  BY <1>1 DEF Arrives, Typed, TypedLoad, InCalls
<1>6. TypedStore(store')
  <2> USE DEF Arrives, E
  <2>1. CASE HandleCallStart
    BY <1>2, <1>3, <2>1, EventParts, CallStartsTyped DEF HandleCallStart
  <2>2. CASE HandleUserJoined
    BY <1>2, <1>3, <2>2, EventParts, UserJoinsTyped DEF HandleUserJoined
  <2>3. CASE HandleUserLeft
    BY <1>2, <2>3, UserLeavesTyped DEF HandleUserLeft
  <2>4. CASE HandleUserAttr
    BY <1>2, <1>3, <2>4, EventParts, OtherFieldsTyped DEF HandleUserAttr
  <2>5. CASE HandleUserVoice
    BY <1>2, <1>3, <2>5, EventParts, OtherFieldsTyped DEF HandleUserVoice
  <2>6. CASE HandleUserScreenOn
    BY <1>2, <1>3, <2>6, EventParts, OtherFieldsTyped DEF HandleUserScreenOn
  <2>7. CASE HandleUserScreenOff
    BY <1>2, <1>3, <2>7, EventParts, OtherFieldsTyped DEF HandleUserScreenOff
  <2>8. CASE HandleCallHostChanged
    BY <1>2, <1>3, <2>8, EventParts, OtherFieldsTyped DEF HandleCallHostChanged
  <2>9. CASE HandleCallJobState
    BY <1>2, <2>9, OtherFieldsTyped, Bounds DEF HandleCallJobState
  <2>10. CASE HandleCallEnd
    BY <1>2, <2>10, CallEndsTyped DEF HandleCallEnd
  <2>11. CASE HandleUserDismissed
    BY <1>2, <1>3, <2>11, EventParts, DismissalTyped DEF HandleUserDismissed
  <2>12. CASE HandleCallState
    BY <1>2, <1>3, <2>12, EventParts, LoadCallTyped DEF HandleCallState
  <2> QED
    BY <2>1, <2>2, <2>3, <2>4, <2>5, <2>6, <2>7, <2>8, <2>9, <2>10, <2>11, <2>12 DEF Handler
<1> QED
  BY <1>4, <1>5, <1>6 DEF Typed, TypedStore, IsStore

LEMMA LoadTyped ==
  ASSUME Typed, Drop \/ Reconnect \/ FetchChannels \/ Activated
  PROVE  Typed'
<1>1. TypedStore(store) /\ TypedPlugin /\ TypedLoad
  BY DEF Typed
<1>2. CASE Drop
  <2>1. TypedPlugin'
    BY <1>1, <1>2 DEF Drop, TypedPlugin, InCalls
  <2>2. TypedLoad'
    <3>1. ops' \in 0..MaxOps
      BY <1>1, <1>2, StoreAssumption DEF Drop, TypedLoad
    <3> QED
      BY <1>1, <1>2, <3>1 DEF Drop, TypedLoad, InCalls
  <2> QED
    BY <1>1, <1>2, <2>1, <2>2 DEF Drop, Typed, TypedStore, IsStore
<1>3. CASE Reconnect
  <2>1. TypedPlugin'
    BY <1>1, <1>3 DEF Reconnect, server, TypedPlugin, InCalls
  <2>2. TypedLoad'
    BY <1>1, <1>3 DEF Reconnect, server, TypedLoad, Fetch, InCalls
  <2>3. TypedStore(store')
    BY <1>1, <1>3, OtherFieldsTyped DEF Reconnect
  <2> QED
    BY <2>1, <2>2, <2>3 DEF Typed, TypedStore, IsStore
<1>4. CASE FetchChannels
  <2>1. TypedPlugin'
    BY <1>1, <1>4 DEF FetchChannels, server, TypedPlugin, InCalls
  <2>2. TypedLoad'
    BY <1>1, <1>4 DEF FetchChannels, server, TypedStore, TypedLoad, Fetch, InCalls
  <2> QED
    BY <1>1, <1>4, <2>1, <2>2 DEF FetchChannels, Typed, TypedStore, IsStore
<1>5. CASE Activated
  <2>1. TypedPlugin'
    BY <1>1, <1>5 DEF Activated, TypedPlugin, InCalls
  <2>2. TypedLoad'
    BY <1>1, <1>5 DEF Activated, TypedLoad, Fetch, InCalls
  <2>3. fetch.snap \in Snap /\ InCalls(fetch.snap)
    BY <1>1, <1>5 DEF Activated, TypedLoad, Fetch
  <2>4. TypedStore(store')
    BY <1>1, <1>5, <2>3, LoadChannelsTyped DEF Activated
  <2> QED
    BY <2>1, <2>2, <2>4 DEF Typed, TypedStore, IsStore
<1> QED
  BY <1>2, <1>3, <1>4, <1>5

LEMMA UserTyped ==
  ASSUME Typed, NEW c, NEW i,
         \/ ConnectCall \/ LeaveCall
         \/ c \in Call /\ (OnDismiss(c) \/ OnJoin(c) \/ RingEffect(c) \/ RingTimeout(c))
         \/ i \in Invite /\ (InviteChannel(i) \/ InviteProfile(i))
  PROVE  Typed'
<1>1. TypedStore(store) /\ TypedPlugin /\ TypedLoad
  BY DEF Typed
<1>2. UserStep
  BY DEF ConnectCall, LeaveCall, OnDismiss, OnJoin, RingEffect, RingTimeout, InviteChannel,
         InviteProfile
<1>3. TypedPlugin' /\ TypedLoad'
  BY <1>1, <1>2 DEF UserStep, server, TypedPlugin, TypedLoad, InCalls
<1>4. TypedStore(store')
  <2>1. CASE ConnectCall
    BY <1>1, <2>1, OtherFieldsTyped, Bounds DEF ConnectCall
  <2>2. CASE LeaveCall
    BY <1>1, <2>2, SessionClosedTyped DEF LeaveCall
  <2>3. CASE c \in Call /\ OnDismiss(c)
    BY <1>1, <2>3, DismissalTyped DEF OnDismiss
  <2>4. CASE c \in Call /\ OnJoin(c)
    <3>1. TypedStore(Dismissal(store, c))
      BY <1>1, <2>4, DismissalTyped
    <3> QED
      BY <2>4, <3>1 DEF OnJoin, TypedStore, IsStore
  <2>5. CASE c \in Call /\ RingEffect(c)
    <3> DEFINE shown == [store EXCEPT !.mounted = @ \cup {c}]
    <3>1. TypedStore(shown)
      BY <1>1, <2>5 DEF TypedStore, IsStore
    <3> DEFINE silent == [shown EXCEPT !.ringing = @ \ {c}, !.didRing = @ \cup {c}]
               heard == [shown EXCEPT !.ringing = @ \cup {c}, !.didRing = @ \cup {c},
                                      !.timers = @ \cup {c}, !.sound = TRUE]
    <3>2. store' \in {shown, silent, heard}
      BY <2>5 DEF RingEffect
    <3> HIDE DEF shown
    <3>3. TypedStore(silent)
      BY <3>1 DEF TypedStore, IsStore
    <3>4. TypedStore(heard)
      BY <2>5, <3>1 DEF TypedStore, IsStore
    <3> HIDE DEF silent, heard
    <3> QED
      BY <3>1, <3>2, <3>3, <3>4
  <2>6. CASE c \in Call /\ RingTimeout(c)
    BY <1>1, <2>6 DEF RingTimeout, StopRinging, TypedStore, IsStore
  <2>7. CASE i \in Invite /\ InviteChannel(i)
    BY <1>1, <2>7 DEF InviteChannel, Invite, TypedStore, IsStore
  <2>8. CASE i \in Invite /\ InviteProfile(i)
    BY <1>1, <2>8 DEF InviteProfile, Invite, TypedStore, IsStore
  <2> QED
    BY <2>1, <2>2, <2>3, <2>4, <2>5, <2>6, <2>7, <2>8
<1> QED
  BY <1>3, <1>4 DEF Typed, TypedStore, IsStore

LEMMA TypedStep ==
  ASSUME Typed, [StoreNext]_storeVars
  PROVE  Typed'
<1>1. CASE PluginStep
  BY <1>1, PluginTyped, PluginLoadTyped, PluginKeepsStore DEF Typed, TypedStore, IsStore
<1>2. CASE Handler
  BY <1>2, HandlerTyped
<1>3. CASE Drop \/ Reconnect \/ FetchChannels \/ Activated
  BY <1>3, LoadTyped
<1>4. ASSUME NEW c, NEW i,
             \/ ConnectCall \/ LeaveCall
             \/ c \in Call /\ (OnDismiss(c) \/ OnJoin(c) \/ RingEffect(c) \/ RingTimeout(c))
             \/ i \in Invite /\ (InviteChannel(i) \/ InviteProfile(i))
      PROVE  Typed'
  BY <1>4, UserTyped
<1>5. CASE UNCHANGED storeVars
  BY <1>5 DEF storeVars, Typed, TypedStore, IsStore, TypedPlugin, TypedLoad, InCalls
<1> QED
  BY <1>1, <1>2, <1>3, <1>4, <1>5 DEF StoreNext

\* Whatever the plugin, the network and the user do, every variable has its type: no call,
\* session or invitation gets into the store that the plugin has not had (reducers.ts).
THEOREM StoreTyped ==
  StoreSpec => []StoreTypeOK
<1>1. Typed => StoreTypeOK
  BY DEF Typed, TypedStore, TypedPlugin, TypedLoad, StoreTypeOK
<1> QED
  BY <1>1, TypedInit, TypedStep, PTL DEF StoreSpec

---------------------------------------------------------------------------
(* The view: what is shown, and what the events on their way will make of it *)

\* The part of the store, or of the plugin's call, that ViewConverges is about.
ViewOf(x) ==
    [call |-> x.call, sess |-> x.sess, attr |-> x.attr, screen |-> x.screen, host |-> x.host]

\* The event ends the call that is shown.
Over(w, e) == e.k = "end" \/ (e.k = "left" /\ w.sess \ {e.s} = {})

\* What the handler of event e makes of view w.
Shows(w, e) ==
    IF e.k = "state" THEN ViewOf(e.snap) ELSE
    [call |-> IF Over(w, e) THEN 0 ELSE IF e.k = "start" THEN e.c ELSE w.call,
     sess |-> IF e.k = "end" THEN {} ELSE IF e.k = "left" THEN w.sess \ {e.s}
              ELSE IF e.k \in {"joined", "attr", "voice"} THEN w.sess \cup {e.s} ELSE w.sess,
     attr |-> IF Over(w, e) THEN {} ELSE IF e.k = "attr" /\ e.on THEN w.attr \cup {e.s}
              ELSE IF e.k \in {"joined", "left", "attr"} THEN w.attr \ {e.s} ELSE w.attr,
     screen |-> IF e.k = "screenOn" THEN e.s
                ELSE IF e.k \in {"left", "screenOff"} /\ w.screen = e.s THEN Nobody ELSE w.screen,
     host |-> IF e.k \in {"start", "host"} THEN e.s ELSE w.host]

\* W[k] is what is shown when the first k events of F have arrived.
Path(W, F) == \A k \in 1..Len(F) : W[k] = Shows(W[k - 1], F[k])

NoState(F, k) == \A j \in 1..Len(F) : j > k => F[j].k # "state"
HasState(F) == \E j \in 1..Len(F) : F[j].k = "state"

Same(w, t) == w.call = t.call /\ w.sess = t.sess
Alike(w, t) == w.attr = t.attr /\ w.host = t.host /\ w.screen = t.screen

\* No call is shown, but sessions may be that have been heard of.
Without(w, t) == w.call = 0 /\ w.sess \subseteq t.sess
Untold(W, F) ==
    /\ \A k \in 0..Len(F) : W[k].call = 0
    /\ \A k \in 1..Len(F) : F[k].k # "end"

Ends(W, F, t, part) ==
    \/ Same(W[Len(F)], t)
    \/ Without(W[Len(F)], t) /\ (t.ending \/ (part /\ Untold(W, F)))

Stays(W, F, t) ==
    /\ Alike(W[Len(F)], t)
    /\ \A k \in 0..Len(F) : NoState(F, k) => W[k].call = t.call /\ Me \in W[k].sess

\* In the end the events show the call t: or none, while it ends, or while a part of the
\* state is still to be loaded. In the call (in) nothing but a state on its way may change
\* what call is shown.
Right(W, F, t, part, in) ==
    Path(W, F) /\ Ends(W, F, t, part) /\ (in => Stays(W, F, t))

---------------------------------------------------------------------------
(* Inductions over the events *)

LEMMA NatMin ==
  ASSUME NEW T, T \subseteq Nat, T # {}
  PROVE  \E n \in T : \A m \in T : n <= m
<1>1. PICK n \in T : \A m \in T : ~ (<<m, n>> \in OpToRel(<, Nat))
  BY NatLessThanWellFounded, WFMin, Zenon
<1>2. \A m \in T : <<m, n>> \in OpToRel(<, Nat) <=> m < n
  BY Zenon DEF OpToRel
<1>3. \A m \in T : ~ (m < n)
  BY <1>1, <1>2, Zenon
<1> QED
  BY <1>3

LEMMA SetInduction ==
  ASSUME NEW T, 0 \in T, \A n \in T \cap Nat : n + 1 \in T
  PROVE  Nat \subseteq T
<1> SUFFICES ASSUME Nat \ T # {} PROVE FALSE
  OBVIOUS
<1>1. PICK n \in Nat \ T : \A m \in Nat \ T : n <= m
  BY NatMin
<1>2. n # 0 /\ n - 1 \in T \cap Nat /\ (n - 1) + 1 = n
  BY <1>1
<1> QED
  BY <1>1, <1>2

\* What is shown can be followed from any view on.
LEMMA PathExists ==
  ASSUME NEW F, Len(F) \in Nat, NEW v
  PROVE  \E W : W[0] = v /\ Path(W, F)
<1> DEFINE Upto(W, n) == W[0] = v /\ \A k \in 1..n : W[k] = Shows(W[k - 1], F[k])
           T == {n \in Nat : \E W : Upto(W, n)}
<1>1. 0 \in T
  <2>1. Upto([k \in 0..0 |-> v], 0)
    OBVIOUS
  <2> QED
    BY <2>1
<1>2. ASSUME NEW n \in T \cap Nat
      PROVE  n + 1 \in T
  <2>1. PICK W : Upto(W, n)
    OBVIOUS
  <2> DEFINE X == [k \in 0..(n + 1) |-> IF k = n + 1 THEN Shows(W[n], F[n + 1]) ELSE W[k]]
  <2>2. X[0] = v
    BY <2>1
  <2>3. X[n + 1] = Shows(W[n], F[n + 1]) /\ X[n] = W[n] /\ (n + 1) - 1 = n
    OBVIOUS
  <2>4. \A k \in 1..n : X[k] = W[k] /\ X[k - 1] = W[k - 1]
    OBVIOUS
  <2> HIDE DEF X
  <2>5. ASSUME NEW k \in 1..(n + 1)
        PROVE  X[k] = Shows(X[k - 1], F[k])
    <3>1. CASE k = n + 1
      BY <2>3, <3>1
    <3>2. CASE k # n + 1
      <4>1. k \in 1..n
        BY <3>2
      <4> QED
        BY <2>1, <2>4, <4>1
    <3> QED
      BY <3>1, <3>2
  <2>6. Upto(X, n + 1)
    BY <2>2, <2>5
  <2> HIDE DEF Upto
  <2> QED
    BY <2>6
<1>3. Nat \subseteq T
  <2> HIDE DEF T
  <2> QED
    BY <1>1, <1>2, SetInduction
<1> QED
  BY <1>3 DEF Path

\* From a state on, what was shown before it does not matter.
LEMMA Merge ==
  ASSUME NEW F, Len(F) \in Nat, NEW W, Path(W, F), NEW V, Path(V, F)
  PROVE  \A k \in 0..Len(F) : (\E j \in 1..k : F[j].k = "state") => V[k] = W[k]
<1> DEFINE Met(k) == (\E j \in 1..k : F[j].k = "state") => V[k] = W[k]
           T == {k \in Nat : k <= Len(F) => Met(k)}
<1>1. 0 \in T
  OBVIOUS
<1>2. ASSUME NEW n \in T \cap Nat
      PROVE  n + 1 \in T
  <2> SUFFICES ASSUME n + 1 <= Len(F), NEW j \in 1..(n + 1), F[j].k = "state"
               PROVE  V[n + 1] = W[n + 1]
    OBVIOUS
  <2>1. n + 1 \in 1..Len(F) /\ (n + 1) - 1 = n
    OBVIOUS
  <2>2. V[n + 1] = Shows(V[n], F[n + 1]) /\ W[n + 1] = Shows(W[n], F[n + 1])
    BY <2>1 DEF Path
  <2>3. CASE F[n + 1].k = "state"
    BY <2>2, <2>3 DEF Shows
  <2>4. CASE F[n + 1].k # "state"
    <3>1. j \in 1..n /\ n <= Len(F)
      BY <2>4
    <3>2. V[n] = W[n]
      BY <3>1
    <3> QED
      BY <2>2, <3>2
  <2> QED
    BY <2>3, <2>4
<1>3. Nat \subseteq T
  <2> HIDE DEF T
  <2> QED
    BY <1>1, <1>2, SetInduction
<1> QED
  BY <1>3

---------------------------------------------------------------------------
(* The handlers show what Shows says *)

LEMMA CallEndsShows ==
  ASSUME NEW st, IsStore(st)
  PROVE  /\ CallEnds(st).call = 0 /\ CallEnds(st).sess = {} /\ CallEnds(st).attr = {}
         /\ CallEnds(st).screen = st.screen /\ CallEnds(st).host = st.host
         /\ CallEnds(st).client = FALSE
BY DEF IsStore, CallEnds, RemoveIncoming, StopRinging, SessionClosed

LEMMA UserLeavesShows ==
  ASSUME NEW st, IsStore(st), NEW e, e.k = "left"
  PROVE  /\ ViewOf(UserLeaves(st, e.s)) = Shows(ViewOf(st), e)
         /\ UserLeaves(st, e.s).client \in {st.client, FALSE}
<1> DEFINE s == e.s
           rest == [st EXCEPT !.sess = @ \ {s}, !.attr = @ \ {s},
                              !.screen = IF @ = s THEN Nobody ELSE @]
<1>1. /\ IsStore(rest) /\ rest.call = st.call /\ rest.sess = st.sess \ {s}
      /\ rest.attr = st.attr \ {s} /\ rest.screen = IF st.screen = s THEN Nobody ELSE st.screen
      /\ rest.host = st.host /\ rest.client = st.client
  BY DEF IsStore
<1>2. UserLeaves(st, s) = IF rest.sess = {} THEN CallEnds(rest) ELSE rest
  BY DEF UserLeaves
<1> HIDE DEF rest
<1>3. CASE rest.sess = {}
  <2> DEFINE over == CallEnds(rest)
  <2>1. /\ over.call = 0 /\ over.sess = {} /\ over.attr = {} /\ over.host = st.host
        /\ over.screen = (IF st.screen = s THEN Nobody ELSE st.screen) /\ over.client = FALSE
    BY <1>1, CallEndsShows
  <2>2. UserLeaves(st, s) = over
    BY <1>2, <1>3
  <2>3. st.sess \ {s} = {}
    BY <1>1, <1>3
  <2> HIDE DEF over
  <2> QED
    BY <2>1, <2>2, <2>3 DEF ViewOf, Shows, Over
<1>4. CASE rest.sess # {}
  BY <1>1, <1>2, <1>4 DEF ViewOf, Shows, Over
<1> QED
  BY <1>3, <1>4

LEMMA UserJoinsShows ==
  ASSUME NEW st, IsStore(st), NEW e, e.k = "joined"
  PROVE  /\ ViewOf(UserJoins(st, e.s)) = Shows(ViewOf(st), e)
         /\ UserJoins(st, e.s).client = st.client
<1> DEFINE s == e.s
           seen == IF rings /\ s \in Mine THEN [RemoveIncoming(st, st.call) EXCEPT !.sound = FALSE]
                   ELSE st
<1>1. /\ IsStore(seen) /\ seen.call = st.call /\ seen.sess = st.sess /\ seen.attr = st.attr
      /\ seen.screen = st.screen /\ seen.host = st.host /\ seen.client = st.client
  BY DEF IsStore, RemoveIncoming, StopRinging
<1>2. UserJoins(st, s) = [seen EXCEPT !.sess = @ \cup {s}, !.attr = @ \ {s}]
  BY DEF UserJoins
<1> HIDE DEF seen
<1> QED
  BY <1>1, <1>2 DEF IsStore, ViewOf, Shows, Over

LEMMA OthersShow ==
  ASSUME NEW st, IsStore(st), NEW e, NEW st2,
         \/ e.k = "start" /\ st2 = CallStarts(st, e)
         \/ e.k = "attr" /\ st2 = SetAttr(st, e.s, e.on)
         \/ e.k = "voice" /\ st2 = [st EXCEPT !.sess = @ \cup {e.s}]
         \/ e.k = "screenOn" /\ st2 = [st EXCEPT !.screen = e.s]
         \/ e.k = "screenOff" /\ st2 = [st EXCEPT !.screen = IF @ = e.s THEN Nobody ELSE @]
         \/ e.k = "host" /\ st2 = [st EXCEPT !.host = e.s]
         \/ e.k = "job" /\ st2 = [st EXCEPT !.rec = [c |-> e.c, on |-> e.on]]
         \/ e.k = "end" /\ st2 = CallEnds(st)
         \/ e.k = "dismissed" /\ st2 = Dismissal(st, e.c)
         \/ e.k = "state" /\ st2 = LoadCall(st, e.snap)
  PROVE  ViewOf(st2) = Shows(ViewOf(st), e) /\ st2.client \in {st.client, FALSE}
<1> USE DEF IsStore, ViewOf, Shows, Over
<1>1. CASE e.k = "start" /\ st2 = CallStarts(st, e)
  BY <1>1 DEF CallStarts
<1>2. CASE e.k = "attr" /\ st2 = SetAttr(st, e.s, e.on)
  BY <1>2 DEF SetAttr
<1>3. CASE e.k = "voice" /\ st2 = [st EXCEPT !.sess = @ \cup {e.s}]
  BY <1>3
<1>4. CASE \/ e.k = "screenOn" /\ st2 = [st EXCEPT !.screen = e.s]
           \/ e.k = "screenOff" /\ st2 = [st EXCEPT !.screen = IF @ = e.s THEN Nobody ELSE @]
  BY <1>4
<1>5. CASE \/ e.k = "host" /\ st2 = [st EXCEPT !.host = e.s]
           \/ e.k = "job" /\ st2 = [st EXCEPT !.rec = [c |-> e.c, on |-> e.on]]
  BY <1>5
<1>6. CASE e.k = "end" /\ st2 = CallEnds(st)
  BY <1>6, CallEndsShows
<1>7. CASE e.k = "dismissed" /\ st2 = Dismissal(st, e.c)
  BY <1>7 DEF Dismissal, RemoveIncoming, StopRinging
<1>8. CASE e.k = "state" /\ st2 = LoadCall(st, e.snap)
  BY <1>8 DEF LoadCall
<1> QED
  BY <1>1, <1>2, <1>3, <1>4, <1>5, <1>6, <1>7, <1>8

LEMMA HandlerShows ==
  ASSUME IsStore(store), Handler
  PROVE  /\ ViewOf(store') = Shows(ViewOf(store), Head(feed))
         /\ store'.client \in {store.client, FALSE}
         /\ feed # <<>> /\ feed' = Tail(feed)
         /\ gaps' = IF fetch.st = "answered" /\ ~fetch.skip THEN gaps \cup {"fetch"}
                    ELSE IF Head(feed).k = "state" THEN gaps \cap {"voice"} ELSE gaps
         /\ UNCHANGED <<truth, asked, online, fetch>>
<1> USE DEF Arrives, E
<1>1. CASE HandleUserLeft
  BY <1>1, UserLeavesShows DEF HandleUserLeft
<1>2. CASE HandleUserJoined
  BY <1>2, UserJoinsShows DEF HandleUserJoined
<1>3. CASE HandleCallStart
  BY <1>3, OthersShow DEF HandleCallStart
<1>4. CASE HandleUserAttr
  BY <1>4, OthersShow DEF HandleUserAttr
<1>5. CASE HandleUserVoice
  BY <1>5, OthersShow DEF HandleUserVoice
<1>6. CASE HandleUserScreenOn
  BY <1>6, OthersShow DEF HandleUserScreenOn
<1>7. CASE HandleUserScreenOff
  BY <1>7, OthersShow DEF HandleUserScreenOff
<1>8. CASE HandleCallHostChanged
  BY <1>8, OthersShow DEF HandleCallHostChanged
<1>9. CASE HandleCallJobState
  BY <1>9, OthersShow DEF HandleCallJobState
<1>10. CASE HandleCallEnd
  BY <1>10, OthersShow DEF HandleCallEnd
<1>11. CASE HandleUserDismissed
  BY <1>11, OthersShow DEF HandleUserDismissed
<1>12. CASE HandleCallState
  BY <1>12, OthersShow DEF HandleCallState
<1> QED
  BY <1>1, <1>2, <1>3, <1>4, <1>5, <1>6, <1>7, <1>8, <1>9, <1>10, <1>11, <1>12 DEF Handler

---------------------------------------------------------------------------
(* One event more, and one event less *)

\* The event turns call t into u: a view that was right before it is right after it.
Leads(e, t, u) ==
    \A w : LET x == Shows(w, e) IN
        /\ Same(w, t) => Same(x, u) \/ (Without(x, u) /\ u.ending)
        /\ Without(w, t) => \/ Same(x, u)
                            \/ Without(x, u) /\ (u.ending \/ (~t.ending /\ e.k # "end"))

\* And in the call it does for the rest of the view what the plugin does.
KeepsRest(e, t, u) ==
    \A w : Same(w, t) /\ Alike(w, t) =>
        Same(Shows(w, e), u) /\ Alike(Shows(w, e), u)

LEMMA AppendPath ==
  ASSUME NEW S, NEW F \in Seq(S), NEW e \in S, NEW W, Path(W, F)
  PROVE  \E X : /\ Path(X, Append(F, e)) /\ \A k \in 0..Len(F) : X[k] = W[k]
                /\ X[Len(F) + 1] = Shows(W[Len(F)], e)
<1> DEFINE n == Len(F)
           G == Append(F, e)
           X == [k \in 0..(n + 1) |-> IF k = n + 1 THEN Shows(W[n], e) ELSE W[k]]
<1>1. n \in Nat /\ Len(G) = n + 1 /\ G[n + 1] = e /\ \A k \in 1..n : G[k] = F[k]
  OBVIOUS
<1>2. X[n + 1] = Shows(W[n], e) /\ \A k \in 0..n : X[k] = W[k]
  BY <1>1
<1> HIDE DEF X, G
<1>3. ASSUME NEW k \in 1..(n + 1)
      PROVE  X[k] = Shows(X[k - 1], G[k])
  <2>1. CASE k = n + 1
    <3>1. k - 1 = n /\ n \in 0..n
      BY <1>1, <2>1
    <3> QED
      BY <1>1, <1>2, <2>1, <3>1
  <2>2. CASE k # n + 1
    <3>1. k \in 1..n /\ k \in 0..n /\ k - 1 \in 0..n
      BY <1>1, <2>2
    <3> QED
      BY <1>1, <1>2, <3>1 DEF Path
  <2> QED
    BY <2>1, <2>2
<1>4. Path(X, G)
  BY <1>1, <1>3 DEF Path
<1> QED
  BY <1>2, <1>4 DEF G

LEMMA AppendRight ==
  ASSUME NEW S, NEW F \in Seq(S), NEW e \in S, NEW W, NEW t, NEW u, NEW part, NEW in, NEW in2,
         Right(W, F, t, part, in), Leads(e, t, u), e.k # "state",
         in2 => in /\ Me \in u.sess /\ u.call = t.call /\ t.call # 0 /\ KeepsRest(e, t, u)
  PROVE  \E X : X[0] = W[0] /\ Right(X, Append(F, e), u, part, in2)
<1> DEFINE n == Len(F)
           G == Append(F, e)
<1>1. n \in Nat /\ Len(G) = n + 1 /\ G[n + 1] = e /\ \A k \in 1..n : G[k] = F[k]
  OBVIOUS
<1>2. PICK X : Path(X, G) /\ (\A k \in 0..n : X[k] = W[k]) /\ X[n + 1] = Shows(W[n], e)
  BY AppendPath DEF Right
<1> HIDE DEF G, n
<1>3. 0 \in 0..n /\ n \in 0..n
  BY <1>1
<1>4. Ends(W, F, t, part)
  BY DEF Right
<1>5. Ends(X, G, u, part)
  <2>1. CASE Same(W[n], t)
    BY <1>1, <1>2, <2>1 DEF Leads, Ends, n
  <2>2. CASE Without(W[n], t) /\ t.ending
    BY <1>1, <1>2, <2>2 DEF Leads, Ends, n
  <2>3. CASE Without(W[n], t) /\ part /\ Untold(W, F)
    <3>1. \/ Same(X[n + 1], u)
          \/ Without(X[n + 1], u) /\ (u.ending \/ e.k # "end")
      BY <1>2, <2>3 DEF Leads
    <3>2. ASSUME Without(X[n + 1], u), e.k # "end"
          PROVE  Untold(X, G)
      <4>1. \A k \in 0..(n + 1) : X[k].call = 0
        <5>1. \A k \in 0..(n + 1) : k = n + 1 \/ k \in 0..n
          BY <1>1
        <5> QED
          BY <1>2, <2>3, <3>2, <5>1 DEF Untold, Without, n
      <4>2. \A k \in 1..(n + 1) : G[k].k # "end"
        <5>1. \A k \in 1..(n + 1) : k = n + 1 \/ k \in 1..n
          BY <1>1
        <5> QED
          BY <1>1, <2>3, <3>2, <5>1 DEF Untold, n
      <4> QED
        BY <1>1, <4>1, <4>2 DEF Untold
    <3> QED
      BY <1>1, <2>3, <3>1, <3>2 DEF Ends
  <2> QED
    BY <1>4, <2>1, <2>2, <2>3 DEF Ends, n
<1>6. ASSUME in2
      PROVE  Stays(X, G, u)
  <2>1. Stays(W, F, t) /\ Me \in u.sess /\ u.call = t.call /\ t.call # 0 /\ KeepsRest(e, t, u)
    BY <1>6 DEF Right
  <2>2. NoState(F, n)
    BY <1>1 DEF NoState, n
  <2>3. W[n].call = t.call /\ Me \in W[n].sess /\ Alike(W[n], t)
    BY <1>3, <2>1, <2>2 DEF Stays, n
  <2>4. Same(W[n], t)
    BY <1>4, <2>1, <2>3 DEF Ends, Without, n
  <2>5. Same(X[n + 1], u) /\ Alike(X[n + 1], u)
    BY <1>2, <2>1, <2>3, <2>4 DEF KeepsRest
  <2>6. ASSUME NEW k \in 0..(n + 1), NoState(G, k)
        PROVE  X[k].call = u.call /\ Me \in X[k].sess
    <3>1. CASE k = n + 1
      BY <2>1, <2>5, <3>1 DEF Same
    <3>2. CASE k # n + 1
      <4>1. k \in 0..n
        BY <1>1, <3>2
      <4>2. NoState(F, k)
        BY <1>1, <2>6 DEF NoState, n
      <4>3. W[k].call = t.call /\ Me \in W[k].sess
        BY <2>1, <4>1, <4>2 DEF Stays, n
      <4> QED
        BY <1>2, <2>1, <4>1, <4>3
    <3> QED
      BY <3>1, <3>2
  <2> QED
    BY <1>1, <2>5, <2>6 DEF Stays
<1> QED
  BY <1>2, <1>3, <1>5, <1>6 DEF Right, G

\* Whatever was on its way, after a state the view is the call.
LEMMA AppendState ==
  ASSUME NEW S, NEW F \in Seq(S), NEW e \in S, NEW v, NEW t, e.k = "state",
         Same(e.snap, t), Alike(e.snap, t), NEW part, NEW in, in => Me \in t.sess
  PROVE  \E X : X[0] = v /\ Right(X, Append(F, e), t, part, in)
<1> DEFINE n == Len(F)
           G == Append(F, e)
<1>1. n \in Nat /\ Len(G) = n + 1 /\ G[n + 1] = e /\ \A k \in 1..n : G[k] = F[k]
  OBVIOUS
<1>2. PICK W : W[0] = v /\ Path(W, F)
  BY <1>1, PathExists
<1>3. PICK X : Path(X, G) /\ (\A k \in 0..n : X[k] = W[k]) /\ X[n + 1] = Shows(W[n], e)
  BY <1>2, AppendPath
<1>4. Same(X[n + 1], t) /\ Alike(X[n + 1], t)
  BY <1>3 DEF Shows, ViewOf, Same, Alike
<1> HIDE DEF G, n
<1>5. \A k \in 0..(n + 1) : NoState(G, k) => k = n + 1
  BY <1>1 DEF NoState
<1>6. in => Stays(X, G, t)
  BY <1>1, <1>4, <1>5 DEF Stays, Same
<1>7. X[0] = v
  BY <1>1, <1>2, <1>3
<1> QED
  BY <1>1, <1>3, <1>4, <1>6, <1>7 DEF Right, Ends, G

LEMMA TailRight ==
  ASSUME NEW S, NEW F \in Seq(S), F # <<>>, NEW W, NEW t, NEW part, NEW in, NEW in2,
         Right(W, F, t, part, in), in2 => in
  PROVE  \E X : X[0] = Shows(W[0], Head(F)) /\ Right(X, Tail(F), t, part, in2)
<1> DEFINE n == Len(F) - 1
           G == Tail(F)
           X == [k \in 0..n |-> W[k + 1]]
<1>1. n \in Nat /\ Len(G) = n /\ Len(F) = n + 1 /\ Head(F) = F[1] /\ \A k \in 1..n : G[k] = F[k + 1]
  OBVIOUS
<1>2. \A k \in 0..n : X[k] = W[k + 1]
  OBVIOUS
<1> HIDE DEF n, G, X
<1>3. X[0] = Shows(W[0], Head(F))
  <2>1. 1 \in 1..(n + 1) /\ 0 \in 0..n /\ 1 - 1 = 0 /\ 0 + 1 = 1
    BY <1>1
  <2>2. W[1] = Shows(W[0], F[1])
    BY <1>1, <2>1 DEF Right, Path
  <2> QED
    BY <1>1, <1>2, <2>1, <2>2
<1>4. Path(X, G)
  <2> SUFFICES ASSUME NEW k \in 1..n
               PROVE  X[k] = Shows(X[k - 1], G[k])
    BY <1>1 DEF Path
  <2>1. k \in 0..n /\ k - 1 \in 0..n /\ (k - 1) + 1 = k /\ k + 1 \in 1..(n + 1) /\ (k + 1) - 1 = k
    BY <1>1
  <2>2. W[k + 1] = Shows(W[k], F[k + 1])
    BY <1>1, <2>1 DEF Right, Path
  <2> QED
    BY <1>1, <1>2, <2>1, <2>2
<1>5. X[n] = W[n + 1] /\ n \in 0..n
  BY <1>1, <1>2
<1>6. Untold(W, F) => Untold(X, G)
  <2> SUFFICES ASSUME Untold(W, F) PROVE Untold(X, G)
    OBVIOUS
  <2>1. \A k \in 0..n : k + 1 \in 0..(n + 1)
    BY <1>1
  <2>2. \A k \in 1..n : k + 1 \in 1..(n + 1)
    BY <1>1
  <2> QED
    BY <1>1, <1>2, <2>1, <2>2 DEF Untold
<1>7. Ends(X, G, t, part)
  BY <1>1, <1>5, <1>6 DEF Right, Ends
<1>8. ASSUME in2 PROVE Stays(X, G, t)
  <2>1. Stays(W, F, t)
    BY <1>8 DEF Right
  <2>2. ASSUME NEW k \in 0..n, NoState(G, k)
        PROVE  X[k].call = t.call /\ Me \in X[k].sess
    <3>1. ASSUME NEW j \in 1..(n + 1), j > k + 1
          PROVE  F[j].k # "state"
      <4>1. j - 1 \in 1..n /\ j - 1 > k /\ (j - 1) + 1 = j
        BY <1>1, <3>1
      <4> QED
        BY <1>1, <2>2, <4>1 DEF NoState
    <3>2. NoState(F, k + 1) /\ k + 1 \in 0..(n + 1)
      BY <1>1, <3>1 DEF NoState
    <3> QED
      BY <1>1, <1>2, <2>1, <3>2 DEF Stays
  <2> QED
    BY <1>1, <1>5, <2>1, <2>2 DEF Stays
<1> QED
  BY <1>3, <1>4, <1>7, <1>8 DEF Right, G

---------------------------------------------------------------------------
(* The view: the inductive invariant *)

\* The plugin shows sessions of the call only.
TruthRight(t) ==
    /\ t.attr \subseteq t.sess /\ t.sess \subseteq t.was
    /\ t.screen \in t.sess \cup {Nobody}
    /\ t.call = 0 => ~t.ending

\* Who has left does not come back, and the last call that has started is the call.
EventsRight(F, t) ==
    \A k \in 1..Len(F) :
        /\ F[k].k = "left" => F[k].s \in t.was \ t.sess
        /\ F[k].k = "start" => \/ F[k].c = t.call \/ t.call = 0
                               \/ \E j \in 1..Len(F) : j > k /\ F[j].k = "start"

Part == fetch.st # "no" \/ asked
InCall == store.client /\ Me \in truth.sess /\ ~truth.ending
Sure == gaps = {} \/ HasState(feed)

\* What the answer of /channels makes of a view.
Loaded(w, snap) ==
    IF snap.sess = {} \/ w.call # 0 THEN w
    ELSE [call |-> snap.call, sess |-> snap.sess, attr |-> snap.attr,
          screen |-> w.screen, host |-> w.host]

Fetched == fetch.st = "answered" /\ ~fetch.skip /\ gaps = {} /\ ~HasState(feed)

Shown == Sure => \E W : W[0] = ViewOf(store) /\ Right(W, feed, truth, Part, InCall)

\* An answer that is under way is as right as what is shown.
Loads ==
    Fetched => \E V : /\ V[0] = Loaded(ViewOf(store), fetch.snap)
                      /\ Right(V, feed, truth, FALSE, FALSE)

ViewInv ==
    /\ TruthRight(truth) /\ EventsRight(feed, truth)
    /\ ~online => feed = <<>> /\ ~asked
    /\ online /\ "voice" \notin gaps => Shown /\ Loads

---------------------------------------------------------------------------
(* Events that are added *)

\* When the plugin, at call t, has sent F, it may go on to u with G.
Extends(F, t, G, u, in) ==
    /\ G \in Seq(Event)
    /\ EventsRight(F, t) => EventsRight(G, u)
    /\ HasState(G) <=> HasState(F)
    /\ \A W : \A part, b \in BOOLEAN :
         Right(W, F, t, part, b) /\ (b => in) =>
             \E X : X[0] = W[0] /\ Right(X, G, u, part, b)

LEMMA ExtendsTwice ==
  ASSUME NEW F, NEW t, NEW G, NEW u, NEW H, NEW v, NEW in,
         Extends(F, t, G, u, in), Extends(G, u, H, v, in)
  PROVE  Extends(F, t, H, v, in)
<1>1. ASSUME NEW W, NEW part \in BOOLEAN, NEW b \in BOOLEAN, Right(W, F, t, part, b), b => in
      PROVE  \E X : X[0] = W[0] /\ Right(X, H, v, part, b)
  <2>1. PICK X : X[0] = W[0] /\ Right(X, G, u, part, b)
    BY <1>1 DEF Extends
  <2>2. PICK Y : Y[0] = X[0] /\ Right(Y, H, v, part, b)
    BY <1>1, <2>1 DEF Extends
  <2> QED
    BY <2>1, <2>2
<1> QED
  BY <1>1 DEF Extends

LEMMA ExtendsNone ==
  ASSUME NEW F \in Seq(Event), NEW t, NEW in
  PROVE  Extends(F, t, F, t, in)
BY DEF Extends

\* A change that the clients are not told, and that none in the call need be told.
LEMMA ExtendsSilently ==
  ASSUME NEW F \in Seq(Event), NEW t, NEW u, u.call = t.call, u.sess = t.sess, u.was = t.was,
         t.ending => u.ending
  PROVE  Extends(F, t, F, u, FALSE)
<1>1. EventsRight(F, t) => EventsRight(F, u)
  BY DEF EventsRight
<1>2. ASSUME NEW W, NEW part, Right(W, F, t, part, FALSE)
      PROVE  Right(W, F, u, part, FALSE)
  BY <1>2 DEF Right, Ends, Same, Without
<1> QED
  BY <1>1, <1>2 DEF Extends

LEMMA AppendExtends ==
  ASSUME NEW F \in Seq(Event), NEW e \in Event, NEW t, NEW u, NEW in,
         Leads(e, t, u), e.k # "state",
         in => Me \in u.sess /\ u.call = t.call /\ t.call # 0 /\ KeepsRest(e, t, u),
         e.k = "left" => e.s \in u.was \ u.sess,
         e.k = "start" => e.c = u.call,
         t.was \ t.sess \subseteq u.was \ u.sess,
         u.call = t.call \/ u.call = 0 \/ e.k = "start"
  PROVE  Extends(F, t, Append(F, e), u, in)
<1> DEFINE n == Len(F)
           G == Append(F, e)
<1>1. /\ n \in Nat /\ Len(G) = n + 1 /\ G[n + 1] = e /\ \A k \in 1..n : G[k] = F[k]
      /\ G \in Seq(Event)
  OBVIOUS
<1>2. ASSUME NEW W, NEW part \in BOOLEAN, NEW b \in BOOLEAN, Right(W, F, t, part, b), b => in
      PROVE  \E X : X[0] = W[0] /\ Right(X, G, u, part, b)
  BY <1>2, AppendRight
<1> HIDE DEF G, n
<1>3. HasState(G) <=> HasState(F)
  <2>1. ASSUME NEW j \in 1..(n + 1), G[j].k = "state"
        PROVE  HasState(F)
    <3>1. j \in 1..n
      BY <1>1, <2>1
    <3> QED
      BY <1>1, <2>1, <3>1 DEF HasState, n
  <2>2. ASSUME NEW j \in 1..n, F[j].k = "state"
        PROVE  G[j].k = "state" /\ j \in 1..(n + 1)
    BY <1>1, <2>2
  <2> QED
    BY <1>1, <2>1, <2>2 DEF HasState, n
<1>4. ASSUME EventsRight(F, t)
      PROVE  EventsRight(G, u)
  <2>1. ASSUME NEW k \in 1..(n + 1), G[k].k = "left"
        PROVE  G[k].s \in u.was \ u.sess
    <3>1. CASE k = n + 1
      BY <1>1, <2>1, <3>1
    <3>2. CASE k # n + 1
      <4>1. k \in 1..n
        BY <1>1, <3>2
      <4> QED
        BY <1>1, <1>4, <2>1, <4>1 DEF EventsRight, n
    <3> QED
      BY <3>1, <3>2
  <2>2. ASSUME NEW k \in 1..(n + 1), G[k].k = "start"
        PROVE  \/ G[k].c = u.call \/ u.call = 0
               \/ \E j \in 1..(n + 1) : j > k /\ G[j].k = "start"
    <3>1. CASE k = n + 1
      BY <1>1, <2>2, <3>1
    <3>2. CASE k # n + 1
      <4>1. k \in 1..n /\ n + 1 \in 1..(n + 1) /\ n + 1 > k /\ 1..n \subseteq 1..(n + 1)
        BY <1>1, <3>2
      <4>2. \/ F[k].c = t.call \/ t.call = 0
            \/ \E j \in 1..n : j > k /\ F[j].k = "start"
        BY <1>1, <1>4, <2>2, <4>1 DEF EventsRight, n
      <4>3. CASE \E j \in 1..n : j > k /\ F[j].k = "start"
        BY <1>1, <4>1, <4>3
      <4>4. CASE e.k = "start"
        BY <1>1, <4>1, <4>4
      <4>5. CASE u.call \in {t.call, 0} /\ (F[k].c = t.call \/ t.call = 0)
        BY <1>1, <4>1, <4>5
      <4> QED
        BY <4>2, <4>3, <4>4, <4>5
    <3> QED
      BY <3>1, <3>2
  <2> QED
    BY <1>1, <2>1, <2>2 DEF EventsRight
<1> QED
  BY <1>1, <1>2, <1>3, <1>4 DEF Extends, G

---------------------------------------------------------------------------
(* What each event leads to *)

LEMMA StartLeads ==
  ASSUME NEW e, NEW t, NEW u, e.k = "start", t.call = 0, t.sess = {}, u.call = e.c, u.sess = {}
  PROVE  Leads(e, t, u)
BY DEF Leads, Shows, Over, Same, Without

LEMMA JoinedLeads ==
  ASSUME NEW e, NEW t, NEW u, e.k = "joined", u.call = t.call, u.sess = t.sess \cup {e.s},
         u.ending = t.ending
  PROVE  /\ Leads(e, t, u)
         /\ u.attr = t.attr \ {e.s} /\ u.host = t.host /\ u.screen = t.screen => KeepsRest(e, t, u)
<1>1. Leads(e, t, u)
  BY DEF Leads, Shows, Over, Same, Without
<1>2. u.attr = t.attr \ {e.s} /\ u.host = t.host /\ u.screen = t.screen => KeepsRest(e, t, u)
  BY DEF KeepsRest, Shows, Over, Same, Alike
<1> QED
  BY <1>1, <1>2

LEMMA LeftLeads ==
  ASSUME NEW e, NEW t, NEW u, e.k = "left", u.sess = t.sess \ {e.s},
         u.call = IF u.sess = {} THEN 0 ELSE t.call,
         u.sess # {} => u.ending = t.ending
  PROVE  /\ Leads(e, t, u)
         /\ /\ u.sess # {} /\ u.attr = t.attr \ {e.s} /\ u.host = t.host
            /\ u.screen = IF t.screen = e.s THEN Nobody ELSE t.screen
            => KeepsRest(e, t, u)
<1>1. ASSUME NEW w, Same(w, t)
      PROVE  Same(Shows(w, e), u)
  BY <1>1 DEF Shows, Over, Same
<1>2. ASSUME NEW w, Without(w, t)
      PROVE  Without(Shows(w, e), u)
  BY <1>2 DEF Shows, Over, Without
<1>3. ASSUME NEW w, Without(w, u), u.sess = {}
      PROVE  Same(w, u)
  BY <1>3 DEF Same, Without
<1>4. Leads(e, t, u)
  BY <1>1, <1>2, <1>3 DEF Leads
<1>5. ASSUME u.sess # {}, u.attr = t.attr \ {e.s}, u.host = t.host,
             u.screen = IF t.screen = e.s THEN Nobody ELSE t.screen
      PROVE  KeepsRest(e, t, u)
  BY <1>1, <1>5 DEF KeepsRest, Shows, Over, Same, Alike
<1> QED
  BY <1>4, <1>5

LEMMA EndLeads ==
  ASSUME NEW e, NEW t, NEW u, e.k = "end", u.ending
  PROVE  Leads(e, t, u)
BY DEF Leads, Shows, Over, Same, Without

\* The other events change neither the call nor its sessions.
LEMMA OtherLeads ==
  ASSUME NEW e, NEW t, NEW u, u.call = t.call, u.sess = t.sess, u.ending = t.ending,
         \/ e.k \in {"attr", "voice"} /\ e.s \in t.sess
         \/ e.k \in {"screenOn", "screenOff", "host", "job", "dismissed"}
  PROVE  /\ Leads(e, t, u)
         /\ /\ u.attr = IF e.k # "attr" THEN t.attr
                        ELSE IF e.on THEN t.attr \cup {e.s} ELSE t.attr \ {e.s}
            /\ u.host = IF e.k = "host" THEN e.s ELSE t.host
            /\ u.screen = IF e.k = "screenOn" THEN e.s
                          ELSE IF e.k = "screenOff" /\ t.screen = e.s THEN Nobody ELSE t.screen
            => KeepsRest(e, t, u)
<1>1. ASSUME NEW w
      PROVE  /\ Shows(w, e).call = w.call
             /\ Shows(w, e).sess = IF e.k \in {"attr", "voice"} THEN w.sess \cup {e.s} ELSE w.sess
  BY DEF Shows, Over
<1>2. Leads(e, t, u)
  <2>1. ASSUME NEW w, Same(w, t)
        PROVE  Same(Shows(w, e), u)
    BY <1>1, <2>1 DEF Same
  <2>2. ASSUME NEW w, Without(w, t)
        PROVE  Without(Shows(w, e), u)
    BY <1>1, <2>2 DEF Without
  <2>3. e.k # "end"
    OBVIOUS
  <2> QED
    BY <2>1, <2>2, <2>3 DEF Leads
<1>3. ASSUME u.attr = IF e.k # "attr" THEN t.attr
                      ELSE IF e.on THEN t.attr \cup {e.s} ELSE t.attr \ {e.s},
             u.host = IF e.k = "host" THEN e.s ELSE t.host,
             u.screen = IF e.k = "screenOn" THEN e.s
                        ELSE IF e.k = "screenOff" /\ t.screen = e.s THEN Nobody ELSE t.screen
      PROVE  KeepsRest(e, t, u)
  <2> SUFFICES ASSUME NEW w, Same(w, t), Alike(w, t)
               PROVE  Same(Shows(w, e), u) /\ Alike(Shows(w, e), u)
    BY DEF KeepsRest
  <2>1. Same(Shows(w, e), u)
    BY <1>1 DEF Same
  <2>2. Alike(Shows(w, e), u)
    BY <1>3 DEF Shows, Over, Alike
  <2> QED
    BY <2>1, <2>2
<1> QED
  BY <1>2, <1>3

---------------------------------------------------------------------------
(* The operations of the plugin *)

LEMMA Published ==
  ASSUME Typed, ViewInv, NEW G, Extends(feed, truth, G, truth', InCall'), InCall' => InCall,
         TruthRight(truth'), feed' = IF online THEN G ELSE feed,
         UNCHANGED <<online, store, fetch, gaps, asked>>
  PROVE  ViewInv'
<1>1. EventsRight(feed', truth')
  <2>1. CASE online
    BY <2>1 DEF ViewInv, Extends
  <2>2. CASE ~online
    <3>1. Len(feed') = 0
      BY <2>2 DEF ViewInv
    <3> QED
      BY <3>1 DEF EventsRight
  <2> QED
    BY <2>1, <2>2
<1>2. ASSUME online, "voice" \notin gaps
      PROVE  Shown' /\ Loads'
  <2>1. feed' = G /\ Shown /\ Loads /\ (HasState(feed') <=> HasState(feed))
    BY <1>2 DEF ViewInv, Extends
  <2>2. /\ Part' = Part /\ ViewOf(store') = ViewOf(store) /\ Part \in BOOLEAN
        /\ InCall' \in BOOLEAN /\ (Sure' => Sure) /\ (Fetched' => gaps = {} /\ fetch.st = "answered" /\ ~fetch.skip)
        /\ Loaded(ViewOf(store), fetch.snap)' = Loaded(ViewOf(store), fetch.snap)
    BY <2>1 DEF Part, Sure, Typed, TypedStore, TypedLoad, InCall, Fetched, ViewOf, Loaded
  <2>3. ASSUME Sure'
        PROVE  \E X : X[0] = ViewOf(store') /\ Right(X, feed', truth', Part', InCall')
    <3>1. PICK W : W[0] = ViewOf(store) /\ Right(W, feed, truth, Part, InCall)
      BY <2>1, <2>2, <2>3 DEF Shown
    <3>2. Right(W, feed, truth, Part, InCall')
      BY <3>1 DEF Right
    <3>3. PICK X : X[0] = W[0] /\ Right(X, G, truth', Part, InCall')
      BY <2>2, <3>2 DEF Extends
    <3> QED
      BY <2>1, <2>2, <3>1, <3>3
  <2>4. ASSUME Fetched'
        PROVE  \E X : /\ X[0] = Loaded(ViewOf(store), fetch.snap)'
                      /\ Right(X, feed', truth', FALSE, FALSE)
    <3>1. CASE Fetched
      <4>1. PICK V : /\ V[0] = Loaded(ViewOf(store), fetch.snap)
                     /\ Right(V, feed, truth, FALSE, FALSE)
        BY <2>1, <3>1 DEF Loads
      <4>2. PICK X : X[0] = V[0] /\ Right(X, G, truth', FALSE, FALSE)
        BY <4>1 DEF Extends
      <4> QED
        BY <2>1, <2>2, <4>1, <4>2
    <3>2. CASE ~Fetched
      <4>1. HasState(feed)
        BY <2>2, <2>4, <3>2 DEF Fetched
      <4> QED
        BY <2>1, <2>4, <4>1 DEF Fetched
    <3> QED
      BY <3>1, <3>2
  <2> QED
    BY <2>3, <2>4 DEF Shown, Loads
<1> QED
  BY <1>1, <1>2 DEF ViewInv

LEMMA PublishedState ==
  ASSUME Typed, ViewInv, NEW G \in Seq(Event), EventsRight(G, truth'), TruthRight(truth'),
         NEW e \in Event, e.k = "state", Same(e.snap, truth'), Alike(e.snap, truth'),
         feed' = IF online THEN Append(G, e) ELSE feed,
         UNCHANGED <<online, store, fetch, gaps>>, asked' => asked
  PROVE  ViewInv'
<1> DEFINE n == Len(G)
           H == Append(G, e)
<1>1. n \in Nat /\ Len(H) = n + 1 /\ H[n + 1] = e /\ \A k \in 1..n : H[k] = G[k]
  OBVIOUS
<1> HIDE DEF H, n
<1>2. HasState(H)
  BY <1>1 DEF HasState
<1>3. EventsRight(H, truth')
  <2>1. \A k \in 1..(n + 1) : k = n + 1 \/ k \in 1..n
    BY <1>1
  <2>2. 1..n \subseteq 1..(n + 1)
    BY <1>1
  <2>3. \A k \in 1..n : /\ G[k].k = "left" => G[k].s \in truth'.was \ truth'.sess
                        /\ G[k].k = "start" => \/ G[k].c = truth'.call \/ truth'.call = 0
                                               \/ \E j \in 1..n : j > k /\ G[j].k = "start"
    BY DEF EventsRight, n
  <2>4. ASSUME NEW k \in 1..(n + 1)
        PROVE  /\ H[k].k = "left" => H[k].s \in truth'.was \ truth'.sess
               /\ H[k].k = "start" => \/ H[k].c = truth'.call \/ truth'.call = 0
                                      \/ \E j \in 1..(n + 1) : j > k /\ H[j].k = "start"
    <3>1. CASE k = n + 1
      BY <1>1, <3>1
    <3>2. CASE k \in 1..n
      BY <1>1, <2>2, <2>3, <3>2
    <3> QED
      BY <2>1, <3>1, <3>2
  <2> QED
    BY <1>1, <2>4 DEF EventsRight
<1>4. ASSUME online
      PROVE  Shown' /\ Loads'
  <2>1. feed' = H
    BY <1>4 DEF H
  <2>2. ~Fetched'
    BY <1>2, <2>1 DEF Fetched
  <2>3. InCall' => Me \in truth'.sess
    BY DEF InCall
  <2>4. \E X : X[0] = ViewOf(store') /\ Right(X, H, truth', Part', InCall')
    BY <2>3, AppendState DEF H
  <2> QED
    BY <2>1, <2>2, <2>4 DEF Shown, Loads
<1>5. EventsRight(feed', truth')
  <2>1. CASE online
    BY <1>3, <2>1 DEF H
  <2>2. CASE ~online
    <3>1. Len(feed') = 0
      BY <2>2 DEF ViewInv
    <3> QED
      BY <3>1 DEF EventsRight
  <2> QED
    BY <2>1, <2>2
<1> QED
  BY <1>4, <1>5 DEF ViewInv

\* An event that changes neither the call nor its sessions.
LEMMA OneEvent ==
  ASSUME Typed, ViewInv, NEW e \in Event, e.k # "state", Leads(e, truth, truth'),
         InCall' => InCall /\ KeepsRest(e, truth, truth'),
         e.k \notin {"left", "start"}, truth'.call = truth.call, truth'.sess = truth.sess,
         truth'.was = truth.was, truth.ending => truth'.ending, TruthRight(truth'),
         Publish(<<e>>) \/ Publish(ToSessions(truth, e)),
         UNCHANGED <<online, store, fetch, gaps, asked>>
  PROVE  ViewInv'
<1>1. feed \in Seq(Event) /\ (Me \in truth.sess => truth.call # 0)
  BY DEF Typed, TypedPlugin, InCalls
<1>2. CASE feed' = IF online THEN feed \o <<e>> ELSE feed
  <2>1. Append(feed, e) = feed \o <<e>>
    BY <1>1
  <2>2. Extends(feed, truth, Append(feed, e), truth', InCall')
    <3>1. InCall' => Me \in truth'.sess /\ truth'.call = truth.call /\ truth.call # 0 /\ KeepsRest(e, truth, truth')
      BY <1>1 DEF InCall
    <3> QED
      BY <1>1, <3>1, AppendExtends
  <2> QED
    BY <1>2, <2>1, <2>2, Published
<1>3. CASE feed' = feed /\ (Me \notin truth.sess)
  <2>1. InCall' = FALSE
    BY <1>3 DEF InCall
  <2>2. Extends(feed, truth, feed, truth', FALSE)
    BY <1>1, ExtendsSilently
  <2>3. feed' = IF online THEN feed ELSE feed
    BY <1>3
  <2> QED
    BY <2>1, <2>2, <2>3, Published
<1>4. feed \o <<>> = feed
  BY <1>1
<1> QED
  BY <1>2, <1>3, <1>4 DEF Publish, ToSessions, Mine

LEMMA ChangesView ==
  ASSUME Typed, ViewInv, NEW s \in Sess, NEW on \in BOOLEAN,
         \/ PluginAttr(s, on) \/ PluginScreen(s) \/ PluginHost(s)
         \/ PluginRecord \/ PluginEnd \/ PluginDismiss
  PROVE  ViewInv'
<1> USE DEF Op, ViewOp, client
<1>1. truth \in Snap /\ truth.call \in 0..MaxCall /\ TruthRight(truth)
  BY DEF Typed, TypedPlugin, Snap, ViewInv
<1>2. CASE PluginAttr(s, on)
  <2> DEFINE e == Ev("attr", s, truth.call, on)
  <2>1. /\ truth' = [truth EXCEPT !.attr = IF on THEN @ \cup {s} ELSE @ \ {s}]
        /\ Publish(ToSessions(truth, e)) /\ s \in truth.sess
        /\ UNCHANGED <<online, store, fetch, gaps, asked>>
    BY <1>2 DEF PluginAttr
  <2>2. e \in Event /\ e.k = "attr" /\ e.s = s /\ e.on = on
    BY <1>1, EvTyped DEF Kind, Ev
  <2>3. /\ truth'.call = truth.call /\ truth'.sess = truth.sess /\ truth'.was = truth.was
        /\ truth'.ending = truth.ending /\ truth'.host = truth.host /\ truth'.screen = truth.screen
        /\ truth'.attr = IF on THEN truth.attr \cup {s} ELSE truth.attr \ {s}
    BY <1>1, <2>1 DEF Snap
  <2> HIDE DEF e
  <2>4. Leads(e, truth, truth') /\ KeepsRest(e, truth, truth')
    BY <2>1, <2>2, <2>3, OtherLeads
  <2>5. TruthRight(truth') /\ (InCall' => InCall)
    BY <1>1, <2>1, <2>3 DEF TruthRight, InCall
  <2> QED
    BY <2>1, <2>2, <2>3, <2>4, <2>5, OneEvent
<1>3. CASE PluginScreen(s)
  <2> DEFINE e == Ev(IF truth.screen = Nobody THEN "screenOn" ELSE "screenOff", s, truth.call,
                     truth.screen = Nobody)
  <2>1. /\ truth.screen \in {s, Nobody} /\ s \in truth.sess
        /\ truth' = [truth EXCEPT !.screen = IF truth.screen = Nobody THEN s ELSE Nobody]
        /\ Publish(ToSessions(truth, e))
        /\ UNCHANGED <<online, store, fetch, gaps, asked>>
    BY <1>3, Bounds DEF PluginScreen
  <2>2. /\ e \in Event /\ e.s = s
        /\ e.k = IF truth.screen = Nobody THEN "screenOn" ELSE "screenOff"
    BY <1>1, EvTyped DEF Kind, Ev
  <2>3. /\ truth'.call = truth.call /\ truth'.sess = truth.sess /\ truth'.was = truth.was
        /\ truth'.ending = truth.ending /\ truth'.host = truth.host /\ truth'.attr = truth.attr
        /\ truth'.screen = IF truth.screen = Nobody THEN s ELSE Nobody
    BY <1>1, <2>1 DEF Snap
  <2> HIDE DEF e
  <2>4. Leads(e, truth, truth') /\ KeepsRest(e, truth, truth')
    BY <2>1, <2>2, <2>3, OtherLeads
  <2>5. TruthRight(truth') /\ (InCall' => InCall)
    BY <1>1, <2>1, <2>3 DEF TruthRight, InCall
  <2> QED
    BY <2>1, <2>2, <2>3, <2>4, <2>5, OneEvent
<1>4. CASE PluginHost(s)
  <2> DEFINE e == Ev("host", s, truth.call, TRUE)
  <2>1. /\ truth' = [truth EXCEPT !.host = s] /\ Publish(ToSessions(truth, e))
        /\ UNCHANGED <<online, store, fetch, gaps, asked>>
    BY <1>4 DEF PluginHost
  <2>2. e \in Event /\ e.k = "host" /\ e.s = s
    BY <1>1, EvTyped DEF Kind, Ev
  <2>3. /\ truth'.call = truth.call /\ truth'.sess = truth.sess /\ truth'.was = truth.was
        /\ truth'.ending = truth.ending /\ truth'.host = s /\ truth'.attr = truth.attr
        /\ truth'.screen = truth.screen
    BY <1>1, <2>1 DEF Snap
  <2> HIDE DEF e
  <2>4. Leads(e, truth, truth') /\ KeepsRest(e, truth, truth')
    BY <2>2, <2>3, OtherLeads
  <2>5. TruthRight(truth') /\ (InCall' => InCall)
    BY <1>1, <2>1, <2>3 DEF TruthRight, InCall
  <2> QED
    BY <2>1, <2>2, <2>3, <2>4, <2>5, OneEvent
<1>5. CASE PluginRecord
  <2> DEFINE e == Ev("job", Nobody, truth.call, truth'.rec.on)
  <2>1. /\ truth' = [truth EXCEPT !.rec = [c |-> truth.call, on |-> ~@.on]]
        /\ Publish(ToSessions(truth, e))
        /\ UNCHANGED <<online, store, fetch, gaps, asked>>
    BY <1>5 DEF PluginRecord
  <2>2. /\ truth'.call = truth.call /\ truth'.sess = truth.sess /\ truth'.was = truth.was
        /\ truth'.ending = truth.ending /\ truth'.host = truth.host /\ truth'.attr = truth.attr
        /\ truth'.screen = truth.screen /\ truth'.rec.on \in BOOLEAN
    BY <1>1, <2>1 DEF Snap
  <2>3. e \in Event /\ e.k = "job"
    BY <1>1, <2>2, EvTyped DEF Kind, Ev
  <2> HIDE DEF e
  <2>4. Leads(e, truth, truth') /\ KeepsRest(e, truth, truth')
    BY <2>2, <2>3, OtherLeads
  <2>5. TruthRight(truth') /\ (InCall' => InCall)
    BY <1>1, <2>1, <2>2 DEF TruthRight, InCall
  <2> QED
    BY <2>1, <2>2, <2>3, <2>4, <2>5, OneEvent
<1>6. CASE PluginEnd
  <2> DEFINE e == Ev("end", Nobody, truth.call, FALSE)
  <2>1. /\ truth' = [truth EXCEPT !.ending = TRUE] /\ Publish(<<e>>) /\ truth.call # 0
        /\ UNCHANGED <<online, store, fetch, gaps, asked>>
    BY <1>6 DEF PluginEnd, ToChannel
  <2>2. /\ truth'.call = truth.call /\ truth'.sess = truth.sess /\ truth'.was = truth.was
        /\ truth'.ending = TRUE /\ truth'.attr = truth.attr /\ truth'.screen = truth.screen
    BY <1>1, <2>1 DEF Snap
  <2>3. e \in Event /\ e.k = "end"
    BY <1>1, EvTyped DEF Kind, Ev
  <2> HIDE DEF e
  <2>4. Leads(e, truth, truth') /\ ~InCall'
    BY <2>2, <2>3, EndLeads DEF InCall
  <2>5. TruthRight(truth')
    BY <1>1, <2>1, <2>2 DEF TruthRight
  <2> QED
    BY <2>1, <2>2, <2>3, <2>4, <2>5, OneEvent
<1>7. CASE PluginDismiss
  <2> DEFINE e == Ev("dismissed", Nobody, truth.call, TRUE)
  <2>1. /\ truth' = [truth EXCEPT !.dismissed = TRUE] /\ Publish(<<e>>) /\ truth.call # 0
        /\ UNCHANGED <<online, store, fetch, gaps, asked>>
    BY <1>7 DEF PluginDismiss
  <2>2. /\ truth'.call = truth.call /\ truth'.sess = truth.sess /\ truth'.was = truth.was
        /\ truth'.ending = truth.ending /\ truth'.host = truth.host /\ truth'.attr = truth.attr
        /\ truth'.screen = truth.screen
    BY <1>1, <2>1 DEF Snap
  <2>3. e \in Event /\ e.k = "dismissed"
    BY <1>1, <2>1, EvTyped, Bounds DEF Kind, Ev
  <2> HIDE DEF e
  <2>4. Leads(e, truth, truth') /\ KeepsRest(e, truth, truth')
    BY <2>2, <2>3, OtherLeads
  <2>5. TruthRight(truth') /\ (InCall' => InCall)
    BY <1>1, <2>1, <2>2 DEF TruthRight, InCall
  <2> QED
    BY <2>1, <2>2, <2>3, <2>4, <2>5, OneEvent
<1> QED
  BY <1>2, <1>3, <1>4, <1>5, <1>6, <1>7

LEMMA VoiceView ==
  ASSUME Typed, ViewInv, NEW s \in Sess, PluginVoice(s)
  PROVE  ViewInv'
<1> DEFINE e == Ev("voice", s, 0, TRUE)
<1>1. /\ Publish(<<e>>) /\ UNCHANGED <<online, store, fetch, asked, truth>>
      /\ gaps' = IF s \in truth.sess THEN gaps ELSE gaps \cup {"voice"}
  BY DEF PluginVoice, client
<1>2. e \in Event /\ e.k = "voice" /\ e.s = s
  BY EvTyped, Bounds DEF Kind, Ev
<1>3. feed \in Seq(Event) /\ TruthRight(truth) /\ EventsRight(feed, truth)
  BY DEF Typed, TypedPlugin, ViewInv
<1> HIDE DEF e
<1>4. CASE s \in truth.sess
  <2>1. Leads(e, truth, truth') /\ KeepsRest(e, truth, truth')
    BY <1>1, <1>2, <1>4, OtherLeads
  <2>2. TruthRight(truth') /\ (InCall' => InCall)
    BY <1>1, <1>3 DEF InCall
  <2> QED
    BY <1>1, <1>2, <1>4, <2>1, <2>2, OneEvent
<1>5. CASE s \notin truth.sess
  <2>1. feed' \in {feed, Append(feed, e)} /\ (~online => feed' = feed)
    BY <1>1, <1>3 DEF Publish
  <2>2. EventsRight(Append(feed, e), truth)
    <3> DEFINE n == Len(feed)
               G == Append(feed, e)
    <3>1. n \in Nat /\ Len(G) = n + 1 /\ G[n + 1] = e /\ \A k \in 1..n : G[k] = feed[k]
      BY <1>3
    <3> HIDE DEF G
    <3>2. \A k \in 1..(n + 1) : k = n + 1 \/ k \in 1..n
      BY <3>1
    <3>3. 1..n \subseteq 1..(n + 1)
      BY <3>1
    <3>4. EventsRight(G, truth)
      BY <1>2, <1>3, <3>1, <3>2, <3>3 DEF EventsRight
    <3> QED
      BY <3>4 DEF G
  <2>3. EventsRight(feed', truth')
    BY <1>1, <1>3, <2>1, <2>2
  <2> QED
    BY <1>1, <1>3, <1>5, <2>1, <2>3 DEF ViewInv
<1> QED
  BY <1>4, <1>5

LEMMA ConcatThree ==
  ASSUME NEW S, NEW F \in Seq(S), NEW A \in Seq(S), NEW B \in Seq(S), NEW C \in Seq(S)
  PROVE  F \o ((A \o B) \o C) = ((F \o A) \o B) \o C
<1> DEFINE l == F \o ((A \o B) \o C)
           r == ((F \o A) \o B) \o C
<1>1. /\ l \in Seq(S) /\ r \in Seq(S)
      /\ Len(l) = Len(F) + (Len(A) + Len(B) + Len(C)) /\ Len(r) = Len(F) + Len(A) + Len(B) + Len(C)
      /\ Len(F) \in Nat /\ Len(A) \in Nat /\ Len(B) \in Nat /\ Len(C) \in Nat
  OBVIOUS
<1>2. ASSUME NEW k \in 1..Len(l)
      PROVE  l[k] = r[k]
  BY <1>1
<1> QED
  BY <1>1, <1>2

LEMMA LeaveView ==
  ASSUME Typed, ViewInv, NEW s \in Sess, PluginLeave(s)
  PROVE  ViewInv'
<1> DEFINE rest == truth.sess \ {s}
           t == [truth EXCEPT !.sess = rest, !.attr = @ \ {s},
                              !.screen = IF @ = s THEN Nobody ELSE @]
           off == Ev("screenOff", Nobody, truth.call, FALSE)
           left == Ev("left", s, truth.call, FALSE)
           u == IF rest = {} THEN NoCall(truth.last, truth.was) ELSE t
<1>1. PICK h \in IF truth.host = s /\ rest # {} THEN rest ELSE {truth.host} :
        /\ truth' = IF rest = {} THEN NoCall(truth.last, truth.was) ELSE [t EXCEPT !.host = h]
        /\ Publish(Maybe(truth.screen = s, ToSessions(t, off)) \o ToChannel(left)
                   \o Maybe(h # truth.host, ToSessions(t, Ev("host", h, truth.call, TRUE))))
        /\ s \in truth.sess /\ UNCHANGED <<online, store, fetch, gaps, asked>>
  BY DEF PluginLeave, Op, client
<1> DEFINE host == Ev("host", h, truth.call, TRUE)
<1>2. /\ truth \in Snap /\ TruthRight(truth) /\ feed \in Seq(Event)
      /\ truth.call # 0 /\ truth.call \in 0..MaxCall /\ h \in Sess \cup {Nobody}
  BY <1>1 DEF Typed, TypedPlugin, InCalls, Snap, ViewInv
<1>3. /\ off \in Event /\ off.k = "screenOff" /\ off.s = Nobody
      /\ left \in Event /\ left.k = "left" /\ left.s = s
      /\ host \in Event /\ host.k = "host" /\ host.s = h
  BY <1>2, EvTyped DEF Kind, Ev
<1>4. /\ t.sess = rest /\ t.call = truth.call /\ t.ending = truth.ending /\ t.was = truth.was
      /\ t.attr = truth.attr \ {s} /\ t.host = truth.host
      /\ t.screen = IF truth.screen = s THEN Nobody ELSE truth.screen
  BY <1>2 DEF Snap
<1>5. /\ u.sess = rest /\ u.was = truth.was /\ u.call = (IF rest = {} THEN 0 ELSE truth.call)
      /\ (rest # {} => /\ u.ending = truth.ending /\ u.attr = truth.attr \ {s} /\ u.host = truth.host
                       /\ u.screen = IF truth.screen = s THEN Nobody ELSE truth.screen)
      /\ (rest = {} => /\ u.ending = FALSE /\ u.attr = {} /\ u.screen = Nobody)
  BY <1>4 DEF NoCall
<1>6. /\ truth'.sess = rest /\ truth'.was = truth.was /\ truth'.call = u.call
      /\ truth'.ending = u.ending /\ truth'.attr = u.attr /\ truth'.screen = u.screen
      /\ (rest # {} => truth'.host = h) /\ (rest = {} => truth' = u)
  <2>1. CASE rest = {}
    BY <1>1, <1>5, <2>1
  <2>2. CASE rest # {}
    <3>1. truth' = [t EXCEPT !.host = h] /\ u = t
      BY <1>1, <2>2
    <3> QED
      BY <1>2, <1>4, <1>5, <2>2, <3>1 DEF Snap
  <2> QED
    BY <2>1, <2>2
<1> HIDE DEF t, off, left, host, u
<1>7. /\ (InCall' => InCall /\ Me # s /\ Me \in rest) /\ TruthRight(truth')
  BY <1>1, <1>2, <1>5, <1>6 DEF InCall, TruthRight
<1> DEFINE G1 == IF truth.screen = s /\ rest \cap Mine # {} THEN Append(feed, off) ELSE feed
           G2 == Append(G1, left)
           G3 == IF h # truth.host /\ rest \cap Mine # {} THEN Append(G2, host) ELSE G2
<1>8. Extends(feed, truth, G1, truth, InCall')
  <2>1. Leads(off, truth, truth) /\ (InCall' => KeepsRest(off, truth, truth))
    <3>1. off.k \in {"screenOn", "screenOff", "host", "job", "dismissed"}
      BY <1>3
    <3>2. truth.screen = IF off.k = "screenOn" THEN off.s
                         ELSE IF off.k = "screenOff" /\ truth.screen = off.s THEN Nobody ELSE truth.screen
      BY <1>3
    <3> QED
      BY <1>3, <3>1, <3>2, OtherLeads
  <2>2. InCall' => Me \in truth.sess
    BY <1>7 DEF InCall
  <2>3. Extends(feed, truth, Append(feed, off), truth, InCall')
    BY <1>2, <1>3, <2>1, <2>2, AppendExtends
  <2> QED
    BY <1>2, <2>3, ExtendsNone
<1>9. Extends(G1, truth, G2, u, InCall')
  <2>1. G1 \in Seq(Event)
    BY <1>8 DEF Extends
  <2>2. Leads(left, truth, u) /\ (rest # {} => KeepsRest(left, truth, u))
    BY <1>3, <1>5, LeftLeads
  <2>3. InCall' => Me \in u.sess /\ u.call = truth.call /\ truth.call # 0 /\ KeepsRest(left, truth, u)
    BY <1>2, <1>5, <1>7, <2>2
  <2>4. left.s \in u.was \ u.sess /\ truth.was \ truth.sess \subseteq u.was \ u.sess
    BY <1>1, <1>2, <1>3, <1>5 DEF TruthRight
  <2> HIDE DEF G1
  <2> QED
    BY <1>2, <1>3, <1>5, <2>1, <2>2, <2>3, <2>4, AppendExtends
<1>10. Extends(G2, u, G3, truth', InCall')
  <2>1. G2 \in Seq(Event)
    BY <1>9 DEF Extends
  <2>2. Leads(host, u, truth') /\ (rest # {} => KeepsRest(host, u, truth'))
    BY <1>3, <1>6, OtherLeads, <1>5
  <2>3. Extends(G2, u, Append(G2, host), truth', InCall')
    <3>1. InCall' => Me \in truth'.sess /\ truth'.call = u.call /\ u.call # 0 /\ KeepsRest(host, u, truth')
      BY <1>2, <1>5, <1>6, <1>7, <2>2
    <3>2. u.was \ u.sess \subseteq truth'.was \ truth'.sess /\ truth'.call = u.call
      BY <1>5, <1>6
    <3> HIDE DEF G2
    <3> QED
      BY <1>3, <2>1, <2>2, <3>1, <3>2, AppendExtends
  <2>4. CASE rest \cap Mine = {}
    <3>1. InCall' = FALSE
      BY <1>6, <1>7, <2>4 DEF Mine, InCall
    <3>2. Extends(G2, u, G2, truth', FALSE)
      <4> HIDE DEF G2
      <4> QED
        BY <1>5, <1>6, <2>1, ExtendsSilently
    <3> QED
      BY <2>4, <3>1, <3>2
  <2>5. CASE h = truth.host /\ rest # {}
    <3>1. truth' = u
      BY <1>1, <1>2, <1>4, <2>5 DEF u, t, Snap
    <3> HIDE DEF G2
    <3> QED
      BY <2>1, <2>5, <3>1, ExtendsNone
  <2> QED
    BY <2>3, <2>4, <2>5
<1>11. feed' = IF online THEN G3 ELSE feed
  <2>1. Publish(Maybe(truth.screen = s, ToSessions(t, off)) \o <<left>>
                \o Maybe(h # truth.host, ToSessions(t, host))) /\ t.sess = rest
    BY <1>1, <1>4 DEF host, ToChannel
  <2> DEFINE A == Maybe(truth.screen = s, ToSessions(t, off))
             C == Maybe(h # truth.host, ToSessions(t, host))
  <2>2. /\ A = IF truth.screen = s /\ rest \cap Mine # {} THEN <<off>> ELSE <<>>
        /\ C = IF h # truth.host /\ rest \cap Mine # {} THEN <<host>> ELSE <<>>
    BY <2>1 DEF Maybe, ToSessions
  <2>3. A \in Seq(Event) /\ C \in Seq(Event) /\ <<left>> \in Seq(Event)
    BY <1>3, MaybeTyped, ToTyped
  <2>4. feed' = IF online THEN feed \o ((A \o <<left>>) \o C) ELSE feed
    BY <2>1 DEF Publish
  <2> HIDE DEF A, C
  <2>5. feed \o ((A \o <<left>>) \o C) = ((feed \o A) \o <<left>>) \o C
    BY <1>2, <2>3, ConcatThree
  <2>6. feed \o A = G1
    BY <1>2, <1>3, <2>2
  <2>7. G1 \in Seq(Event) /\ G2 \in Seq(Event)
    BY <1>2, <1>3
  <2>8. G1 \o <<left>> = G2
    <3> HIDE DEF G1
    <3> QED
      BY <1>3, <2>7
  <2>9. G2 \o C = G3
    <3> HIDE DEF G2
    <3> QED
      BY <1>3, <2>2, <2>7
  <2> QED
    BY <2>4, <2>5, <2>6, <2>8, <2>9
<1>12. Extends(feed, truth, G3, truth', InCall')
  <2> HIDE DEF G1, G2, G3
  <2>1. Extends(feed, truth, G2, u, InCall')
    BY <1>8, <1>9, ExtendsTwice
  <2> QED
    BY <1>10, <2>1, ExtendsTwice
<1> HIDE DEF G3
<1> QED
  BY <1>1, <1>7, <1>11, <1>12, Published

LEMMA JoinView ==
  ASSUME Typed, ViewInv, NEW s \in Sess, PluginJoin(s)
  PROVE  ViewInv'
<1> DEFINE new == truth.call = 0
           c == IF new THEN truth.last + 1 ELSE truth.call
           t == IF new THEN [NoCall(c, truth.was) EXCEPT !.call = c, !.mine = s \in Mine, !.host = s]
                ELSE truth
           start == Ev("start", s, c, s \in Mine)
           joined == Ev("joined", s, c, TRUE)
           state == [k |-> "state", snap |-> truth']
           on == s \notin Mine /\ InCall'
           G1 == IF new THEN Append(feed, start) ELSE feed
           G2 == Append(G1, joined)
<1>1. /\ c \in Call /\ s \notin truth.was
      /\ truth' = [t EXCEPT !.sess = @ \cup {s}, !.was = @ \cup {s}]
      /\ Publish(Maybe(new, <<start>>) \o ToChannel(joined) \o Maybe(s \in Mine, <<state>>))
      /\ UNCHANGED <<online, store, fetch, gaps, asked>>
  BY DEF PluginJoin, Op, client
<1>2. /\ truth \in Snap /\ TruthRight(truth) /\ feed \in Seq(Event) /\ EventsRight(feed, truth)
      /\ InCalls(truth) /\ c \in 0..MaxCall /\ c # 0 /\ (s \in Mine) \in BOOLEAN
  BY <1>1, Bounds DEF Typed, TypedPlugin, ViewInv
<1>3. /\ start \in Event /\ start.k = "start" /\ start.c = c /\ start.s = s
      /\ joined \in Event /\ joined.k = "joined" /\ joined.s = s
  <2> HIDE DEF c
  <2> QED
    BY <1>1, <1>2, EvTyped DEF Kind, Ev
<1>4. /\ t.call = c /\ t.sess = truth.sess /\ t.was = truth.was /\ t.ending = truth.ending
      /\ t.attr = truth.attr /\ t.screen = truth.screen /\ (~new => t = truth) /\ t \in Snap
  <2>1. CASE new
    <3>1. truth.was \subseteq Sess /\ truth.sess = {} /\ truth.attr = {} /\ ~truth.ending /\ truth.ending \in BOOLEAN
          /\ truth.screen = Nobody
      BY <1>2, <2>1 DEF Snap, InCalls, TruthRight
    <3>2. t = [NoCall(c, truth.was) EXCEPT !.call = c, !.mine = s \in Mine, !.host = s]
      BY <2>1
    <3>3. NoCall(c, truth.was) \in Snap
      <4> HIDE DEF c
      <4> QED
        BY <1>2, <3>1, Bounds DEF NoCall, NoRecording, Snap
    <3>4. t \in Snap
      <4> HIDE DEF c, t
      <4> QED
        BY <1>2, <3>2, <3>3 DEF Snap
    <3> HIDE DEF c
    <3> QED
      BY <2>1, <3>1, <3>2, <3>4 DEF NoCall
  <2>2. CASE ~new
    BY <1>2, <2>2
  <2> QED
    BY <2>1, <2>2
<1> HIDE DEF c, t, start, joined
<1>5. /\ truth'.call = c /\ truth'.sess = truth.sess \cup {s} /\ truth'.was = truth.was \cup {s}
      /\ truth'.ending = truth.ending /\ truth'.attr = truth.attr /\ truth'.screen = truth.screen
      /\ truth'.host = t.host /\ truth' \in Snap
  BY <1>1, <1>4 DEF Snap
<1>6. TruthRight(truth') /\ (on => InCall /\ ~new /\ Me \in truth.sess)
  <2>1. TruthRight(truth')
    BY <1>2, <1>5 DEF TruthRight
  <2>2. ASSUME on
        PROVE  Me \in truth.sess /\ InCall
    BY <1>1, <1>5, <2>2 DEF InCall, Mine
  <2> QED
    BY <1>2, <2>1, <2>2 DEF InCalls
<1>7. Extends(feed, truth, G1, t, on)
  <2>1. CASE new
    <3>1. Leads(start, truth, t)
      BY <1>2, <1>3, <1>4, <2>1, StartLeads DEF InCalls
    <3>2. ~on
      BY <1>6, <2>1
    <3>3. Extends(feed, truth, Append(feed, start), t, on)
      BY <1>2, <1>3, <1>4, <3>1, <3>2, AppendExtends
    <3> QED
      BY <2>1, <3>3
  <2>2. CASE ~new
    BY <1>2, <1>4, <2>2, ExtendsNone
  <2> QED
    BY <2>1, <2>2
<1>8. Extends(G1, t, G2, truth', on)
  <2>1. G1 \in Seq(Event)
    BY <1>7 DEF Extends
  <2>2. Leads(joined, t, truth')
    BY <1>3, <1>4, <1>5, JoinedLeads
  <2>3. KeepsRest(joined, t, truth')
    <3>1. truth.attr \ {s} = truth.attr
      BY <1>1, <1>2 DEF TruthRight
    <3> QED
      BY <1>3, <1>4, <1>5, <3>1, JoinedLeads
  <2>4. on => Me \in truth'.sess /\ truth'.call = t.call /\ t.call # 0 /\ KeepsRest(joined, t, truth')
    BY <1>2, <1>4, <1>5, <1>6, <2>3
  <2>5. t.was \ t.sess \subseteq truth'.was \ truth'.sess
    BY <1>1, <1>4, <1>5
  <2> HIDE DEF G1, on
  <2> QED
    BY <1>3, <1>4, <1>5, <2>1, <2>2, <2>4, <2>5, AppendExtends
<1>9. Extends(feed, truth, G2, truth', on)
  <2> HIDE DEF G1, G2, on
  <2> QED
    BY <1>7, <1>8, ExtendsTwice
<1>10. feed' = IF online THEN IF s \in Mine THEN Append(G2, state) ELSE G2 ELSE feed
  <2> DEFINE A == Maybe(new, <<start>>)
             C == Maybe(s \in Mine, <<state>>)
  <2>1. state \in Event
    BY <1>1, <1>5, StateTyped
  <2> HIDE DEF state
  <2>2. /\ A = (IF new THEN <<start>> ELSE <<>>) /\ C = (IF s \in Mine THEN <<state>> ELSE <<>>)
    BY DEF Maybe
  <2>3. A \in Seq(Event) /\ C \in Seq(Event) /\ <<joined>> \in Seq(Event)
    <3>1. <<start>> \in Seq(Event) /\ <<state>> \in Seq(Event) /\ <<joined>> \in Seq(Event)
      BY <1>3, <2>1, ToTyped
    <3> QED
      BY <3>1, MaybeTyped
  <2>4. feed' = IF online THEN feed \o ((A \o <<joined>>) \o C) ELSE feed
    BY <1>1 DEF Publish, ToChannel
  <2> HIDE DEF A, C
  <2>5. feed \o ((A \o <<joined>>) \o C) = ((feed \o A) \o <<joined>>) \o C
    BY <1>2, <2>3, ConcatThree
  <2>6. feed \o A = G1
    BY <1>2, <1>3, <2>2
  <2>7. G1 \in Seq(Event) /\ G2 \in Seq(Event)
    BY <1>2, <1>3
  <2>8. G1 \o <<joined>> = G2
    <3> HIDE DEF G1
    <3> QED
      BY <1>3, <2>7
  <2>9. G2 \o C = IF s \in Mine THEN Append(G2, state) ELSE G2
    <3> HIDE DEF G2
    <3> QED
      BY <2>1, <2>2, <2>7
  <2> QED
    BY <2>4, <2>5, <2>6, <2>8, <2>9
<1>11. CASE s \notin Mine
  <2>1. (InCall' => InCall) /\ Extends(feed, truth, G2, truth', InCall')
    BY <1>6, <1>9, <1>11 DEF Extends
  <2>2. feed' = IF online THEN G2 ELSE feed
    BY <1>10, <1>11
  <2> HIDE DEF G2
  <2> QED
    BY <1>1, <1>6, <2>1, <2>2, Published
<1>12. CASE s \in Mine
  <2>1. state \in Event /\ state.k = "state" /\ Same(state.snap, truth') /\ Alike(state.snap, truth')
    BY <1>1, <1>5, StateTyped DEF Same, Alike
  <2>2. G2 \in Seq(Event) /\ EventsRight(G2, truth')
    BY <1>2, <1>9 DEF Extends
  <2>3. feed' = IF online THEN Append(G2, state) ELSE feed
    BY <1>10, <1>12
  <2> HIDE DEF G2, state
  <2> QED
    BY <1>1, <1>6, <2>1, <2>2, <2>3, PublishedState
<1> QED
  BY <1>11, <1>12

LEMMA StateView ==
  ASSUME Typed, ViewInv, PluginState
  PROVE  ViewInv'
<1> DEFINE state == [k |-> "state", snap |-> truth]
<1>1. /\ Publish(Maybe(truth.call # 0, <<state>>)) /\ asked' = FALSE
      /\ UNCHANGED <<truth, online, store, fetch, gaps>>
  BY DEF PluginState, client
<1>2. /\ truth \in Snap /\ truth.call \in 0..MaxCall /\ TruthRight(truth) /\ feed \in Seq(Event)
      /\ EventsRight(feed, truth) /\ InCalls(truth)
  BY DEF Typed, TypedPlugin, Snap, ViewInv
<1>3. CASE truth.call # 0
  <2>1. state \in Event /\ state.k = "state" /\ Same(state.snap, truth') /\ Alike(state.snap, truth')
    BY <1>1, <1>2, <1>3, Bounds, StateTyped DEF Same, Alike
  <2>2. feed' = IF online THEN Append(feed, state) ELSE feed
    <3> HIDE DEF state
    <3>1. feed \o <<state>> = Append(feed, state)
      BY <1>2, <2>1
    <3> QED
      BY <1>1, <1>3, <3>1 DEF Publish, Maybe
  <2> HIDE DEF state
  <2> QED
    BY <1>1, <1>2, <2>1, <2>2, PublishedState
<1>4. CASE truth.call = 0
  <2>1. feed' = feed
    <3>1. feed \o <<>> = feed
      BY <1>2
    <3> QED
      BY <1>1, <1>4, <3>1 DEF Publish, Maybe
  <2>2. ASSUME NEW W, Right(W, feed, truth, Part, InCall)
        PROVE  Right(W, feed, truth, Part', InCall)
    BY <1>2, <1>4, <2>2 DEF Right, Ends, Same, Without, InCalls
  <2>3. /\ (Sure' <=> Sure) /\ (InCall' <=> InCall) /\ (Fetched' <=> Fetched)
    BY <1>1, <2>1 DEF Sure, InCall, Fetched
  <2>4. Shown => Shown'
    BY <1>1, <2>1, <2>2, <2>3 DEF Shown, Right
  <2>5. Loads => Loads'
    BY <1>1, <2>1, <2>3 DEF Loads
  <2> QED
    BY <1>1, <2>1, <2>4, <2>5 DEF ViewInv
<1> QED
  BY <1>3, <1>4

---------------------------------------------------------------------------
(* The answer of /channels *)

\* V, which begins with the call t as it is when the answer is read, and W, which is shown,
\* have met at an event that sets them, or V has the sessions of t and none that neither t
\* nor W has.
Near(F, V, W, t, k) ==
    \/ /\ V[k].call = W[k].call /\ V[k].sess = W[k].sess
       /\ \E j \in 1..k : F[j].k \in {"end", "state"}
    \/ /\ t.sess \subseteq V[k].sess /\ V[k].sess \subseteq t.sess \cup W[k].sess
       /\ V[k].call = t.call \/ \E j \in 1..Len(F) : j > k /\ F[j].k = "start"

LEMMA NearStep ==
  ASSUME NEW F \in Seq(Event), NEW V, NEW W, NEW t, Path(V, F), Path(W, F), EventsRight(F, t),
         t.call # 0, t.sess # {}, NEW n \in Nat, n + 1 <= Len(F), Near(F, V, W, t, n)
  PROVE  Near(F, V, W, t, n + 1)
<1> DEFINE e == F[n + 1]
           v == V[n]
           w == W[n]
           x == Shows(v, e)
           y == Shows(w, e)
<1>1. n + 1 \in 1..Len(F) /\ (n + 1) - 1 = n /\ e \in Event
  OBVIOUS
<1>2. V[n + 1] = x /\ W[n + 1] = y
  BY <1>1 DEF Path
<1>3. /\ e.k = "left" => e.s \notin t.sess
      /\ e.k = "start" => e.c = t.call \/ \E j \in 1..Len(F) : j > n + 1 /\ F[j].k = "start"
      /\ e.k \in Kind \cup {"state"}
  BY <1>1, EventParts DEF EventsRight
<1> HIDE DEF e, x, y, v, w
<1>4. CASE e.k \in {"end", "state"}
  <2>1. x.call = y.call /\ x.sess = y.sess
    BY <1>4 DEF x, y, Shows, Over
  <2>2. F[n + 1].k \in {"end", "state"} /\ n + 1 \in 1..(n + 1)
    BY <1>4 DEF e
  <2> QED
    BY <1>2, <2>1, <2>2 DEF Near
<1>5. CASE e.k \notin {"end", "state"} /\ v.call = w.call /\ v.sess = w.sess
           /\ \E j \in 1..n : F[j].k \in {"end", "state"}
  <2>1. x.call = y.call /\ x.sess = y.sess
    BY <1>5 DEF x, y, Shows, Over
  <2>2. \E j \in 1..(n + 1) : F[j].k \in {"end", "state"}
    BY <1>5
  <2> QED
    BY <1>2, <2>1, <2>2 DEF Near
<1>6. CASE /\ e.k \notin {"end", "state"}
           /\ t.sess \subseteq v.sess /\ v.sess \subseteq t.sess \cup w.sess
           /\ v.call = t.call \/ \E j \in 1..Len(F) : j > n /\ F[j].k = "start"
  <2>1. ~Over(v, e)
    BY <1>3, <1>6 DEF Over
  <2>2. /\ x.call = IF e.k = "start" THEN e.c ELSE v.call
        /\ x.sess = IF e.k = "left" THEN v.sess \ {e.s}
                    ELSE IF e.k \in {"joined", "attr", "voice"} THEN v.sess \cup {e.s} ELSE v.sess
        /\ y.sess = IF e.k = "left" THEN w.sess \ {e.s}
                    ELSE IF e.k \in {"joined", "attr", "voice"} THEN w.sess \cup {e.s} ELSE w.sess
    BY <1>6, <2>1 DEF x, y, Shows
  <2>3. t.sess \subseteq x.sess /\ x.sess \subseteq t.sess \cup y.sess
    BY <1>3, <1>6, <2>2
  <2>4. x.call = t.call \/ \E j \in 1..Len(F) : j > n + 1 /\ F[j].k = "start"
    <3>1. CASE e.k = "start"
      BY <1>3, <2>2, <3>1
    <3>2. CASE e.k # "start"
      <4>1. \A j \in 1..Len(F) : j > n /\ F[j].k = "start" => j > n + 1
        BY <3>2 DEF e
      <4> QED
        BY <1>6, <2>2, <3>2, <4>1
    <3> QED
      BY <3>1, <3>2
  <2> QED
    BY <1>2, <2>3, <2>4 DEF Near
<1> QED
  BY <1>4, <1>5, <1>6 DEF Near, v, w

LEMMA NearEnds ==
  ASSUME NEW F \in Seq(Event), NEW V, NEW W, NEW t, Path(V, F), Path(W, F), EventsRight(F, t),
         t.call # 0, t.sess # {}, V[0].call = t.call, V[0].sess = t.sess
  PROVE  Near(F, V, W, t, Len(F))
<1> DEFINE T == {k \in Nat : k <= Len(F) => Near(F, V, W, t, k)}
<1>1. 0 \in T
  BY DEF Near
<1>2. ASSUME NEW n \in T \cap Nat
      PROVE  n + 1 \in T
  BY NearStep
<1>3. Nat \subseteq T
  <2> HIDE DEF T
  <2> QED
    BY <1>1, <1>2, SetInduction
<1> QED
  BY <1>3

LEMMA StateSets ==
  ASSUME NEW F, NEW W, Path(W, F), NEW j \in 1..Len(F), F[j].k = "state"
  PROVE  W[j].call = F[j].snap.call
<1>1. W[j] = Shows(W[j - 1], F[j])
  BY DEF Path
<1>2. Shows(W[j - 1], F[j]) = ViewOf(F[j].snap)
  BY DEF Shows
<1> QED
  BY <1>1, <1>2 DEF ViewOf

\* If what is shown is right, the answer is right as well.
LEMMA AnswerRight ==
  ASSUME NEW F \in Seq(Event), NEW W, NEW t, NEW part, NEW in, Right(W, F, t, part, in),
         EventsRight(F, t), InCalls(t)
  PROVE  \E V : V[0] = Loaded(W[0], t) /\ Right(V, F, t, FALSE, FALSE)
<1>1. Len(F) \in Nat /\ Path(W, F) /\ Ends(W, F, t, part) /\ 0 \in 0..Len(F) /\ Len(F) \in 0..Len(F)
  BY DEF Right
<1>2. CASE t.sess = {}
  <2>1. Same(W[Len(F)], t)
    BY <1>1, <1>2 DEF Ends, Same, Without, InCalls
  <2>2. Right(W, F, t, FALSE, FALSE) /\ Loaded(W[0], t) = W[0]
    BY <1>1, <1>2, <2>1 DEF Right, Ends, Loaded
  <2> QED
    BY <2>2
<1>3. CASE W[0].call # 0
  <2>1. ~Untold(W, F)
    BY <1>1, <1>3 DEF Untold
  <2>2. Right(W, F, t, FALSE, FALSE) /\ Loaded(W[0], t) = W[0]
    BY <1>1, <1>3, <2>1 DEF Right, Ends, Loaded
  <2> QED
    BY <2>2
<1>4. CASE t.sess # {} /\ W[0].call = 0
  <2>1. PICK V : V[0] = Loaded(W[0], t) /\ Path(V, F)
    BY <1>1, PathExists
  <2>2. V[0].call = t.call /\ V[0].sess = t.sess /\ t.call # 0
    BY <1>4, <2>1 DEF Loaded, InCalls
  <2>3. Near(F, V, W, t, Len(F))
    BY <1>1, <1>4, <2>1, <2>2, NearEnds
  <2> DEFINE x == V[Len(F)]
             y == W[Len(F)]
  <2>4. CASE /\ x.call = y.call /\ x.sess = y.sess
             /\ \E j \in 1..Len(F) : F[j].k \in {"end", "state"}
    <3>1. PICK j \in 1..Len(F) : F[j].k \in {"end", "state"}
      BY <2>4
    <3>2. ~Untold(W, F)
      <4>1. CASE F[j].k = "end"
        BY <4>1 DEF Untold
      <4>2. CASE F[j].k = "state"
        <5>1. F[j] \in Event /\ j \in 0..Len(F)
          OBVIOUS
        <5>2. F[j].snap.call # 0
          BY <4>2, <5>1, EventParts, Bounds
        <5>3. W[j].call = F[j].snap.call
          BY <1>1, <4>2, StateSets
        <5> QED
          BY <5>1, <5>2, <5>3 DEF Untold
      <4> QED
        BY <3>1, <4>1, <4>2
    <3>3. Ends(V, F, t, FALSE)
      BY <1>1, <2>4, <3>2 DEF Ends, Same, Without
    <3> QED
      BY <2>1, <3>3 DEF Right
  <2>5. CASE /\ t.sess \subseteq x.sess /\ x.sess \subseteq t.sess \cup y.sess
             /\ x.call = t.call \/ \E j \in 1..Len(F) : j > Len(F) /\ F[j].k = "start"
    <3>1. x.call = t.call
      BY <1>1, <2>5
    <3>2. y.sess \subseteq t.sess
      BY <1>1 DEF Ends, Same, Without
    <3>3. Ends(V, F, t, FALSE)
      BY <2>5, <3>1, <3>2 DEF Ends, Same
    <3> QED
      BY <2>1, <3>3 DEF Right
  <2> QED
    BY <2>3, <2>4, <2>5 DEF Near
<1> QED
  BY <1>2, <1>3, <1>4

\* Once a state is on its way, it does not matter what is loaded.
LEMMA MergeRight ==
  ASSUME NEW F \in Seq(Event), NEW W, NEW t, NEW part, NEW in, Right(W, F, t, part, in),
         HasState(F), NEW v, NEW part2
  PROVE  \E V : V[0] = v /\ Right(V, F, t, part2, in)
<1>1. Len(F) \in Nat /\ Path(W, F) /\ Ends(W, F, t, part) /\ Len(F) \in 0..Len(F)
  BY DEF Right
<1>2. PICK V : V[0] = v /\ Path(V, F)
  BY <1>1, PathExists
<1>3. PICK j \in 1..Len(F) : F[j].k = "state"
  BY DEF HasState
<1>4. \A k \in 0..Len(F) : (\E i \in 1..k : F[i].k = "state") => V[k] = W[k]
  BY <1>1, <1>2, Merge
<1>5. V[Len(F)] = W[Len(F)]
  BY <1>1, <1>3, <1>4
<1>6. ~Untold(W, F)
  <2>1. F[j] \in Event /\ j \in 0..Len(F)
    OBVIOUS
  <2>2. F[j].snap.call # 0
    BY <1>3, <2>1, EventParts, Bounds
  <2>3. W[j].call = F[j].snap.call
    BY <1>1, <1>3, StateSets
  <2> QED
    BY <2>1, <2>2, <2>3 DEF Untold
<1>7. Ends(V, F, t, part2)
  BY <1>1, <1>5, <1>6 DEF Ends
<1>8. ASSUME in
      PROVE  Stays(V, F, t)
  <2>1. Stays(W, F, t)
    BY <1>8 DEF Right
  <2>2. ASSUME NEW k \in 0..Len(F), NoState(F, k)
        PROVE  V[k] = W[k]
    <3>1. j \in 1..k
      BY <1>1, <1>3, <2>2 DEF NoState
    <3> QED
      BY <1>3, <1>4, <3>1
  <2> QED
    BY <1>5, <2>1, <2>2 DEF Stays
<1> QED
  BY <1>2, <1>7, <1>8 DEF Right

---------------------------------------------------------------------------
(* Loading, the connection and the handlers *)

LEMMA ChannelsView ==
  ASSUME Typed, ViewInv, PluginChannels
  PROVE  ViewInv'
<1>1. /\ fetch.st = "asked" /\ fetch' = [st |-> "answered", skip |-> fetch.skip, snap |-> truth]
      /\ UNCHANGED <<truth, feed, asked, online, store, gaps>>
  BY DEF PluginChannels, server
<1>2. feed \in Seq(Event) /\ InCalls(truth) /\ EventsRight(feed, truth)
  BY DEF Typed, TypedPlugin, ViewInv
<1>3. fetch'.st = "answered" /\ fetch'.snap = truth /\ Part /\ Part'
  BY <1>1 DEF Part
<1>4. Shown <=> Shown'
  BY <1>1, <1>3 DEF Shown, Sure, InCall, Right, Ends
<1>5. ASSUME Shown
      PROVE  Loads'
  <2> SUFFICES ASSUME Fetched'
               PROVE  \E V : /\ V[0] = Loaded(ViewOf(store), truth)
                             /\ Right(V, feed, truth, FALSE, FALSE)
    BY <1>1, <1>3 DEF Loads
  <2>1. PICK W : W[0] = ViewOf(store) /\ Right(W, feed, truth, Part, InCall)
    BY <1>1, <1>5 DEF Shown, Sure, Fetched
  <2> QED
    BY <1>2, <2>1, AnswerRight
<1> QED
  BY <1>1, <1>4, <1>5 DEF ViewInv

LEMMA LoadedShows ==
  ASSUME NEW st, IsStore(st), NEW snap
  PROVE  /\ ViewOf(LoadChannels(st, snap)) = Loaded(ViewOf(st), snap)
         /\ LoadChannels(st, snap).client = st.client
BY DEF IsStore, LoadChannels, ViewOf, Loaded

LEMMA ActivatedView ==
  ASSUME Typed, ViewInv, Activated
  PROVE  ViewInv'
<1>1. /\ fetch.st = "answered" /\ fetch' = [st |-> "no"]
      /\ store' = IF fetch.skip THEN store ELSE LoadChannels(store, fetch.snap)
      /\ asked' = (asked \/ (fetch.skip /\ online))
      /\ UNCHANGED <<truth, feed, online, gaps>>
  BY DEF Activated
<1>2. IsStore(store) /\ feed \in Seq(Event) /\ InCalls(truth) /\ Part
  BY <1>1 DEF Typed, TypedStore, TypedPlugin, Part
<1>3. ~Fetched' /\ (Sure' <=> Sure)
  BY <1>1 DEF Fetched, Sure
<1>4. /\ store'.client = store.client /\ (InCall' <=> InCall)
      /\ ViewOf(store') = IF fetch.skip THEN ViewOf(store) ELSE Loaded(ViewOf(store), fetch.snap)
  <2>1. store'.client = store.client
    BY <1>1, <1>2, LoadedShows
  <2> QED
    BY <1>1, <1>2, <2>1, LoadedShows DEF InCall
<1>5. ASSUME online, "voice" \notin gaps, Sure
      PROVE  \E W : W[0] = ViewOf(store') /\ Right(W, feed, truth, Part', InCall)
  <2>1. PICK W : W[0] = ViewOf(store) /\ Right(W, feed, truth, Part, InCall)
    BY <1>5 DEF ViewInv, Shown
  <2>2. CASE fetch.skip
    <3>1. Part'
      BY <1>1, <1>5, <2>2 DEF Part
    <3>2. Right(W, feed, truth, Part', InCall)
      BY <1>2, <2>1, <3>1 DEF Right, Ends
    <3> QED
      BY <1>4, <2>1, <2>2, <3>2
  <2>3. CASE HasState(feed)
    BY <1>2, <2>1, <2>3, MergeRight
  <2>4. CASE ~fetch.skip /\ ~HasState(feed)
    <3>1. PICK V : /\ V[0] = Loaded(ViewOf(store), fetch.snap)
                   /\ Right(V, feed, truth, FALSE, FALSE)
      BY <1>1, <1>5, <2>4 DEF ViewInv, Loads, Fetched, Sure
    <3>2. CASE InCall
      <4>1. NoState(feed, 0) /\ 0 \in 0..Len(feed)
        BY <1>2, <2>4 DEF NoState, HasState
      <4>2. W[0].call = truth.call /\ truth.call # 0
        BY <1>2, <2>1, <3>2, <4>1 DEF Right, Stays, InCall, InCalls
      <4>3. ~Untold(W, feed)
        BY <4>1, <4>2 DEF Untold
      <4>4. ViewOf(store') = ViewOf(store)
        BY <1>4, <2>1, <2>4, <4>2 DEF Loaded
      <4>5. Right(W, feed, truth, Part', InCall)
        BY <2>1, <4>3 DEF Right, Ends
      <4> QED
        BY <2>1, <4>4, <4>5
    <3>3. CASE ~InCall
      <4>1. Right(V, feed, truth, Part', InCall)
        BY <3>1, <3>3 DEF Right, Ends
      <4> QED
        BY <1>4, <2>4, <3>1, <4>1
    <3> QED
      BY <3>2, <3>3
  <2> QED
    BY <2>2, <2>3, <2>4
<1>6. online /\ "voice" \notin gaps => Shown'
  BY <1>1, <1>3, <1>4, <1>5 DEF Shown, Right
<1>7. Loads'
  BY <1>3 DEF Loads
<1>8. ~online => feed = <<>> /\ ~asked'
  BY <1>1 DEF ViewInv
<1> QED
  BY <1>1, <1>6, <1>7, <1>8 DEF ViewInv

LEMMA ReconnectView ==
  ASSUME Typed, ViewInv, Reconnect
  PROVE  ViewInv'
<1>1. /\ ~online /\ online' = TRUE /\ fetch' = [st |-> "config"] /\ feed = <<>>
      /\ store' = (IF store.client THEN store ELSE Uninit(store))
      /\ gaps' = (IF store.client THEN gaps \cup {"offline"} ELSE {})
      /\ UNCHANGED <<truth, feed, asked>>
  BY DEF Reconnect, server, ViewInv
<1>2. ~Fetched' /\ Part' /\ ~HasState(feed) /\ Len(feed) = 0
  BY <1>1 DEF Fetched, Part, HasState
<1>3. CASE store.client
  <2>1. ~Sure'
    BY <1>1, <1>2, <1>3 DEF Sure
  <2> QED
    BY <1>1, <1>2, <2>1 DEF ViewInv, Shown, Loads
<1>4. CASE ~store.client
  <2>1. /\ store'.client = FALSE /\ ViewOf(store').call = 0 /\ ViewOf(store').sess = {}
    <3>1. IsStore(store) /\ store.client = FALSE
      BY <1>4 DEF Typed, TypedStore
    <3> QED
      BY <1>1, <1>4, <3>1 DEF IsStore, Uninit, ViewOf
  <2> DEFINE w == ViewOf(store')
             W == [k \in {0} |-> w]
  <2>2. W[0] = w /\ \A k \in 0..0 : k = 0
    OBVIOUS
  <2> HIDE DEF w, W
  <2>3. Path(W, feed)
    BY <1>2 DEF Path
  <2>4. Ends(W, feed, truth, Part')
    BY <1>2, <2>1, <2>2 DEF Ends, Without, Untold, w
  <2>5. ~InCall'
    BY <2>1 DEF InCall
  <2>6. Right(W, feed, truth, Part', InCall')
    BY <2>3, <2>4, <2>5 DEF Right
  <2>7. Shown'
    BY <1>1, <2>2, <2>6 DEF Shown, w
  <2> QED
    BY <1>1, <1>2, <2>7 DEF ViewInv, Loads
<1> QED
  BY <1>3, <1>4

LEMMA DropView ==
  ASSUME ViewInv, Drop
  PROVE  ViewInv'
<1>1. online' = FALSE /\ feed' = <<>> /\ asked' = FALSE /\ truth' = truth
  BY DEF Drop
<1>2. Len(feed') = 0
  BY <1>1
<1>3. EventsRight(feed', truth')
  BY <1>2 DEF EventsRight
<1> QED
  BY <1>1, <1>3 DEF ViewInv

LEMMA FetchView ==
  ASSUME ViewInv, FetchChannels
  PROVE  ViewInv'
<1>1. /\ fetch.st = "config" /\ fetch' = [st |-> "asked", skip |-> store.client]
      /\ UNCHANGED <<truth, feed, asked, online, store, gaps>>
  BY DEF FetchChannels, server
<1>2. Part /\ Part' /\ ~Fetched'
  BY <1>1 DEF Part, Fetched
<1>3. Shown <=> Shown'
  BY <1>1, <1>2 DEF Shown, Sure, InCall, Right, Ends
<1> QED
  BY <1>1, <1>2, <1>3 DEF ViewInv, Loads

LEMMA HandlerView ==
  ASSUME Typed, ViewInv, Handler
  PROVE  ViewInv'
<1>1. IsStore(store) /\ feed \in Seq(Event)
  BY DEF Typed, TypedStore, TypedPlugin
<1>2. /\ ViewOf(store') = Shows(ViewOf(store), Head(feed))
      /\ store'.client \in {store.client, FALSE}
      /\ feed # <<>> /\ feed' = Tail(feed)
      /\ gaps' = IF fetch.st = "answered" /\ ~fetch.skip THEN gaps \cup {"fetch"}
                 ELSE IF Head(feed).k = "state" THEN gaps \cap {"voice"} ELSE gaps
      /\ UNCHANGED <<truth, asked, online, fetch>>
  BY <1>1, HandlerShows
<1>3. /\ Len(feed) \in Nat \ {0} /\ Len(feed') = Len(feed) - 1 /\ Head(feed) = feed[1]
      /\ \A k \in 1..Len(feed') : feed'[k] = feed[k + 1] /\ k + 1 \in 1..Len(feed)
  BY <1>1, <1>2
<1>4. EventsRight(feed', truth')
  <2> SUFFICES ASSUME NEW k \in 1..Len(feed')
               PROVE  /\ feed'[k].k = "left" => feed'[k].s \in truth.was \ truth.sess
                      /\ feed'[k].k = "start" =>
                            \/ feed'[k].c = truth.call \/ truth.call = 0
                            \/ \E j \in 1..Len(feed') : j > k /\ feed'[j].k = "start"
    BY <1>2 DEF EventsRight
  <2>1. /\ feed[k + 1].k = "left" => feed[k + 1].s \in truth.was \ truth.sess
        /\ feed[k + 1].k = "start" =>
              \/ feed[k + 1].c = truth.call \/ truth.call = 0
              \/ \E j \in 1..Len(feed) : j > k + 1 /\ feed[j].k = "start"
    BY <1>3 DEF ViewInv, EventsRight
  <2>2. ASSUME NEW j \in 1..Len(feed), j > k + 1, feed[j].k = "start"
        PROVE  \E i \in 1..Len(feed') : i > k /\ feed'[i].k = "start"
    <3>1. j - 1 \in 1..Len(feed') /\ j - 1 > k /\ (j - 1) + 1 = j
      BY <1>3, <2>2
    <3> QED
      BY <1>3, <2>2, <3>1
  <2> QED
    BY <1>3, <2>1, <2>2
<1>5. HasState(feed') => HasState(feed)
  BY <1>3 DEF HasState
<1>6. Head(feed).k = "state" => HasState(feed)
  BY <1>3 DEF HasState
<1>7. (InCall' => InCall) /\ (Part' <=> Part) /\ (Sure' => Sure)
  BY <1>2, <1>5, <1>6 DEF InCall, Part, Sure
<1>8. ~Fetched'
  <2>1. fetch.st = "answered" /\ ~fetch.skip => gaps' # {}
    BY <1>2
  <2> QED
    BY <1>2, <2>1 DEF Fetched
<1>9. ASSUME online, "voice" \notin gaps, Sure'
      PROVE  \E X : X[0] = ViewOf(store') /\ Right(X, feed', truth', Part', InCall')
  <2>1. PICK W : W[0] = ViewOf(store) /\ Right(W, feed, truth, Part, InCall)
    BY <1>7, <1>9 DEF ViewInv, Shown
  <2>2. PICK X : /\ X[0] = Shows(W[0], Head(feed))
                 /\ Right(X, Tail(feed), truth, Part, InCall')
    BY <1>1, <1>2, <1>7, <2>1, TailRight
  <2>3. Right(X, Tail(feed), truth, Part', InCall')
    BY <1>7, <2>2 DEF Right, Ends
  <2> QED
    BY <1>2, <2>1, <2>2, <2>3
<1>10. "voice" \notin gaps' => "voice" \notin gaps
  BY <1>2
<1>11. online' /\ "voice" \notin gaps' => Shown' /\ Loads'
  BY <1>2, <1>8, <1>9, <1>10 DEF Shown, Loads
<1>12. ~online => feed = <<>> /\ ~asked
  BY DEF ViewInv
<1> QED
  BY <1>2, <1>4, <1>11, <1>12 DEF ViewInv

LEMMA SameView ==
  ASSUME ViewInv, ViewOf(store') = ViewOf(store), InCall' => InCall,
         UNCHANGED <<truth, feed, asked, online, fetch, gaps>>
  PROVE  ViewInv'
<1>1. /\ (Part' <=> Part) /\ (Sure' <=> Sure) /\ (Fetched' <=> Fetched)
  BY DEF Part, Sure, Fetched
<1>2. ASSUME NEW W, Right(W, feed, truth, Part, InCall)
      PROVE  Right(W, feed, truth, Part', InCall')
  BY <1>1, <1>2 DEF Right, Ends
<1>3. Shown => Shown'
  BY <1>1, <1>2 DEF Shown
<1>4. Loads => Loads'
  BY <1>1 DEF Loads
<1> QED
  BY <1>3, <1>4 DEF ViewInv

LEMMA UserView ==
  ASSUME Typed, ViewInv, NEW c, NEW i,
         \/ ConnectCall \/ LeaveCall \/ OnDismiss(c) \/ OnJoin(c) \/ RingEffect(c) \/ RingTimeout(c)
         \/ InviteChannel(i) \/ InviteProfile(i)
  PROVE  ViewInv'
<1>1. IsStore(store) /\ TruthRight(truth)
  BY DEF Typed, TypedStore, ViewInv
<1>2. UNCHANGED <<truth, feed, asked, online, fetch, gaps>>
  BY DEF ConnectCall, LeaveCall, OnDismiss, OnJoin, RingEffect, RingTimeout, InviteChannel,
         InviteProfile, UserStep, server
<1>3. /\ ViewOf(store') = ViewOf(store)
      /\ store'.client => store.client \/ Me \notin truth.was
  <2> USE DEF IsStore, ViewOf
  <2>1. CASE ConnectCall
    BY <1>1, <2>1 DEF ConnectCall, MayConnect
  <2>2. CASE LeaveCall
    BY <1>1, <2>2 DEF LeaveCall, SessionClosed
  <2>3. CASE OnDismiss(c)
    BY <1>1, <2>3 DEF OnDismiss, Dismissal, RemoveIncoming, StopRinging
  <2>4. CASE OnJoin(c)
    BY <1>1, <2>4 DEF OnJoin, MayConnect, Dismissal, RemoveIncoming, StopRinging
  <2>5. CASE RingEffect(c)
    <3> DEFINE shown == [store EXCEPT !.mounted = @ \cup {c}]
               silent == [shown EXCEPT !.ringing = @ \ {c}, !.didRing = @ \cup {c}]
               heard == [shown EXCEPT !.ringing = @ \cup {c}, !.didRing = @ \cup {c},
                                      !.timers = @ \cup {c}, !.sound = TRUE]
    <3>1. IsStore(shown) /\ ViewOf(shown) = ViewOf(store) /\ shown.client = store.client
      BY <1>1
    <3>2. store' \in {shown, silent, heard}
      BY <2>5 DEF RingEffect
    <3> HIDE DEF shown
    <3>3. ViewOf(silent) = ViewOf(store) /\ silent.client = store.client
      BY <3>1
    <3>4. ViewOf(heard) = ViewOf(store) /\ heard.client = store.client
      BY <3>1
    <3> HIDE DEF silent, heard, ViewOf
    <3> QED
      BY <3>1, <3>2, <3>3, <3>4
  <2>6. CASE RingTimeout(c)
    BY <1>1, <2>6 DEF RingTimeout, StopRinging
  <2>7. CASE InviteChannel(i)
    BY <1>1, <2>7 DEF InviteChannel
  <2>8. CASE InviteProfile(i)
    BY <1>1, <2>8 DEF InviteProfile
  <2> QED
    BY <2>1, <2>2, <2>3, <2>4, <2>5, <2>6, <2>7, <2>8
<1>4. InCall' => InCall
  BY <1>1, <1>2, <1>3 DEF InCall, TruthRight
<1> QED
  BY <1>2, <1>3, <1>4, SameView

---------------------------------------------------------------------------
(* The view: the theorem *)

LEMMA ViewInit == StoreInit => ViewInv
<1> SUFFICES ASSUME StoreInit PROVE ViewInv
  OBVIOUS
<1>1. /\ truth = NoCall(0, {}) /\ feed = <<>> /\ Len(feed) = 0 /\ online = TRUE /\ store.client = FALSE
      /\ ViewOf(store).call = 0 /\ ViewOf(store).sess = {} /\ fetch.st = "no"
  BY DEF StoreInit, ViewOf
<1>2. TruthRight(truth) /\ EventsRight(feed, truth)
  BY <1>1 DEF TruthRight, EventsRight, NoCall
<1> DEFINE w == ViewOf(store)
           W == [k \in {0} |-> w]
<1>3. W[0] = w
  OBVIOUS
<1> HIDE DEF w, W
<1>4. Path(W, feed)
  BY <1>1 DEF Path
<1>5. Ends(W, feed, truth, Part)
  BY <1>1, <1>3 DEF Ends, Same, NoCall, w
<1>6. Right(W, feed, truth, Part, InCall)
  BY <1>1, <1>4, <1>5 DEF Right, InCall
<1>7. Shown
  BY <1>3, <1>6 DEF Shown, w
<1> QED
  BY <1>1, <1>2, <1>7 DEF ViewInv, Loads, Fetched

LEMMA ViewStep ==
  ASSUME Typed, ViewInv, [StoreNext]_storeVars
  PROVE  ViewInv'
<1>1. ASSUME NEW s \in Sess, NEW on \in BOOLEAN,
             \/ PluginJoin(s) \/ PluginLeave(s) \/ PluginScreen(s) \/ PluginHost(s)
             \/ PluginVoice(s) \/ PluginAttr(s, on)
      PROVE  ViewInv'
  BY <1>1, JoinView, LeaveView, ChangesView, VoiceView
<1>2. ASSUME NEW s \in Sess, PluginVoiceRead(s)
      PROVE  ViewInv'
  <2>1. UNCHANGED <<truth, feed, asked, online, fetch, gaps, store>>
    BY <1>2 DEF PluginVoiceRead, ViewOp, Op, client
  <2> QED
    BY <2>1, SameView DEF InCall
<1>3. CASE PluginRecord \/ PluginEnd \/ PluginDismiss
  BY <1>3, ChangesView, Bounds
<1>4. CASE PluginState \/ PluginChannels
  BY <1>4, StateView, ChannelsView
<1>5. CASE Handler
  BY <1>5, HandlerView
<1>6. CASE Drop \/ Reconnect \/ FetchChannels \/ Activated
  BY <1>6, DropView, ReconnectView, FetchView, ActivatedView
<1>7. ASSUME NEW c, NEW i,
             \/ ConnectCall \/ LeaveCall \/ OnDismiss(c) \/ OnJoin(c) \/ RingEffect(c)
             \/ RingTimeout(c) \/ InviteChannel(i) \/ InviteProfile(i)
      PROVE  ViewInv'
  BY <1>7, UserView
<1>8. CASE UNCHANGED storeVars
  BY <1>8, SameView DEF storeVars, InCall
<1> QED
  BY <1>1, <1>2, <1>3, <1>4, <1>5, <1>6, <1>7, <1>8 DEF StoreNext, PluginStep

LEMMA ViewHolds ==
  ASSUME Typed, ViewInv
  PROVE  ViewConverges
<1> SUFFICES ASSUME Settled, gaps = {}
             PROVE  /\ store.call = truth.call /\ store.sess = truth.sess
                    /\ store.client /\ Me \in truth.sess =>
                         /\ store.attr = truth.attr /\ store.host = truth.host
                         /\ ScreenSharer(store) = truth.screen
  BY DEF ViewConverges
<1>1. /\ online /\ Len(feed) = 0 /\ ~Part /\ ~truth.ending /\ Sure /\ TruthRight(truth)
  BY DEF Settled, Part, Sure, ViewInv
<1>2. PICK W : W[0] = ViewOf(store) /\ Right(W, feed, truth, Part, InCall)
  BY <1>1 DEF ViewInv, Shown
<1>3. Same(ViewOf(store), truth)
  BY <1>1, <1>2 DEF Right, Ends
<1>4. store.call = truth.call /\ store.sess = truth.sess
  BY <1>3 DEF Same, ViewOf
<1>5. ASSUME store.client, Me \in truth.sess
      PROVE  /\ store.attr = truth.attr /\ store.host = truth.host
             /\ ScreenSharer(store) = truth.screen
  <2>1. Alike(ViewOf(store), truth)
    BY <1>1, <1>2, <1>5 DEF Right, Stays, InCall
  <2>2. store.attr = truth.attr /\ store.host = truth.host /\ store.screen = truth.screen
    BY <2>1 DEF Alike, ViewOf
  <2> QED
    BY <1>1, <1>4, <2>2 DEF ScreenSharer, TruthRight
<1> QED
  BY <1>4, <1>5

\* When every event has arrived the client shows the call that there is, its sessions and,
\* in the call, who is unmuted, hosts and shares, after any order of events, lost
\* connections and loads but for the gaps (index.tsx, onActivate; websocket_handlers.ts).
THEOREM ViewConvergesAlways ==
  StoreSpec => []ViewConverges
<1> DEFINE IInv == Typed /\ ViewInv
<1>1. StoreInit => IInv
  BY TypedInit, ViewInit
<1>2. IInv /\ [StoreNext]_storeVars => IInv'
  BY TypedStep, ViewStep
<1>3. IInv => ViewConverges
  BY ViewHolds
<1> QED
  BY <1>1, <1>2, <1>3, PTL DEF StoreSpec
=============================================================================

---------------------------- MODULE WindowsProofs ----------------------------
(* Proofs about what MCWindows composes: the media of the web application, *)
(* and the window of a call, the downloads and the views of the desktop.   *)
EXTENDS MCWindows, FiniteSetTheorems, SequenceTheorems, TLAPS

---------------------------------------------------------------------------
(* Leaving: the inductive invariant *)

AsksInit(i) == task[i].do \in {"initMic", "initCam"}
InitPending == \E i \in Slot : AsksInit(i)

\* What captures is in this.streams, which leaving cleans up, unless it came too late.
\* Until it is refused media, init is under way as long as one of its requests is.
MediaIInv ==
    /\ task = [i \in Slot |-> task[i]]
    /\ live \subseteq streams \cup strays
    /\ closed => stage # "new"
    /\ InitPending /\ ~barred => stage = "asked"
    /\ closed /\ ~barred => ~ws
    /\ closed /\ ~barred /\ ~InitPending => live \subseteq strays

\* No request of init begins or ends.
SameInit == \A j \in Slot : AsksInit(j)' <=> AsksInit(j)

LEMMA TasksOfCall ==
  ASSUME task = [i \in Slot |-> task[i]],
         \/ \E i \in Slot : ~AsksInit(i) /\ (End(i) \/ GoesOn(i, "addMic") \/ GoesOn(i, "addCam"))
         \/ \E do \in {"unmute", "addMic", "newMic", "video", "addCam", "newCam", "share"} : Ask(do)
         \/ \E old, on : \/ Begin([do |-> "switchMic", old |-> old, on |-> on])
                         \/ Begin([do |-> "switchCam", old |-> old, on |-> on])
  PROVE  task' = [i \in Slot |-> task'[i]] /\ SameInit
<1> USE DEF SameInit, AsksInit, NoTask
<1>1. ASSUME NEW i \in Slot, ~AsksInit(i),
             End(i) \/ GoesOn(i, "addMic") \/ GoesOn(i, "addCam")
      PROVE  task' = [j \in Slot |-> task'[j]] /\ SameInit
  BY <1>1 DEF End, GoesOn
<1>2. ASSUME NEW t, t.do \notin {"initMic", "initCam"}, Begin(t)
      PROVE  task' = [j \in Slot |-> task'[j]] /\ SameInit
  BY <1>2 DEF Begin
<1>3. ASSUME NEW do \in {"unmute", "addMic", "newMic", "video", "addCam", "newCam", "share"}, Ask(do)
      PROVE  task' = [j \in Slot |-> task'[j]] /\ SameInit
  BY <1>2, <1>3 DEF Ask
<1>4. ASSUME NEW old, NEW on,
             \/ Begin([do |-> "switchMic", old |-> old, on |-> on])
             \/ Begin([do |-> "switchCam", old |-> old, on |-> on])
      PROVE  task' = [j \in Slot |-> task'[j]] /\ SameInit
  BY <1>2, <1>4
<1> QED
  BY <1>1, <1>3, <1>4

\* A step of the call keeps the invariant if what it captures is in this.streams or is a
\* stray, and is a stray if the client has been closed.
LEMMA CallStepQuiet ==
  ASSUME MediaIInv, task' = [i \in Slot |-> task'[i]], SameInit,
         UNCHANGED <<stage, closed, ws, barred>>, strays \subseteq strays',
         live' \subseteq streams' \cup strays',
         closed /\ ~barred => live' \subseteq live \cup strays'
  PROVE  MediaIInv'
BY DEF MediaIInv, SameInit, InitPending

---------------------------------------------------------------------------
(* Joining and leaving *)

LEMMA InitGrantedStep ==
  ASSUME MediaIInv, NEW i \in Slot, InitMicGranted(i) \/ InitCamGranted(i)
  PROVE  MediaIInv'
<1>1. AsksInit(i) /\ End(i) /\ UNCHANGED <<closed, barred>>
  BY DEF InitMicGranted, InitCamGranted, AsksInit, history
<1>2. /\ task' = [j \in Slot |-> task'[j]] /\ ~AsksInit(i)'
      /\ \A j \in Slot \ {i} : AsksInit(j)' <=> AsksInit(j)
  BY <1>1 DEF MediaIInv, End, AsksInit, NoTask
<1>3. ~barred => stage = "asked"
  BY <1>1 DEF MediaIInv, InitPending
<1>4. CASE Initialised(i)
  <2>1. ~InitPending'
    BY <1>2, <1>4 DEF Initialised, InitPending, AsksInit
  <2>2. stage' # "new" /\ strays' = strays
    BY <1>4 DEF InitMicGranted, InitCamGranted, Initialised, Late, history
  <2>3. CASE closed
    <3>1. live' = live \ streams /\ streams' = {} /\ ws' = ws
      BY <1>4, <2>3 DEF InitMicGranted, InitCamGranted, CleanUp, Stops
    <3> QED
      BY <1>1, <1>2, <2>1, <2>2, <2>3, <3>1 DEF MediaIInv
  <2>4. CASE ~closed
    <3>1. live' \subseteq streams' \cup strays'
      BY <1>4, <2>2, <2>4 DEF InitMicGranted, InitCamGranted, TakeMic, MediaIInv
    <3> QED
      BY <1>1, <1>2, <2>1, <2>4, <3>1 DEF MediaIInv
  <2> QED
    BY <2>3, <2>4
<1>5. CASE ~Initialised(i)
  <2>1. UNCHANGED <<stage, ws>> /\ strays \subseteq strays'
    BY <1>5 DEF InitMicGranted, InitCamGranted, Late, history
  <2>2. live' \subseteq streams' \cup strays'
    BY <1>5, <2>1 DEF InitMicGranted, InitCamGranted, TakeMic, MediaIInv
  <2>3. ~barred => InitPending'
    BY <1>2, <1>3, <1>5 DEF Initialised, InitPending, AsksInit
  <2> QED
    BY <1>1, <1>2, <1>3, <2>1, <2>2, <2>3 DEF MediaIInv
<1> QED
  BY <1>4, <1>5

LEMMA InitRefusedStep ==
  ASSUME MediaIInv, NEW i \in Slot, InitRefused(i)
  PROVE  MediaIInv'
<1>1. task' = [j \in Slot |-> task'[j]]
  BY DEF InitRefused, End, MediaIInv
<1>2. ~barred => stage = "asked"
  BY DEF MediaIInv, InitPending, AsksInit, InitRefused
<1>3. barred'
  BY <1>2 DEF InitRefused
<1>4. (closed => stage' # "new") /\ UNCHANGED <<closed, live, streams, strays>>
  BY DEF InitRefused, media, MediaIInv
<1> QED
  BY <1>1, <1>3, <1>4 DEF MediaIInv

LEMMA JoinLeaveStep ==
  ASSUME MediaIInv, InitClient \/ JoinAck \/ Disconnect
  PROVE  MediaIInv'
<1>1. CASE InitClient
  BY <1>1 DEF InitClient, MediaIInv, media, history
<1>2. CASE JoinAck
  BY <1>2 DEF JoinAck, MediaIInv, media, history, InitPending, AsksInit
<1>3. CASE Disconnect
  BY <1>3 DEF Disconnect, CleanUp, Stops, MediaIInv, history, InitPending, AsksInit
<1> QED
  BY <1>1, <1>2, <1>3

---------------------------------------------------------------------------
(* The steps of the call *)

\* The operations of the user need a client that has not been closed.
LEMMA UserStepQuiet ==
  ASSUME MediaIInv,
         \/ Mute \/ Unmute \/ SetAudioInputDevice
         \/ StartVideo \/ StopVideo \/ SetVideoInputDevice
         \/ ShareScreen \/ UnshareScreen
  PROVE  MediaIInv'
<1>1. task = [i \in Slot |-> task[i]]
  BY DEF MediaIInv
<1>2. ~closed /\ UNCHANGED <<stage, closed, ws, barred, strays>>
  BY DEF Mute, Unmute, SetAudioInputDevice, StartVideo, StopVideo, SetVideoInputDevice,
         ShareScreen, UnshareScreen, Used, ClientFixed
<1>3. live' \subseteq live /\ streams' = streams
  BY DEF Mute, Unmute, SetAudioInputDevice, StartVideo, StopVideo, SetVideoInputDevice,
         ShareScreen, UnshareScreen, media, Stops
<1>4. task' = [i \in Slot |-> task'[i]] /\ SameInit
  <2>1. CASE UNCHANGED task
    BY <1>1, <2>1 DEF SameInit, AsksInit
  <2>2. CASE \E do \in {"unmute", "addMic", "newMic", "video", "addCam", "newCam", "share"} : Ask(do)
    BY <1>1, <2>2, TasksOfCall
  <2>3. CASE Begin([do |-> "switchMic", old |-> mic, on |-> mic \in enabled])
    BY <1>1, <2>3, TasksOfCall
  <2>4. CASE Begin([do |-> "switchCam", old |-> cam, on |-> cam \in enabled])
    BY <1>1, <2>4, TasksOfCall
  <2> QED
    BY <2>1, <2>2, <2>3, <2>4 DEF Mute, Unmute, SetAudioInputDevice, StartVideo, StopVideo,
       SetVideoInputDevice, ShareScreen, UnshareScreen
<1> QED
  BY <1>2, <1>3, <1>4, CallStepQuiet DEF MediaIInv

LEMMA AnswerStepQuiet ==
  ASSUME MediaIInv, NEW i \in Slot,
         \/ UnmuteGranted(i) \/ MicIsAdded(i) \/ NewMicGranted(i) \/ SwitchMicGranted(i)
         \/ VideoGranted(i) \/ CamIsAdded(i) \/ NewCamGranted(i) \/ SwitchCamGranted(i)
         \/ ShareGranted(i) \/ Refused(i)
  PROVE  MediaIInv'
<1>1. task = [j \in Slot |-> task[j]]
  BY DEF MediaIInv
<1>2. ~AsksInit(i) /\ UNCHANGED <<stage, closed, ws, barred>>
  BY DEF UnmuteGranted, MicIsAdded, NewMicGranted, SwitchMicGranted, VideoGranted, CamIsAdded,
         NewCamGranted, SwitchCamGranted, ShareGranted, Refused, Requests, AsksInit, Answer,
         ClientFixed
<1>3. End(i) \/ GoesOn(i, "addMic") \/ GoesOn(i, "addCam")
  BY DEF UnmuteGranted, MicIsAdded, NewMicGranted, SwitchMicGranted, VideoGranted, CamIsAdded,
         NewCamGranted, SwitchCamGranted, ShareGranted, Refused
<1>4. task' = [j \in Slot |-> task'[j]] /\ SameInit
  BY <1>1, <1>2, <1>3, TasksOfCall
<1>5. /\ strays \subseteq strays' /\ live' \subseteq streams' \cup strays'
      /\ closed /\ ~barred => live' \subseteq live \cup strays'
  <2> USE DEF MediaIInv, Late
  <2>1. CASE UnmuteGranted(i)
    BY <2>1 DEF UnmuteGranted, TakeMic
  <2>2. CASE NewMicGranted(i)
    BY <2>2 DEF NewMicGranted, TakeMic
  <2>3. CASE SwitchMicGranted(i)
    BY <2>3 DEF SwitchMicGranted
  <2>4. CASE VideoGranted(i)
    BY <2>4 DEF VideoGranted
  <2>5. CASE SwitchCamGranted(i)
    BY <2>5 DEF SwitchCamGranted
  <2>6. CASE ShareGranted(i)
    BY <2>6 DEF ShareGranted
  <2>7. CASE MicIsAdded(i) \/ CamIsAdded(i) \/ NewCamGranted(i) \/ Refused(i)
    BY <2>7 DEF MicIsAdded, CamIsAdded, NewCamGranted, Refused, Nothing, media
  <2> QED
    BY <2>1, <2>2, <2>3, <2>4, <2>5, <2>6, <2>7
<1> QED
  BY <1>2, <1>4, <1>5, CallStepQuiet

---------------------------------------------------------------------------
(* The theorem *)

LEMMA MediaStep ==
  ASSUME MediaIInv, [MediaNext]_mediaVars
  PROVE  MediaIInv'
<1>1. CASE InitClient \/ JoinAck \/ Disconnect
  BY <1>1, JoinLeaveStep
<1>2. CASE \/ Mute \/ Unmute \/ SetAudioInputDevice
           \/ StartVideo \/ StopVideo \/ SetVideoInputDevice
           \/ ShareScreen \/ UnshareScreen
  BY <1>2, UserStepQuiet
<1>3. ASSUME NEW i \in Slot, InitMicGranted(i) \/ InitCamGranted(i) \/ InitRefused(i)
      PROVE  MediaIInv'
  BY <1>3, InitGrantedStep, InitRefusedStep
<1>4. ASSUME NEW i \in Slot,
             \/ UnmuteGranted(i) \/ MicIsAdded(i) \/ NewMicGranted(i) \/ SwitchMicGranted(i)
             \/ VideoGranted(i) \/ CamIsAdded(i) \/ NewCamGranted(i) \/ SwitchCamGranted(i)
             \/ ShareGranted(i) \/ Refused(i)
      PROVE  MediaIInv'
  BY <1>4, AnswerStepQuiet
<1>5. CASE UNCHANGED mediaVars
  BY <1>5 DEF mediaVars, media, history, MediaIInv, InitPending, AsksInit
<1> QED
  BY <1>1, <1>2, <1>3, <1>4, <1>5 DEF MediaNext

\* A client that has been closed does not join, and captures nothing once init's requests
\* are answered, unless one of them is refused, and but for the tracks of requests made in
\* the call (client.ts: init, disconnect).
THEOREM ClosedIsQuietAlways ==
  MediaSpec => []ClosedIsQuiet
<1>1. MediaInit => MediaIInv
  BY DEF MediaInit, MediaIInv, InitPending, AsksInit, NoTask
<1>2. MediaIInv /\ [MediaNext]_mediaVars => MediaIInv'
  BY MediaStep
<1>3. MediaIInv => ClosedIsQuiet
  BY DEF MediaIInv, ClosedIsQuiet, InitPending, AsksInit
<1> QED
  BY <1>1, <1>2, <1>3, PTL DEF MediaSpec

---------------------------------------------------------------------------
(* What the others hear and see: the inductive invariant *)

Known(t) == t \in Track /\ t.n <= tracks

Tracked ==
    /\ tracks \in 0..MaxTracks
    /\ \A t \in live \cup enabled : Known(t)
    /\ mic # NoTrack => Known(mic) /\ mic.k = "mic"
    /\ cam # NoTrack => Known(cam) /\ cam.k = "cam"
    /\ screen # NoTrack => screen.k = "screen"
    /\ said \in [mic : {said.mic}, cam : {said.cam}]

\* The requests of the call are made by a peer, for the devices there are.
Requested ==
    /\ task = [i \in Slot |-> task[i]] /\ (peer => ws) /\ (stage = "new" => ~ws)
    /\ \A i \in Slot :
        /\ task[i] \in [do : {task[i].do}, old : {task[i].old}, on : {task[i].on}]
        /\ task[i].do \notin {"none", "initMic", "initCam"} => peer
        /\ task[i].do = "addMic" => mic # NoTrack
        /\ task[i].do = "switchMic" => task[i].old.k = "mic"
        /\ task[i].do = "switchCam" => task[i].old.k = "cam"

MicRight ==
    "mic" \notin stale =>
        /\ mic = NoTrack => ~said.mic
        /\ mic # NoTrack => mic \in live
        /\ Hears("mic") = IF said.mic THEN {mic} ELSE {}

CamRight ==
    "cam" \notin stale =>
        /\ cam = NoTrack => ~said.cam
        /\ cam # NoTrack => cam \in live
        /\ Hears("cam") \subseteq {cam}
        /\ said.cam => Hears("cam") = {cam}
        /\ ~said.cam /\ ~Pending("addCam") => Hears("cam") = {}

Agree == Tracked /\ Requested /\ MicRight /\ CamRight

---------------------------------------------------------------------------
(* What a step may leave alone *)

LEMMA NewTrackFresh ==
  ASSUME Tracked, Captured, NEW k \in {"mic", "cam", "screen"}
  PROVE  /\ NewTrack(k) \in Track /\ NewTrack(k).k = k /\ NewTrack(k).n <= tracks'
         /\ NewTrack(k) # NoTrack /\ tracks' \in 0..MaxTracks
         /\ \A t : Known(t) => t # NewTrack(k) /\ Known(t)'
<1>1. /\ tracks \in 0..MaxTracks /\ tracks < MaxTracks /\ tracks' = tracks + 1 /\ MaxTracks \in Nat
  BY MediaAssumption DEF Tracked, Captured
<1>2. NewTrack(k) \in Track /\ NewTrack(k).k = k /\ NewTrack(k).n = tracks + 1
  BY <1>1 DEF NewTrack, Track
<1>3. \A t \in Track : t.n \in Nat
  BY <1>1 DEF Track
<1>4. ASSUME NEW t, Known(t)
      PROVE  t # NewTrack(k) /\ Known(t)'
  BY <1>1, <1>2, <1>3, <1>4 DEF Known
<1>5. NewTrack(k) # NoTrack
  BY <1>2 DEF NoTrack
<1> QED
  BY <1>1, <1>2, <1>4, <1>5

LEMMA MicQuiet ==
  ASSUME MicRight, Tracked, mic' = mic, said'.mic = said.mic,
         "mic" \notin stale' => "mic" \notin stale,
         \A t : t.k = "mic" => (t \in live' <=> t \in live) /\ (t \in enabled' <=> t \in enabled)
  PROVE  MicRight'
<1>1. Hears("mic")' = Hears("mic")
  BY DEF Hears
<1>2. mic # NoTrack => (mic \in live' <=> mic \in live)
  BY DEF Tracked
<1> QED
  BY <1>1, <1>2 DEF MicRight

LEMMA CamQuiet ==
  ASSUME CamRight, Tracked, cam' = cam, said'.cam = said.cam,
         "cam" \notin stale' => "cam" \notin stale,
         \A t : t.k = "cam" => (t \in live' <=> t \in live) /\ (t \in enabled' <=> t \in enabled),
         Pending("addCam") => Pending("addCam")'
  PROVE  CamRight'
<1>1. Hears("cam")' = Hears("cam")
  BY DEF Hears
<1>2. cam # NoTrack => (cam \in live' <=> cam \in live)
  BY DEF Tracked
<1> QED
  BY <1>1, <1>2 DEF CamRight

\* A request ends, goes on or begins.
LEMMA RequestedStep ==
  ASSUME Requested, UNCHANGED peer, ws => ws', stage' = "new" => ~ws',
         mic # NoTrack => mic' # NoTrack,
         \/ UNCHANGED task
         \/ \E i \in Slot : \/ End(i)
                            \/ task[i].do = "unmute" /\ GoesOn(i, "addMic") /\ mic' # NoTrack
                            \/ task[i].do = "video" /\ GoesOn(i, "addCam")
         \/ peer /\ \E do \in {"unmute", "newMic", "video", "addCam", "newCam", "share"} : Ask(do)
         \/ peer /\ mic # NoTrack /\ Ask("addMic")
         \/ peer /\ \E old, on : old.k = "mic" /\ Begin([do |-> "switchMic", old |-> old, on |-> on])
         \/ peer /\ \E old, on : old.k = "cam" /\ Begin([do |-> "switchCam", old |-> old, on |-> on])
  PROVE  Requested'
<1>1. CASE UNCHANGED task
  BY <1>1 DEF Requested
<1>2. ASSUME NEW i \in Slot, NEW t, task' = [task EXCEPT ![i] = t],
             t \in [do : {t.do}, old : {t.old}, on : {t.on}],
             t.do \notin {"none", "initMic", "initCam"} => peer,
             t.do = "addMic" => mic' # NoTrack,
             t.do = "switchMic" => t.old.k = "mic", t.do = "switchCam" => t.old.k = "cam"
      PROVE  Requested'
  <2>1. /\ task' = [j \in Slot |-> task'[j]] /\ task'[i] = t
        /\ \A j \in Slot \ {i} : task'[j] = task[j]
    BY <1>2 DEF Requested
  <2> QED
    BY <1>2, <2>1 DEF Requested
<1>3. ASSUME NEW i \in Slot, End(i)
      PROVE  Requested'
  BY <1>2, <1>3 DEF End, NoTask
<1>4. ASSUME NEW i \in Slot, task[i].do = "unmute", GoesOn(i, "addMic"), mic' # NoTrack
      PROVE  Requested'
  <2>1. peer
    BY <1>4 DEF Requested
  <2> QED
    BY <1>2, <1>4, <2>1 DEF GoesOn, NoTask
<1>5. ASSUME NEW i \in Slot, task[i].do = "video", GoesOn(i, "addCam")
      PROVE  Requested'
  <2>1. peer
    BY <1>5 DEF Requested
  <2> QED
    BY <1>2, <1>5, <2>1 DEF GoesOn, NoTask
<1>6. ASSUME peer, NEW do \in {"unmute", "newMic", "video", "addCam", "newCam", "share", "addMic"},
             do = "addMic" => mic # NoTrack, Ask(do)
      PROVE  Requested'
  BY <1>2, <1>6 DEF Ask, Begin, NoTask
<1>7. ASSUME peer, NEW old, NEW on, NEW do \in {"switchMic", "switchCam"},
             Begin([do |-> do, old |-> old, on |-> on]),
             old.k = IF do = "switchMic" THEN "mic" ELSE "cam"
      PROVE  Requested'
  BY <1>2, <1>7 DEF Begin
<1> QED
  BY <1>1, <1>3, <1>4, <1>5, <1>6, <1>7

\* Only the end of its own request can make the adding of the camera end.
LEMMA AddCamStays ==
  ASSUME Requested,
         \/ UNCHANGED task
         \/ \E i \in Slot : task[i].do # "addCam" /\ (End(i) \/ GoesOn(i, "addMic"))
         \/ \E do : Ask(do)
         \/ \E t : Begin(t)
  PROVE  Pending("addCam") => Pending("addCam")'
<1> SUFFICES ASSUME NEW j \in Slot, task[j].do = "addCam"
             PROVE  task'[j].do = "addCam"
  BY DEF Pending
<1>1. CASE UNCHANGED task
  BY <1>1
<1>2. ASSUME NEW i \in Slot, task[i].do # "addCam", End(i) \/ GoesOn(i, "addMic")
      PROVE  task'[j].do = "addCam"
  BY <1>2 DEF End, GoesOn, Requested
<1>3. ASSUME NEW t, Begin(t)
      PROVE  task'[j].do = "addCam"
  BY <1>3 DEF Begin, Requested, NoTask
<1> QED
  BY <1>1, <1>2, <1>3 DEF Ask

---------------------------------------------------------------------------
(* The steps of a client that has not been closed *)

\* Nothing about the devices has changed.
LEMMA SameMedia ==
  ASSUME Tracked, MicRight, CamRight, UNCHANGED <<media, tracks, stale>>,
         Pending("addCam") => Pending("addCam")'
  PROVE  Tracked' /\ MicRight' /\ CamRight'
<1> USE DEF media
<1>1. Tracked'
  BY DEF Tracked, Known
<1>2. MicRight'
  BY MicQuiet
<1>3. CamRight'
  BY CamQuiet
<1> QED
  BY <1>1, <1>2, <1>3

LEMMA InitAgree ==
  ASSUME Agree, NEW i \in Slot, InitClient \/ JoinAck \/ InitCamGranted(i) \/ InitRefused(i),
         ~closed
  PROVE  Agree'
<1>1. UNCHANGED <<media, tracks, stale>>
  BY DEF InitClient, JoinAck, InitCamGranted, InitRefused, media, history
<1>2. Requested' /\ (Pending("addCam") => Pending("addCam")')
  <2>1. CASE InitClient
    <3>1. ~ws /\ ~peer /\ stage' = "asked" /\ UNCHANGED <<ws, peer, mic>>
      BY <2>1 DEF InitClient, Agree, Requested, media
    <3>2. \A j \in Slot : task[j].do \in {"none", "initMic", "initCam"}
      BY <3>1 DEF Agree, Requested
    <3>3. /\ task' = [j \in Slot |-> task'[j]]
          /\ \A j \in Slot : /\ task'[j] \in [do : {task'[j].do}, old : {task'[j].old}, on : {task'[j].on}]
                             /\ task'[j].do \in {"none", "initMic", "initCam"}
      <4> DEFINE second == IF withVideo THEN "initCam" ELSE "none"
      <4>1. second \in {"none", "initCam"} /\ task' = [task EXCEPT ![1].do = "initMic", ![2].do = second]
        BY <2>1 DEF InitClient
      <4> HIDE DEF second
      <4> QED
        BY <3>2, <4>1 DEF Agree, Requested
    <3> QED
      BY <3>1, <3>2, <3>3 DEF Requested, Pending
  <2>2. CASE JoinAck
    BY <2>2 DEF JoinAck, Agree, Requested, Pending, media
  <2>3. CASE InitCamGranted(i) \/ InitRefused(i)
    <3>1. /\ UNCHANGED peer /\ (ws => ws') /\ (stage' = "new" => ~ws') /\ End(i)
          /\ task[i].do # "addCam"
      BY <2>3 DEF InitCamGranted, InitRefused, Agree, Requested
    <3>2. mic' = mic
      BY <1>1 DEF media
    <3> QED
      BY <3>1, <3>2, RequestedStep, AddCamStays DEF Agree
  <2> QED
    BY <2>1, <2>2, <2>3
<1> QED
  BY <1>1, <1>2, SameMedia DEF Agree

\* A new microphone that is off.
LEMMA TakeMicAgree ==
  ASSUME Agree, Captured, TakeMic(NewTrack("mic")), Pending("addCam") => Pending("addCam")'
  PROVE  Tracked' /\ MicRight' /\ CamRight' /\ mic' # NoTrack
<1> DEFINE t == NewTrack("mic")
<1>1. /\ t \in Track /\ t.k = "mic" /\ t.n <= tracks' /\ t # NoTrack /\ tracks' \in 0..MaxTracks
      /\ \A u : Known(u) => u # t /\ Known(u)'
  BY NewTrackFresh DEF Agree
<1>2. /\ live' = live \cup {t} /\ mic' = t /\ UNCHANGED <<enabled, cam, screen, said>>
      /\ stale' = IF mic # NoTrack THEN stale \cup {"mic"} ELSE stale
  BY DEF TakeMic
<1> HIDE DEF t
<1>3. Tracked'
  BY <1>1, <1>2 DEF Agree, Tracked, Known
<1>4. MicRight'
  <2> SUFFICES ASSUME "mic" \notin stale'
               PROVE  ~said.mic /\ Hears("mic")' = {}
    BY <1>1, <1>2 DEF MicRight
  <2>1. ~said.mic /\ Hears("mic") = {}
    BY <1>2 DEF Agree, MicRight
  <2>2. t \notin enabled
    BY <1>1 DEF Agree, Tracked
  <2> QED
    BY <1>2, <2>1, <2>2 DEF Hears
<1>5. CamRight'
  BY <1>1, <1>2, CamQuiet DEF Agree
<1> QED
  BY <1>1, <1>2, <1>3, <1>4, <1>5

LEMMA NewMicAgree ==
  ASSUME Agree, NEW i \in Slot, ~closed, InitMicGranted(i) \/ NewMicGranted(i)
  PROVE  Agree'
<1>1. /\ Captured /\ TakeMic(NewTrack("mic")) /\ End(i) /\ task[i].do # "addCam"
      /\ UNCHANGED peer /\ (ws => ws') /\ (stage' = "new" => ~ws')
  BY DEF InitMicGranted, NewMicGranted, Answer, ClientFixed, Agree, Requested
<1>2. Pending("addCam") => Pending("addCam")'
  BY <1>1, AddCamStays DEF Agree
<1>3. Tracked' /\ MicRight' /\ CamRight' /\ mic' # NoTrack
  BY <1>1, <1>2, TakeMicAgree
<1>4. Requested'
  BY <1>1, <1>3, RequestedStep DEF Agree
<1> QED
  BY <1>3, <1>4 DEF Agree

LEMMA UnmuteGrantedAgree ==
  ASSUME Agree, NEW i \in Slot, UnmuteGranted(i)
  PROVE  Agree'
<1> DEFINE t == NewTrack("mic")
<1>1. /\ Captured /\ task[i].do = "unmute" /\ UNCHANGED <<stage, ws, peer>>
      /\ \/ /\ live' = live \cup {t} /\ mic' = t /\ enabled' = enabled \cup {t} /\ End(i)
            /\ said' = [said EXCEPT !.mic = TRUE] /\ stale' = stale \cup {"mic"}
            /\ UNCHANGED <<cam, screen>>
         \/ TakeMic(t) /\ (End(i) \/ GoesOn(i, "addMic"))
  BY DEF UnmuteGranted, Answer, ClientFixed
<1>2. Pending("addCam") => Pending("addCam")'
  BY <1>1, AddCamStays DEF Agree
<1>3. Tracked' /\ MicRight' /\ CamRight' /\ mic' # NoTrack
  <2>1. CASE TakeMic(t)
    BY <1>1, <1>2, <2>1, TakeMicAgree
  <2>2. CASE ~TakeMic(t)
    <3>1. /\ t \in Track /\ t.k = "mic" /\ t.n <= tracks' /\ t # NoTrack /\ tracks' \in 0..MaxTracks
          /\ \A u : Known(u) => u # t /\ Known(u)'
      BY <1>1, NewTrackFresh DEF Agree
    <3>2. /\ live' = live \cup {t} /\ mic' = t /\ enabled' = enabled \cup {t}
          /\ said' = [said EXCEPT !.mic = TRUE] /\ stale' = stale \cup {"mic"}
          /\ UNCHANGED <<cam, screen>>
      BY <1>1, <2>2
    <3> HIDE DEF t
    <3>3. Tracked'
      BY <3>1, <3>2 DEF Agree, Tracked, Known
    <3>4. MicRight'
      BY <3>2 DEF MicRight
    <3>5. said'.cam = said.cam
      BY <3>2 DEF Agree, Tracked
    <3>6. CamRight'
      BY <1>2, <3>1, <3>2, <3>5, CamQuiet DEF Agree
    <3> QED
      BY <3>1, <3>2, <3>3, <3>4, <3>6
  <2> QED
    BY <2>1, <2>2
<1>4. Requested'
  BY <1>1, <1>3, RequestedStep DEF Agree, Requested
<1> QED
  BY <1>3, <1>4 DEF Agree

\* The current microphone is turned on or off, and the others are told.
LEMMA MicOnOffAgree ==
  ASSUME Tracked, MicRight, CamRight, mic # NoTrack, NEW on \in BOOLEAN,
         enabled' = IF on THEN enabled \cup {mic} ELSE enabled \ {mic},
         said' = [said EXCEPT !.mic = on], UNCHANGED <<live, mic, cam, screen, tracks, stale>>,
         Pending("addCam") => Pending("addCam")'
  PROVE  Tracked' /\ MicRight' /\ CamRight'
<1>1. Known(mic) /\ mic.k = "mic" /\ said'.mic = on /\ said'.cam = said.cam
  BY DEF Tracked
<1>2. Tracked'
  BY <1>1 DEF Tracked, Known
<1>3. MicRight'
  <2> SUFFICES ASSUME "mic" \notin stale
               PROVE  mic \in live /\ Hears("mic")' = IF on THEN {mic} ELSE {}
    BY <1>1 DEF MicRight
  <2>1. mic \in live /\ Hears("mic") \subseteq {mic}
    BY DEF MicRight
  <2> QED
    BY <1>1, <2>1 DEF Hears
<1>4. CamRight'
  BY <1>1, CamQuiet
<1> QED
  BY <1>2, <1>3, <1>4

LEMMA MicStepAgree ==
  ASSUME Agree, NEW i \in Slot, Mute \/ Unmute \/ SetAudioInputDevice \/ MicIsAdded(i)
  PROVE  Agree'
<1>1. CASE Mute
  <2>1. /\ mic # NoTrack /\ enabled' = enabled \ {mic} /\ said' = [said EXCEPT !.mic = FALSE]
        /\ UNCHANGED <<live, mic, cam, screen, tracks, stale, task, stage, ws, peer>>
    BY <1>1 DEF Mute, Used, ClientFixed
  <2>2. Pending("addCam") => Pending("addCam")'
    BY <2>1, AddCamStays DEF Agree
  <2>3. Tracked' /\ MicRight' /\ CamRight'
    BY <2>1, <2>2, MicOnOffAgree DEF Agree
  <2> QED
    BY <2>1, <2>3, RequestedStep DEF Agree, Requested
<1>2. CASE Unmute
  <2>1. peer /\ UNCHANGED <<tracks, stale, stage, ws, peer>>
    BY <1>2 DEF Unmute, Used, ClientFixed
  <2>2. CASE \/ mic = NoTrack /\ Ask("unmute") /\ UNCHANGED media
             \/ mic # NoTrack /\ Ask("addMic") /\ UNCHANGED media
    <3>1. Pending("addCam") => Pending("addCam")'
      BY <2>2, AddCamStays DEF Agree
    <3>2. Requested'
      BY <2>1, <2>2, RequestedStep DEF Agree, Requested, media
    <3> QED
      BY <2>1, <2>2, <3>1, <3>2, SameMedia DEF Agree
  <2>3. CASE /\ mic # NoTrack /\ enabled' = enabled \cup {mic} /\ said' = [said EXCEPT !.mic = TRUE]
             /\ UNCHANGED <<live, mic, cam, screen, task>>
    <3>1. Pending("addCam") => Pending("addCam")'
      BY <2>3, AddCamStays DEF Agree
    <3>2. Tracked' /\ MicRight' /\ CamRight'
      BY <2>1, <2>3, <3>1, MicOnOffAgree DEF Agree
    <3> QED
      BY <2>1, <2>3, <3>2, RequestedStep DEF Agree, Requested
  <2> QED
    BY <1>2, <2>2, <2>3 DEF Unmute
<1>3. CASE SetAudioInputDevice
  <2>1. /\ peer /\ UNCHANGED <<tracks, stale, stage, ws, peer, media>>
        /\ \/ Ask("newMic")
           \/ mic # NoTrack /\ Begin([do |-> "switchMic", old |-> mic, on |-> mic \in enabled])
    BY <1>3 DEF SetAudioInputDevice, Used, ClientFixed
  <2>2. Pending("addCam") => Pending("addCam")'
    BY <2>1, AddCamStays DEF Agree
  <2>3. mic # NoTrack => mic.k = "mic"
    BY DEF Agree, Tracked
  <2>4. Requested'
    BY <2>1, <2>3, RequestedStep DEF Agree, Requested, media
  <2> QED
    BY <2>1, <2>2, <2>4, SameMedia DEF Agree
<1>4. CASE MicIsAdded(i)
  <2>1. /\ task[i].do = "addMic" /\ End(i) /\ enabled' = enabled \cup {mic}
        /\ said' = [said EXCEPT !.mic = TRUE]
        /\ UNCHANGED <<live, mic, cam, screen, tracks, stale, stage, ws, peer>>
    BY <1>4 DEF MicIsAdded, Answer, ClientFixed
  <2>2. mic # NoTrack
    BY <2>1 DEF Agree, Requested
  <2>3. Pending("addCam") => Pending("addCam")'
    BY <2>1, AddCamStays DEF Agree
  <2>4. Tracked' /\ MicRight' /\ CamRight'
    BY <2>1, <2>2, <2>3, MicOnOffAgree DEF Agree
  <2> QED
    BY <2>1, <2>4, RequestedStep DEF Agree, Requested
<1> QED
  BY <1>1, <1>2, <1>3, <1>4

LEMMA SwitchMicAgree ==
  ASSUME Agree, NEW i \in Slot, SwitchMicGranted(i)
  PROVE  Agree'
<1> DEFINE t == NewTrack("mic")
           read == task[i]
<1>1. /\ Captured /\ read.do = "switchMic" /\ read.old.k = "mic" /\ peer /\ End(i)
      /\ UNCHANGED <<stage, ws, peer>>
  BY DEF SwitchMicGranted, Answer, ClientFixed, Agree, Requested
<1>2. /\ t \in Track /\ t.k = "mic" /\ t.n <= tracks' /\ t # NoTrack /\ tracks' \in 0..MaxTracks
      /\ \A u : Known(u) => u # t /\ Known(u)'
  BY <1>1, NewTrackFresh DEF Agree
<1>3. /\ live' = (live \cup {t}) \ {read.old} /\ mic' = t
      /\ enabled' = IF read.on THEN enabled \cup {t} ELSE enabled
      /\ stale' = IF mic = read.old /\ read.on = (mic \in enabled) THEN stale
                  ELSE stale \cup {"mic"}
      /\ UNCHANGED <<cam, screen, said>>
  BY <1>1 DEF SwitchMicGranted
<1>4. Pending("addCam") => Pending("addCam")'
  BY <1>1, AddCamStays DEF Agree
<1> HIDE DEF t, read
<1>5. Tracked'
  BY <1>2, <1>3 DEF Agree, Tracked, Known
<1>6. MicRight'
  <2> SUFFICES ASSUME "mic" \notin stale'
               PROVE  t \in live' /\ Hears("mic")' = IF said.mic THEN {t} ELSE {}
    BY <1>2, <1>3 DEF MicRight
  <2>1. "mic" \notin stale /\ mic = read.old /\ read.on = (mic \in enabled)
    BY <1>3
  <2>2. mic # NoTrack
    BY <1>1, <2>1 DEF NoTrack
  <2>3. mic \in live /\ mic.k = "mic" /\ mic # t /\ t \notin enabled /\ t \notin live
    BY <1>2, <2>1, <2>2 DEF Agree, MicRight, Tracked
  <2>4. Hears("mic") = IF said.mic THEN {mic} ELSE {}
    BY <2>1 DEF Agree, MicRight
  <2>5. mic \in enabled <=> said.mic
    BY <2>3, <2>4 DEF Hears
  <2>6. Hears("mic")' = (Hears("mic") \ {mic}) \cup (IF mic \in enabled THEN {t} ELSE {})
    <3>1. live' = (live \cup {t}) \ {mic}
      BY <1>3, <2>1
    <3>2. CASE mic \in enabled
      <4>1. enabled' = enabled \cup {t}
        BY <1>3, <2>1, <3>2
      <4> QED
        BY <1>2, <2>3, <3>1, <3>2, <4>1 DEF Hears
    <3>3. CASE mic \notin enabled
      <4>1. enabled' = enabled
        BY <1>3, <2>1, <3>3
      <4> QED
        BY <1>2, <2>3, <3>1, <3>3, <4>1 DEF Hears
    <3> QED
      BY <3>2, <3>3
  <2> QED
    BY <1>3, <2>1, <2>3, <2>4, <2>5, <2>6
<1>7. CamRight'
  BY <1>1, <1>2, <1>3, <1>4, CamQuiet DEF Agree
<1>8. Requested'
  BY <1>1, <1>2, <1>3, RequestedStep DEF Agree, Requested
<1> QED
  BY <1>5, <1>6, <1>7, <1>8 DEF Agree

\* The current camera is turned on or off, and the others are told or will be.
LEMMA CamOnOffAgree ==
  ASSUME Tracked, MicRight, CamRight, cam # NoTrack, NEW on \in BOOLEAN,
         enabled' = IF on THEN enabled \cup {cam} ELSE enabled \ {cam},
         \/ said' = [said EXCEPT !.cam = on]
         \/ said' = said /\ on /\ Pending("addCam")',
         UNCHANGED <<live, mic, cam, screen, tracks, stale>>
  PROVE  Tracked' /\ MicRight' /\ CamRight'
<1>1. Known(cam) /\ cam.k = "cam" /\ said'.mic = said.mic
  BY DEF Tracked
<1>2. (said'.cam = on) \/ (said' = said /\ on /\ Pending("addCam")')
  BY DEF Tracked
<1>3. Tracked'
  BY <1>1 DEF Tracked, Known
<1>4. MicRight'
  BY <1>1, MicQuiet
<1>5. CamRight'
  <2> SUFFICES ASSUME "cam" \notin stale
               PROVE  cam \in live /\ Hears("cam")' = IF on THEN {cam} ELSE {}
    BY <1>2 DEF CamRight
  <2>1. cam \in live /\ Hears("cam") \subseteq {cam}
    BY DEF CamRight
  <2> QED
    BY <1>1, <2>1 DEF Hears
<1> QED
  BY <1>3, <1>4, <1>5

LEMMA CamStepAgree ==
  ASSUME Agree, NEW i \in Slot, StartVideo \/ StopVideo \/ SetVideoInputDevice \/ CamIsAdded(i)
  PROVE  Agree'
<1>1. CASE StartVideo
  <2>1. peer /\ UNCHANGED <<live, mic, cam, screen, said, tracks, stale, stage, ws, peer>>
    BY <1>1 DEF StartVideo, Used, ClientFixed
  <2>2. CASE cam = NoTrack
    <3>1. Ask("video") /\ UNCHANGED media
      BY <1>1, <2>2 DEF StartVideo, media
    <3>2. Pending("addCam") => Pending("addCam")'
      BY <3>1, AddCamStays DEF Agree
    <3>3. Requested'
      BY <2>1, <3>1, RequestedStep DEF Agree, Requested
    <3> QED
      BY <2>1, <3>1, <3>2, <3>3, SameMedia DEF Agree
  <2>3. CASE cam # NoTrack
    <3>1. Ask("addCam") /\ enabled' = enabled \cup {cam}
      BY <1>1, <2>3 DEF StartVideo, TurnOn
    <3>2. Pending("addCam")'
      BY <3>1 DEF Ask, Begin, Pending, Agree, Requested, NoTask
    <3>3. Requested'
      BY <2>1, <3>1, RequestedStep DEF Agree, Requested
    <3> QED
      BY <2>1, <2>3, <3>1, <3>2, <3>3, CamOnOffAgree DEF Agree
  <2> QED
    BY <2>2, <2>3
<1>2. CASE StopVideo
  <2>1. /\ cam # NoTrack /\ enabled' = enabled \ {cam} /\ said' = [said EXCEPT !.cam = FALSE]
        /\ UNCHANGED <<live, mic, cam, screen, tracks, stale, task, stage, ws, peer>>
    BY <1>2 DEF StopVideo, Used, ClientFixed
  <2>2. Requested'
    BY <2>1, RequestedStep DEF Agree, Requested
  <2> QED
    BY <2>1, <2>2, CamOnOffAgree DEF Agree
<1>3. CASE SetVideoInputDevice
  <2>1. /\ peer /\ UNCHANGED <<tracks, stale, stage, ws, peer, media>>
        /\ \/ Ask("newCam")
           \/ cam # NoTrack /\ Begin([do |-> "switchCam", old |-> cam, on |-> cam \in enabled])
    BY <1>3 DEF SetVideoInputDevice, Used, ClientFixed
  <2>2. Pending("addCam") => Pending("addCam")'
    BY <2>1, AddCamStays DEF Agree
  <2>3. cam # NoTrack => cam.k = "cam"
    BY DEF Agree, Tracked
  <2>4. Requested'
    BY <2>1, <2>3, RequestedStep DEF Agree, Requested, media
  <2> QED
    BY <2>1, <2>2, <2>4, SameMedia DEF Agree
<1>4. CASE CamIsAdded(i)
  <2>1. /\ task[i].do = "addCam" /\ End(i)
        /\ said' = IF ws THEN [said EXCEPT !.cam = TRUE] ELSE said
        /\ stale' = IF cam \in enabled THEN stale ELSE stale \cup {"cam"}
        /\ UNCHANGED <<live, enabled, mic, cam, screen, tracks, stage, ws, peer>>
    BY <1>4 DEF CamIsAdded, Answer, ClientFixed
  <2>2. Requested'
    BY <2>1, RequestedStep DEF Agree, Requested
  <2>3. said' = [said EXCEPT !.cam = TRUE]
    BY <2>1 DEF Agree, Requested
  <2>4. CASE cam \in enabled
    <3>1. cam # NoTrack /\ enabled' = enabled \cup {cam}
      BY <2>1, <2>4 DEF Agree, Tracked, Known, Track, NoTrack
    <3> QED
      BY <2>1, <2>2, <2>3, <2>4, <3>1, CamOnOffAgree DEF Agree
  <2>5. CASE cam \notin enabled
    <3>1. CamRight'
      BY <2>1, <2>5 DEF CamRight
    <3>2. said'.mic = said.mic
      BY <2>3 DEF Agree, Tracked
    <3>3. MicRight'
      BY <2>1, <2>5, <3>2, MicQuiet DEF Agree
    <3>4. Tracked'
      BY <2>1, <2>3 DEF Agree, Tracked, Known
    <3> QED
      BY <2>2, <3>1, <3>3, <3>4 DEF Agree
  <2> QED
    BY <2>4, <2>5
<1> QED
  BY <1>1, <1>2, <1>3, <1>4

LEMMA VideoGrantedAgree ==
  ASSUME Agree, NEW i \in Slot, VideoGranted(i)
  PROVE  Agree'
<1> DEFINE t == NewTrack("cam")
<1>1. /\ Captured /\ task[i].do = "video" /\ peer /\ GoesOn(i, "addCam")
      /\ UNCHANGED <<stage, ws, peer>>
  BY DEF VideoGranted, Answer, ClientFixed, Agree, Requested
<1>2. /\ t \in Track /\ t.k = "cam" /\ t.n <= tracks' /\ t # NoTrack /\ tracks' \in 0..MaxTracks
      /\ \A u : Known(u) => u # t /\ Known(u)'
  BY <1>1, NewTrackFresh DEF Agree
<1>3. /\ live' = live \cup {t} /\ cam' = t /\ enabled' = enabled \cup {t}
      /\ stale' = IF cam = NoTrack THEN stale ELSE stale \cup {"cam"}
      /\ UNCHANGED <<mic, screen, said>>
  BY DEF VideoGranted, TurnOn
<1>4. Pending("addCam")'
  BY <1>1 DEF GoesOn, Pending, NoTask, Agree, Requested
<1> HIDE DEF t
<1>5. Tracked'
  BY <1>2, <1>3 DEF Agree, Tracked, Known
<1>6. MicRight'
  BY <1>2, <1>3, MicQuiet DEF Agree
<1>7. CamRight'
  <2> SUFFICES ASSUME "cam" \notin stale'
               PROVE  ~said.cam /\ Hears("cam")' = {t}
    BY <1>2, <1>3, <1>4 DEF CamRight
  <2>1. "cam" \notin stale /\ cam = NoTrack
    BY <1>3
  <2>2. ~said.cam /\ Hears("cam") \subseteq {NoTrack}
    BY <2>1 DEF Agree, CamRight
  <2>3. NoTrack \notin live
    BY DEF Agree, Tracked, Known, Track, NoTrack
  <2> QED
    BY <1>2, <1>3, <2>2, <2>3 DEF Hears
<1>8. Requested'
  BY <1>1, <1>3, RequestedStep DEF Agree, Requested
<1> QED
  BY <1>5, <1>6, <1>7, <1>8 DEF Agree

LEMMA SwitchCamAgree ==
  ASSUME Agree, NEW i \in Slot, SwitchCamGranted(i)
  PROVE  Agree'
<1> DEFINE t == NewTrack("cam")
           read == task[i]
<1>1. /\ Captured /\ read.do = "switchCam" /\ read.old.k = "cam" /\ End(i)
      /\ UNCHANGED <<stage, ws, peer>>
  BY DEF SwitchCamGranted, Answer, ClientFixed, Agree, Requested
<1>2. /\ t \in Track /\ t.k = "cam" /\ t.n <= tracks' /\ t # NoTrack /\ tracks' \in 0..MaxTracks
      /\ \A u : Known(u) => u # t /\ Known(u)'
  BY <1>1, NewTrackFresh DEF Agree
<1>3. /\ live' = (live \cup {t}) \ {read.old} /\ cam' = t
      /\ enabled' = IF read.on THEN enabled \cup {t} ELSE enabled
      /\ stale' = IF cam = read.old /\ read.on = (cam \in enabled) THEN stale
                  ELSE stale \cup {"cam"}
      /\ UNCHANGED <<mic, screen, said>>
  BY DEF SwitchCamGranted
<1>4. Pending("addCam") => Pending("addCam")'
  BY <1>1, AddCamStays DEF Agree
<1> HIDE DEF t, read
<1>5. Tracked'
  BY <1>2, <1>3 DEF Agree, Tracked, Known
<1>6. MicRight'
  BY <1>1, <1>2, <1>3, MicQuiet DEF Agree
<1>7. CamRight'
  <2> SUFFICES ASSUME "cam" \notin stale'
               PROVE  /\ t \in live' /\ Hears("cam")' = IF cam \in enabled THEN {t} ELSE {}
                      /\ said.cam => cam \in enabled
                      /\ ~said.cam /\ ~Pending("addCam") => cam \notin enabled
    BY <1>2, <1>3, <1>4 DEF CamRight
  <2>1. "cam" \notin stale /\ cam = read.old /\ read.on = (cam \in enabled)
    BY <1>3
  <2>2. cam # NoTrack
    BY <1>1, <2>1 DEF NoTrack
  <2>3. cam \in live /\ cam.k = "cam" /\ cam # t /\ t \notin enabled /\ t \notin live
    BY <1>2, <2>1, <2>2 DEF Agree, CamRight, Tracked
  <2>4. Hears("cam") \subseteq {cam}
    BY <2>1 DEF Agree, CamRight
  <2>5. /\ said.cam => cam \in enabled
        /\ ~said.cam /\ ~Pending("addCam") => cam \notin enabled
    BY <2>1, <2>3 DEF Agree, CamRight, Hears
  <2>6. live' = (live \cup {t}) \ {cam}
    BY <1>3, <2>1
  <2>7. CASE cam \in enabled
    <3>1. enabled' = enabled \cup {t}
      BY <1>3, <2>1, <2>7
    <3> QED
      BY <1>2, <2>3, <2>4, <2>5, <2>6, <2>7, <3>1 DEF Hears
  <2>8. CASE cam \notin enabled
    <3>1. enabled' = enabled
      BY <1>3, <2>1, <2>8
    <3> QED
      BY <1>2, <2>3, <2>4, <2>5, <2>6, <2>8, <3>1 DEF Hears
  <2> QED
    BY <2>7, <2>8
<1>8. Requested'
  BY <1>1, <1>3, RequestedStep DEF Agree, Requested
<1> QED
  BY <1>5, <1>6, <1>7, <1>8 DEF Agree

\* The screen has nothing to do with the microphone and the camera.
LEMMA OtherStepAgree ==
  ASSUME Agree, NEW i \in Slot,
         ShareScreen \/ UnshareScreen \/ ShareGranted(i) \/ NewCamGranted(i) \/ Refused(i)
  PROVE  Agree'
<1>1. CASE ShareScreen
  <2>1. peer /\ UNCHANGED <<tracks, stale, stage, ws, peer, media>> /\ Ask("share")
    BY <1>1 DEF ShareScreen, Used, ClientFixed
  <2>2. Requested' /\ (Pending("addCam") => Pending("addCam")')
    BY <2>1, AddCamStays, RequestedStep DEF Agree, Requested, media
  <2> QED
    BY <2>1, <2>2, SameMedia DEF Agree
<1>2. CASE NewCamGranted(i) \/ Refused(i)
  <2>1. UNCHANGED <<tracks, stale, stage, ws, peer, media>> /\ End(i) /\ task[i].do # "addCam"
    BY <1>2 DEF NewCamGranted, Refused, Nothing, Answer, ClientFixed, Requests
  <2>2. Requested' /\ (Pending("addCam") => Pending("addCam")')
    BY <2>1, AddCamStays, RequestedStep DEF Agree, Requested, media
  <2> QED
    BY <2>1, <2>2, SameMedia DEF Agree
<1>3. CASE UnshareScreen
  <2>1. /\ screen # NoTrack /\ live' = live \ {screen} /\ screen' = NoTrack
        /\ UNCHANGED <<enabled, mic, cam, said, tracks, stale, task, stage, ws, peer>>
    BY <1>3 DEF UnshareScreen, Used, ClientFixed, Stops
  <2>2. screen.k = "screen"
    BY <2>1 DEF Agree, Tracked
  <2>3. Requested' /\ (Pending("addCam") => Pending("addCam")')
    BY <2>1, AddCamStays, RequestedStep DEF Agree, Requested
  <2>4. Tracked'
    BY <2>1 DEF Agree, Tracked, Known
  <2>5. MicRight' /\ CamRight'
    BY <2>1, <2>2, <2>3, MicQuiet, CamQuiet DEF Agree
  <2> QED
    BY <2>3, <2>4, <2>5 DEF Agree
<1>4. CASE ShareGranted(i)
  <2> DEFINE t == NewTrack("screen")
  <2>1. /\ Captured /\ End(i) /\ task[i].do # "addCam" /\ live' = live \cup {t}
        /\ screen' \in {screen, t}
        /\ UNCHANGED <<enabled, mic, cam, said, stale, stage, ws, peer>>
    BY <1>4 DEF ShareGranted, Answer, ClientFixed
  <2>2. /\ t \in Track /\ t.k = "screen" /\ t.n <= tracks' /\ tracks' \in 0..MaxTracks
        /\ \A u : Known(u) => Known(u)'
    BY <2>1, NewTrackFresh DEF Agree
  <2> HIDE DEF t
  <2>3. Requested' /\ (Pending("addCam") => Pending("addCam")')
    BY <2>1, AddCamStays, RequestedStep DEF Agree, Requested
  <2>4. Tracked'
    BY <2>1, <2>2 DEF Agree, Tracked, Known
  <2>5. MicRight' /\ CamRight'
    BY <2>1, <2>2, <2>3, MicQuiet, CamQuiet DEF Agree
  <2> QED
    BY <2>3, <2>4, <2>5 DEF Agree
<1> QED
  BY <1>1, <1>2, <1>3, <1>4

---------------------------------------------------------------------------
(* The theorem *)

LEMMA AgreeStep ==
  ASSUME ~closed => Agree, [MediaNext]_mediaVars
  PROVE  (~closed => Agree)'
<1> SUFFICES ASSUME Agree, ~closed, ~closed'
             PROVE  Agree'
  <2>1. closed => closed'
    BY DEF MediaNext, InitClient, JoinAck, Disconnect, Mute, Unmute, SetAudioInputDevice,
       StartVideo, StopVideo, SetVideoInputDevice, ShareScreen, UnshareScreen, InitMicGranted,
       InitCamGranted, InitRefused, UnmuteGranted, MicIsAdded, NewMicGranted, SwitchMicGranted,
       VideoGranted, CamIsAdded, NewCamGranted, SwitchCamGranted, ShareGranted, Refused, Used,
       Answer, ClientFixed, mediaVars
  <2> QED
    BY <2>1
<1>1. CASE Disconnect
  BY <1>1 DEF Disconnect
<1>2. ASSUME NEW i \in Slot, InitClient \/ JoinAck \/ InitCamGranted(i) \/ InitRefused(i)
      PROVE  Agree'
  BY <1>2, InitAgree
<1>3. ASSUME NEW i \in Slot, InitMicGranted(i) \/ NewMicGranted(i)
      PROVE  Agree'
  BY <1>3, NewMicAgree
<1>4. ASSUME NEW i \in Slot, Mute \/ Unmute \/ SetAudioInputDevice \/ MicIsAdded(i)
      PROVE  Agree'
  BY <1>4, MicStepAgree
<1>5. ASSUME NEW i \in Slot, UnmuteGranted(i) \/ SwitchMicGranted(i)
      PROVE  Agree'
  BY <1>5, UnmuteGrantedAgree, SwitchMicAgree
<1>6. ASSUME NEW i \in Slot, StartVideo \/ StopVideo \/ SetVideoInputDevice \/ CamIsAdded(i)
      PROVE  Agree'
  BY <1>6, CamStepAgree
<1>7. ASSUME NEW i \in Slot, VideoGranted(i) \/ SwitchCamGranted(i)
      PROVE  Agree'
  BY <1>7, VideoGrantedAgree, SwitchCamAgree
<1>8. ASSUME NEW i \in Slot,
             ShareScreen \/ UnshareScreen \/ ShareGranted(i) \/ NewCamGranted(i) \/ Refused(i)
      PROVE  Agree'
  BY <1>8, OtherStepAgree
<1>9. CASE UNCHANGED mediaVars
  <2>1. Requested' /\ Pending("addCam")' = Pending("addCam")
    BY <1>9 DEF mediaVars, media, Agree, Requested, Pending
  <2> QED
    BY <1>9, <2>1, SameMedia DEF mediaVars, history, Agree
<1>10. 1 \in Slot
  BY MediaAssumption DEF Slot
<1> QED
  BY <1>1, <1>2, <1>3, <1>4, <1>5, <1>6, <1>7, <1>8, <1>9, <1>10 DEF MediaNext

\* The others hear and see what the client last told them, and no track but the current one
\* is on, unless a device changed while another request had read it, or the track of the
\* camera is being added (mute, unmute, startVideo, stopVideo, setAudioInputDevice,
\* setVideoInputDevice).
THEOREM MediaAgreesAlways ==
  MediaSpec => []MediaAgrees
<1>1. MediaInit => (~closed => Agree)
  <2>1. MediaInit => Tracked
    BY MediaAssumption DEF MediaInit, Tracked
  <2>2. MediaInit => Requested
    <3> SUFFICES ASSUME MediaInit
                 PROVE  Requested
      OBVIOUS
    <3>1. task = [i \in Slot |-> task[i]] /\ \A i \in Slot : task[i] = NoTask
      BY DEF MediaInit
    <3>2. /\ NoTask \in [do : {NoTask.do}, old : {NoTask.old}, on : {NoTask.on}]
          /\ NoTask.do = "none"
      BY DEF NoTask
    <3> QED
      BY <3>1, <3>2 DEF MediaInit, Requested
  <2>3. MediaInit => MicRight /\ CamRight
    BY DEF MediaInit, MicRight, CamRight, Hears
  <2> QED
    BY <2>1, <2>2, <2>3 DEF Agree
<1>2. (~closed => Agree) /\ [MediaNext]_mediaVars => (~closed => Agree)'
  BY AgreeStep
<1>3. (~closed => Agree) => MediaAgrees
  BY DEF Agree, MicRight, CamRight, MediaAgrees
<1> QED
  BY <1>1, <1>2, <1>3, PTL DEF MediaSpec

---------------------------------------------------------------------------
(* The types of the media *)

Maybe == Track \cup {NoTrack}
Flags ==
    /\ withVideo \in BOOLEAN /\ closed \in BOOLEAN /\ ws \in BOOLEAN /\ peer \in BOOLEAN
    /\ micAdded \in BOOLEAN /\ camAdded \in BOOLEAN /\ barred \in BOOLEAN
Captures ==
    /\ live \subseteq Track /\ streams \subseteq Track /\ enabled \subseteq Track
    /\ strays \subseteq Track /\ mic \in Maybe /\ cam \in Maybe /\ screen \in Maybe

\* A track is added to the peer, and then turned on, when there is one.
IsTask(t) == t \in [do : {t.do}, old : {t.old}, on : {t.on}]
Adds ==
    /\ task = [i \in Slot |-> task[i]]
    /\ \A i \in Slot : IsTask(task[i]) /\ (task[i].do = "addMic" => mic # NoTrack)

MediaTyped ==
    /\ stage \in {"new", "asked", "ready"} /\ Flags /\ Captures /\ Adds
    /\ said \in [mic : BOOLEAN, cam : BOOLEAN] /\ tracks \in 0..MaxTracks
    /\ stale \subseteq {"mic", "cam"}

LEMMA CapturedTyped ==
  ASSUME tracks \in 0..MaxTracks, Captured, NEW k \in {"mic", "cam", "screen"}
  PROVE  NewTrack(k) \in Track /\ NewTrack(k) # NoTrack /\ tracks' \in 0..MaxTracks
BY MediaAssumption DEF Captured, NewTrack, Track, NoTrack

LEMMA AddsStep ==
  ASSUME Adds, mic # NoTrack => mic' # NoTrack,
         \/ UNCHANGED task
         \/ \E i \in Slot : \E t : task' = [task EXCEPT ![i] = t] /\ IsTask(t)
              /\ (t.do = "addMic" => mic' # NoTrack)
  PROVE  Adds'
<1>1. CASE UNCHANGED task
  BY <1>1 DEF Adds
<1>2. ASSUME NEW i \in Slot, NEW t, IsTask(t), task' = [task EXCEPT ![i] = t],
             t.do = "addMic" => mic' # NoTrack
      PROVE  Adds'
  <2>1. task' = [j \in Slot |-> IF j = i THEN t ELSE task[j]]
    BY <1>2 DEF Adds
  <2> QED
    BY <1>2, <2>1 DEF Adds
<1> QED
  BY <1>1, <1>2

LEMMA AsksAdd ==
  /\ \A do : Ask(do) => \E i \in Slot : \E t : task' = [task EXCEPT ![i] = t] /\ IsTask(t) /\ t.do = do
  /\ \A do, old, on : Begin([do |-> do, old |-> old, on |-> on]) =>
        \E i \in Slot : \E t : task' = [task EXCEPT ![i] = t] /\ IsTask(t) /\ t.do = do
  /\ \A i \in Slot : End(i) => \E t : task' = [task EXCEPT ![i] = t] /\ IsTask(t) /\ t.do = "none"
  /\ \A i \in Slot : \A do : GoesOn(i, do) => \E t : task' = [task EXCEPT ![i] = t] /\ IsTask(t) /\ t.do = do
<1>1. \A do : /\ [NoTask EXCEPT !.do = do].do = do
              /\ IsTask([NoTask EXCEPT !.do = do])
  BY DEF NoTask, IsTask
<1>2. ASSUME NEW t, Begin(t) PROVE \E i \in Slot : task' = [task EXCEPT ![i] = t]
  BY <1>2 DEF Begin
<1>3. ASSUME NEW do, Ask(do)
      PROVE  \E i \in Slot : \E t : task' = [task EXCEPT ![i] = t] /\ IsTask(t) /\ t.do = do
  BY <1>1, <1>2, <1>3, Zenon DEF Ask
<1>4. ASSUME NEW do, NEW old, NEW on, Begin([do |-> do, old |-> old, on |-> on])
      PROVE  \E i \in Slot : \E t : task' = [task EXCEPT ![i] = t] /\ IsTask(t) /\ t.do = do
  <2> DEFINE t == [do |-> do, old |-> old, on |-> on]
  <2>1. IsTask(t) /\ t.do = do /\ Begin(t)
    BY <1>4 DEF IsTask
  <2> HIDE DEF t
  <2> QED
    BY <1>2, <2>1
<1>5. ASSUME NEW i \in Slot, End(i)
      PROVE  \E t : task' = [task EXCEPT ![i] = t] /\ IsTask(t) /\ t.do = "none"
  <2>1. IsTask(NoTask) /\ NoTask.do = "none"
    BY DEF NoTask, IsTask
  <2> QED
    BY <1>5, <2>1, Zenon DEF End
<1>6. ASSUME NEW i \in Slot, NEW do, GoesOn(i, do)
      PROVE  \E t : task' = [task EXCEPT ![i] = t] /\ IsTask(t) /\ t.do = do
  BY <1>1, <1>6, Zenon DEF GoesOn
<1> QED
  BY <1>3, <1>4, <1>5, <1>6

\* The steps that capture nothing.
LEMMA MediaTypedQuiet ==
  ASSUME MediaTyped,
         \/ InitClient \/ JoinAck \/ Disconnect \/ Mute \/ Unmute \/ SetAudioInputDevice
         \/ StartVideo \/ StopVideo \/ SetVideoInputDevice \/ ShareScreen \/ UnshareScreen
         \/ \E i \in Slot : InitRefused(i) \/ NewCamGranted(i) \/ Refused(i)
  PROVE  MediaTyped'
<1> USE DEF MediaTyped
<1>1. /\ stage' \in {"new", "asked", "ready"} /\ tracks' \in 0..MaxTracks
      /\ stale' \subseteq {"mic", "cam"}
  BY DEF InitClient, JoinAck, Disconnect, Mute, Unmute, SetAudioInputDevice, StartVideo,
         StopVideo, SetVideoInputDevice, ShareScreen, UnshareScreen, InitRefused, NewCamGranted,
         Refused, Used, Answer, ClientFixed, Nothing, history
<1>2. Flags'
  <2>1. CASE InitClient \/ JoinAck \/ Disconnect
    BY <2>1, Zenon DEF InitClient, JoinAck, Disconnect, history, media, Flags
  <2>2. CASE \E i \in Slot : InitRefused(i)
    BY <2>2, Zenon DEF InitRefused, media, Flags
  <2>3. CASE ~(InitClient \/ JoinAck \/ Disconnect \/ \E i \in Slot : InitRefused(i))
    <3>1. ClientFixed /\ UNCHANGED <<micAdded, camAdded>>
      BY <2>3, Zenon DEF Mute, Unmute, SetAudioInputDevice, StartVideo, StopVideo,
         SetVideoInputDevice, ShareScreen, UnshareScreen, NewCamGranted, Refused, Used, Answer,
         Nothing, media
    <3> QED
      BY <3>1, Zenon DEF ClientFixed, Flags
  <2> QED
    BY <2>1, <2>2, <2>3
<1>3. said' \in [mic : BOOLEAN, cam : BOOLEAN]
  BY DEF InitClient, JoinAck, Disconnect, Mute, Unmute, SetAudioInputDevice, StartVideo,
         StopVideo, SetVideoInputDevice, ShareScreen, UnshareScreen, InitRefused, NewCamGranted,
         Refused, Nothing, media
<1>4. Captures' /\ (mic # NoTrack => mic' # NoTrack)
  <2> USE DEF Captures, Maybe
  <2>1. CASE InitClient \/ JoinAck \/ Disconnect
    BY <2>1 DEF InitClient, JoinAck, Disconnect, CleanUp, Stops, history, media
  <2>2. CASE Mute \/ Unmute \/ SetAudioInputDevice
    BY <2>2 DEF Mute, Unmute, SetAudioInputDevice, Used, media
  <2>3. CASE StartVideo \/ StopVideo \/ SetVideoInputDevice
    BY <2>3 DEF StartVideo, StopVideo, SetVideoInputDevice, Used, TurnOn, media
  <2>4. CASE ShareScreen \/ UnshareScreen
    BY <2>4 DEF ShareScreen, UnshareScreen, Used, Stops, media
  <2>5. CASE \E i \in Slot : InitRefused(i) \/ NewCamGranted(i) \/ Refused(i)
    BY <2>5 DEF InitRefused, NewCamGranted, Refused, Nothing, media
  <2> QED
    BY <2>1, <2>2, <2>3, <2>4, <2>5
<1>5. Adds'
  <2>1. CASE InitClient
    BY <2>1 DEF InitClient, Adds, media, IsTask
  <2>2. CASE ~InitClient
    <3> DEFINE Changes ==
          \/ UNCHANGED task
          \/ \E i \in Slot : End(i)
          \/ \E do \in {"unmute", "newMic", "video", "addCam", "newCam", "share"} : Ask(do)
          \/ mic # NoTrack /\ Ask("addMic")
          \/ Begin([do |-> "switchMic", old |-> mic, on |-> mic \in enabled])
          \/ Begin([do |-> "switchCam", old |-> cam, on |-> cam \in enabled])
    <3>1. Changes
      <4>1. CASE JoinAck \/ Disconnect \/ Mute \/ StopVideo \/ UnshareScreen
        BY <4>1, Zenon DEF JoinAck, Disconnect, Mute, StopVideo, UnshareScreen
      <4>2. CASE Unmute \/ SetAudioInputDevice
        BY <4>2, Zenon DEF Unmute, SetAudioInputDevice
      <4>3. CASE StartVideo \/ SetVideoInputDevice \/ ShareScreen
        BY <4>3, Zenon DEF StartVideo, SetVideoInputDevice, ShareScreen
      <4>4. CASE \E i \in Slot : InitRefused(i) \/ NewCamGranted(i) \/ Refused(i)
        BY <4>4, Zenon DEF InitRefused, NewCamGranted, Refused
      <4> QED
        BY <2>2, <4>1, <4>2, <4>3, <4>4, Zenon
    <3>2. \/ UNCHANGED task
          \/ \E i \in Slot : \E t : task' = [task EXCEPT ![i] = t] /\ IsTask(t)
              /\ (t.do = "addMic" => mic' # NoTrack)
      BY <1>4, <3>1, AsksAdd
    <3> QED
      BY <1>4, <3>2, AddsStep
  <2> QED
    BY <2>1, <2>2
<1> QED
  BY <1>1, <1>2, <1>3, <1>4, <1>5

\* The answers that bring a track.
LEMMA MediaTypedGrant ==
  ASSUME MediaTyped, NEW i \in Slot,
         \/ InitMicGranted(i) \/ UnmuteGranted(i) \/ NewMicGranted(i) \/ SwitchMicGranted(i)
         \/ VideoGranted(i) \/ SwitchCamGranted(i) \/ ShareGranted(i)
  PROVE  MediaTyped'
<1> USE DEF MediaTyped
<1>1. Captured /\ stage' \in {"new", "asked", "ready"}
  BY DEF InitMicGranted, UnmuteGranted, NewMicGranted, SwitchMicGranted, VideoGranted,
         SwitchCamGranted, ShareGranted, Answer, ClientFixed
<1> DEFINE Takes(t) ==
        /\ live' \subseteq live \cup {t} /\ streams' \subseteq streams \cup {t}
        /\ enabled' \subseteq enabled \cup {t} /\ strays' \subseteq strays \cup {t}
        /\ mic' \in {mic, t} /\ cam' \in {cam, t} /\ screen' \in {screen, t}
        /\ (UnmuteGranted(i) => mic' = t)
<1>2. PICK k \in {"mic", "cam", "screen"} : Takes(NewTrack(k))
  <2>1. CASE InitMicGranted(i) \/ NewMicGranted(i)
    <3>1. Takes(NewTrack("mic"))
      BY <2>1 DEF InitMicGranted, NewMicGranted, UnmuteGranted, TakeMic, Late
    <3> QED
      BY <3>1
  <2>2. CASE UnmuteGranted(i)
    <3>1. Takes(NewTrack("mic"))
      BY <2>2 DEF UnmuteGranted, TakeMic, Late
    <3> QED
      BY <3>1
  <2>3. CASE SwitchMicGranted(i)
    <3>1. Takes(NewTrack("mic"))
      BY <2>3 DEF SwitchMicGranted, UnmuteGranted, Late
    <3> QED
      BY <3>1
  <2>4. CASE VideoGranted(i) \/ SwitchCamGranted(i)
    <3>1. Takes(NewTrack("cam"))
      BY <2>4 DEF VideoGranted, SwitchCamGranted, UnmuteGranted, TurnOn, Late
    <3> QED
      BY <3>1
  <2>5. CASE ShareGranted(i)
    <3>1. Takes(NewTrack("screen"))
      BY <2>5 DEF ShareGranted, UnmuteGranted
    <3> QED
      BY <3>1
  <2> QED
    BY <2>1, <2>2, <2>3, <2>4, <2>5
<1> DEFINE t == NewTrack(k)
<1>3. t \in Track /\ t # NoTrack /\ tracks' \in 0..MaxTracks
  BY <1>1, CapturedTyped
<1> HIDE DEF t
<1>4. Captures' /\ (mic # NoTrack => mic' # NoTrack) /\ (UnmuteGranted(i) => mic' # NoTrack)
  BY <1>2, <1>3 DEF Captures, Maybe, t
<1>5. Flags'
  BY Zenon DEF InitMicGranted, UnmuteGranted, NewMicGranted, SwitchMicGranted, VideoGranted,
         SwitchCamGranted, ShareGranted, Answer, ClientFixed, TakeMic, Flags
<1>6. said' \in [mic : BOOLEAN, cam : BOOLEAN] /\ stale' \subseteq {"mic", "cam"}
  BY DEF InitMicGranted, UnmuteGranted, NewMicGranted, SwitchMicGranted, VideoGranted,
         SwitchCamGranted, ShareGranted, TakeMic
<1>7. Adds'
  <2>1. End(i) \/ (UnmuteGranted(i) /\ GoesOn(i, "addMic")) \/ GoesOn(i, "addCam")
    BY DEF InitMicGranted, UnmuteGranted, NewMicGranted, SwitchMicGranted, VideoGranted,
         SwitchCamGranted, ShareGranted
  <2>2. \E x : task' = [task EXCEPT ![i] = x] /\ IsTask(x) /\ (x.do = "addMic" => mic' # NoTrack)
    BY <1>4, <2>1, AsksAdd
  <2> QED
    BY <1>4, <2>2, AddsStep
<1> QED
  BY <1>1, <1>3, <1>4, <1>5, <1>6, <1>7

\* The answers that bring none: the camera is tried out, and a track is added to the peer.
LEMMA MediaTypedAdded ==
  ASSUME MediaTyped, NEW i \in Slot, InitCamGranted(i) \/ MicIsAdded(i) \/ CamIsAdded(i)
  PROVE  MediaTyped'
<1> USE DEF MediaTyped
<1>1. CASE InitCamGranted(i)
  <2>1. Flags'
    BY <1>1, Zenon DEF InitCamGranted, Flags, history
  <2>2. stage' \in {"new", "asked", "ready"} /\ Captures' /\ UNCHANGED <<said, tracks, stale, mic>>
    BY <1>1 DEF InitCamGranted, Captures, CleanUp, Stops, history
  <2>3. \E x : task' = [task EXCEPT ![i] = x] /\ IsTask(x) /\ x.do = "none"
    BY <1>1, AsksAdd DEF InitCamGranted
  <2>4. Adds'
    BY <2>2, <2>3, AddsStep
  <2> QED
    BY <2>1, <2>2, <2>4
<1>2. CASE MicIsAdded(i) \/ CamIsAdded(i)
  <2>1. Flags'
    BY <1>2, Zenon DEF MicIsAdded, CamIsAdded, Flags, Answer, ClientFixed
  <2>2. MicIsAdded(i) => mic \in Track
    BY DEF MicIsAdded, Adds, Captures, Maybe
  <2>3. Captures'
    BY <1>2, <2>2 DEF MicIsAdded, CamIsAdded, Captures
  <2>4. said' \in [mic : BOOLEAN, cam : BOOLEAN] /\ stale' \subseteq {"mic", "cam"}
        /\ UNCHANGED <<stage, tracks, mic>>
    BY <1>2 DEF MicIsAdded, CamIsAdded, Answer, ClientFixed
  <2>5. \E x : task' = [task EXCEPT ![i] = x] /\ IsTask(x) /\ x.do = "none"
    BY <1>2, AsksAdd DEF MicIsAdded, CamIsAdded
  <2>6. Adds'
    BY <2>4, <2>5, AddsStep
  <2> QED
    BY <2>1, <2>3, <2>4, <2>6
<1> QED
  BY <1>1, <1>2

\* The types of the tracks, flags and requests of the client: also, that a track is added
\* to the peer only when there is one (client.ts: unmute).
THEOREM MediaTypedAlways == MediaSpec => []MediaTypeOK
<1>1. MediaInit => MediaTyped
  <2> SUFFICES ASSUME MediaInit PROVE MediaTyped
    OBVIOUS
  <2>1. Flags
    BY Zenon DEF MediaInit, Flags
  <2>2. Captures /\ Adds
    BY DEF MediaInit, Captures, Maybe, Adds, NoTask, IsTask
  <2> QED
    BY <2>1, <2>2, MediaAssumption DEF MediaInit, MediaTyped
<1>2. MediaTyped /\ [MediaNext]_mediaVars => MediaTyped'
  <2> SUFFICES ASSUME MediaTyped, [MediaNext]_mediaVars PROVE MediaTyped'
    OBVIOUS
  <2>1. CASE UNCHANGED mediaVars
    BY <2>1 DEF mediaVars, media, history, MediaTyped, Flags, Captures, Adds, IsTask
  <2>2. CASE MediaNext
    BY <2>2, MediaTypedQuiet, MediaTypedGrant, MediaTypedAdded, Zenon DEF MediaNext
  <2> QED
    BY <2>1, <2>2
<1>3. MediaTyped => MediaTypeOK
  BY DEF MediaTyped, MediaTypeOK, Flags, Captures, Maybe
<1> QED
  BY <1>1, <1>2, <1>3, PTL DEF MediaSpec

---------------------------------------------------------------------------
(* The window of a call: the inductive invariant *)

IsWindow(d) ==
    d \in [shows : {d.shows}, made : {d.made}, closing : {d.closing}, win : {d.win},
           view : {d.view}, call : {d.call}, joins : {d.joins}]

IsControl(r) ==
    r \in [allowed : {r.allowed}, asked : {r.asked}, queue : {r.queue},
           processing : {r.processing}, runs : {r.runs}, sent : {r.sent}]

Shapes == IsWindow(wd) /\ IsControl(rc)

\* While no answer was late, the permission is the one of the window that there is.
Permitted == ~late /\ rc.allowed => wd.win # 0 /\ wd.win \in approved

WidgetIInv == Shapes /\ 0 \notin rc.asked /\ Permitted /\ ControlApproved

---------------------------------------------------------------------------
(* The functions of the window and of its queue *)

LEMMA OpenAllIsWindow ==
  ASSUME NEW d, IsWindow(d), NEW js
  PROVE  IsWindow(OpenAll(d, js))
<1> DEFINE open == Among(js, {j \in Join : j.view \notin gone})
           n == Len(open)
           shown == [w \in Win |-> IF w \in (d.made + 1)..(d.made + n)
                                   THEN open[w - d.made].call ELSE d.shows[w]]
           view == open[n].view
           call == open[n].call
           made == d.made + n
<1>1. OpenAll(d, js) = IF n = 0 THEN d
                       ELSE [d EXCEPT !.made = made, !.win = made, !.view = view,
                                      !.call = call, !.shows = shown]
  BY DEF OpenAll
<1> HIDE DEF n, shown, view, call, made
<1> QED
  BY <1>1 DEF IsWindow

LEMMA CloseKeepsWin ==
  ASSUME NEW d, IsWindow(d)
  PROVE  IsWindow(Close(d)) /\ Close(d).win = d.win
BY DEF Close, IsWindow

LEMMA TurnKeepsPermission ==
  ASSUME NEW r, IsControl(r)
  PROVE  IsControl(Turn(r)) /\ Turn(r).allowed = r.allowed /\ Turn(r).asked = r.asked
<1> DEFINE left == Tail(r.queue)
           runs == r.runs \cup {Head(r.queue)}
<1>1. Turn(r) = IF r.queue = <<>> THEN [r EXCEPT !.processing = FALSE]
                ELSE IF ~r.allowed THEN [r EXCEPT !.queue = <<>>, !.processing = FALSE]
                ELSE [r EXCEPT !.queue = left, !.processing = TRUE, !.runs = runs]
  BY DEF Turn
<1> HIDE DEF left, runs
<1> QED
  BY <1>1 DEF IsControl

---------------------------------------------------------------------------
(* The steps of the window *)

LEMMA JoinCallStep ==
  ASSUME WidgetIInv, NEW v \in Views, NEW c \in Calls, JoinCall(v, c)
  PROVE  WidgetIInv'
<1> DEFINE d == IF wd.view # None /\ (wd.view \in gone \/ wd.win = 0)
                THEN [wd EXCEPT !.view = None, !.call = None] ELSE wd
           join == [view |-> v, call |-> c, on |-> wd.win]
           waits == [Close(d) EXCEPT !.joins = Append(@, join)]
<1>1. IsWindow(d) /\ d.win = wd.win
  BY DEF WidgetIInv, Shapes, IsWindow
<1>2. /\ wd' = d \/ (d.win = 0 /\ wd' = OpenAll(d, <<join>>)) \/ wd' = waits
      /\ UNCHANGED <<gone, rc, widgetHistory>>
  BY DEF JoinCall
<1>3. IsWindow(OpenAll(d, <<join>>))
  BY <1>1, OpenAllIsWindow
<1>4. IsWindow(waits) /\ waits.win = wd.win
  <2> HIDE DEF d, join, waits
  <2>1. IsWindow(Close(d)) /\ Close(d).win = wd.win
    BY <1>1, CloseKeepsWin
  <2> DEFINE shut == Close(d)
             joins == Append(shut.joins, join)
  <2> HIDE DEF shut, joins
  <2>2. IsWindow(shut) /\ shut.win = wd.win
    BY <2>1 DEF shut
  <2>3. waits = [shut EXCEPT !.joins = joins]
    BY DEF waits, shut, joins
  <2> QED
    BY <2>2, <2>3 DEF IsWindow
<1>5. IsWindow(wd')
  BY <1>1, <1>2, <1>3, <1>4
<1>6. wd.win # 0 => wd'.win = wd.win
  BY <1>1, <1>2, <1>4
<1> HIDE DEF d, waits
<1>7. Permitted'
  BY <1>2, <1>6 DEF WidgetIInv, Permitted, widgetHistory
<1> QED
  BY <1>2, <1>5, <1>7 DEF WidgetIInv, Shapes, IsControl, IsWindow, ControlApproved, widgetHistory

LEMMA ClosedStep ==
  ASSUME WidgetIInv, NEW w \in Win, Closed(w)
  PROVE  WidgetIInv'
<1> DEFINE next == Among(wd.joins, {j \in Join : j.on = w})
           shown == [wd.shows EXCEPT ![w] = None]
           kept == Among(wd.joins, {j \in Join : j.on # w})
           d == [wd EXCEPT !.shows = shown, !.closing = @ \ {w}, !.win = 0, !.view = None,
                           !.call = None, !.joins = kept]
<1>1. wd' = OpenAll(d, next)
  BY DEF Closed, WidgetIInv, Shapes, IsWindow
<1>2. IsWindow(d)
  <2> HIDE DEF shown, kept
  <2> QED
    BY DEF WidgetIInv, Shapes, IsWindow
<1>3. IsWindow(wd')
  BY <1>1, <1>2, OpenAllIsWindow
<1>4. /\ rc' = [rc EXCEPT !.allowed = FALSE, !.queue = <<>>, !.processing = FALSE]
      /\ UNCHANGED <<approved, late, done>>
  BY DEF Closed
<1>5. IsControl(rc') /\ ~rc'.allowed /\ rc'.asked = rc.asked
  BY <1>4 DEF WidgetIInv, Shapes, IsControl
<1> QED
  BY <1>3, <1>4, <1>5 DEF WidgetIInv, Shapes, IsControl, IsWindow, Permitted, ControlApproved

\* The window that is asked to close is still the one there is.
LEMMA CloseStep ==
  ASSUME WidgetIInv, CallsLeave \/ \E v \in Views : ViewRemoved(v)
  PROVE  WidgetIInv'
<1>1. /\ wd' \in {wd, Close(wd)} \/ \E u \in Views : wd' = [wd EXCEPT !.view = u]
      /\ UNCHANGED <<rc, widgetHistory>>
  BY DEF CallsLeave, ViewRemoved
<1>2. IsWindow(wd') /\ wd'.win = wd.win
  BY <1>1, CloseKeepsWin DEF WidgetIInv, Shapes, IsWindow
<1> QED
  BY <1>1, <1>2 DEF WidgetIInv, Shapes, IsControl, IsWindow, Permitted, ControlApproved,
                    widgetHistory

---------------------------------------------------------------------------
(* The steps of remote control *)

LEMMA AnswerStep ==
  ASSUME WidgetIInv, AskControl \/ (\E w \in Win, yes \in BOOLEAN : AnswerControl(w, yes))
  PROVE  WidgetIInv'
<1> USE DEF WidgetIInv, Shapes, IsControl, IsWindow, Permitted, ControlApproved, ControlStep
<1>1. CASE AskControl
  BY <1>1 DEF AskControl, widgetHistory
<1>2. ASSUME NEW w \in Win, AnswerControl(w, TRUE)
      PROVE  WidgetIInv'
  BY <1>2 DEF AnswerControl
<1>3. ASSUME NEW w \in Win, AnswerControl(w, FALSE)
      PROVE  WidgetIInv'
  BY <1>3 DEF AnswerControl
<1> QED
  BY <1>1, <1>2, <1>3

\* A step that gives no permission and performs no event.
LEMMA QuietStep ==
  ASSUME WidgetIInv, ControlStep, UNCHANGED <<approved, late, done>>,
         IsControl(rc'), rc'.allowed => rc.allowed, rc'.asked = rc.asked
  PROVE  WidgetIInv'
BY DEF WidgetIInv, Shapes, IsControl, IsWindow, Permitted, ControlApproved, ControlStep

LEMMA QueueStep ==
  ASSUME WidgetIInv, Terminate \/ HandleShareScreen \/ (\E press \in BOOLEAN : SendEvent(press))
  PROVE  WidgetIInv'
<1>1. IsControl(rc)
  BY DEF WidgetIInv, Shapes
<1>2. CASE Terminate \/ HandleShareScreen
  <2>1. IsControl(rc') /\ (rc'.allowed => rc.allowed) /\ rc'.asked = rc.asked
    BY <1>1, <1>2 DEF Terminate, HandleShareScreen, IsControl
  <2> QED
    BY <1>2, <2>1, QuietStep DEF Terminate, HandleShareScreen, widgetHistory
<1>3. ASSUME NEW press \in BOOLEAN, SendEvent(press)
      PROVE  WidgetIInv'
  <2> DEFINE e == [n |-> rc.sent + 1, press |-> press, at |-> "move"]
             q == rc.queue
             coalesced == ~press /\ q # <<>> /\ ~Last(q).press
             new == IF coalesced THEN Append(Front(q), e) ELSE Append(q, e)
             n == rc.sent + 1
             r == [rc EXCEPT !.sent = n, !.queue = new]
  <2>1. rc' \in {r, Turn(r)} /\ ControlStep /\ UNCHANGED widgetHistory
    BY <1>3 DEF SendEvent
  <2>2. IsControl(r) /\ r.allowed = rc.allowed /\ r.asked = rc.asked
    <3> HIDE DEF new, n
    <3> QED
      BY <1>1 DEF IsControl
  <2> HIDE DEF r
  <2>3. IsControl(rc') /\ rc'.allowed = rc.allowed /\ rc'.asked = rc.asked
    BY <2>1, <2>2, TurnKeepsPermission
  <2> QED
    BY <2>1, <2>3, QuietStep DEF widgetHistory
<1> QED
  BY <1>2, <1>3

LEMMA EventStep ==
  ASSUME WidgetIInv, NEW e, MouseMoved(e) \/ EventEnds(e)
  PROVE  WidgetIInv'
<1>1. IsControl(rc)
  BY DEF WidgetIInv, Shapes
<1>2. CASE MouseMoved(e)
  <2> DEFINE press == e.press /\ rc.allowed
             runs == (rc.runs \ {e}) \cup {[e EXCEPT !.at = IF press THEN "press" ELSE "end"]}
  <2>1. /\ ControlStep /\ UNCHANGED <<approved, late>> /\ rc' = [rc EXCEPT !.runs = runs]
        /\ IF press THEN Perform(e) ELSE UNCHANGED done
    BY <1>2 DEF MouseMoved
  <2>2. IsControl(rc') /\ rc'.allowed = rc.allowed /\ rc'.asked = rc.asked
    <3> HIDE DEF runs
    <3> QED
      BY <1>1, <2>1 DEF IsControl
  <2>3. ControlApproved'
    <3>1. CASE press
      <4>1. done'.ok = (wd.win # 0 /\ wd.win \in approved)
        BY <2>1, <3>1 DEF Perform
      <4>2. late \/ (wd.win # 0 /\ wd.win \in approved)
        BY <3>1 DEF WidgetIInv, Permitted
      <4> QED
        BY <2>1, <4>1, <4>2 DEF ControlApproved
    <3>2. CASE ~press
      BY <2>1, <3>2 DEF WidgetIInv, ControlApproved
    <3> QED
      BY <3>1, <3>2
  <2> QED
    BY <2>1, <2>2, <2>3 DEF WidgetIInv, Shapes, IsControl, IsWindow, Permitted, ControlStep
<1>3. CASE EventEnds(e)
  <2> DEFINE runs == rc.runs \ {e}
             r == [rc EXCEPT !.runs = runs]
  <2>1. IsControl(r) /\ r.allowed = rc.allowed /\ r.asked = rc.asked
    <3> HIDE DEF runs
    <3> QED
      BY <1>1 DEF IsControl
  <2>2. rc' = Turn(r) /\ ControlStep /\ UNCHANGED widgetHistory
    BY <1>3 DEF EventEnds
  <2> HIDE DEF r
  <2>3. IsControl(rc') /\ rc'.allowed = rc.allowed /\ rc'.asked = rc.asked
    BY <2>1, <2>2, TurnKeepsPermission
  <2> QED
    BY <2>2, <2>3, QuietStep DEF widgetHistory
<1> QED
  BY <1>2, <1>3

---------------------------------------------------------------------------
(* The approval *)

LEMMA WidgetStep ==
  ASSUME WidgetIInv, [WidgetNext]_widgetVars
  PROVE  WidgetIInv'
<1>1. ASSUME NEW v \in Views, NEW c \in Calls, JoinCall(v, c)
      PROVE  WidgetIInv'
  BY <1>1, JoinCallStep
<1>2. ASSUME NEW w \in Win, Closed(w)
      PROVE  WidgetIInv'
  BY <1>2, ClosedStep
<1>3. CASE CallsLeave \/ \E v \in Views : ViewRemoved(v)
  BY <1>3, CloseStep
<1>4. CASE AskControl \/ \E w \in Win, yes \in BOOLEAN : AnswerControl(w, yes)
  BY <1>4, AnswerStep
<1>5. CASE Terminate \/ HandleShareScreen \/ \E press \in BOOLEAN : SendEvent(press)
  BY <1>5, QueueStep
<1>6. CASE Processor
  BY <1>6, EventStep DEF Processor
<1>7. CASE UNCHANGED widgetVars
  BY <1>7 DEF widgetVars, widgetHistory, WidgetIInv, Shapes, IsWindow, IsControl, Permitted,
              ControlApproved
<1> QED
  BY <1>1, <1>2, <1>3, <1>4, <1>5, <1>6, <1>7 DEF WidgetNext

\* A button is pressed only in a call in which the user has allowed remote control, unless
\* an answer came after the call it was about (handleRemoteControlRequestPermission,
\* onClosed, executeRemoteControlEvent).
THEOREM ControlApprovedAlways ==
  WidgetSpec => []ControlApproved
<1>1. WidgetInit => WidgetIInv
  BY DEF WidgetInit, WidgetIInv, Shapes, IsWindow, IsControl, Permitted, ControlApproved
<1>2. WidgetIInv /\ [WidgetNext]_widgetVars => WidgetIInv'
  BY WidgetStep
<1>3. WidgetIInv => ControlApproved
  BY DEF WidgetIInv
<1> QED
  BY <1>1, <1>2, <1>3, PTL DEF WidgetSpec

---------------------------------------------------------------------------
(* The order of the events *)

\* What waits has been sent in this order after all that runs or has been performed.
Waits(q, d, r) ==
    /\ q \in Seq(Event)
    /\ \A i, j \in 1..Len(q) : i < j => q[i].n < q[j].n
    /\ \A i \in 1..Len(q) : /\ d.n < q[i].n /\ q[i].n <= r.sent
                            /\ \A e \in r.runs : e.n < q[i].n

Runs(d, r) ==
    /\ r.runs \subseteq Event /\ \A e, f \in r.runs : e = f
    /\ \A e \in r.runs : e.n <= r.sent /\ d.n <= e.n /\ (e.at = "move" => d.n < e.n)

Performed(d, r) == r.sent \in Nat /\ d.n \in 0..r.sent /\ d.ordered

\* One processor runs while the queue is being processed.
InOrder(d, r) ==
    /\ Waits(r.queue, d, r) /\ Runs(d, r) /\ Performed(d, r)
    /\ r.processing <=> r.runs # {}

OrderIInv == IsControl(rc) /\ (~reset => InOrder(done, rc))

LEMMA AppendWaits ==
  ASSUME NEW d, NEW r, NEW q, Waits(q, d, r), r.sent \in Nat, d.n \in 0..r.sent, Runs(d, r),
         NEW e \in Event, e.n = r.sent + 1, NEW s, s.sent = r.sent + 1, s.runs = r.runs
  PROVE  Waits(Append(q, e), d, s)
<1> DEFINE a == Append(q, e)
           k == Len(q)
<1>1. q \in Seq(Event) /\ k \in Nat
  BY DEF Waits
<1>2. /\ a \in Seq(Event) /\ Len(a) = k + 1 /\ a[k + 1] = e
      /\ \A i \in 1..k : a[i] = q[i]
  BY <1>1
<1>3. /\ \A i, j \in 1..k : i < j => q[i].n < q[j].n
      /\ \A i \in 1..k : d.n < q[i].n /\ q[i].n <= r.sent /\ \A f \in r.runs : f.n < q[i].n
      /\ \A f \in r.runs : f.n <= r.sent
  BY DEF Waits, Runs
<1>4. /\ \A i \in 1..k : q[i].n \in Int
      /\ \A f \in r.runs : f.n \in Int
  <2>1. \A i \in 1..k : q[i] \in Event
    BY <1>1
  <2>2. \A f \in r.runs : f \in Event
    BY DEF Runs
  <2>3. \A f \in Event : f.n \in Int
    BY WidgetAssumption DEF Event
  <2> QED
    BY <2>1, <2>2, <2>3
<1> HIDE DEF a, k
<1>5. ASSUME NEW i \in 1..(k + 1), NEW j \in 1..(k + 1), i < j
      PROVE  a[i].n < a[j].n
  <2>1. CASE j \in 1..k
    BY <1>1, <1>2, <1>3, <1>5, <2>1
  <2>2. CASE j = k + 1
    <3>1. i \in 1..k /\ a[i] = q[i] /\ a[j] = e
      BY <1>1, <1>2, <1>5, <2>2
    <3>2. q[i].n <= r.sent /\ q[i].n \in Int
      BY <1>3, <1>4, <3>1
    <3> QED
      BY <3>1, <3>2
  <2> QED
    BY <1>1, <2>1, <2>2
<1>6. ASSUME NEW i \in 1..(k + 1)
      PROVE  d.n < a[i].n /\ a[i].n <= s.sent /\ \A f \in s.runs : f.n < a[i].n
  BY <1>1, <1>2, <1>3, <1>4
<1> QED
  BY <1>2, <1>5, <1>6 DEF Waits, a

LEMMA FrontWaits ==
  ASSUME NEW d, NEW r, NEW q, Waits(q, d, r), q # <<>>
  PROVE  Waits(Front(q), d, r)
<1>1. Front(q) = SubSeq(q, 1, Len(q) - 1)
  BY DEF Front
<1>2. Len(q) \in Nat \ {0}
  BY DEF Waits
<1>3. /\ Front(q) \in Seq(Event) /\ Len(Front(q)) = Len(q) - 1
      /\ \A i \in 1..(Len(q) - 1) : Front(q)[i] = q[i]
  <2>1. /\ 1 \in Int /\ Len(q) - 1 \in Int /\ 1 <= Len(q)
        /\ \A i \in 1..(Len(q) - 1) : q[i] \in Event
    BY <1>2 DEF Waits
  <2>2. /\ SubSeq(q, 1, Len(q) - 1) \in Seq(Event)
        /\ Len(SubSeq(q, 1, Len(q) - 1)) =
              IF 1 <= Len(q) - 1 THEN (Len(q) - 1) - 1 + 1 ELSE 0
        /\ \A i \in 1..((Len(q) - 1) - 1 + 1) : SubSeq(q, 1, Len(q) - 1)[i] = q[1 + i - 1]
    BY <2>1, SubSeqProperties
  <2>3. Len(Front(q)) = Len(q) - 1
    <3>1. \A n \in Nat \ {0} : (IF 1 <= n - 1 THEN (n - 1) - 1 + 1 ELSE 0) = n - 1
      OBVIOUS
    <3> QED
      BY <1>1, <1>2, <2>2, <3>1
  <2>4. ASSUME NEW i \in 1..(Len(q) - 1)
        PROVE  Front(q)[i] = q[i]
    <3>1. 1 + i - 1 = i /\ i \in 1..((Len(q) - 1) - 1 + 1)
      BY <1>2
    <3> QED
      BY <1>1, <2>2, <3>1
  <2> QED
    BY <1>1, <2>2, <2>3, <2>4
<1> HIDE DEF Front
<1> QED
  BY <1>2, <1>3 DEF Waits

\* What Turn does to a queue that nobody processes: it ends, or runs the first event.
LEMMA TurnInOrder ==
  ASSUME NEW d, NEW r, IsControl(r), r.runs = {}, Waits(r.queue, d, r), Performed(d, r)
  PROVE  InOrder(d, Turn(r))
<1>1. CASE r.queue = <<>> \/ ~r.allowed
  BY <1>1 DEF Turn, InOrder, Waits, Runs, Performed, IsControl
<1>2. CASE r.queue # <<>> /\ r.allowed
  <2> DEFINE head == Head(r.queue)
             left == Tail(r.queue)
             t == [r EXCEPT !.queue = left, !.processing = TRUE, !.runs = {head}]
  <2>1. Turn(r) = t
    BY <1>2 DEF Turn, IsControl
  <2>2. /\ Len(r.queue) \in Nat \ {0} /\ head \in Event /\ head = r.queue[1]
        /\ left \in Seq(Event) /\ Len(left) = Len(r.queue) - 1
        /\ \A i \in 1..Len(left) : left[i] = r.queue[i + 1]
    BY <1>2 DEF Waits
  <2> HIDE DEF head, left
  <2>3. /\ t.runs = {head} /\ t.queue = left /\ t.sent = r.sent /\ t.processing
    BY DEF IsControl
  <2> HIDE DEF t
  <2>4. Waits(left, d, t)
    <3> DEFINE k == Len(left)
    <3>1. /\ k \in Nat /\ head.n \in Int
          /\ \A i, j \in 1..(k + 1) : i < j => r.queue[i].n < r.queue[j].n
          /\ \A i \in 1..(k + 1) : d.n < r.queue[i].n /\ r.queue[i].n <= r.sent
      BY <2>2 DEF Waits, Event
    <3> HIDE DEF k
    <3>2. \A i \in 1..k : i + 1 \in 1..(k + 1) /\ 1 \in 1..(k + 1) /\ 1 < i + 1
      BY <3>1
    <3>3. \A i \in 1..k : left[i] = r.queue[i + 1]
      BY <2>2 DEF k
    <3>4. \A i, j \in 1..k : i < j => left[i].n < left[j].n
      BY <3>1, <3>2, <3>3
    <3>5. \A i \in 1..k : d.n < left[i].n /\ left[i].n <= r.sent /\ head.n < left[i].n
      BY <2>2, <3>1, <3>2, <3>3
    <3> QED
      BY <2>2, <2>3, <3>4, <3>5 DEF Waits, k
  <2>5. Runs(d, t)
    BY <2>2, <2>3 DEF Runs, Waits, Event, Performed
  <2> QED
    BY <2>1, <2>3, <2>4, <2>5 DEF InOrder, Performed
<1> QED
  BY <1>1, <1>2

\* The queue has been emptied, and nothing runs.
LEMMA ResetInOrder ==
  ASSUME OrderIInv, reset' = (reset \/ rc.runs # {}), UNCHANGED done,
         IsControl(rc'), rc'.queue = <<>>, ~rc'.processing, rc'.runs = rc.runs,
         rc'.sent = rc.sent
  PROVE  OrderIInv'
<1> SUFFICES ASSUME ~reset'
             PROVE  InOrder(done', rc')
  BY DEF OrderIInv, IsControl
<1>1. InOrder(done, rc) /\ rc'.runs = {}
  BY DEF OrderIInv
<1> QED
  BY <1>1 DEF InOrder, Waits, Runs, Performed

LEMMA SendEventOrder ==
  ASSUME OrderIInv, NEW press \in BOOLEAN, SendEvent(press)
  PROVE  OrderIInv'
<1> DEFINE e == [n |-> rc.sent + 1, press |-> press, at |-> "move"]
           q == rc.queue
           coalesced == ~press /\ q # <<>> /\ ~Last(q).press
           new == IF coalesced THEN Append(Front(q), e) ELSE Append(q, e)
           n == rc.sent + 1
           r == [rc EXCEPT !.sent = n, !.queue = new]
<1>1. /\ rc' = IF rc.processing THEN r ELSE Turn(r)
      /\ UNCHANGED <<done, reset>> /\ rc.sent < MaxEvents
  BY DEF SendEvent, widgetHistory
<1>2. /\ IsControl(r) /\ r.sent = n /\ r.queue = new /\ r.runs = rc.runs
      /\ r.processing = rc.processing
  <2> HIDE DEF new, n
  <2> QED
    BY DEF OrderIInv, IsControl
<1>3. IsControl(rc')
  <2> HIDE DEF r
  <2> QED
    BY <1>1, <1>2, TurnKeepsPermission
<1>4. ASSUME ~reset
      PROVE  InOrder(done, rc')
  <2>1. InOrder(done, rc)
    BY <1>4 DEF OrderIInv
  <2>2. e \in Event /\ e.n = rc.sent + 1
    BY <1>1, <2>1, WidgetAssumption DEF InOrder, Performed, Event
  <2> HIDE DEF e, r
  <2>3. Waits(Append(q, e), done, r)
    BY <1>2, <2>1, <2>2, AppendWaits DEF InOrder, Performed
  <2>4. ASSUME q # <<>>
        PROVE  Waits(Append(Front(q), e), done, r)
    <3>1. Waits(Front(q), done, rc)
      BY <2>1, <2>4, FrontWaits DEF InOrder
    <3> QED
      BY <1>2, <2>1, <2>2, <3>1, AppendWaits DEF InOrder, Performed
  <2>5. Waits(r.queue, done, r)
    BY <1>2, <2>3, <2>4
  <2>6. Runs(done, r) /\ Performed(done, r)
    BY <1>2, <2>1 DEF InOrder, Runs, Performed, Event
  <2>7. CASE rc.processing
    BY <1>1, <1>2, <2>1, <2>5, <2>6, <2>7 DEF InOrder
  <2>8. CASE ~rc.processing
    <3>1. r.runs = {}
      BY <1>2, <2>1, <2>8 DEF InOrder
    <3> QED
      BY <1>1, <1>2, <2>5, <2>6, <2>8, <3>1, TurnInOrder
  <2> QED
    BY <2>7, <2>8
<1> QED
  BY <1>1, <1>3, <1>4 DEF OrderIInv, IsControl

LEMMA EventOrder ==
  ASSUME OrderIInv, NEW e, MouseMoved(e) \/ EventEnds(e)
  PROVE  OrderIInv'
<1>1. CASE MouseMoved(e)
  <2> DEFINE press == e.press /\ rc.allowed
             f == [e EXCEPT !.at = IF press THEN "press" ELSE "end"]
             runs == (rc.runs \ {e}) \cup {f}
  <2>1. /\ rc' = [rc EXCEPT !.runs = runs] /\ UNCHANGED reset /\ e \in rc.runs /\ e.at = "move"
        /\ IF press THEN Perform(e) ELSE UNCHANGED done
    BY <1>1 DEF MouseMoved
  <2>2. /\ IsControl(rc') /\ rc'.runs = runs /\ rc'.queue = rc.queue /\ rc'.sent = rc.sent
        /\ rc'.processing = rc.processing
    <3> HIDE DEF runs
    <3> QED
      BY <2>1 DEF OrderIInv, IsControl
  <2>3. ASSUME ~reset
        PROVE  InOrder(done', rc')
    <3>1. InOrder(done, rc)
      BY <2>3 DEF OrderIInv
    <3>2. runs = {f} /\ f \in Event /\ f.n = e.n /\ f.at # "move" /\ e \in Event
      BY <2>1, <3>1 DEF InOrder, Runs, Event
    <3>3. done.n < e.n /\ e.n <= rc.sent
      BY <2>1, <3>1 DEF InOrder, Runs
    <3>4. done'.n \in {done.n, e.n} /\ done'.ordered
      <4>1. done.ordered
        BY <3>1 DEF InOrder, Performed
      <4>2. CASE press
        <5>1. /\ done'.n = e.n /\ done'.ordered = (done.ordered /\ done.n < e.n)
          BY <2>1, <4>2 DEF Perform
        <5> QED
          BY <3>3, <4>1, <5>1
      <4>3. CASE ~press
        BY <2>1, <4>1, <4>3
      <4> QED
        BY <4>2, <4>3
    <3> HIDE DEF runs, f
    <3>5. Waits(rc'.queue, done', rc')
      BY <2>1, <2>2, <3>1, <3>2, <3>4 DEF InOrder, Waits
    <3>6. Runs(done', rc') /\ Performed(done', rc')
      BY <2>2, <3>1, <3>2, <3>3, <3>4 DEF InOrder, Runs, Performed, Event
    <3> QED
      BY <2>1, <2>2, <3>1, <3>2, <3>5, <3>6 DEF InOrder
  <2> QED
    BY <2>1, <2>2, <2>3 DEF OrderIInv, IsControl
<1>2. CASE EventEnds(e)
  <2> DEFINE runs == rc.runs \ {e}
             r == [rc EXCEPT !.runs = runs]
  <2>1. rc' = Turn(r) /\ UNCHANGED <<done, reset>> /\ e \in rc.runs
    BY <1>2 DEF EventEnds, widgetHistory
  <2>2. IsControl(r) /\ r.runs = runs /\ r.queue = rc.queue /\ r.sent = rc.sent
    <3> HIDE DEF runs
    <3> QED
      BY DEF OrderIInv, IsControl
  <2> HIDE DEF r
  <2>3. IsControl(rc')
    BY <2>1, <2>2, TurnKeepsPermission
  <2>4. ASSUME ~reset
        PROVE  InOrder(done, rc')
    <3>1. InOrder(done, rc)
      BY <2>4 DEF OrderIInv
    <3>2. r.runs = {}
      BY <2>1, <2>2, <3>1 DEF InOrder, Runs
    <3>3. Waits(r.queue, done, r) /\ Performed(done, r)
      BY <2>2, <3>1, <3>2 DEF InOrder, Waits, Performed
    <3> QED
      BY <2>1, <2>2, <3>2, <3>3, TurnInOrder
  <2> QED
    BY <2>1, <2>3, <2>4 DEF OrderIInv, IsControl
<1> QED
  BY <1>1, <1>2

LEMMA OrderStep ==
  ASSUME OrderIInv, [WidgetNext]_widgetVars
  PROVE  OrderIInv'
<1>1. ASSUME NEW w \in Win, Closed(w)
      PROVE  OrderIInv'
  BY <1>1, ResetInOrder DEF Closed, OrderIInv, IsControl
<1>2. CASE HandleShareScreen
  BY <1>2, ResetInOrder DEF HandleShareScreen, OrderIInv, IsControl
<1>3. CASE Terminate
  <2>1. /\ IsControl(rc') /\ rc'.queue = <<>> /\ rc'.runs = rc.runs /\ rc'.sent = rc.sent
        /\ rc'.processing = rc.processing /\ UNCHANGED <<done, reset>>
    BY <1>3 DEF Terminate, OrderIInv, IsControl, widgetHistory
  <2> QED
    BY <2>1 DEF OrderIInv, InOrder, Waits, Runs, Performed, IsControl
<1>4. CASE AskControl \/ \E w \in Win, yes \in BOOLEAN : AnswerControl(w, yes)
  <2>1. /\ IsControl(rc') /\ rc'.queue = rc.queue /\ rc'.runs = rc.runs /\ rc'.sent = rc.sent
        /\ rc'.processing = rc.processing /\ UNCHANGED <<done, reset>>
    BY <1>4 DEF AskControl, AnswerControl, OrderIInv, IsControl, widgetHistory
  <2> QED
    BY <2>1 DEF OrderIInv, InOrder, Waits, Runs, Performed, IsControl
<1>5. ASSUME NEW press \in BOOLEAN, SendEvent(press)
      PROVE  OrderIInv'
  BY <1>5, SendEventOrder
<1>6. CASE Processor
  BY <1>6, EventOrder DEF Processor
<1>7. CASE UNCHANGED <<rc, done, reset>>
  BY <1>7 DEF OrderIInv, IsControl, InOrder, Waits, Runs, Performed
<1>8. CASE CallsLeave \/ \E v \in Views : ViewRemoved(v) \/ \E c \in Calls : JoinCall(v, c)
  BY <1>7, <1>8 DEF CallsLeave, ViewRemoved, JoinCall, widgetHistory
<1>9. CASE UNCHANGED widgetVars
  BY <1>7, <1>9 DEF widgetVars
<1> QED
  BY <1>1, <1>2, <1>3, <1>4, <1>5, <1>6, <1>8, <1>9 DEF WidgetNext

\* Events are performed one at a time and in the order in which they were sent, unless the
\* queue is reset in the middle of an event (processRemoteControlQueue).
THEOREM EventsInOrderAlways ==
  WidgetSpec => []EventsInOrder
<1>1. WidgetInit => OrderIInv
  BY DEF WidgetInit, OrderIInv, IsControl, InOrder, Waits, Runs, Performed
<1>2. OrderIInv /\ [WidgetNext]_widgetVars => OrderIInv'
  BY OrderStep
<1>3. OrderIInv => EventsInOrder
  <2> SUFFICES ASSUME InOrder(done, rc)
               PROVE  done.ordered /\ Cardinality(rc.runs) <= 1
    BY DEF OrderIInv, EventsInOrder
  <2>1. CASE rc.runs = {}
    BY <2>1, FS_EmptySet DEF InOrder, Performed
  <2>2. CASE rc.runs # {}
    <3>1. PICK e : rc.runs = {e}
      BY <2>2 DEF InOrder, Runs
    <3>2. Cardinality(rc.runs) = 1
      BY <3>1, FS_Singleton
    <3> QED
      BY <3>2 DEF InOrder, Performed
  <2> QED
    BY <2>1, <2>2
<1> QED
  BY <1>1, <1>2, <1>3, PTL DEF WidgetSpec

---------------------------------------------------------------------------
(* Downloads: the inductive invariant *)

ItemType == [file : Key, st : {"none", "chosen", "live", "ended"}]

\* Items are numbered as they are chosen, so that an item is never given away twice.
Numbered ==
    /\ items \in [Item -> ItemType] /\ started \in Nat /\ saving \subseteq Item
    /\ \A i \in Item : i > started => items[i].st = "none" /\ i \notin saving

Entries == \A e \in downloads : e \in [key : {e.key}, st : {e.st}, at : {e.at}]

Backed(key) == \E i \in Item : items[i].file = key /\ (Running(i) \/ i \in saving)
Claims(e) == e.key \in Files \ dropped /\ e.st = "progressing"
Real == \A e \in downloads : Claims(e) => Backed(e.key)

DownloadsIInv == Numbered /\ Entries /\ Real

---------------------------------------------------------------------------
(* The operations of the list *)

LEMMA TrimmedRemoves ==
  ASSUME NEW d, NEW x \in Trimmed(d)
  PROVE  x \subseteq d
BY DEF Trimmed

LEMMA FindIsThere ==
  ASSUME Entries, NEW key, Has(key)
  PROVE  /\ Find(key) \in downloads /\ Find(key).key = key
         /\ Find(key) \in [key : {key}, st : {Find(key).st}, at : {Find(key).at}]
<1>1. PICK e \in downloads : e.key = key
  BY DEF Has
<1>2. Find(key) \in downloads /\ Find(key).key = key
  BY <1>1 DEF Find
<1> QED
  BY <1>2 DEF Entries

\* An entry has been put into the list, from which another one may have been removed.
LEMMA UpsertPuts ==
  ASSUME NEW i, NEW st, Upsert(i, st)
  PROVE  \A x \in downloads' : \/ x = Entry(items[i].file, st, i)
                               \/ x \in downloads /\ x.key # items[i].file
<1> DEFINE e == Entry(items[i].file, st, i)
<1>1. downloads' \subseteq Put(downloads, e)
  BY TrimmedRemoves DEF Upsert
<1> QED
  BY <1>1 DEF Put, Without, Entry

---------------------------------------------------------------------------
(* Electron's events *)

LEMMA ChooseStep ==
  ASSUME DownloadsIInv, NEW f \in Files, Choose(f)
  PROVE  DownloadsIInv'
<1> USE DownloadsAssumption DEF Item, Key, DownloadsIInv
<1>1. Numbered'
  BY DEF Choose, Numbered, Running, ItemType
<1>2. ASSUME NEW key, Backed(key)
      PROVE  Backed(key)'
  <2>1. PICK i \in Item : items[i].file = key /\ (Running(i) \/ i \in saving)
    BY <1>2 DEF Backed
  <2>2. i # started + 1
    BY <2>1 DEF Numbered, Running
  <2>3. items'[i] = items[i] /\ saving' = saving
    BY <2>2 DEF Choose, Numbered
  <2> QED
    BY <2>1, <2>3 DEF Backed, Running
<1>3. Entries' /\ Real'
  BY <1>2 DEF Choose, Entries, Real, Claims
<1> QED
  BY <1>1, <1>3

\* An event of item i that is not an end of it puts its entry into the list.
LEMMA LiveStep ==
  ASSUME DownloadsIInv, NEW i \in Item, NEW st, Upsert(i, st),
         items[i].st \in {"chosen", "live"}, items' = [items EXCEPT ![i].st = "live"],
         UNCHANGED <<started, saving, dropped>>
  PROVE  DownloadsIInv'
<1>1. items \in [Item -> ItemType]
  BY DEF DownloadsIInv, Numbered
<1>2. items' \in [Item -> ItemType] /\ items'[i].file = items[i].file /\ items'[i].st = "live"
  BY <1>1 DEF ItemType
<1>3. \A j \in Item : j # i => items'[j] = items[j]
  BY <1>1
<1>4. Numbered'
  BY <1>1, <1>2, <1>3 DEF DownloadsIInv, Numbered
<1>5. \A x \in downloads' : \/ x = Entry(items[i].file, st, i)
                            \/ x \in downloads /\ x.key # items[i].file
  BY UpsertPuts
<1>6. Entries'
  BY <1>5 DEF DownloadsIInv, Entries, Entry
<1>7. Real'
  <2> SUFFICES ASSUME NEW x \in downloads', Claims(x)'
               PROVE  Backed(x.key)'
    BY DEF Real
  <2>1. CASE x = Entry(items[i].file, st, i)
    BY <1>2, <2>1 DEF Backed, Running, Entry
  <2>2. CASE x \in downloads /\ x.key # items[i].file
    <3>1. Backed(x.key)
      BY <2>2 DEF DownloadsIInv, Real, Claims
    <3> QED
      BY <1>3, <2>2, <3>1 DEF Backed, Running
  <2> QED
    BY <1>5, <2>1, <2>2
<1> QED
  BY <1>4, <1>6, <1>7 DEF DownloadsIInv

LEMMA UpdatedStep ==
  ASSUME DownloadsIInv, NEW i \in Item, NEW st, NewDownload(i) \/ Updated(i, st)
  PROVE  DownloadsIInv'
<1>1. CASE NewDownload(i)
  BY <1>1, LiveStep DEF NewDownload
<1>2. CASE Updated(i, st)
  <2>1. items \in [Item -> ItemType] /\ items[i].st = "live"
    BY <1>2 DEF Updated, Running, DownloadsIInv, Numbered
  <2>2. items' = [items EXCEPT ![i].st = "live"]
    BY <1>2, <2>1 DEF Updated, ItemType
  <2> QED
    BY <1>2, <2>1, <2>2, LiveStep DEF Updated
<1> QED
  BY <1>1, <1>2

\* The end of item i is recorded: its entry does not claim anything any more.
LEMMA RecordedStep ==
  ASSUME DownloadsIInv, NEW i \in Item, NEW st, Recorded(i, st), st # "progressing",
         items' \in [Item -> ItemType], saving' \subseteq saving,
         UNCHANGED <<started, dropped>>, items[i].st # "none" \/ i \in saving,
         \A j \in Item : j # i => items'[j] = items[j] /\ (j \in saving => j \in saving')
  PROVE  DownloadsIInv'
<1>1. Numbered'
  BY DEF DownloadsIInv, Numbered, Item
<1>2. \A x \in downloads' : \/ x = Entry(items[i].file, st, i)
                            \/ x \in downloads /\ x.key # items[i].file
  BY UpsertPuts DEF Recorded
<1>3. Entries'
  BY <1>2 DEF DownloadsIInv, Entries, Entry
<1>4. Real'
  <2> SUFFICES ASSUME NEW x \in downloads', Claims(x)'
               PROVE  Backed(x.key)'
    BY DEF Real
  <2>1. x \in downloads /\ x.key # items[i].file
    BY <1>2 DEF Claims, Entry
  <2>2. Backed(x.key)
    BY <2>1 DEF DownloadsIInv, Real, Claims
  <2> QED
    BY <2>1, <2>2 DEF Backed, Running
<1> QED
  BY <1>1, <1>3, <1>4 DEF DownloadsIInv

LEMMA DoneStep ==
  ASSUME DownloadsIInv, NEW i \in Item,
         NEW st \in {"completed", "cancelled", "interrupted"}, Done(i, st)
  PROVE  DownloadsIInv'
<1>1. /\ items \in [Item -> ItemType] /\ items[i].st = "live" /\ started' = started
      /\ items' = [items EXCEPT ![i].st = "ended"]
  BY DEF Done, Running, DownloadsIInv, Numbered
<1>2. /\ items' \in [Item -> ItemType] /\ items'[i].file = items[i].file
      /\ \A j \in Item : j # i => items'[j] = items[j]
  BY <1>1 DEF ItemType
<1>3. CASE Recorded(i, st) /\ UNCHANGED <<saving, dropped>>
  BY <1>1, <1>2, <1>3, RecordedStep
<1>4. CASE saving' = saving \cup {i} /\ UNCHANGED <<downloads, dropped>>
  <2>1. Numbered'
    BY <1>1, <1>2, <1>4 DEF DownloadsIInv, Numbered
  <2>2. ASSUME NEW key, Backed(key)
        PROVE  Backed(key)'
    BY <1>2, <1>4, <2>2 DEF Backed, Running
  <2> QED
    BY <1>4, <2>1, <2>2 DEF DownloadsIInv, Entries, Real, Claims
<1>5. CASE dropped' = dropped \cup {items[i].file} /\ UNCHANGED <<downloads, saving>>
  <2>1. Numbered'
    BY <1>1, <1>2, <1>5 DEF DownloadsIInv, Numbered
  <2>2. ASSUME NEW key, Backed(key), key # items[i].file
        PROVE  Backed(key)'
    BY <1>2, <1>5, <2>2 DEF Backed, Running
  <2> QED
    BY <1>5, <2>1, <2>2 DEF DownloadsIInv, Entries, Real, Claims
<1> QED
  BY <1>3, <1>4, <1>5 DEF Done

LEMMA ThumbnailMadeStep ==
  ASSUME DownloadsIInv, NEW i \in Item, ThumbnailMade(i)
  PROVE  DownloadsIInv'
BY RecordedStep DEF ThumbnailMade, DownloadsIInv, Numbered

---------------------------------------------------------------------------
(* Steps that start and end no item *)

\* Entries that are new claim nothing.
LEMMA ListStep ==
  ASSUME DownloadsIInv, UNCHANGED <<items, started, saving, dropped>>,
         \A x \in downloads' :
            \/ x \in downloads
            \/ /\ x \in [key : {x.key}, st : {x.st}, at : {x.at}]
               /\ x.key = Update \/ x.st # "progressing"
  PROVE  DownloadsIInv'
BY DownloadsAssumption DEF DownloadsIInv, Numbered, Entries, Real, Claims, Backed, Running

LEMMA UserStep ==
  ASSUME DownloadsIInv,
         \/ ClearAll \/ CancelUpdate \/ Toggle \/ AutoClose
         \/ \E i \in Item : CancelDownload(i)
         \/ \E f \in Files : ClearFile(f) \/ MarkDeleted(f)
  PROVE  DownloadsIInv'
<1> USE DEF Listed
<1>1. CASE ClearAll \/ Toggle \/ AutoClose
  BY <1>1, ListStep DEF ClearAll, Toggle, AutoClose
<1>2. ASSUME NEW i \in Item, CancelDownload(i)
      PROVE  DownloadsIInv'
  BY <1>2, ListStep DEF CancelDownload
<1>3. ASSUME NEW f \in Files, ClearFile(f)
      PROVE  DownloadsIInv'
  BY <1>3, ListStep DEF ClearFile, Without
<1>4. CASE CancelUpdate
  <2>1. Find(Update) \in [key : {Update}, st : {Find(Update).st}, at : {Find(Update).at}]
    BY <1>4, FindIsThere DEF CancelUpdate, DownloadsIInv
  <2> QED
    BY <1>4, <2>1, ListStep DEF CancelUpdate, Put, Without
<1>5. ASSUME NEW f \in Files, MarkDeleted(f)
      PROVE  DownloadsIInv'
  <2>1. Find(f) \in [key : {f}, st : {Find(f).st}, at : {Find(f).at}]
    BY <1>5, FindIsThere DEF MarkDeleted, DownloadsIInv
  <2> QED
    BY <1>5, <2>1, ListStep DEF MarkDeleted, Put, Without
<1> QED
  BY <1>1, <1>2, <1>3, <1>4, <1>5

LEMMA UpdaterStep ==
  ASSUME DownloadsIInv, UpdateAvailable \/ UpdateProgress \/ UpdateDownloaded \/ NoUpdate
  PROVE  DownloadsIInv'
<1> USE DEF UpdateEvent, Put, Without, Entry
<1>1. CASE UpdateAvailable
  BY <1>1, ListStep DEF UpdateAvailable
<1>2. CASE UpdateProgress
  <2> DEFINE at == IF Has(Update) /\ Find(Update).at > 0 THEN Find(Update).at ELSE started + 1
  <2>1. downloads' = Put(downloads, Entry(Update, "progressing", at))
    BY <1>2 DEF UpdateProgress
  <2> HIDE DEF at
  <2> QED
    BY <1>2, <2>1, ListStep DEF UpdateProgress
<1>3. CASE UpdateDownloaded
  <2>1. Find(Update) \in [key : {Update}, st : {Find(Update).st}, at : {Find(Update).at}]
    BY <1>3, FindIsThere DEF UpdateDownloaded, DownloadsIInv
  <2> QED
    BY <1>3, <2>1, ListStep DEF UpdateDownloaded
<1>4. CASE NoUpdate
  BY <1>4, ListStep DEF NoUpdate
<1> QED
  BY <1>1, <1>2, <1>3, <1>4

\* After a restart nothing is going on, and nothing claims to be.
LEMMA RestartStep ==
  ASSUME DownloadsIInv, Restart
  PROVE  DownloadsIInv'
<1> DEFINE ended == [i \in Item |-> IF items[i].st = "none" THEN items[i]
                                     ELSE [items[i] EXCEPT !.st = "ended"]]
<1>1. items' = ended /\ saving' = {} /\ dropped' = {} /\ started' = started
  BY DEF Restart
<1>2. Numbered'
  BY <1>1 DEF DownloadsIInv, Numbered, ItemType
<1>3. PICK lost \in SUBSET {e.key : e \in {x \in downloads : x.st = "completed"}},
           upgraded \in BOOLEAN :
        downloads' = {IF e.key = Update THEN e
                      ELSE IF e.key \in lost THEN [e EXCEPT !.st = "deleted"]
                      ELSE IF e.st = "progressing" THEN [e EXCEPT !.st = "interrupted"]
                      ELSE e : e \in IF upgraded THEN Without(downloads, Update) ELSE downloads}
  BY DEF Restart
<1>4. ASSUME NEW x \in downloads'
      PROVE  /\ x \in [key : {x.key}, st : {x.st}, at : {x.at}]
             /\ x.key = Update \/ x.st # "progressing"
  <2>1. PICK e \in downloads :
          x = IF e.key = Update THEN e
              ELSE IF e.key \in lost THEN [e EXCEPT !.st = "deleted"]
              ELSE IF e.st = "progressing" THEN [e EXCEPT !.st = "interrupted"] ELSE e
    BY <1>3 DEF Without
  <2> QED
    BY <2>1 DEF DownloadsIInv, Entries
<1> QED
  BY <1>2, <1>4, DownloadsAssumption DEF DownloadsIInv, Entries, Real, Claims

---------------------------------------------------------------------------
(* The theorem *)

LEMMA DownloadsStep ==
  ASSUME DownloadsIInv, [DownloadsNext]_downloadsVars
  PROVE  DownloadsIInv'
<1>1. ASSUME NEW i \in Item, NewDownload(i) \/ \E st \in {"progressing", "interrupted"} : Updated(i, st)
      PROVE  DownloadsIInv'
  BY <1>1, UpdatedStep
<1>2. ASSUME NEW i \in Item, NEW st \in {"completed", "cancelled", "interrupted"}, Done(i, st)
      PROVE  DownloadsIInv'
  BY <1>2, DoneStep
<1>3. ASSUME NEW i \in Item, ThumbnailMade(i)
      PROVE  DownloadsIInv'
  BY <1>3, ThumbnailMadeStep
<1>4. ASSUME NEW f \in Files, Choose(f)
      PROVE  DownloadsIInv'
  BY <1>4, ChooseStep
<1>5. CASE \/ ClearAll \/ CancelUpdate \/ Toggle \/ AutoClose
           \/ \E i \in Item : CancelDownload(i)
           \/ \E f \in Files : ClearFile(f) \/ MarkDeleted(f)
  BY <1>5, UserStep
<1>6. CASE UpdateAvailable \/ UpdateProgress \/ UpdateDownloaded \/ NoUpdate
  BY <1>6, UpdaterStep
<1>7. CASE Restart
  BY <1>7, RestartStep
<1>8. CASE UNCHANGED downloadsVars
  BY <1>8 DEF downloadsVars, DownloadsIInv, Numbered, Entries, Real, Claims, Backed, Running
<1> QED
  BY <1>1, <1>2, <1>3, <1>4, <1>5, <1>6, <1>7, <1>8 DEF DownloadsNext

\* No order of updates, ends, cancellations, clearings and restarts leaves an entry that
\* progresses for ever, except for a download that completed after its view or its server
\* had gone (updatedEventController, doneEventController, checkForDeletedFiles).
THEOREM ProgressIsRealAlways ==
  DownloadsSpec => []ProgressIsReal
<1>1. DownloadsInit => DownloadsIInv
  BY DownloadsAssumption DEF DownloadsInit, DownloadsIInv, Numbered, Entries, Real, NoItem,
     ItemType, Key
<1>2. DownloadsIInv /\ [DownloadsNext]_downloadsVars => DownloadsIInv'
  BY DownloadsStep
<1>3. DownloadsIInv => ProgressIsReal
  <2> SUFFICES ASSUME DownloadsIInv, NEW f \in Files \ dropped,
                      Has(f), Find(f).st = "progressing"
               PROVE  \E i \in Item : items[i].file = f /\ (Running(i) \/ i \in saving)
    BY DEF ProgressIsReal
  <2>1. Find(f) \in downloads /\ Find(f).key = f
    BY FindIsThere DEF DownloadsIInv
  <2> QED
    BY <2>1 DEF DownloadsIInv, Real, Claims, Backed
<1> QED
  BY <1>1, <1>2, <1>3, PTL DEF DownloadsSpec

---------------------------------------------------------------------------
(* Induction, for a set instead of a predicate *)

LEMMA NatMin ==
  ASSUME NEW T, T \subseteq Nat, T # {}
  PROVE  \E n \in T : \A m \in T : n <= m
<1>1. PICK n \in T : \A m \in T : ~ (<<m, n>> \in OpToRel(<, Nat))
  BY NatLessThanWellFounded, WFMin, Zenon
<1>2. \A m \in T : <<m, n>> \in OpToRel(<, Nat) <=> m < n
  BY Zenon DEF OpToRel
<1>3. \A m \in T : ~ (m < n)
  BY <1>1, <1>2, Zenon
<1> QED
  BY <1>3

LEMMA SetInduction ==
  ASSUME NEW T, 0 \in T, \A n \in T \cap Nat : n + 1 \in T
  PROVE  Nat \subseteq T
<1> SUFFICES ASSUME Nat \ T # {} PROVE FALSE
  OBVIOUS
<1>1. PICK n \in Nat \ T : \A m \in Nat \ T : n <= m
  BY NatMin
<1>2. n # 0 /\ n - 1 \in T \cap Nat /\ (n - 1) + 1 = n
  BY <1>1
<1> QED
  BY <1>1, <1>2

---------------------------------------------------------------------------
(* Lists *)

\* Among is what its recursion says: there is a function for every length of q.
LEMMA AmongSteps ==
  ASSUME NEW q, Len(q) \in Nat, NEW S
  PROVE  \E f : /\ f[0] = <<>>
                /\ \A k \in 1..Len(q) :
                     f[k] = IF q[k] \in S THEN Append(f[k - 1], q[k]) ELSE f[k - 1]
                /\ Among(q, S) = f[Len(q)]
<1> DEFINE Step(f, k) == IF k = 0 THEN <<>>
                         ELSE IF q[k] \in S THEN Append(f[k - 1], q[k]) ELSE f[k - 1]
           T == {n \in Nat : \E f : f = [k \in 0..n |-> Step(f, k)]}
<1>1. 0 \in T
  <2> DEFINE f == [k \in 0..0 |-> <<>>]
  <2>1. f = [k \in 0..0 |-> Step(f, k)]
    OBVIOUS
  <2> QED
    BY <2>1
<1>2. ASSUME NEW n \in T \cap Nat PROVE n + 1 \in T
  <2>1. PICK f : f = [k \in 0..n |-> Step(f, k)]
    BY <1>2
  <2> DEFINE g == [k \in 0..(n + 1) |-> IF k = n + 1 THEN Step(f, n + 1) ELSE f[k]]
  <2>2. \A k \in 0..n : f[k] = Step(f, k)
    BY <2>1
  <2>3. \A k \in 0..(n + 1) : g[k] = Step(g, k)
    BY <2>2
  <2>4. g = [k \in 0..(n + 1) |-> Step(g, k)]
    BY <2>3
  <2>5. n + 1 \in Nat
    BY <1>2
  <2> HIDE DEF g, Step
  <2> QED
    BY <2>4, <2>5
<1>3. Len(q) \in T
  BY <1>1, <1>2, SetInduction
<1> DEFINE kept == CHOOSE f : f = [k \in 0..Len(q) |-> Step(f, k)]
<1>4. kept = [k \in 0..Len(q) |-> Step(kept, k)]
  BY <1>3
<1>5. Among(q, S) = kept[Len(q)]
  BY DEF Among
<1> HIDE DEF kept
<1>6. /\ 0 \in 0..Len(q)
      /\ \A k \in 1..Len(q) : k \in 0..Len(q) /\ k # 0
  OBVIOUS
<1>7. \A k \in 0..Len(q) : kept[k] = Step(kept, k)
  <2> HIDE DEF Step
  <2> QED
    BY <1>4, Zenon
<1>8. kept[0] = <<>>
  BY <1>6, <1>7
<1>9. \A k \in 1..Len(q) :
        kept[k] = IF q[k] \in S THEN Append(kept[k - 1], q[k]) ELSE kept[k - 1]
  BY <1>6, <1>7
<1> QED
  BY <1>5, <1>8, <1>9

\* A list keeps exactly the elements of S, each as often as before.
LEMMA AmongKeeps ==
  ASSUME NEW K, NEW q \in Seq(K), NEW S
  PROVE  /\ Among(q, S) \in Seq(K)
         /\ ToSet(Among(q, S)) = ToSet(q) \cap S
         /\ IsInjective(q) => IsInjective(Among(q, S))
<1>1. PICK f : /\ f[0] = <<>>
               /\ \A k \in 1..Len(q) :
                    f[k] = IF q[k] \in S THEN Append(f[k - 1], q[k]) ELSE f[k - 1]
               /\ Among(q, S) = f[Len(q)]
  BY AmongSteps
<1> DEFINE Right(k) ==
             /\ f[k] \in Seq(K)
             /\ \A i \in 1..Len(f[k]) : \E j \in 1..k : f[k][i] = q[j] /\ q[j] \in S
             /\ \A j \in 1..k : q[j] \in S => \E i \in 1..Len(f[k]) : f[k][i] = q[j]
             /\ IsInjective(q) => \A i, j \in 1..Len(f[k]) : f[k][i] = f[k][j] => i = j
           T == {n \in Nat : n <= Len(q) => Right(n)}
<1>2. 0 \in T
  <2>1. f[0] \in Seq(K) /\ Len(f[0]) = 0
    BY <1>1
  <2> QED
    BY <2>1
<1>3. ASSUME NEW n \in T \cap Nat, n + 1 <= Len(q) PROVE Right(n + 1)
  <2>1. Right(n) /\ n + 1 \in 1..Len(q) /\ (n + 1) - 1 = n /\ q[n + 1] \in K
    BY <1>3
  <2> DEFINE p == f[n]
             r == f[n + 1]
             x == q[n + 1]
  <2>2. p \in Seq(K) /\ Len(p) \in Nat
    BY <2>1
  <2>3. CASE x \notin S
    <3>1. r = p
      BY <1>1, <2>1, <2>3
    <3>2. \A j \in 1..(n + 1) : j \in 1..n \/ j = n + 1
      OBVIOUS
    <3>3. 1..n \subseteq 1..(n + 1)
      OBVIOUS
    <3> QED
      BY <2>1, <2>3, <3>1, <3>2, <3>3
  <2>4. CASE x \in S
    <3>1. r = Append(p, x)
      BY <1>1, <2>1, <2>4
    <3>2. /\ r \in Seq(K) /\ Len(r) = Len(p) + 1 /\ r[Len(p) + 1] = x
          /\ \A i \in 1..Len(p) : r[i] = p[i]
      BY <2>1, <2>2, <3>1
    <3>3. \A j \in 1..(n + 1) : j \in 1..n \/ j = n + 1
      OBVIOUS
    <3>4. \A i \in 1..Len(r) : i \in 1..Len(p) \/ i = Len(p) + 1
      BY <2>2, <3>2
    <3>5. 1..n \subseteq 1..(n + 1) /\ n + 1 \in 1..(n + 1) /\ 1..Len(p) \subseteq 1..Len(r)
          /\ Len(p) + 1 \in 1..Len(r)
      BY <2>2, <3>2
    <3>6. \A i \in 1..Len(r) : \E j \in 1..(n + 1) : r[i] = q[j] /\ q[j] \in S
      BY <2>1, <2>4, <3>2, <3>4, <3>5
    <3>7. \A j \in 1..(n + 1) : q[j] \in S => \E i \in 1..Len(r) : r[i] = q[j]
      BY <2>1, <3>2, <3>3, <3>5
    <3>8. ASSUME IsInjective(q), NEW i \in 1..Len(r), NEW j \in 1..Len(r), r[i] = r[j]
          PROVE  i = j
      <4>1. \A k \in 1..Len(p) : p[k] # x
        <5> SUFFICES ASSUME NEW k \in 1..Len(p), p[k] = x PROVE FALSE
          OBVIOUS
        <5>1. PICK l \in 1..n : p[k] = q[l]
          BY <2>1
        <5>2. l \in DOMAIN q /\ n + 1 \in DOMAIN q /\ l # n + 1
          BY <2>1
        <5> QED
          BY <3>8, <5>1, <5>2 DEF IsInjective
      <4> QED
        BY <2>1, <3>2, <3>4, <3>8, <4>1
    <3> QED
      BY <3>2, <3>6, <3>7, <3>8
  <2> QED
    BY <2>3, <2>4
<1>4. Len(q) \in T
  <2> HIDE DEF Right
  <2>1. \A n \in T \cap Nat : n + 1 \in T
    BY <1>3
  <2> HIDE DEF T
  <2> QED
    BY <1>2, <2>1, SetInduction
<1>5. Right(Len(q))
  <2> HIDE DEF Right
  <2> QED
    BY <1>4
<1> DEFINE a == Among(q, S)
<1>6. a = f[Len(q)]
  BY <1>1
<1> HIDE DEF a
<1>7. /\ a \in Seq(K)
      /\ \A i \in 1..Len(a) : \E j \in 1..Len(q) : a[i] = q[j] /\ q[j] \in S
      /\ \A j \in 1..Len(q) : q[j] \in S => \E i \in 1..Len(a) : a[i] = q[j]
      /\ IsInjective(q) => \A i, j \in 1..Len(a) : a[i] = a[j] => i = j
  BY <1>5, <1>6
<1>8. DOMAIN a = 1..Len(a) /\ DOMAIN q = 1..Len(q)
  BY <1>7
<1>9. ToSet(a) = ToSet(q) \cap S
  <2>1. \A x : x \in ToSet(a) <=> \E i \in 1..Len(a) : x = a[i]
    BY <1>8 DEF ToSet
  <2>2. \A x : x \in ToSet(q) <=> \E i \in 1..Len(q) : x = q[i]
    BY <1>8 DEF ToSet
  <2>3. ASSUME NEW x \in ToSet(a) PROVE x \in ToSet(q) \cap S
    <3>1. PICK i \in 1..Len(a) : x = a[i]
      BY <2>1
    <3>2. PICK j \in 1..Len(q) : a[i] = q[j] /\ q[j] \in S
      BY <1>7
    <3> QED
      BY <2>2, <3>1, <3>2
  <2>4. ASSUME NEW x \in ToSet(q) \cap S PROVE x \in ToSet(a)
    <3>1. PICK j \in 1..Len(q) : x = q[j]
      BY <2>2
    <3>2. PICK i \in 1..Len(a) : a[i] = q[j]
      BY <1>7, <3>1
    <3> QED
      BY <2>1, <3>1, <3>2
  <2> QED
    BY <2>3, <2>4
<1>10. IsInjective(q) => IsInjective(a)
  BY <1>7, <1>8 DEF IsInjective
<1> QED
  BY <1>7, <1>9, <1>10 DEF a

\* It gets no longer.
LEMMA AmongShorter ==
  ASSUME NEW K, NEW q \in Seq(K), NEW S
  PROVE  Len(Among(q, S)) <= Len(q)
<1>1. PICK f : /\ f[0] = <<>>
               /\ \A k \in 1..Len(q) :
                    f[k] = IF q[k] \in S THEN Append(f[k - 1], q[k]) ELSE f[k - 1]
               /\ Among(q, S) = f[Len(q)]
  BY AmongSteps
<1> DEFINE Right(k) == f[k] \in Seq(K) /\ Len(f[k]) <= k
           T == {n \in Nat : n <= Len(q) => Right(n)}
<1>2. 0 \in T
  <2>1. <<>> \in Seq(K) /\ Len(<<>>) = 0
    OBVIOUS
  <2>2. f[0] \in Seq(K) /\ Len(f[0]) = 0
    <3>1. f[0] = <<>>
      BY <1>1
    <3> QED
      BY <2>1, <3>1
  <2> QED
    BY <2>2
<1>3. ASSUME NEW n \in T \cap Nat, n + 1 <= Len(q) PROVE Right(n + 1)
  <2>1. n \in Nat /\ f[n] \in Seq(K) /\ Len(f[n]) <= n
    BY <1>3
  <2>2. n + 1 \in 1..Len(q) /\ (n + 1) - 1 = n /\ q[n + 1] \in K
    BY <1>3, <2>1
  <2> DEFINE more == Append(f[n], q[n + 1])
  <2>3. more \in Seq(K) /\ Len(more) = Len(f[n]) + 1
    BY <2>1, <2>2
  <2>4. f[n + 1] = f[n] \/ f[n + 1] = more
    BY <1>1, <2>2
  <2>5. Len(f[n]) \in Nat
    BY <2>1
  <2> HIDE DEF more
  <2>6. CASE f[n + 1] = f[n]
    BY <2>1, <2>5, <2>6
  <2>7. CASE f[n + 1] = more
    BY <2>1, <2>3, <2>5, <2>7
  <2> QED
    BY <2>4, <2>6, <2>7
<1>4. Len(q) \in T
  <2> HIDE DEF Right
  <2>1. \A n \in T \cap Nat : n + 1 \in T
    BY <1>3
  <2> HIDE DEF T
  <2> QED
    BY <1>2, <2>1, SetInduction
<1> QED
  BY <1>1, <1>4

---------------------------------------------------------------------------
(* Removing views one after the other *)

LEMMA RemoveViewsSteps ==
  ASSUME NEW d, NEW vs, Len(vs) \in Nat
  PROVE  \E f : /\ f[0] = d
                /\ \A k \in 1..Len(vs) : f[k] = RemoveView(f[k - 1], vs[k])
                /\ RemoveViews(d, vs) = f[Len(vs)]
<1> DEFINE Step(f, k) == IF k = 0 THEN d ELSE RemoveView(f[k - 1], vs[k])
           T == {n \in Nat : \E f : f = [k \in 0..n |-> Step(f, k)]}
<1>1. 0 \in T
  <2> DEFINE f == [k \in 0..0 |-> d]
  <2>1. f = [k \in 0..0 |-> Step(f, k)]
    OBVIOUS
  <2> QED
    BY <2>1
<1>2. ASSUME NEW n \in T \cap Nat PROVE n + 1 \in T
  <2>1. PICK f : f = [k \in 0..n |-> Step(f, k)]
    BY <1>2
  <2> DEFINE g == [k \in 0..(n + 1) |-> IF k = n + 1 THEN Step(f, n + 1) ELSE f[k]]
  <2>2. \A k \in 0..n : f[k] = Step(f, k)
    BY <2>1
  <2>3. \A k \in 0..(n + 1) : g[k] = Step(g, k)
    BY <2>2
  <2>4. g = [k \in 0..(n + 1) |-> Step(g, k)]
    BY <2>3
  <2>5. n + 1 \in Nat
    BY <1>2
  <2> HIDE DEF g, Step
  <2> QED
    BY <2>4, <2>5
<1>3. Len(vs) \in T
  BY <1>1, <1>2, SetInduction
<1> DEFINE left == CHOOSE f : f = [k \in 0..Len(vs) |-> Step(f, k)]
<1>4. left = [k \in 0..Len(vs) |-> Step(left, k)]
  BY <1>3
<1>5. RemoveViews(d, vs) = left[Len(vs)]
  BY DEF RemoveViews
<1> HIDE DEF left
<1>6. /\ 0 \in 0..Len(vs)
      /\ \A k \in 1..Len(vs) : k \in 0..Len(vs) /\ k # 0
  OBVIOUS
<1>7. \A k \in 0..Len(vs) : left[k] = Step(left, k)
  <2> HIDE DEF Step
  <2> QED
    BY <1>4, Zenon
<1>8. left[0] = d
  BY <1>6, <1>7
<1>9. \A k \in 1..Len(vs) : left[k] = RemoveView(left[k - 1], vs[k])
  BY <1>6, <1>7
<1> QED
  BY <1>5, <1>8, <1>9

\* What the first k removals have established is in P[k].
LEMMA RemoveViewsInduction ==
  ASSUME NEW d, NEW vs, Len(vs) \in Nat, NEW P, d \in P[0],
         \A k \in 1..Len(vs) : \A e \in P[k - 1] : RemoveView(e, vs[k]) \in P[k]
  PROVE  RemoveViews(d, vs) \in P[Len(vs)]
<1>1. PICK f : /\ f[0] = d
               /\ \A k \in 1..Len(vs) : f[k] = RemoveView(f[k - 1], vs[k])
               /\ RemoveViews(d, vs) = f[Len(vs)]
  BY RemoveViewsSteps
<1> DEFINE T == {n \in Nat : n <= Len(vs) => f[n] \in P[n]}
<1>2. 0 \in T
  BY <1>1
<1>3. ASSUME NEW n \in T \cap Nat PROVE n + 1 \in T
  <2>1. CASE n + 1 <= Len(vs)
    <3>1. n + 1 \in 1..Len(vs) /\ (n + 1) - 1 = n /\ f[n] \in P[n]
      BY <2>1
    <3> QED
      BY <1>1, <3>1
  <2> QED
    BY <2>1
<1>4. Len(vs) \in T
  <2> HIDE DEF T
  <2> QED
    BY <1>2, <1>3, SetInduction
<1> QED
  BY <1>1, <1>4

---------------------------------------------------------------------------
(* Leaving a tab *)

LEMMA LeastOfSet ==
  ASSUME NEW S, S \subseteq Nat, S # {}
  PROVE  Min(S) \in S
BY NatMin DEF Min

\* r is d without v in the tab bar of s; n is the tab that was switched to, or 0.
Leaves(d, r, v, s, n) ==
    /\ r \in Desk
    /\ r.servers = d.servers /\ r.order = d.order /\ r.current = d.current
    /\ r.loggedIn = d.loggedIn /\ r.errored = d.errored /\ r.view = d.view
    /\ r.primary = d.primary /\ r.nextServer = d.nextServer /\ r.nextView = d.nextView
    /\ r.tabs = [d.tabs EXCEPT ![s] = Among(@, View \ {v})]
    /\ IF n = 0 THEN r.active = d.active /\ r.visible = d.visible
       ELSE /\ r.active = [d.active EXCEPT ![s] = n]
            /\ r.visible = IF n \in d.errored THEN 0 ELSE n

\* A desk without v in the tab bar, and with n active.
LEMMA LeftDesk ==
  ASSUME NEW d \in Desk, NEW v \in View, NEW s \in Server, NEW n \in View \cup {0},
         NEW rest \in Seq(View), rest = Among(d.tabs[s], View \ {v}),
         NEW r, \/ n = 0 /\ r = [d EXCEPT !.tabs[s] = rest]
                \/ /\ n # 0
                   /\ r = [d EXCEPT !.active[s] = n,
                                     !.visible = IF n \in d.errored THEN 0 ELSE n,
                                     !.tabs[s] = rest]
  PROVE  Leaves(d, r, v, s, n)
<1> DEFINE tabs == [d.tabs EXCEPT ![s] = rest]
           active == [d.active EXCEPT ![s] = n]
           visible == IF n \in d.errored THEN 0 ELSE n
<1>1. /\ tabs \in [Server -> Seq(View)] /\ active \in [Server -> View \cup {0}]
      /\ visible \in View \cup {0}
      /\ tabs = [d.tabs EXCEPT ![s] = Among(@, View \ {v})]
  BY DEF Desk
<1>2. CASE n = 0
  <2>1. r = [d EXCEPT !.tabs = tabs]
    BY <1>2 DEF Desk
  <2> HIDE DEF tabs
  <2> QED
    BY <1>1, <1>2, <2>1 DEF Leaves, Desk
<1>3. CASE n # 0
  <2>1. r = [d EXCEPT !.tabs = tabs, !.active = active, !.visible = visible]
    BY <1>3 DEF Desk
  <2>2. active = [d.active EXCEPT ![s] = n] /\ visible = IF n \in d.errored THEN 0 ELSE n
    OBVIOUS
  <2> HIDE DEF tabs, active, visible
  <2>3. r \in Desk /\ r.tabs = tabs /\ r.active = active /\ r.visible = visible
    BY <1>1, <2>1 DEF Desk
  <2>4. /\ r.servers = d.servers /\ r.order = d.order /\ r.current = d.current
        /\ r.loggedIn = d.loggedIn /\ r.errored = d.errored /\ r.view = d.view
        /\ r.primary = d.primary /\ r.nextServer = d.nextServer /\ r.nextView = d.nextView
    BY <2>1 DEF Desk
  <2> QED
    BY <1>1, <1>3, <2>2, <2>3, <2>4 DEF Leaves
<1> QED
  BY <1>2, <1>3

LEMMA LeaveTabLeaves ==
  ASSUME NEW d \in Desk, NEW v \in View, NEW s \in Server,
         IsActiveTab(d, v) =>
           /\ d.current = s /\ IsInjective(d.tabs[s])
           /\ \A w \in View \ {v} : w \in ToSet(d.tabs[s]) <=> w \in TabViews(d, s)
  PROVE  \E n \in View \cup {0} :
           /\ Leaves(d, LeaveTab(d, v, s), v, s, n)
           /\ n = 0 => ~IsActiveTab(d, v) \/ TabViews(d, s) \ {v} = {}
           /\ n # 0 => IsActiveTab(d, v) /\ n \in TabViews(d, s) \ {v}
<1> DEFINE q == d.tabs[s]
           I == {i \in 1..Len(q) : q[i] = v}
           at == IF I # {} THEN Min(I) ELSE 0
           next == IF at > 1 THEN q[at - 1] ELSE IF at < Len(q) THEN q[at + 1] ELSE q[1]
           e == IF IsActiveTab(d, v) /\ q # <<>> THEN SwitchToTab(d, next) ELSE d
           rest == Among(q, View \ {v})
<1>1. LeaveTab(d, v, s) = [e EXCEPT !.tabs[s] = Among(@, View \ {v})]
  BY DEF LeaveTab, SelectInSeq
<1>2. q \in Seq(View) /\ Len(q) \in Nat /\ DOMAIN q = 1..Len(q)
      /\ \A i \in 1..Len(q) : q[i] \in View /\ q[i] \in ToSet(q)
  BY DEF Desk, ToSet
<1>3. rest \in Seq(View)
  BY <1>2, AmongKeeps
<1>4. IsActiveTab(d, v) => \A i, j \in 1..Len(q) : q[i] = q[j] => i = j
  BY <1>2 DEF IsInjective
<1>5. at \in 0..Len(q) /\ (at # 0 => q[at] = v) /\ (at = 0 => I = {})
  <2>1. I # {} => Min(I) \in I
    <3>1. I \subseteq Nat
      OBVIOUS
    <3> HIDE DEF I
    <3> QED
      BY <3>1, LeastOfSet
  <2> QED
    BY <1>2, <2>1
<1>6. ASSUME q # <<>>, IsActiveTab(d, v)
      PROVE  /\ next \in ToSet(q) /\ next \in View
             /\ next = v => \A i \in 1..Len(q) : q[i] = v
  <2> HIDE DEF q, at
  <2>1. Len(q) # 0
    BY <1>2, <1>6
  <2>2. CASE at > 1
    <3>1. at - 1 \in 1..Len(q) /\ at \in 1..Len(q) /\ at - 1 # at
      BY <1>2, <1>5, <2>2
    <3> QED
      BY <1>2, <1>4, <1>5, <1>6, <2>2, <3>1
  <2>3. CASE at = 1 /\ at < Len(q)
    <3>1. at + 1 \in 1..Len(q) /\ at \in 1..Len(q) /\ at + 1 # at /\ ~(at > 1)
      BY <1>2, <1>5, <2>3
    <3> QED
      BY <1>2, <1>4, <1>5, <1>6, <2>3, <3>1
  <2>4. CASE at = 1 /\ ~(at < Len(q))
    <3>1. 1 \in 1..Len(q) /\ \A i \in 1..Len(q) : i = 1
      BY <1>2, <1>5, <2>4
    <3> QED
      BY <1>2, <1>5, <2>4, <3>1
  <2>5. CASE at = 0
    <3>1. at + 1 \in 1..Len(q) /\ ~(at > 1) /\ at < Len(q)
      BY <1>2, <2>1, <2>5
    <3> QED
      BY <1>2, <1>5, <2>5, <3>1
  <2> QED
    BY <1>2, <1>5, <2>2, <2>3, <2>4, <2>5
<1> HIDE DEF I, at, next, rest
<1>7. /\ d.current \in Server \cup {0}
      /\ \A w \in TabViews(d, s) : w \in Live(d) /\ d.view[w].type = "tab" /\ d.view[w].server = s
      /\ \A w \in TabViews(d, s) : w \in View /\ w # 0
  BY DEF Desk, TabViews, Live, View
<1>8. CASE IsActiveTab(d, v) /\ q # <<>> /\ next # v
  <2>1. next \in TabViews(d, s) \ {v}
    BY <1>6, <1>8
  <2>2. ~IsActiveTab(d, next) /\ d.current = s
    BY <1>8 DEF IsActiveTab
  <2>3. e = SetActiveTab(d, next)
    BY <1>7, <1>8, <2>1, <2>2 DEF SwitchToTab
  <2>4. LeaveTab(d, v, s) =
          [d EXCEPT !.active[s] = next, !.visible = IF next \in d.errored THEN 0 ELSE next,
                    !.tabs[s] = rest]
    BY <1>1, <1>7, <2>1, <2>3 DEF SetActiveTab, Desk, rest
  <2> HIDE DEF e, q
  <2>5. Leaves(d, LeaveTab(d, v, s), v, s, next)
    <3>1. next \in View \cup {0} /\ next # 0 /\ rest = Among(d.tabs[s], View \ {v})
      BY <1>7, <2>1 DEF q, rest
    <3> QED
      BY <1>3, <2>4, <3>1, LeftDesk
  <2> QED
    BY <1>7, <1>8, <2>1, <2>5
<1>9. CASE ~(IsActiveTab(d, v) /\ q # <<>> /\ next # v)
  <2>1. e = d
    <3>1. CASE IsActiveTab(d, v) /\ next = v
      BY <3>1 DEF SwitchToTab
    <3> QED
      BY <1>9, <3>1
  <2>2. LeaveTab(d, v, s) = [d EXCEPT !.tabs[s] = rest]
    BY <1>1, <2>1 DEF Desk, rest
  <2>3. Leaves(d, LeaveTab(d, v, s), v, s, 0)
    <3>1. 0 \in View \cup {0} /\ rest = Among(d.tabs[s], View \ {v})
      BY DEF rest
    <3> HIDE DEF e, q
    <3> QED
      BY <1>3, <2>2, <3>1, LeftDesk
  <2>4. IsActiveTab(d, v) => TabViews(d, s) \ {v} = {}
    <3> SUFFICES ASSUME IsActiveTab(d, v), NEW w \in TabViews(d, s) \ {v} PROVE FALSE
      OBVIOUS
    <3>1. w \in ToSet(q)
      BY <1>7
    <3>2. PICK i \in 1..Len(q) : w = q[i]
      BY <1>2, <3>1 DEF ToSet
    <3> QED
      BY <1>2, <1>6, <1>9, <3>2
  <2> QED
    BY <2>3, <2>4
<1> QED
  BY <1>8, <1>9

---------------------------------------------------------------------------
(* Removing a view *)

\* r is d without v, a view of s; n is the tab that was switched to, or 0.
Removed(d, r, v, s, n) ==
    LET others == TabViews(d, s) \ {v}
    IN  /\ r \in Desk
        /\ r.servers = d.servers /\ r.order = d.order /\ r.current = d.current
        /\ r.loggedIn = d.loggedIn /\ r.errored = d.errored \ {v}
        /\ r.nextServer = d.nextServer /\ r.nextView = d.nextView
        /\ r.tabs = [d.tabs EXCEPT ![s] = Among(@, View \ {v})]
        /\ \A t \in Server \ {s} : r.primary[t] = d.primary[t] /\ r.active[t] = d.active[t]
        /\ IF d.primary[s] = v /\ others # {} THEN r.primary[s] \in others
           ELSE r.primary[s] = d.primary[s]
        /\ r.view[v] = NoView
        /\ \A w \in View \ {v} :
            /\ r.view[w].type = d.view[w].type /\ r.view[w].server = d.view[w].server
            /\ r.view[w].parent = IF d.view[w].parent = v THEN r.primary[d.view[w].server]
                                  ELSE d.view[w].parent
        /\ IF IsActiveTab(d, v) /\ others # {} THEN n \in others ELSE n = 0
        /\ IF n = 0 THEN r.active[s] = d.active[s] /\ r.visible = d.visible
           ELSE r.active[s] = n /\ r.visible = IF n \in d.errored THEN 0 ELSE n

\* e is d with the primary view p of s, which is another one if it was v.
PrimaryMoved(d, e, v, s, p) ==
    LET others == TabViews(d, s) \ {v}
    IN  /\ e = [d EXCEPT !.primary[s] = p]
        /\ IF d.primary[s] = v /\ others # {} THEN p \in others ELSE p = d.primary[s]

LEMMA PrimaryIsMoved ==
  ASSUME NEW d \in Desk, NEW v \in View, NEW s \in Server, d.view[v].server = s
  PROVE  \E p \in View \cup {0} : PrimaryMoved(d, SetNewPrimaryViewIfNeeded(d, v), v, s, p)
<1> DEFINE others == TabViews(d, s) \ {v}
<1>1. others \subseteq View /\ others \subseteq Nat
  BY DEF TabViews, View
<1>2. others # {} => Min(others) \in others
  <2> HIDE DEF others
  <2> QED
    BY <1>1, LeastOfSet
<1>3. SetNewPrimaryViewIfNeeded(d, v) =
        IF d.primary[s] = v /\ others # {} THEN [d EXCEPT !.primary[s] = Min(others)] ELSE d
  BY DEF SetNewPrimaryViewIfNeeded
<1>4. d = [d EXCEPT !.primary[s] = d.primary[s]] /\ d.primary[s] \in View \cup {0}
  BY DEF Desk
<1> HIDE DEF others
<1>5. CASE d.primary[s] = v /\ others # {}
  BY <1>1, <1>2, <1>3, <1>5 DEF others, PrimaryMoved
<1>6. CASE ~(d.primary[s] = v /\ others # {})
  BY <1>3, <1>4, <1>6 DEF others, PrimaryMoved
<1> QED
  BY <1>5, <1>6

LEMMA RemoveViewRemoves ==
  ASSUME NEW d \in Desk, NEW v \in Live(d), NEW s \in Server, d.view[v].server = s,
         \A w \in View : d.view[w].parent = v => d.view[w].server \in Server,
         IsActiveTab(d, v) =>
           d.current = s /\ IsInjective(d.tabs[s]) /\ ToSet(d.tabs[s]) = TabViews(d, s)
  PROVE  \E n \in View \cup {0} : Removed(d, RemoveView(d, v), v, s, n)
<1> DEFINE others == TabViews(d, s) \ {v}
           e == SetNewPrimaryViewIfNeeded(d, v)
           view == [w \in View |->
                      CASE w = v -> NoView
                        [] w # v /\ d.view[w].parent = v ->
                             [d.view[w] EXCEPT !.parent = e.primary[d.view[w].server]]
                        [] OTHER -> d.view[w]]
           f == [e EXCEPT !.view = view, !.errored = @ \ {v}]
<1>1. v \in View /\ RemoveView(d, v) = LeaveTab(f, v, s)
  BY DEF RemoveView, Live
<1>2. PICK p \in View \cup {0} : PrimaryMoved(d, e, v, s, p)
  BY <1>1, PrimaryIsMoved
<1> HIDE DEF e
<1> DEFINE primary == [d.primary EXCEPT ![s] = p]
<1>3. e = [d EXCEPT !.primary = primary] /\ e.primary = primary /\ primary \in [Server -> View \cup {0}]
      /\ primary[s] = p
      /\ IF d.primary[s] = v /\ others # {} THEN p \in others ELSE p = d.primary[s]
  BY <1>2 DEF Desk, PrimaryMoved
<1>4. view \in [View -> ViewRecord] /\ view[v] = NoView
      /\ \A w \in View \ {v} :
            /\ view[w].type = d.view[w].type /\ view[w].server = d.view[w].server
            /\ view[w].parent = IF d.view[w].parent = v THEN primary[d.view[w].server]
                                ELSE d.view[w].parent
  <2> HIDE DEF primary
  <2>1. NoView \in ViewRecord
    BY DEF NoView, ViewRecord
  <2>2. d.view \in [View -> ViewRecord]
    BY DEF Desk
  <2>3. \A w \in View : view[w] = IF w = v THEN NoView
                                 ELSE IF d.view[w].parent = v
                                      THEN [d.view[w] EXCEPT !.parent = primary[d.view[w].server]]
                                      ELSE d.view[w]
    BY <1>3
  <2>4. \A w \in View : view[w] \in ViewRecord
    BY <1>3, <2>1, <2>2, <2>3 DEF ViewRecord
  <2>5. view \in [View -> ViewRecord]
    BY <2>4
  <2> HIDE DEF view
  <2> QED
    BY <1>1, <2>2, <2>3, <2>5 DEF ViewRecord
<1> HIDE DEF view, primary
<1>5. /\ f = [d EXCEPT !.primary = primary, !.view = view, !.errored = @ \ {v}]
  BY <1>3 DEF Desk
<1> HIDE DEF f
<1>6. /\ f \in Desk /\ f.primary = primary /\ f.view = view /\ f.errored = d.errored \ {v}
      /\ f.servers = d.servers /\ f.order = d.order /\ f.current = d.current
      /\ f.loggedIn = d.loggedIn /\ f.nextServer = d.nextServer /\ f.nextView = d.nextView
      /\ f.tabs = d.tabs /\ f.active = d.active /\ f.visible = d.visible
  BY <1>3, <1>4, <1>5 DEF Desk
<1>7. IsActiveTab(f, v) <=> IsActiveTab(d, v)
  BY <1>6 DEF IsActiveTab
<1>8. TabViews(f, s) = others
  BY <1>4, <1>6 DEF TabViews, NoView
<1>9. PICK n \in View \cup {0} :
        /\ Leaves(f, LeaveTab(f, v, s), v, s, n)
        /\ n = 0 => ~IsActiveTab(f, v) \/ TabViews(f, s) \ {v} = {}
        /\ n # 0 => IsActiveTab(f, v) /\ n \in TabViews(f, s) \ {v}
  <2>1. IsActiveTab(f, v) =>
          /\ f.current = s /\ IsInjective(f.tabs[s])
          /\ \A w \in View \ {v} : w \in ToSet(f.tabs[s]) <=> w \in TabViews(f, s)
    BY <1>6, <1>7, <1>8
  <2> QED
    BY <1>1, <1>6, <2>1, LeaveTabLeaves
<1> DEFINE r == RemoveView(d, v)
<1>10. Leaves(f, r, v, s, n)
  BY <1>1, <1>9
<1> HIDE DEF r
<1>11. 0 \notin others /\ others \ {v} = others
  BY DEF TabViews, View
<1>12. /\ r \in Desk
       /\ r.servers = d.servers /\ r.order = d.order /\ r.current = d.current
       /\ r.loggedIn = d.loggedIn /\ r.errored = d.errored \ {v}
       /\ r.nextServer = d.nextServer /\ r.nextView = d.nextView
       /\ r.tabs = [d.tabs EXCEPT ![s] = Among(@, View \ {v})]
       /\ r.view = view /\ r.primary = primary
  BY <1>6, <1>10 DEF Leaves
<1>13. \A t \in Server \ {s} : r.primary[t] = d.primary[t] /\ r.active[t] = d.active[t]
  <2>1. \A t \in Server \ {s} : primary[t] = d.primary[t]
    BY DEF primary, Desk
  <2>2. d.active \in [Server -> View \cup {0}]
    BY DEF Desk
  <2> QED
    BY <1>6, <1>10, <1>12, <2>1, <2>2 DEF Leaves
<1>14. IF IsActiveTab(d, v) /\ others # {} THEN n \in others ELSE n = 0
  BY <1>7, <1>8, <1>9, <1>11
<1>15. IF n = 0 THEN r.active[s] = d.active[s] /\ r.visible = d.visible
       ELSE r.active[s] = n /\ r.visible = IF n \in d.errored THEN 0 ELSE n
  <2>1. d.active \in [Server -> View \cup {0}]
    BY DEF Desk
  <2>2. n # 0 => (n \in d.errored \ {v} <=> n \in d.errored)
    BY <1>14
  <2> QED
    BY <1>6, <1>10, <2>1, <2>2 DEF Leaves
<1>16. Removed(d, r, v, s, n)
  BY <1>2, <1>3, <1>4, <1>12, <1>13, <1>14, <1>15 DEF Removed
<1> QED
  BY <1>16 DEF r

\* r is d with views removed and nothing else changed but their tabs and parents.
Fewer(d, r) ==
    /\ r \in Desk /\ r.servers = d.servers /\ r.current = d.current
    /\ r.nextServer = d.nextServer /\ r.nextView = d.nextView
    /\ Live(r) \subseteq Live(d)
    /\ \A w \in Live(r) : r.view[w].type = d.view[w].type /\ r.view[w].server = d.view[w].server

\* The views of x may be removed in any order; of another server one tab stays.
LEMMA RemovedSound ==
  ASSUME NEW d, NEW x \in Server \cup {0}, SoundBut(d, x), NEW v \in Live(d), NEW s \in Server,
         d.view[v].server = s, s = x \/ TabViews(d, s) \ {v} # {},
         s # x /\ d.active[s] = v => d.current = s,
         NEW r, NEW n \in View \cup {0}, Removed(d, r, v, s, n)
  PROVE  SoundBut(r, x) /\ Fewer(d, r) /\ Live(r) = Live(d) \ {v}
<1> DEFINE others == TabViews(d, s) \ {v}
<1>1. /\ d \in Desk /\ Counted(d) /\ Shown(d)
      /\ d.current \in d.servers \cup {0} /\ ToSet(d.order) \subseteq d.servers
      /\ x \notin d.servers /\ x < d.nextServer
      /\ \A t \in d.servers : ServerSound(d, t)
      /\ \A w \in Live(d) : d.view[w].server \in d.servers \cup {x}
  BY DEF SoundBut, KeptBut
<1>2. /\ r \in Desk
      /\ r.servers = d.servers /\ r.order = d.order /\ r.current = d.current
      /\ r.errored = d.errored \ {v}
      /\ r.nextServer = d.nextServer /\ r.nextView = d.nextView
      /\ r.tabs = [d.tabs EXCEPT ![s] = Among(@, View \ {v})]
      /\ \A t \in Server \ {s} : r.primary[t] = d.primary[t] /\ r.active[t] = d.active[t]
  BY DEF Removed
<1>3. /\ r.view[v] = NoView
      /\ \A w \in View \ {v} :
           /\ r.view[w].type = d.view[w].type /\ r.view[w].server = d.view[w].server
           /\ r.view[w].parent = IF d.view[w].parent = v THEN r.primary[d.view[w].server]
                                 ELSE d.view[w].parent
  BY DEF Removed
<1>4. /\ Live(r) = Live(d) \ {v} /\ v \in View /\ v # 0
      /\ \A w \in Live(r) : w \in View \ {v} /\ w \in Live(d)
      /\ \A t \in Server : TabViews(r, t) = TabViews(d, t) \ {v}
  BY <1>3 DEF Live, TabViews, NoView, View
<1>5. s # 0 /\ s \in d.servers \cup {x} /\ s < d.nextServer
      /\ d.servers \subseteq Server /\ d.nextServer \in Int
  BY <1>1 DEF Server, Counted, Desk
<1>6. \A t \in Server \ {s} : TabViews(r, t) = TabViews(d, t) /\ r.tabs[t] = d.tabs[t]
  BY <1>1, <1>2, <1>4 DEF TabViews, Desk
<1>7. d.tabs[s] \in Seq(View) /\ r.tabs[s] = Among(d.tabs[s], View \ {v})
  BY <1>1, <1>2 DEF Desk
<1>8. Counted(r)
  <2>1. \A w \in View \ Live(r) : r.view[w].parent = 0
    BY <1>1, <1>3, <1>4 DEF Counted, NoView
  <2>2. \A t \in Server : t >= d.nextServer => t # s
    BY <1>5 DEF Server
  <2> QED
    BY <1>1, <1>2, <1>3, <1>4, <1>6, <2>1, <2>2 DEF Counted
<1>9. \A t \in d.servers :
        /\ t \in Server /\ t # 0
        /\ d.active[t] # 0 => d.active[t] \in TabViews(d, t)
        /\ TabViews(d, t) # {} => d.active[t] \in TabViews(d, t) /\ d.primary[t] \in TabViews(d, t)
        /\ 0 \notin TabViews(d, t)
  BY <1>1, <1>5 DEF ServerSound, TabViews, View, Server
<1>10. /\ IF IsActiveTab(d, v) /\ others # {} THEN n \in others ELSE n = 0
       /\ IF n = 0 THEN r.active[s] = d.active[s] /\ r.visible = d.visible
          ELSE r.active[s] = n /\ r.visible = IF n \in d.errored THEN 0 ELSE n
       /\ IF d.primary[s] = v /\ others # {} THEN r.primary[s] \in others
          ELSE r.primary[s] = d.primary[s]
  BY DEF Removed
<1>11. IsActiveTab(d, v) => d.current = s
  <2> SUFFICES ASSUME IsActiveTab(d, v) PROVE d.current = s
    OBVIOUS
  <2>1. v \in TabViews(d, d.current)
    BY <1>1, <1>4, <1>9 DEF IsActiveTab
  <2> QED
    BY <2>1 DEF TabViews
<1>12. Shown(r)
  <2> SUFFICES ASSUME d.current # 0, TabViews(r, d.current) # {}
               PROVE  r.visible = IF r.active[d.current] \in r.errored THEN 0
                                  ELSE r.active[d.current]
    BY <1>2 DEF Shown
  <2>1. /\ d.current \in d.servers /\ TabViews(d, d.current) # {}
        /\ d.visible = IF d.active[d.current] \in d.errored THEN 0 ELSE d.active[d.current]
    BY <1>1, <1>4, <1>9 DEF Shown
  <2>2. CASE IsActiveTab(d, v)
    BY <1>2, <1>4, <1>10, <1>11, <2>1, <2>2 DEF TabViews, View
  <2>3. CASE ~IsActiveTab(d, v)
    <3>1. n = 0 /\ d.active[d.current] # v
      BY <1>10, <2>1, <2>3 DEF IsActiveTab
    <3>2. r.active[d.current] = d.active[d.current] /\ r.visible = d.visible
      BY <1>2, <1>9, <1>10, <2>1, <3>1
    <3> QED
      BY <1>2, <2>1, <3>1, <3>2
  <2> QED
    BY <2>2, <2>3
<1>13. ASSUME NEW t \in d.servers, t # s PROVE ServerSound(r, t)
  <2>1. ServerSound(d, t) /\ t \in Server /\ TabViews(r, t) = TabViews(d, t)
        /\ r.tabs[t] = d.tabs[t] /\ r.primary[t] = d.primary[t] /\ r.active[t] = d.active[t]
    BY <1>1, <1>2, <1>6, <1>9, <1>13
  <2>2. ASSUME NEW w \in Live(r), r.view[w].server = t
        PROVE  /\ w \in Live(d) /\ d.view[w].server = t
               /\ r.view[w].parent = d.view[w].parent
               /\ d.view[w].parent # 0 =>
                    d.view[w].parent \in Live(r) /\ r.view[d.view[w].parent].server = t
    <3>1. w \in Live(d) /\ w \in View \ {v} /\ d.view[w].server = t
      BY <1>3, <1>4, <2>2
    <3>2. d.view[w].parent # 0 =>
            d.view[w].parent \in Live(d) /\ d.view[d.view[w].parent].server = t
      BY <2>1, <3>1 DEF ServerSound
    <3>3. d.view[w].parent # v
      BY <1>4, <1>13, <3>2
    <3>4. r.view[w].parent = d.view[w].parent
      BY <1>3, <3>1, <3>3
    <3>5. d.view[w].parent # 0 =>
            d.view[w].parent \in Live(r) /\ r.view[d.view[w].parent].server = t
      BY <1>3, <1>4, <3>2, <3>3
    <3> QED
      BY <3>1, <3>4, <3>5
  <2>3. \A w \in Live(r) : w \in Live(d) /\ r.view[w].server = d.view[w].server
    BY <1>3, <1>4
  <2> QED
    BY <2>1, <2>2, <2>3 DEF ServerSound
<1>14. ASSUME s \in d.servers PROVE ServerSound(r, s)
  <2>1. ServerSound(d, s) /\ s # x /\ others # {} /\ TabViews(r, s) = others
    BY <1>1, <1>4, <1>14
  <2>2. IsInjective(r.tabs[s]) /\ ToSet(r.tabs[s]) = others
    <3>1. TabViews(d, s) \cap (View \ {v}) = others
      BY DEF TabViews
    <3> QED
      BY <1>7, <2>1, <3>1, AmongKeeps DEF ServerSound
  <2>3. d.primary[s] \in TabViews(d, s) /\ d.active[s] \in TabViews(d, s)
    BY <1>9, <1>14, <2>1
  <2>4. r.primary[s] \in others
    BY <1>10, <2>1, <2>3
  <2>5. r.active[s] \in others
    <3>1. IsActiveTab(d, v) => n \in others /\ n # 0
      BY <1>9, <1>10, <1>14, <2>1
    <3>2. ~IsActiveTab(d, v) => n = 0 /\ d.active[s] # v
      BY <1>5, <1>10, <2>1 DEF IsActiveTab
    <3> QED
      BY <1>10, <2>3, <3>1, <3>2
  <2>6. others \subseteq Live(r) /\ \A w \in others : r.view[w].server = s
    BY <1>3, <1>4 DEF TabViews, Live
  <2>7. ASSUME NEW w \in Live(r), r.view[w].server = s, r.view[w].parent # 0
        PROVE  r.view[w].parent \in Live(r) /\ r.view[r.view[w].parent].server = s
    <3>1. w \in Live(d) /\ w \in View \ {v} /\ d.view[w].server = s
      BY <1>3, <1>4, <2>7
    <3>2. CASE d.view[w].parent = v
      BY <1>3, <2>4, <2>6, <3>1, <3>2
    <3>3. CASE d.view[w].parent # v
      <4>1. r.view[w].parent = d.view[w].parent
        BY <1>3, <3>1, <3>3
      <4>2. d.view[w].parent \in Live(d) /\ d.view[d.view[w].parent].server = s
        BY <2>1, <2>7, <3>1, <4>1 DEF ServerSound
      <4> QED
        BY <1>3, <1>4, <3>3, <4>1, <4>2
    <3> QED
      BY <3>2, <3>3
  <2> QED
    BY <2>1, <2>2, <2>4, <2>5, <2>7 DEF ServerSound
<1>15. \A w \in Live(r) : r.view[w].server \in d.servers \cup {x}
                        /\ r.view[w].type = d.view[w].type /\ r.view[w].server = d.view[w].server
  BY <1>1, <1>3, <1>4
<1>16. \A t \in d.servers : ServerSound(r, t)
  BY <1>13, <1>14
<1>17. SoundBut(r, x)
  BY <1>1, <1>2, <1>8, <1>12, <1>15, <1>16 DEF SoundBut, KeptBut
<1> QED
  BY <1>2, <1>4, <1>15, <1>17 DEF Fewer

\* The server of v goes, too, or it has another tab, which is active or will be.
MayGo(d, x, v, s) ==
    s = x \/ (TabViews(d, s) \ {v} # {} /\ (d.active[s] = v => d.current = s))

LEMMA RemoveViewSound ==
  ASSUME NEW d, NEW x \in Server \cup {0}, SoundBut(d, x), NEW v \in Live(d), NEW s,
         d.view[v].server = s, MayGo(d, x, v, s), NEW r, r = RemoveView(d, v)
  PROVE  /\ SoundBut(r, x) /\ Fewer(d, r) /\ Live(r) = Live(d) \ {v}
         /\ \A t \in Server : /\ r.primary[t] = d.primary[t] \/ d.primary[t] = v
                              /\ r.active[t] = d.active[t] \/ d.active[t] = v
<1>1. /\ d \in Desk /\ Counted(d)
      /\ d.current \in d.servers \cup {0} /\ d.servers \subseteq Server
      /\ \A t \in d.servers : ServerSound(d, t)
  BY DEF SoundBut, KeptBut, Desk
<1>2. /\ v \in View /\ v # 0 /\ s \in Server
      /\ \A w \in View : d.view[w].parent = v => d.view[w].server \in Server
  <2>1. /\ \A w \in View : d.view[w].server \in Server \cup {0}
        /\ \A w \in Live(d) : w \in View /\ d.view[w].server # 0
        /\ \A w \in View \ Live(d) : d.view[w].parent = 0
        /\ 0 \notin View
    <3>1. \A w \in View : d.view[w] \in ViewRecord
      BY <1>1 DEF Desk
    <3>2. \A w \in View : d.view[w].server \in Server \cup {0}
      BY <3>1 DEF ViewRecord
    <3>3. 0 \notin View /\ \A w \in Live(d) : w \in View
      BY DEF View, Live
    <3> QED
      BY <1>1, <3>2, <3>3 DEF Counted
  <2> QED
    BY <2>1
<1>3. IsActiveTab(d, v) =>
        d.current = s /\ IsInjective(d.tabs[s]) /\ ToSet(d.tabs[s]) = TabViews(d, s)
  <2> SUFFICES ASSUME IsActiveTab(d, v)
               PROVE  d.current = s /\ IsInjective(d.tabs[s]) /\ ToSet(d.tabs[s]) = TabViews(d, s)
    OBVIOUS
  <2>1. d.current \in d.servers /\ d.active[d.current] = v /\ ServerSound(d, d.current)
    BY <1>1 DEF IsActiveTab
  <2>2. v \in TabViews(d, d.current)
    BY <1>2, <2>1 DEF ServerSound
  <2> QED
    BY <2>1, <2>2 DEF ServerSound, TabViews
<1>4. PICK n \in View \cup {0} : Removed(d, r, v, s, n)
  BY <1>1, <1>2, <1>3, RemoveViewRemoves
<1>5. SoundBut(r, x) /\ Fewer(d, r) /\ Live(r) = Live(d) \ {v}
  <2>1. SoundBut(d, x) /\ v \in Live(d) /\ s \in Server /\ d.view[v].server = s
    BY <1>2
  <2>2. s = x \/ TabViews(d, s) \ {v} # {}
    BY DEF MayGo
  <2>3. s # x /\ d.active[s] = v => d.current = s
    BY DEF MayGo
  <2>4. \A e : \A m \in View \cup {0} :
          Removed(d, e, v, s, m) => SoundBut(e, x) /\ Fewer(d, e) /\ Live(e) = Live(d) \ {v}
    BY <2>1, <2>2, <2>3, RemovedSound, Zenon
  <2> QED
    BY <1>4, <2>4, Zenon
<1>6. /\ \A t \in Server \ {s} : r.primary[t] = d.primary[t] /\ r.active[t] = d.active[t]
      /\ r.primary[s] = d.primary[s] \/ d.primary[s] = v
      /\ r.active[s] = d.active[s] \/ IsActiveTab(d, v)
      /\ r.nextServer = d.nextServer /\ r.nextView = d.nextView
  BY <1>4 DEF Removed
<1>7. IsActiveTab(d, v) => d.active[s] = v
  BY <1>3 DEF IsActiveTab
<1> QED
  BY <1>5, <1>6, <1>7

---------------------------------------------------------------------------
(* Displaying another view *)

\* r is d with other views displayed.
Displays(d, r) ==
    /\ r \in Desk /\ r.servers = d.servers /\ r.order = d.order
    /\ r.view = d.view /\ r.primary = d.primary /\ r.tabs = d.tabs
    /\ r.nextServer = d.nextServer /\ r.nextView = d.nextView
    /\ r.current \in d.servers \cup {0} /\ Shown(r)
    /\ \A s \in Server : \/ r.active[s] = d.active[s]
                         \/ s \in d.servers /\ r.active[s] \in TabViews(d, s)

LEMMA DisplaySound ==
  ASSUME NEW d, NEW x, KeptBut(d, x), NEW r, Displays(d, r)
  PROVE  SoundBut(r, x)
<1>1. /\ d \in Desk /\ Counted(d) /\ ToSet(d.order) \subseteq d.servers
      /\ x \notin d.servers /\ x < d.nextServer
      /\ \A t \in d.servers : ServerSound(d, t) /\ t \in Server /\ t < d.nextServer
      /\ \A v \in Live(d) : d.view[v].server \in d.servers \cup {x}
  BY DEF KeptBut, Desk, Counted
<1>2. /\ r \in Desk /\ r.servers = d.servers /\ r.order = d.order /\ r.view = d.view
      /\ r.primary = d.primary /\ r.tabs = d.tabs
      /\ r.nextServer = d.nextServer /\ r.nextView = d.nextView
      /\ r.current \in r.servers \cup {0} /\ Shown(r)
      /\ \A t \in Server : \/ r.active[t] = d.active[t]
                           \/ t \in d.servers /\ r.active[t] \in TabViews(d, t)
  BY DEF Displays
<1>3. Live(r) = Live(d) /\ \A t : TabViews(r, t) = TabViews(d, t)
  BY <1>2 DEF Live, TabViews
<1>4. Counted(r)
  <2>1. \A t \in Server : t >= d.nextServer => r.active[t] = d.active[t]
    BY <1>1, <1>2 DEF Desk, Server
  <2> QED
    BY <1>1, <1>2, <1>3, <2>1 DEF Counted
<1>5. \A t \in d.servers : ServerSound(r, t)
  <2> SUFFICES ASSUME NEW t \in d.servers PROVE ServerSound(r, t)
    OBVIOUS
  <2>1. /\ ServerSound(d, t) /\ t \in Server
        /\ TabViews(d, t) = {} => r.active[t] = d.active[t]
        /\ r.active[t] = d.active[t] \/ r.active[t] \in TabViews(d, t)
    BY <1>1, <1>2
  <2> QED
    BY <1>2, <1>3, <2>1 DEF ServerSound
<1>6. KeptBut(r, x)
  BY <1>1, <1>2, <1>3, <1>4, <1>5 DEF KeptBut
<1> QED
  BY <1>2, <1>6 DEF SoundBut

LEMMA UpdateCurrentSound ==
  ASSUME NEW d, NEW x, KeptBut(d, x), d.current \in d.servers => Shown(d),
         NEW s \in d.servers \cup {0}
  PROVE  /\ SoundBut(UpdateCurrentServer(d, s), x)
         /\ UpdateCurrentServer(d, s).current = s
         /\ UpdateCurrentServer(d, s).view = d.view
         /\ UpdateCurrentServer(d, s).primary = d.primary
         /\ UpdateCurrentServer(d, s).active = d.active
         /\ UpdateCurrentServer(d, s).servers = d.servers
         /\ UpdateCurrentServer(d, s).nextServer = d.nextServer
         /\ UpdateCurrentServer(d, s).nextView = d.nextView
<1> DEFINE r == UpdateCurrentServer(d, s)
           a == d.active[s]
           visible == IF d.current # s /\ s # 0 /\ a \in Live(d)
                      THEN IF a \in d.errored THEN 0 ELSE a ELSE d.visible
<1>1. /\ d \in Desk /\ d.servers \subseteq Server
      /\ \A t \in d.servers : ServerSound(d, t)
      /\ 0 \notin View /\ 0 \notin Server /\ \A t \in Server : t # 0
  BY DEF KeptBut, Desk, View, Server
<1>2. /\ s # 0 /\ TabViews(d, s) # {} => a \in TabViews(d, s) /\ a \in Live(d)
      /\ s # 0 /\ a \in Live(d) => d.view[a].server = s
  BY <1>1 DEF ServerSound, TabViews, Live
<1>3. r = [d EXCEPT !.current = s, !.errored = d.errored, !.loggedIn = d.loggedIn,
                    !.visible = visible, !.active = d.active]
  <2>1. CASE d.current # s /\ s # 0 /\ a \in Live(d)
    <3>1. r = SetActiveTab([d EXCEPT !.current = s], a) /\ s \in Server
      BY <1>1, <2>1 DEF UpdateCurrentServer
    <3>2. d.active = [d.active EXCEPT ![s] = a]
      BY <1>1, <3>1 DEF Desk
    <3>3. r = [d EXCEPT !.current = s, !.active[s] = a, !.visible = IF a \in d.errored THEN 0 ELSE a]
      BY <1>1, <1>2, <2>1, <3>1 DEF SetActiveTab, Desk
    <3> QED
      BY <1>1, <2>1, <3>2, <3>3 DEF Desk
  <2>2. CASE ~(d.current # s /\ s # 0 /\ a \in Live(d))
    BY <1>1, <2>2 DEF UpdateCurrentServer, Desk
  <2> QED
    BY <2>1, <2>2
<1>4. s # 0 /\ TabViews(d, s) # {} => visible = IF a \in d.errored THEN 0 ELSE a
  BY <1>2 DEF Shown
<1>5. visible \in View \cup {0}
  BY <1>1 DEF Desk, Live
<1> HIDE DEF visible, r
<1>6. /\ r \in Desk /\ r.servers = d.servers /\ r.order = d.order
      /\ r.view = d.view /\ r.primary = d.primary /\ r.tabs = d.tabs
      /\ r.nextServer = d.nextServer /\ r.nextView = d.nextView
      /\ r.current = s /\ r.active = d.active /\ r.visible = visible /\ r.errored = d.errored
  BY <1>1, <1>3, <1>5 DEF Desk
<1>7. TabViews(r, s) = TabViews(d, s)
  BY <1>6 DEF TabViews
<1>8. Displays(d, r)
  BY <1>4, <1>6, <1>7 DEF Displays, Shown
<1>9. SoundBut(r, x)
  BY <1>8, DisplaySound
<1> QED
  BY <1>6, <1>9 DEF r

LEMMA SwitchSound ==
  ASSUME NEW d, Sound(d), NEW v
  PROVE  LET r == SwitchToTab(d, v)
         IN  /\ Sound(r) /\ r.view = d.view /\ r.primary = d.primary
             /\ v \in Live(d) /\ d.view[v].type = "tab" => r.active[d.view[v].server] = v
<1> DEFINE r == SwitchToTab(d, v)
           s == d.view[v].server
<1>1. /\ d \in Desk /\ d.servers \subseteq Server /\ d.current \in d.servers \cup {0} /\ Shown(d)
      /\ KeptBut(d, 0)
      /\ \A t \in d.servers : ServerSound(d, t)
      /\ \A w \in Live(d) : d.view[w].server \in d.servers
      /\ 0 \notin View /\ 0 \notin Server /\ \A t \in Server : t # 0
  BY DEF Sound, SoundBut, KeptBut, Counted, Desk, View, Server
<1>2. CASE IsActiveTab(d, v) \/ v \notin Live(d) \/ d.view[v].type # "tab"
  <2>1. r = d
    BY <1>2 DEF SwitchToTab
  <2>2. IsActiveTab(d, v) /\ v \in Live(d) => d.active[s] = v
    BY <1>1 DEF IsActiveTab, ServerSound, TabViews, Live
  <2> QED
    BY <1>2, <2>1, <2>2
<1>3. CASE ~(IsActiveTab(d, v) \/ v \notin Live(d) \/ d.view[v].type # "tab")
  <2>1. v \in View /\ v \in Live(d) /\ v \in TabViews(d, s) /\ s \in d.servers /\ s \in Server
    BY <1>1, <1>3 DEF Live, TabViews
  <2> DEFINE active == [d.active EXCEPT ![s] = v]
  <2>2. /\ active \in [Server -> View \cup {0}] /\ active[s] = v
        /\ \A t \in Server : t # s => active[t] = d.active[t]
        /\ d.errored \in SUBSET View /\ d.loggedIn \in SUBSET Server /\ d.visible \in View \cup {0}
    BY <1>1, <2>1 DEF Desk
  <2>3. \A t \in Server : \/ active[t] = d.active[t]
                          \/ t \in d.servers /\ active[t] \in TabViews(d, t)
    BY <2>1, <2>2
  <2>4. CASE s = d.current
    <3> DEFINE visible == IF v \in d.errored THEN 0 ELSE v
    <3>1. r = SetActiveTab(d, v)
      BY <1>3, <2>4 DEF SwitchToTab
    <3>2. r = [d EXCEPT !.current = d.current, !.errored = d.errored, !.loggedIn = d.loggedIn,
                        !.visible = visible, !.active = active]
      BY <1>1, <3>1 DEF SetActiveTab, Desk
    <3>3. /\ visible \in View \cup {0}
          /\ visible = IF active[d.current] \in d.errored THEN 0 ELSE active[d.current]
      BY <2>1, <2>2, <2>4
    <3> HIDE DEF r, active, visible
    <3>4. /\ r \in Desk /\ r.servers = d.servers /\ r.order = d.order
          /\ r.view = d.view /\ r.primary = d.primary /\ r.tabs = d.tabs
          /\ r.nextServer = d.nextServer /\ r.nextView = d.nextView
          /\ r.current = d.current /\ r.active = active /\ r.visible = visible
          /\ r.errored = d.errored
      BY <1>1, <2>2, <3>2, <3>3 DEF Desk
    <3>5. Displays(d, r)
      BY <1>1, <2>3, <3>3, <3>4 DEF Displays, Shown
    <3>6. Sound(r)
      BY <1>1, <3>5, DisplaySound DEF Sound
    <3> QED
      BY <2>2, <3>4, <3>6 DEF r
  <2>5. CASE s # d.current
    <3> DEFINE e == [d EXCEPT !.active[s] = v]
    <3>1. r = UpdateCurrentServer(e, s)
      BY <1>3, <2>5 DEF SwitchToTab
    <3>2. e = [d EXCEPT !.current = d.current, !.errored = d.errored, !.loggedIn = d.loggedIn,
                        !.visible = d.visible, !.active = active]
      BY <1>1 DEF Desk
    <3>3. d.current # 0 /\ TabViews(d, d.current) # {} =>
            d.visible = IF active[d.current] \in d.errored THEN 0 ELSE active[d.current]
      BY <1>1, <2>2, <2>5 DEF Shown
    <3> HIDE DEF e, active, r
    <3>4. /\ e \in Desk /\ e.servers = d.servers /\ e.order = d.order
          /\ e.view = d.view /\ e.primary = d.primary /\ e.tabs = d.tabs
          /\ e.nextServer = d.nextServer /\ e.nextView = d.nextView
          /\ e.current = d.current /\ e.active = active /\ e.visible = d.visible
          /\ e.errored = d.errored
      BY <1>1, <2>2, <3>2 DEF Desk
    <3>5. TabViews(e, d.current) = TabViews(d, d.current)
      BY <3>4 DEF TabViews
    <3>6. Displays(d, e)
      BY <1>1, <2>3, <3>3, <3>4, <3>5 DEF Displays, Shown
    <3>7. KeptBut(e, 0) /\ Shown(e)
      BY <1>1, <3>6, DisplaySound DEF SoundBut
    <3>8. SoundBut(r, 0) /\ r.view = e.view /\ r.primary = e.primary /\ r.active = e.active
      BY <2>1, <3>1, <3>4, <3>7, UpdateCurrentSound
    <3> QED
      BY <2>2, <3>4, <3>8 DEF Sound, r
  <2> QED
    BY <2>4, <2>5
<1> QED
  BY <1>2, <1>3

---------------------------------------------------------------------------
(* A view that is made, or a window that becomes a tab *)

\* r is d with v, which is a new view of s, or was a window of s.
Gained(d, r, v, s, type) ==
    LET first == type = "tab" /\ d.tabs[s] = <<>>
    IN  /\ r \in Desk
        /\ r.servers = d.servers /\ r.order = d.order /\ r.current = d.current
        /\ r.errored = d.errored /\ r.nextServer = d.nextServer
        /\ r.nextView >= d.nextView /\ r.nextView > v
        /\ r.view[v].type = type /\ r.view[v].server = s
        /\ r.view[v].parent # 0 => r.view[v].parent \in Live(d)
                                /\ d.view[r.view[v].parent].server = s
        /\ \A w \in View \ {v} : r.view[w] = d.view[w]
        /\ \A t \in Server \ {s} : /\ r.tabs[t] = d.tabs[t]
                                   /\ r.primary[t] = d.primary[t] /\ r.active[t] = d.active[t]
        /\ r.tabs[s] = IF type = "tab" THEN Append(d.tabs[s], v) ELSE d.tabs[s]
        /\ r.primary[s] = IF type = "tab" /\ d.primary[s] = 0 THEN v ELSE d.primary[s]
        /\ r.active[s] = IF first THEN v ELSE d.active[s]
        /\ r.visible = IF first /\ s = d.current THEN IF v \in d.errored THEN 0 ELSE v
                       ELSE d.visible

LEMMA GainedSound ==
  ASSUME NEW d, Sound(d), NEW s \in d.servers, NEW v \in View,
         v \in Live(d) => d.view[v].type = "window" /\ d.view[v].server = s,
         NEW type \in {"tab", "window"}, type = "window" => TabViews(d, s) # {},
         NEW r, Gained(d, r, v, s, type)
  PROVE  Sound(r)
<1>1. /\ d \in Desk /\ Counted(d) /\ Shown(d)
      /\ d.current \in d.servers \cup {0} /\ ToSet(d.order) \subseteq d.servers
      /\ 0 \notin d.servers /\ 0 < d.nextServer
      /\ \A t \in d.servers : ServerSound(d, t) /\ t \in Server /\ t < d.nextServer
      /\ \A w \in Live(d) : d.view[w].server \in d.servers
      /\ 0 \notin View /\ 0 \notin Server
  BY DEF Sound, SoundBut, KeptBut, Counted, Desk, View, Server
<1>2. /\ r \in Desk
      /\ r.servers = d.servers /\ r.order = d.order /\ r.current = d.current
      /\ r.errored = d.errored /\ r.nextServer = d.nextServer
      /\ r.nextView >= d.nextView /\ r.nextView > v
      /\ \A t \in Server \ {s} : /\ r.tabs[t] = d.tabs[t]
                                 /\ r.primary[t] = d.primary[t] /\ r.active[t] = d.active[t]
  BY DEF Gained
<1>3. /\ r.view[v].type = type /\ r.view[v].server = s
      /\ r.view[v].parent # 0 => r.view[v].parent \in Live(d)
                              /\ d.view[r.view[v].parent].server = s
      /\ \A w \in View \ {v} : r.view[w] = d.view[w]
  BY DEF Gained
<1>4. /\ r.tabs[s] = IF type = "tab" THEN Append(d.tabs[s], v) ELSE d.tabs[s]
      /\ r.primary[s] = IF type = "tab" /\ d.primary[s] = 0 THEN v ELSE d.primary[s]
      /\ r.active[s] = IF type = "tab" /\ d.tabs[s] = <<>> THEN v ELSE d.active[s]
      /\ r.visible = IF type = "tab" /\ d.tabs[s] = <<>> /\ s = d.current
                     THEN IF v \in d.errored THEN 0 ELSE v ELSE d.visible
  BY DEF Gained
<1>5. /\ Live(r) = Live(d) \cup {v} /\ v \notin TabViews(d, s)
      /\ \A t \in d.servers :
           TabViews(r, t) = IF t = s /\ type = "tab" THEN TabViews(d, s) \cup {v} ELSE TabViews(d, t)
  <2>1. type # "none"
    OBVIOUS
  <2>2. \A w \in View : d.view[w].type = "tab" => w \in Live(d)
    BY DEF Live
  <2>3. v \notin TabViews(d, s)
    BY <2>2 DEF TabViews
  <2>4. Live(r) = Live(d) \cup {v}
    BY <1>3, <2>1 DEF Live
  <2>5. ASSUME NEW t \in d.servers
        PROVE  TabViews(r, t) = IF t = s /\ type = "tab" THEN TabViews(d, s) \cup {v}
                                ELSE TabViews(d, t)
    <3>1. v \notin TabViews(d, t)
      BY <2>2 DEF TabViews
    <3> QED
      BY <1>3, <3>1 DEF TabViews
  <2> QED
    BY <2>3, <2>4, <2>5
<1>6. /\ d.tabs[s] \in Seq(View) /\ IsInjective(d.tabs[s]) /\ ToSet(d.tabs[s]) = TabViews(d, s)
      /\ s \in Server /\ (d.tabs[s] = <<>> <=> TabViews(d, s) = {})
  <2>1. d.tabs[s] \in Seq(View) /\ ServerSound(d, s) /\ s \in Server
    BY <1>1 DEF Desk
  <2>2. d.tabs[s] = <<>> => ToSet(d.tabs[s]) = {}
    BY DEF ToSet
  <2>3. d.tabs[s] # <<>> => d.tabs[s][1] \in ToSet(d.tabs[s])
    BY <2>1 DEF ToSet
  <2> QED
    BY <2>1, <2>2, <2>3 DEF ServerSound
<1>7. Counted(r)
  <2>1. \A t \in Server : t >= d.nextServer => t # s
    BY <1>1 DEF Desk, Server
  <2>2. \A w \in Live(r) : w < r.nextView /\ r.view[w].server # 0
    <3> SUFFICES ASSUME NEW w \in Live(r) PROVE w < r.nextView /\ r.view[w].server # 0
      OBVIOUS
    <3>1. CASE w = v
      BY <1>1, <1>2, <1>3, <3>1 DEF Desk, View
    <3>2. CASE w # v
      <4>1. w \in Live(d) /\ w \in View \ {v} /\ w < d.nextView /\ d.view[w].server # 0
        BY <1>1, <1>5, <3>2 DEF Counted, Live
      <4> QED
        BY <1>1, <1>2, <1>3, <4>1 DEF Desk, View
    <3> QED
      BY <3>1, <3>2
  <2>3. \A w \in View \ Live(r) : r.view[w].parent = 0
    BY <1>1, <1>3, <1>5 DEF Counted
  <2> QED
    BY <1>1, <1>2, <2>1, <2>2, <2>3 DEF Counted
<1>8. Shown(r)
  <2> SUFFICES ASSUME d.current # 0, TabViews(r, d.current) # {}
               PROVE  r.visible = IF r.active[d.current] \in d.errored THEN 0
                                  ELSE r.active[d.current]
    BY <1>2 DEF Shown
  <2>1. d.current \in d.servers /\ d.current \in Server
    BY <1>1
  <2>2. CASE d.current # s \/ type # "tab"
    <3>1. TabViews(d, d.current) # {} /\ r.visible = d.visible /\ r.active[d.current] = d.active[d.current]
      BY <1>2, <1>4, <1>5, <2>1, <2>2
    <3> QED
      BY <1>1, <3>1 DEF Shown
  <2>3. CASE d.current = s /\ type = "tab" /\ d.tabs[s] = <<>>
    BY <1>4, <2>3
  <2>4. CASE d.current = s /\ type = "tab" /\ d.tabs[s] # <<>>
    <3>1. TabViews(d, s) # {} /\ r.visible = d.visible /\ r.active[s] = d.active[s]
      BY <1>4, <1>6, <2>4
    <3> QED
      BY <1>1, <2>4, <3>1 DEF Shown
  <2> QED
    BY <2>2, <2>3, <2>4
<1>9. ASSUME NEW t \in d.servers PROVE ServerSound(r, t)
  <2>1. ServerSound(d, t) /\ t \in Server
    BY <1>1
  <2>2. ASSUME NEW w \in Live(r), r.view[w].server = t, r.view[w].parent # 0
        PROVE  r.view[w].parent \in Live(r) /\ r.view[r.view[w].parent].server = t
    <3>1. \A u \in Live(d) : u \in Live(r) /\ r.view[u].server = d.view[u].server
      BY <1>3, <1>5 DEF Live
    <3>2. CASE w = v
      BY <1>3, <2>2, <3>1, <3>2
    <3>3. CASE w # v
      <4>1. w \in Live(d) /\ r.view[w] = d.view[w]
        BY <1>3, <1>5, <3>3 DEF Live
      <4> QED
        BY <2>1, <2>2, <3>1, <4>1 DEF ServerSound
    <3> QED
      BY <3>2, <3>3
  <2>3. CASE t = s /\ type = "tab"
    <3> DEFINE q == d.tabs[s]
    <3>1. r.tabs[t] = Append(q, v) /\ TabViews(r, t) = TabViews(d, s) \cup {v}
      BY <1>4, <1>5, <2>3
    <3>2. IsInjective(r.tabs[t]) /\ ToSet(r.tabs[t]) = TabViews(r, t)
      <4>1. v \notin ToSet(q)
        BY <1>5, <1>6
      <4> HIDE DEF q
      <4>2. q \in Seq(View) /\ IsInjective(q) /\ ToSet(q) = TabViews(d, s)
        BY <1>6 DEF q
      <4>3. /\ Len(q) \in Nat /\ DOMAIN q = 1..Len(q) /\ DOMAIN Append(q, v) = 1..(Len(q) + 1)
            /\ \A k \in 1..Len(q) : Append(q, v)[k] = q[k] /\ q[k] \in ToSet(q)
            /\ Append(q, v)[Len(q) + 1] = v
        BY <4>2 DEF ToSet
      <4>4. IsInjective(Append(q, v))
        BY <4>1, <4>2, <4>3 DEF IsInjective
      <4>5. ToSet(Append(q, v)) = ToSet(q) \cup {v}
        BY <4>2, <4>3 DEF ToSet
      <4> QED
        BY <3>1, <4>2, <4>4, <4>5
    <3>3. IF TabViews(d, s) = {} THEN d.primary[s] = 0 /\ d.tabs[s] = <<>>
          ELSE d.primary[s] \in TabViews(d, s) /\ d.active[s] \in TabViews(d, s) /\ d.tabs[s] # <<>>
      BY <1>6, <2>1, <2>3 DEF ServerSound
    <3>4. r.primary[t] \in TabViews(r, t) /\ r.active[t] \in TabViews(r, t)
      BY <1>4, <2>3, <3>1, <3>3
    <3> QED
      BY <2>2, <3>2, <3>4 DEF ServerSound
  <2>4. CASE ~(t = s /\ type = "tab")
    <3>1. /\ TabViews(r, t) = TabViews(d, t) /\ r.tabs[t] = d.tabs[t]
          /\ r.primary[t] = d.primary[t] /\ r.active[t] = d.active[t]
      BY <1>2, <1>4, <1>5, <2>1, <2>4
    <3>2. t = s => TabViews(d, t) # {}
      BY <2>4
    <3>3. TabViews(d, t) = {} => \A w \in Live(r) : r.view[w].server # t
      <4> SUFFICES ASSUME TabViews(d, t) = {}, NEW w \in Live(r) PROVE r.view[w].server # t
        OBVIOUS
      <4>1. CASE w = v
        BY <1>3, <3>2, <4>1
      <4>2. CASE w # v
        BY <1>3, <1>5, <2>1, <4>2 DEF ServerSound, Live
      <4> QED
        BY <4>1, <4>2
    <3> QED
      BY <2>1, <2>2, <3>1, <3>3 DEF ServerSound
  <2> QED
    BY <2>3, <2>4
<1>10. \A w \in Live(r) : r.view[w].server \in d.servers \cup {0}
  BY <1>1, <1>3, <1>5 DEF Live
<1>11. KeptBut(r, 0)
  BY <1>1, <1>2, <1>7, <1>9, <1>10 DEF KeptBut
<1> QED
  BY <1>1, <1>2, <1>8, <1>11 DEF Sound, SoundBut

LEMMA CreateSound ==
  ASSUME NEW d, Sound(d), d.nextView \in View, NEW s \in d.servers,
         NEW type \in {"tab", "window"}, type = "window" => TabViews(d, s) # {},
         NEW path \in BOOLEAN, NEW parent \in View \cup {0},
         parent # 0 => parent \in Live(d) /\ d.view[parent].server = s
  PROVE  Sound(CreateView(d, s, type, path, parent))
<1> DEFINE v == d.nextView
           record == [server |-> s, type |-> type, parent |-> parent, path |-> path]
           view == [d.view EXCEPT ![v] = record]
           primary == IF type = "tab" THEN [d.primary EXCEPT ![s] = IF @ = 0 THEN v ELSE @] ELSE d.primary
           tabs == IF type = "tab" THEN [d.tabs EXCEPT ![s] = Append(@, v)] ELSE d.tabs
           first == type = "tab" /\ d.tabs[s] = <<>>
           active == IF first THEN [d.active EXCEPT ![s] = v] ELSE d.active
           visible == IF first /\ s = d.current THEN IF v \in d.errored THEN 0 ELSE v ELSE d.visible
           r == CreateView(d, s, type, path, parent)
<1>1. /\ d \in Desk /\ s \in Server /\ v \in View /\ v \in Int /\ Counted(d)
  BY DEF Sound, SoundBut, KeptBut, Desk, View
<1>2. /\ view \in [View -> ViewRecord] /\ view[v] = record
      /\ \A w \in View \ {v} : view[w] = d.view[w]
  <2>1. record \in ViewRecord
    BY <1>1 DEF ViewRecord
  <2> HIDE DEF record
  <2> QED
    BY <1>1, <2>1 DEF Desk
<1>3. /\ primary \in [Server -> View \cup {0}]
      /\ primary[s] = IF type = "tab" /\ d.primary[s] = 0 THEN v ELSE d.primary[s]
      /\ \A t \in Server \ {s} : primary[t] = d.primary[t]
  BY <1>1 DEF Desk
<1>4. /\ tabs \in [Server -> Seq(View)]
      /\ tabs[s] = IF type = "tab" THEN Append(d.tabs[s], v) ELSE d.tabs[s]
      /\ \A t \in Server \ {s} : tabs[t] = d.tabs[t]
  <2>1. d.tabs \in [Server -> Seq(View)] /\ Append(d.tabs[s], v) \in Seq(View)
    BY <1>1 DEF Desk
  <2> HIDE DEF v
  <2> QED
    BY <1>1, <2>1
<1>5. /\ active \in [Server -> View \cup {0}]
      /\ active[s] = IF first THEN v ELSE d.active[s]
      /\ \A t \in Server \ {s} : active[t] = d.active[t]
  BY <1>1 DEF Desk
<1>6. visible \in View \cup {0}
  BY <1>1 DEF Desk
<1>7. v + 1 \in 1..(MaxViews + 1) /\ v + 1 > v /\ v + 1 >= d.nextView
  BY <1>1, DesktopViewsAssumption DEF View
<1>8. \/ r = d
      \/ r = [d EXCEPT !.nextView = v + 1, !.view = view, !.primary = primary, !.tabs = tabs,
                       !.active = active, !.visible = visible]
  <2> DEFINE e == [d EXCEPT !.nextView = v + 1, !.view = view]
             f == [e EXCEPT !.primary = primary, !.tabs = tabs]
             full == Cardinality(Live(d)) >= Max({ViewLimit, Cardinality(d.servers)})
  <2>1. r = IF full THEN d
            ELSE IF type = "window" THEN e
            ELSE IF d.tabs[s] # <<>>
            THEN [e EXCEPT !.primary[s] = IF @ = 0 THEN v ELSE @, !.tabs[s] = Append(@, v)]
            ELSE IF s = d.current
            THEN SetActiveTab([e EXCEPT !.primary[s] = IF @ = 0 THEN v ELSE @, !.tabs[s] = Append(@, v)], v)
            ELSE [[e EXCEPT !.primary[s] = IF @ = 0 THEN v ELSE @, !.tabs[s] = Append(@, v)]
                    EXCEPT !.active[s] = v]
    BY <1>1 DEF CreateView, Desk
  <2>2. type = "tab" =>
          [e EXCEPT !.primary[s] = IF @ = 0 THEN v ELSE @, !.tabs[s] = Append(@, v)] = f
    BY <1>1 DEF Desk
  <2>3. CASE type = "window"
    BY <1>1, <2>1, <2>3 DEF Desk
  <2>4. CASE type = "tab"
    <3>1. f.view[v].server = s /\ f.errored = d.errored /\ f.active = d.active /\ f.visible = d.visible
      BY <1>1, <1>2 DEF Desk
    <3>2. r = d \/ r = IF d.tabs[s] # <<>> THEN f
                       ELSE IF s = d.current
                       THEN [f EXCEPT !.active[s] = v, !.visible = IF v \in d.errored THEN 0 ELSE v]
                       ELSE [f EXCEPT !.active[s] = v]
      BY <2>1, <2>2, <2>4, <3>1 DEF SetActiveTab
    <3> HIDE DEF r, view, primary, tabs, v
    <3> QED
      BY <1>1, <2>4, <3>2 DEF Desk
  <2> QED
    BY <2>3, <2>4
<1>9. CASE r = d
  BY <1>9
<1>10. CASE r = [d EXCEPT !.nextView = v + 1, !.view = view, !.primary = primary, !.tabs = tabs,
                          !.active = active, !.visible = visible]
  <2> HIDE DEF r, view, primary, tabs, active, visible
  <2>1. /\ r \in Desk
        /\ r.servers = d.servers /\ r.order = d.order /\ r.current = d.current
        /\ r.errored = d.errored /\ r.nextServer = d.nextServer
        /\ r.nextView = v + 1 /\ r.view = view /\ r.tabs = tabs /\ r.primary = primary
        /\ r.active = active /\ r.visible = visible
    BY <1>1, <1>2, <1>3, <1>4, <1>5, <1>6, <1>7, <1>10 DEF Desk
  <2>2. Gained(d, r, v, s, type)
    BY <1>2, <1>3, <1>4, <1>5, <1>7, <2>1 DEF Gained, visible
  <2>3. v \notin Live(d)
    BY <1>1 DEF Counted
  <2> HIDE DEF v
  <2>4. Sound(r)
    BY <1>1, <2>2, <2>3, GainedSound
  <2> QED
    BY <2>4 DEF r
<1> QED
  BY <1>8, <1>9, <1>10

LEMMA AddServerSound ==
  ASSUME NEW d, Sound(d), d.nextServer \in Server, d.nextView \in View
  PROVE  Sound(AddServer(d))
<1> DEFINE s == d.nextServer
           e == [d EXCEPT !.nextServer = s + 1, !.servers = @ \cup {s}, !.order = Append(@, s),
                          !.current = s]
<1>1. /\ d \in Desk /\ Counted(d) /\ ToSet(d.order) \subseteq d.servers
      /\ 0 \notin d.servers /\ 0 < d.nextServer /\ s \notin d.servers
      /\ \A t \in d.servers : ServerSound(d, t) /\ t \in Server /\ t # s /\ t < s /\ t \in Int
      /\ \A v \in Live(d) : d.view[v].server \in d.servers
      /\ s \in Int /\ d.nextView \in Int
  BY DEF Sound, SoundBut, KeptBut, Counted, Desk, Server, View
<1>2. /\ s + 1 \in 1..(MaxServers + 1) /\ d.servers \cup {s} \subseteq Server
      /\ Append(d.order, s) \in Seq(Server)
  BY <1>1, DesktopViewsAssumption DEF Desk, Server
<1>3. /\ e \in Desk /\ e.nextServer = s + 1 /\ e.servers = d.servers \cup {s} /\ e.current = s
      /\ e.order = Append(d.order, s)
      /\ e.view = d.view /\ e.tabs = d.tabs /\ e.primary = d.primary /\ e.active = d.active
      /\ e.errored = d.errored /\ e.nextView = d.nextView
  <2> HIDE DEF s
  <2> QED
    BY <1>1, <1>2 DEF Desk
<1> HIDE DEF e
<1>4. Live(e) = Live(d) /\ \A t : TabViews(e, t) = TabViews(d, t)
  BY <1>3 DEF Live, TabViews
<1>5. d.tabs[s] = <<>> /\ d.primary[s] = 0 /\ d.active[s] = 0 /\ TabViews(d, s) = {}
  <2>1. s >= d.nextServer
    BY <1>1
  <2>2. \A v \in View : d.view[v].type = "tab" => v \in Live(d)
    BY DEF Live
  <2> QED
    BY <1>1, <2>1, <2>2 DEF Counted, TabViews
<1>6. ToSet(e.order) \subseteq e.servers
  <2>1. /\ d.order \in Seq(Server) /\ Len(d.order) \in Nat /\ DOMAIN d.order = 1..Len(d.order)
        /\ DOMAIN Append(d.order, s) = 1..(Len(d.order) + 1)
        /\ \A k \in 1..Len(d.order) : Append(d.order, s)[k] = d.order[k]
        /\ Append(d.order, s)[Len(d.order) + 1] = s
    BY <1>1 DEF Desk
  <2> QED
    BY <1>1, <1>3, <2>1 DEF ToSet
<1>7. Counted(e)
  <2>1. \A t \in Server : t >= s + 1 => t >= s
    BY <1>1 DEF Server
  <2>2. \A t \in e.servers : t < s + 1
    BY <1>1, <1>3
  <2> QED
    BY <1>1, <1>3, <1>4, <2>1, <2>2 DEF Counted
<1>8. ASSUME NEW t \in e.servers PROVE ServerSound(e, t)
  <2>1. CASE t = s
    <3>1. IsInjective(d.tabs[s]) /\ ToSet(d.tabs[s]) = {}
      BY <1>5 DEF IsInjective, ToSet
    <3>2. \A v \in Live(d) : d.view[v].server # s
      BY <1>1
    <3> QED
      BY <1>3, <1>4, <1>5, <2>1, <3>1, <3>2 DEF ServerSound
  <2>2. CASE t # s
    BY <1>1, <1>3, <1>4, <2>2 DEF ServerSound
  <2> QED
    BY <2>1, <2>2
<1>9. Sound(e)
  <2>1. Shown(e)
    BY <1>3, <1>4, <1>5 DEF Shown
  <2>2. KeptBut(e, 0)
    BY <1>1, <1>3, <1>4, <1>6, <1>7, <1>8 DEF KeptBut, Server
  <2> QED
    BY <1>3, <2>1, <2>2 DEF Sound, SoundBut
<1>10. AddServer(d) = CreateView(e, s, "tab", FALSE, 0)
  BY DEF AddServer, e
<1>11. Sound(CreateView(e, s, "tab", FALSE, 0))
  <2> HIDE DEF s
  <2> QED
    BY <1>3, <1>9, CreateSound
<1> QED
  BY <1>10, <1>11

---------------------------------------------------------------------------
(* A server that goes, and a logout *)

LEMMA AscendingKeeps ==
  ASSUME NEW n \in Nat, NEW S, S \subseteq 1..n
  PROVE  /\ Ascending(1..n, S) \in Seq(1..n) /\ ToSet(Ascending(1..n, S)) = S
         /\ IsInjective(Ascending(1..n, S))
<1> DEFINE q == [k \in 1..n |-> k]
<1>1. q \in Seq(1..n) /\ ToSet(q) = 1..n /\ IsInjective(q)
  BY DEF ToSet, IsInjective
<1>2. Ascending(1..n, S) = Among(q, S) /\ (1..n) \cap S = S
  BY DEF Ascending
<1> HIDE DEF q
<1> QED
  BY <1>1, <1>2, AmongKeeps

LEMMA FewerStill ==
  ASSUME NEW d, NEW e, NEW f, Fewer(d, e), Fewer(e, f)
  PROVE  Fewer(d, f)
<1>1. \A w \in Live(f) : w \in Live(e)
  BY DEF Fewer
<1> QED
  BY <1>1 DEF Fewer

LEMMA RemoveServerSound ==
  ASSUME NEW d, Sound(d), NEW s \in d.servers, NEW r, r = RemoveServer(d, s)
  PROVE  Sound(r) /\ r.nextServer = d.nextServer /\ r.nextView = d.nextView
<1> DEFINE order == Among(d.order, Server \ {s})
           e == [d EXCEPT !.order = order, !.servers = @ \ {s}, !.loggedIn = @ \ {s}]
           t == IF order = <<>> THEN 0 ELSE order[1]
           f == IF d.current = s THEN UpdateCurrentServer(e, t) ELSE e
           own == {v \in Live(f) : f.view[v].server = s}
           vs == Ascending(View, own)
<1>1. /\ d \in Desk /\ Counted(d) /\ Shown(d)
      /\ d.current \in d.servers \cup {0} /\ ToSet(d.order) \subseteq d.servers
      /\ d.servers \subseteq Server /\ 0 < d.nextServer
      /\ \A u \in d.servers : ServerSound(d, u) /\ u < d.nextServer /\ u # 0
      /\ \A v \in Live(d) : d.view[v].server \in d.servers
  BY DEF Sound, SoundBut, KeptBut, Counted, Desk, Server
<1>2. order \in Seq(Server) /\ ToSet(order) \subseteq d.servers \ {s}
  <2>1. d.order \in Seq(Server)
    BY <1>1 DEF Desk
  <2> QED
    BY <1>1, <2>1, AmongKeeps
<1>3. t \in (d.servers \ {s}) \cup {0}
  <2> HIDE DEF order
  <2>1. order # <<>> => order[1] \in ToSet(order)
    BY <1>2 DEF ToSet
  <2> QED
    BY <1>2, <2>1
<1> HIDE DEF order
<1>4. /\ e \in Desk /\ e.order = order /\ e.servers = d.servers \ {s} /\ e.current = d.current
      /\ e.view = d.view /\ e.tabs = d.tabs /\ e.primary = d.primary /\ e.active = d.active
      /\ e.errored = d.errored /\ e.visible = d.visible
      /\ e.nextView = d.nextView /\ e.nextServer = d.nextServer
  BY <1>1, <1>2 DEF Desk
<1> HIDE DEF e, t
<1>5. Live(e) = Live(d) /\ \A u : TabViews(e, u) = TabViews(d, u)
  BY <1>4 DEF Live, TabViews
<1>6. KeptBut(e, s) /\ Shown(e)
  <2>1. Counted(e)
    BY <1>1, <1>4, <1>5 DEF Counted
  <2>2. \A u \in e.servers : ServerSound(e, u)
    BY <1>1, <1>4, <1>5 DEF ServerSound
  <2>3. Shown(e)
    BY <1>1, <1>4, <1>5 DEF Shown
  <2> QED
    BY <1>1, <1>2, <1>4, <1>5, <2>1, <2>2, <2>3 DEF KeptBut
<1>7. SoundBut(f, s) /\ f.nextServer = d.nextServer /\ f.nextView = d.nextView
  <2>1. CASE d.current = s
    BY <1>3, <1>4, <1>6, <2>1, UpdateCurrentSound
  <2>2. CASE d.current # s
    BY <1>1, <1>4, <1>6, <2>2 DEF SoundBut
  <2> QED
    BY <2>1, <2>2
<1>8. r = RemoveViews(f, vs)
  BY DEF RemoveServer, e, order, t
<1> HIDE DEF f
<1>9. /\ f \in Desk /\ s \in Server /\ Fewer(f, f)
      /\ \A v \in Live(f) : v \in View
  BY <1>1, <1>7 DEF SoundBut, KeptBut, Fewer, Live
<1>10. vs \in Seq(View) /\ Len(vs) \in Nat /\ DOMAIN vs = 1..Len(vs) /\ ToSet(vs) = own
  BY <1>9, AscendingKeeps, DesktopViewsAssumption DEF View
<1> HIDE DEF vs
<1>11. \A k \in 1..Len(vs) : vs[k] \in own
  BY <1>10 DEF ToSet
<1> DEFINE Gone(k) == {g \in Desk : SoundBut(g, s) /\ Fewer(f, g) /\ \A j \in 1..k : vs[j] \notin Live(g)}
           P == [k \in 0..Len(vs) |-> Gone(k)]
<1>12. f \in P[0]
  BY <1>7, <1>9, <1>10
<1>13. ASSUME NEW k \in 1..Len(vs), NEW g \in P[k - 1] PROVE RemoveView(g, vs[k]) \in P[k]
  <2>1. /\ g \in Desk /\ SoundBut(g, s) /\ Fewer(f, g)
        /\ \A j \in 1..(k - 1) : vs[j] \notin Live(g)
        /\ k \in 0..Len(vs) /\ k - 1 \in 0..Len(vs)
        /\ \A j \in 1..k : j \in 1..(k - 1) \/ j = k
    BY <1>10, <1>13
  <2> DEFINE h == RemoveView(g, vs[k])
  <2>2. CASE vs[k] \notin Live(g)
    <3>1. h = g
      BY <2>2 DEF RemoveView
    <3> HIDE DEF h
    <3>2. h \in Gone(k)
      BY <2>1, <2>2, <3>1
    <3> QED
      BY <2>1, <3>2 DEF h
  <2>3. CASE vs[k] \in Live(g)
    <3>1. g.view[vs[k]].server = s
      BY <1>11, <2>1, <2>3 DEF Fewer
    <3>2. s \in Server \cup {0} /\ MayGo(g, s, vs[k], s)
      BY <1>9 DEF MayGo
    <3>3. SoundBut(h, s) /\ Fewer(g, h) /\ Live(h) = Live(g) \ {vs[k]}
      BY <2>1, <2>3, <3>1, <3>2, RemoveViewSound
    <3> HIDE DEF h
    <3>4. Fewer(f, h)
      BY <2>1, <3>3, FewerStill
    <3>5. h \in Desk /\ \A j \in 1..k : vs[j] \notin Live(h)
      BY <2>1, <3>3 DEF Fewer
    <3>6. h \in Gone(k)
      BY <3>3, <3>4, <3>5
    <3> QED
      BY <2>1, <3>6 DEF h
  <2> QED
    BY <2>2, <2>3
<1>14. r \in P[Len(vs)]
  <2> HIDE DEF P
  <2> QED
    BY <1>8, <1>10, <1>12, <1>13, RemoveViewsInduction
<1>15. /\ SoundBut(r, s) /\ Fewer(f, r) /\ \A j \in 1..Len(vs) : vs[j] \notin Live(r)
  BY <1>10, <1>14
<1>16. ASSUME NEW v \in Live(r) PROVE r.view[v].server # s
  <2>1. v \in Live(f) /\ r.view[v].server = f.view[v].server
    BY <1>15, <1>16 DEF Fewer
  <2>2. v \notin own
    BY <1>10, <1>15, <1>16 DEF ToSet
  <2> QED
    BY <2>1, <2>2
<1>17. KeptBut(r, 0)
  <2>1. KeptBut(r, s) /\ 0 < r.nextServer /\ 0 \notin r.servers
    <3>1. KeptBut(r, s) /\ r.nextServer = d.nextServer
      BY <1>7, <1>15 DEF SoundBut, Fewer
    <3>2. r.servers \subseteq Server
      BY <3>1 DEF KeptBut, Desk
    <3> QED
      BY <1>1, <3>1, <3>2 DEF Server
  <2> QED
    BY <1>16, <2>1 DEF KeptBut
<1> QED
  BY <1>7, <1>15, <1>17 DEF Sound, SoundBut, Fewer

\* Views of s other than p, its active and primary tab, are removed.
LEMMA RemoveOthersSound ==
  ASSUME NEW d, Sound(d), NEW s \in d.servers, NEW p \in TabViews(d, s),
         d.active[s] = p, d.primary[s] = p,
         NEW vs \in Seq(View), \A k \in 1..Len(vs) : vs[k] # p /\ d.view[vs[k]].server = s,
         NEW r, r = RemoveViews(d, vs)
  PROVE  /\ Sound(r) /\ Fewer(d, r) /\ p \in TabViews(r, s)
         /\ r.active[s] = p /\ r.primary[s] = p
<1> DEFINE Stays(g) == /\ Sound(g) /\ Fewer(d, g) /\ p \in Live(g)
                       /\ g.active[s] = p /\ g.primary[s] = p
           Left == {g \in Desk : Stays(g)}
           P == [k \in 0..Len(vs) |-> Left]
<1>1. d \in Desk /\ s \in Server /\ Fewer(d, d) /\ p \in Live(d) /\ Len(vs) \in Nat
      /\ d.view[p].type = "tab" /\ d.view[p].server = s
  BY DEF Sound, SoundBut, KeptBut, Desk, Fewer, TabViews, Live
<1>2. ASSUME NEW k \in 1..Len(vs), NEW g \in Left PROVE RemoveView(g, vs[k]) \in Left
  <2> DEFINE v == vs[k]
             h == RemoveView(g, v)
  <2>1. CASE v \notin Live(g)
    <3>1. h = g
      BY <2>1 DEF RemoveView
    <3> QED
      BY <3>1
  <2>2. CASE v \in Live(g)
    <3>1. /\ g.view[v].server = s /\ p # v /\ p \in Live(g)
          /\ g.view[p].type = "tab" /\ g.view[p].server = s
      BY <1>1, <2>2 DEF Fewer
    <3>2. TabViews(g, s) \ {v} # {} /\ g.active[s] # v
      BY <3>1 DEF TabViews, Live
    <3>3. SoundBut(g, 0) /\ 0 \in Server \cup {0} /\ MayGo(g, 0, v, s)
      BY <3>2 DEF Sound, MayGo
    <3>4. h = RemoveView(g, v) /\ g.view[v].server = s /\ v \in Live(g)
      BY <2>2, <3>1
    <3> HIDE DEF v, h
    <3>5. /\ SoundBut(h, 0) /\ Fewer(g, h) /\ Live(h) = Live(g) \ {v}
          /\ h.primary[s] = g.primary[s] \/ g.primary[s] = v
          /\ h.active[s] = g.active[s] \/ g.active[s] = v
      BY <1>1, <2>2, <3>1, <3>3, <3>4, RemoveViewSound
    <3>6. Fewer(d, h) /\ h \in Desk
      BY <3>5, FewerStill DEF Fewer
    <3>7. h \in Left
      BY <3>1, <3>5, <3>6 DEF Sound
    <3> QED
      BY <3>7 DEF h, v
  <2> QED
    BY <2>1, <2>2
<1>3. r \in P[Len(vs)]
  <2>1. d \in P[0]
    BY <1>1
  <2>2. ASSUME NEW k \in 1..Len(vs), NEW g \in P[k - 1] PROVE RemoveView(g, vs[k]) \in P[k]
    <3>1. k \in 0..Len(vs) /\ k - 1 \in 0..Len(vs)
      BY <1>1
    <3> HIDE DEF Left
    <3> QED
      BY <1>2, <3>1
  <2> HIDE DEF P
  <2> QED
    BY <1>1, <2>1, <2>2, RemoveViewsInduction
<1>4. Stays(r)
  BY <1>1, <1>3
<1>5. p \in TabViews(r, s)
  BY <1>1, <1>4 DEF TabViews, Live, Fewer
<1> QED
  BY <1>4, <1>5

LEMMA SetLoggedInSound ==
  ASSUME NEW d, Sound(d), NEW v \in Live(d), NEW s, s = d.view[v].server,
         NEW loggedIn \in BOOLEAN, NEW r, r = SetLoggedIn(d, s, loggedIn)
  PROVE  Sound(r)
<1> DEFINE p == d.primary[s]
           e == IF d.current = s THEN SwitchToTab(d, p) ELSE [d EXCEPT !.active[s] = p]
           tabs == Among(e.tabs[s], View \ {p})
           f == IF p \in Live(d) THEN RemoveViews(e, tabs) ELSE d
           own == {w \in Live(f) : f.view[w].server = s /\ f.view[w].type = "window"}
           windows == Ascending(View, own)
           g == RemoveViews(f, windows)
<1>1. /\ d \in Desk /\ KeptBut(d, 0) /\ Shown(d) /\ d.current \in d.servers \cup {0}
      /\ s \in d.servers /\ s \in Server /\ ServerSound(d, s) /\ s # 0
      /\ \A u \in d.servers : u \in Server
  BY DEF Sound, SoundBut, KeptBut, Counted, Desk
<1>2. p \in TabViews(d, s) /\ p \in Live(d) /\ p \in View /\ d.view[p].type = "tab"
      /\ d.view[p].server = s
  BY <1>1 DEF ServerSound, TabViews, Live
<1>3. r = IF loggedIn THEN [d EXCEPT !.loggedIn = @ \cup {s}] ELSE [g EXCEPT !.loggedIn = @ \ {s}]
  BY DEF SetLoggedIn
<1> HIDE DEF p
<1>4. ASSUME NEW h, Sound(h), NEW in \in SUBSET Server PROVE Sound([h EXCEPT !.loggedIn = in])
  <2> DEFINE i == [h EXCEPT !.loggedIn = in]
  <2>1. KeptBut(h, 0) /\ h \in Desk /\ Shown(h) /\ h.current \in h.servers \cup {0}
    BY <1>4 DEF Sound, SoundBut, KeptBut
  <2>2. /\ i \in Desk /\ i.servers = h.servers /\ i.order = h.order
        /\ i.view = h.view /\ i.primary = h.primary /\ i.tabs = h.tabs /\ i.active = h.active
        /\ i.nextServer = h.nextServer /\ i.nextView = h.nextView
        /\ i.current = h.current /\ i.visible = h.visible /\ i.errored = h.errored
    BY <2>1 DEF Desk
  <2> HIDE DEF i
  <2>3. Shown(i)
    BY <2>1, <2>2 DEF Shown, TabViews
  <2>4. Displays(h, i)
    BY <2>1, <2>2, <2>3 DEF Displays
  <2> QED
    BY <2>1, <2>4, DisplaySound DEF Sound, i
<1>5. CASE loggedIn
  <2>1. d.loggedIn \cup {s} \in SUBSET Server
    BY <1>1 DEF Desk
  <2>2. r = [d EXCEPT !.loggedIn = d.loggedIn \cup {s}]
    BY <1>3, <1>5
  <2>3. Sound([d EXCEPT !.loggedIn = d.loggedIn \cup {s}])
    BY <1>4, <2>1
  <2> QED
    BY <2>2, <2>3
<1>6. CASE ~loggedIn
  <2>1. Sound(e) /\ e.view = d.view /\ e.primary = d.primary /\ e.active[s] = p
    <3>1. CASE d.current = s
      BY <1>2, <3>1, SwitchSound
    <3>2. CASE d.current # s
      <4>1. /\ e \in Desk /\ e.servers = d.servers /\ e.order = d.order
            /\ e.view = d.view /\ e.primary = d.primary /\ e.tabs = d.tabs
            /\ e.active = [d.active EXCEPT ![s] = p]
            /\ e.nextServer = d.nextServer /\ e.nextView = d.nextView
            /\ e.current = d.current /\ e.visible = d.visible /\ e.errored = d.errored
        BY <1>1, <1>2, <3>2 DEF Desk
      <4> HIDE DEF e
      <4>2. /\ e.active[s] = p /\ \A u \in Server : u # s => e.active[u] = d.active[u]
        BY <1>1, <4>1 DEF Desk
      <4>3. Shown(e)
        BY <1>1, <3>2, <4>1, <4>2 DEF Shown, TabViews
      <4>4. Displays(d, e)
        BY <1>1, <1>2, <4>1, <4>2, <4>3 DEF Displays
      <4> QED
        BY <1>1, <4>1, <4>2, <4>4, DisplaySound DEF Sound
    <3> QED
      BY <3>1, <3>2
  <2> HIDE DEF e
  <2>2. /\ e \in Desk /\ s \in e.servers /\ p \in TabViews(e, s) /\ e.primary[s] = p
        /\ e.tabs[s] \in Seq(View) /\ ToSet(e.tabs[s]) = TabViews(e, s)
    <3>1. p \in TabViews(e, s) /\ p \in Live(e) /\ e.view[p].server = s
      BY <1>2, <2>1 DEF TabViews, Live
    <3>2. e \in Desk /\ s \in e.servers /\ ServerSound(e, s)
      BY <1>1, <2>1, <3>1 DEF Sound, SoundBut, KeptBut
    <3> QED
      BY <1>1, <2>1, <3>1, <3>2 DEF ServerSound, Desk, p
  <2>3. tabs \in Seq(View) /\ ToSet(tabs) = TabViews(e, s) \cap (View \ {p})
    BY <2>2, AmongKeeps
  <2> HIDE DEF tabs
  <2>4. \A k \in 1..Len(tabs) : tabs[k] # p /\ e.view[tabs[k]].server = s
    <3>1. \A k \in 1..Len(tabs) : tabs[k] \in ToSet(tabs)
      BY <2>3 DEF ToSet
    <3> QED
      BY <2>3, <3>1 DEF TabViews
  <2>5. /\ Sound(f) /\ Fewer(e, f) /\ p \in TabViews(f, s)
        /\ f.active[s] = p /\ f.primary[s] = p
    <3>1. f = RemoveViews(e, tabs)
      BY <1>2
    <3> HIDE DEF f
    <3> QED
      BY <2>1, <2>2, <2>3, <2>4, <3>1, RemoveOthersSound
  <2> HIDE DEF f
  <2>6. s \in f.servers /\ \A w \in Live(f) : w \in View
    BY <2>2, <2>5 DEF Fewer, Live
  <2>7. windows \in Seq(View) /\ ToSet(windows) = own
    BY <2>6, AscendingKeeps, DesktopViewsAssumption DEF View
  <2> HIDE DEF windows
  <2>8. \A k \in 1..Len(windows) : windows[k] # p /\ f.view[windows[k]].server = s
    <3>1. \A k \in 1..Len(windows) : windows[k] \in own
      BY <2>7 DEF ToSet
    <3> QED
      BY <2>5, <3>1 DEF TabViews
  <2>9. Sound(g)
    BY <2>5, <2>6, <2>7, <2>8, RemoveOthersSound
  <2>10. g.loggedIn \ {s} \in SUBSET Server
    BY <2>9 DEF Sound, SoundBut, KeptBut, Desk
  <2> HIDE DEF g
  <2> QED
    BY <1>3, <1>4, <1>6, <2>9, <2>10
<1> QED
  BY <1>5, <1>6

---------------------------------------------------------------------------
(* A tab that becomes a window, and a window that becomes a tab *)

LEMMA OtherTab ==
  ASSUME NEW d, Sound(d), NEW s \in d.servers, NEW v, Len(d.tabs[s]) > 1
  PROVE  TabViews(d, s) \ {v} # {}
<1>1. d.tabs[s] \in Seq(View) /\ ServerSound(d, s)
  BY DEF Sound, SoundBut, KeptBut, Desk
<1>2. /\ d.tabs[s][1] # d.tabs[s][2]
      /\ d.tabs[s][1] \in TabViews(d, s) /\ d.tabs[s][2] \in TabViews(d, s)
  <2> DEFINE q == d.tabs[s]
  <2>1. q \in Seq(View) /\ Len(q) > 1 /\ IsInjective(q) /\ ToSet(q) = TabViews(d, s)
    BY <1>1 DEF ServerSound
  <2> HIDE DEF q
  <2>2. 1 \in DOMAIN q /\ 2 \in DOMAIN q
    BY <2>1
  <2>3. q[1] # q[2] /\ q[1] \in ToSet(q) /\ q[2] \in ToSet(q)
    BY <2>1, <2>2 DEF IsInjective, ToSet
  <2> QED
    BY <2>1, <2>3 DEF q
<1> QED
  BY <1>2

LEMMA ToWindowSound ==
  ASSUME NEW d, Sound(d), NEW s \in d.servers, s = d.current, NEW v \in TabViews(d, s),
         Len(d.tabs[s]) > 1, NEW r, r = UpdateViewType(d, v, "window")
  PROVE  Sound(r)
<1> DEFINE others == TabViews(d, s) \ {v}
           e == SetNewPrimaryViewIfNeeded(d, v)
           l == LeaveTab(e, v, s)
<1>1. /\ d \in Desk /\ Counted(d) /\ Shown(d) /\ ToSet(d.order) \subseteq d.servers
      /\ 0 \notin d.servers /\ 0 < d.nextServer /\ d.servers \subseteq Server
      /\ \A t \in d.servers : ServerSound(d, t) /\ t \in Server
      /\ \A w \in Live(d) : d.view[w].server \in d.servers
      /\ 0 \notin View /\ 0 \notin Server
  BY DEF Sound, SoundBut, KeptBut, Counted, Desk, View, Server
<1>2. /\ v \in View /\ v \in Live(d) /\ d.view[v].type = "tab" /\ d.view[v].server = s
      /\ s \in Server /\ s # 0
      /\ d.primary[s] \in TabViews(d, s) /\ d.active[s] \in TabViews(d, s)
      /\ d.tabs[s] \in Seq(View) /\ IsInjective(d.tabs[s]) /\ ToSet(d.tabs[s]) = TabViews(d, s)
  BY <1>1 DEF TabViews, Live, ServerSound, Desk
<1>3. others # {} /\ others = TabViews(d, s) \cap (View \ {v}) /\ 0 \notin others
  <2>1. others # {}
    BY OtherTab
  <2> QED
    BY <1>1, <2>1 DEF TabViews
<1>4. PICK p \in View \cup {0} : PrimaryMoved(d, e, v, s, p)
  BY <1>1, <1>2, PrimaryIsMoved
<1>5. e = [d EXCEPT !.primary[s] = p] /\ p \in others
  BY <1>2, <1>3, <1>4 DEF PrimaryMoved
<1>6. r = [l EXCEPT !.view[v].type = "window"]
  BY <1>2 DEF UpdateViewType
<1> HIDE DEF e
<1>7. /\ e \in Desk /\ e.servers = d.servers /\ e.order = d.order /\ e.current = d.current
      /\ e.errored = d.errored /\ e.view = d.view /\ e.tabs = d.tabs /\ e.active = d.active
      /\ e.visible = d.visible /\ e.nextServer = d.nextServer /\ e.nextView = d.nextView
      /\ e.primary = [d.primary EXCEPT ![s] = p]
  BY <1>1, <1>5 DEF Desk
<1>8. /\ TabViews(e, s) = TabViews(d, s)
      /\ IsActiveTab(e, v) <=> d.active[s] = v
  BY <1>2, <1>7 DEF TabViews, IsActiveTab
<1>9. PICK n \in View \cup {0} :
        /\ Leaves(e, l, v, s, n)
        /\ n = 0 => ~IsActiveTab(e, v) \/ TabViews(e, s) \ {v} = {}
        /\ n # 0 => IsActiveTab(e, v) /\ n \in TabViews(e, s) \ {v}
  <2>1. IsActiveTab(e, v) =>
          /\ e.current = s /\ IsInjective(e.tabs[s])
          /\ \A w \in View \ {v} : w \in ToSet(e.tabs[s]) <=> w \in TabViews(e, s)
    BY <1>2, <1>7, <1>8
  <2> QED
    BY <1>2, <1>7, <2>1, LeaveTabLeaves
<1> HIDE DEF l
<1> DEFINE view == [d.view EXCEPT ![v].type = "window"]
           active == IF n = 0 THEN d.active ELSE [d.active EXCEPT ![s] = n]
<1>10. /\ l \in Desk /\ l.servers = d.servers /\ l.order = d.order /\ l.current = d.current
       /\ l.errored = d.errored /\ l.view = d.view
       /\ l.primary = [d.primary EXCEPT ![s] = p]
       /\ l.nextServer = d.nextServer /\ l.nextView = d.nextView
       /\ l.tabs = [d.tabs EXCEPT ![s] = Among(@, View \ {v})]
       /\ l.active = active
       /\ l.visible = IF n = 0 THEN d.visible ELSE IF n \in d.errored THEN 0 ELSE n
  BY <1>7, <1>9 DEF Leaves
<1>11. /\ view \in [View -> ViewRecord]
       /\ view[v].type = "window" /\ view[v].server = s /\ view[v].parent = d.view[v].parent
       /\ \A w \in View \ {v} : view[w] = d.view[w]
  <2>1. d.view \in [View -> ViewRecord] /\ d.view[v] \in ViewRecord
    BY <1>1, <1>2 DEF Desk
  <2>2. /\ [d.view[v] EXCEPT !.type = "window"] \in ViewRecord
        /\ [d.view[v] EXCEPT !.type = "window"].type = "window"
        /\ [d.view[v] EXCEPT !.type = "window"].server = d.view[v].server
        /\ [d.view[v] EXCEPT !.type = "window"].parent = d.view[v].parent
    BY <2>1 DEF ViewRecord
  <2>3. view = [d.view EXCEPT ![v] = [d.view[v] EXCEPT !.type = "window"]]
    OBVIOUS
  <2> DEFINE record == [d.view[v] EXCEPT !.type = "window"]
  <2> HIDE DEF record, view
  <2>4. view[v] = record /\ view \in [View -> ViewRecord] /\ \A w \in View \ {v} : view[w] = d.view[w]
    BY <1>2, <2>1, <2>2, <2>3 DEF record
  <2> QED
    BY <1>2, <2>2, <2>4 DEF record
<1>12. r = [l EXCEPT !.view = view]
  BY <1>6, <1>10 DEF Desk
<1> HIDE DEF view
<1>13. /\ r \in Desk /\ r.servers = d.servers /\ r.order = d.order /\ r.current = d.current
       /\ r.errored = d.errored /\ r.view = view
       /\ r.nextServer = d.nextServer /\ r.nextView = d.nextView
       /\ r.primary = l.primary /\ r.tabs = l.tabs /\ r.active = l.active /\ r.visible = l.visible
  BY <1>10, <1>11, <1>12 DEF Desk
<1>14. /\ Live(r) = Live(d)
       /\ \A w \in Live(d) : w \in View /\ r.view[w].server = d.view[w].server
       /\ \A w \in View : r.view[w].parent = d.view[w].parent
       /\ TabViews(r, s) = others
       /\ \A t \in Server \ {s} : TabViews(r, t) = TabViews(d, t)
  BY <1>2, <1>11, <1>13 DEF Live, TabViews
<1>15. /\ r.primary[s] = p /\ r.tabs[s] = Among(d.tabs[s], View \ {v})
       /\ r.active[s] = IF n = 0 THEN d.active[s] ELSE n
       /\ \A t \in Server \ {s} : /\ r.primary[t] = d.primary[t] /\ r.tabs[t] = d.tabs[t]
                                  /\ r.active[t] = d.active[t]
  <2>1. /\ d.primary \in [Server -> View \cup {0}] /\ d.tabs \in [Server -> Seq(View)]
        /\ d.active \in [Server -> View \cup {0}]
    BY <1>1 DEF Desk
  <2>2. /\ r.primary = [d.primary EXCEPT ![s] = p] /\ r.active = active
        /\ r.tabs = [d.tabs EXCEPT ![s] = Among(@, View \ {v})]
    BY <1>10, <1>13
  <2>3. r.primary[s] = p /\ \A t \in Server \ {s} : r.primary[t] = d.primary[t]
    BY <1>2, <2>1, <2>2
  <2>4. /\ r.tabs[s] = Among(d.tabs[s], View \ {v})
        /\ \A t \in Server \ {s} : r.tabs[t] = d.tabs[t]
    BY <1>2, <2>1, <2>2
  <2>5. /\ r.active[s] = IF n = 0 THEN d.active[s] ELSE n
        /\ \A t \in Server \ {s} : r.active[t] = d.active[t]
    BY <1>2, <2>1, <2>2
  <2> QED
    BY <2>3, <2>4, <2>5
<1>16. r.active[s] \in others
  BY <1>2, <1>3, <1>8, <1>9, <1>15
<1>17. Counted(r)
  <2>1. \A t \in Server : t >= d.nextServer => t # s
    BY <1>1, <1>2 DEF Counted, Desk, Server
  <2> QED
    BY <1>1, <1>13, <1>14, <1>15, <2>1 DEF Counted
<1>18. Shown(r)
  <2>1. d.visible = IF d.active[s] \in d.errored THEN 0 ELSE d.active[s]
    BY <1>1, <1>2 DEF Shown
  <2>2. r.visible = IF r.active[s] \in d.errored THEN 0 ELSE r.active[s]
    BY <1>10, <1>13, <1>15, <2>1
  <2> QED
    BY <1>13, <2>2 DEF Shown
<1>19. ASSUME NEW t \in d.servers PROVE ServerSound(r, t)
  <2>1. ServerSound(d, t) /\ t \in Server
    BY <1>1
  <2>2. \A w \in Live(r) : r.view[w].server = t /\ r.view[w].parent # 0 =>
          r.view[w].parent \in Live(r) /\ r.view[r.view[w].parent].server = t
    BY <1>14, <2>1 DEF ServerSound
  <2>3. CASE t = s
    <3>1. IsInjective(r.tabs[s]) /\ ToSet(r.tabs[s]) = others
      BY <1>2, <1>3, <1>15, AmongKeeps
    <3> QED
      BY <1>3, <1>5, <1>14, <1>15, <1>16, <2>2, <2>3, <3>1 DEF ServerSound
  <2>4. CASE t # s
    BY <1>14, <1>15, <2>1, <2>2, <2>4 DEF ServerSound
  <2> QED
    BY <2>3, <2>4
<1>20. KeptBut(r, 0)
  BY <1>1, <1>13, <1>14, <1>17, <1>19 DEF KeptBut
<1> QED
  BY <1>13, <1>18, <1>20 DEF Sound, SoundBut

LEMMA ToTabSound ==
  ASSUME NEW d, Sound(d), NEW v \in Live(d), d.view[v].type = "window",
         NEW r, r = UpdateViewType(d, v, "tab")
  PROVE  Sound(r)
<1> DEFINE s == d.view[v].server
           view == [d.view EXCEPT ![v].type = "tab"]
           tabs == [d.tabs EXCEPT ![s] = Append(@, v)]
           e == [d EXCEPT !.view[v].type = "tab", !.tabs[s] = Append(@, v)]
<1>1. /\ d \in Desk /\ Counted(d) /\ v \in View /\ s \in d.servers /\ s \in Server
      /\ ServerSound(d, s) /\ d.view[v] \in ViewRecord
  BY DEF Sound, SoundBut, KeptBut, Counted, Desk, Live
<1>2. TabViews(d, s) # {} /\ d.primary[s] # v
  BY <1>1 DEF ServerSound, TabViews
<1>3. r = SwitchToTab(e, v)
  BY <1>2 DEF UpdateViewType, SetNewPrimaryViewIfNeeded
<1>4. /\ view \in [View -> ViewRecord]
      /\ view[v].type = "tab" /\ view[v].server = s /\ view[v].parent = d.view[v].parent
      /\ \A w \in View \ {v} : view[w] = d.view[w]
  <2> DEFINE record == [d.view[v] EXCEPT !.type = "tab"]
  <2>1. /\ record \in ViewRecord /\ record.type = "tab"
        /\ record.server = d.view[v].server /\ record.parent = d.view[v].parent
    BY <1>1 DEF ViewRecord
  <2>2. view = [d.view EXCEPT ![v] = record]
    OBVIOUS
  <2> HIDE DEF record, view
  <2> QED
    BY <1>1, <2>1, <2>2 DEF Desk
<1>5. /\ tabs \in [Server -> Seq(View)] /\ tabs[s] = Append(d.tabs[s], v)
      /\ \A t \in Server \ {s} : tabs[t] = d.tabs[t]
  <2>1. d.tabs \in [Server -> Seq(View)] /\ Append(d.tabs[s], v) \in Seq(View)
    BY <1>1 DEF Desk
  <2> HIDE DEF s
  <2> QED
    BY <1>1, <2>1
<1>6. e = [d EXCEPT !.view = view, !.tabs = tabs]
  BY <1>1 DEF Desk
<1> HIDE DEF e, view, tabs
<1>7. /\ e \in Desk /\ e.servers = d.servers /\ e.order = d.order /\ e.current = d.current
      /\ e.errored = d.errored /\ e.nextServer = d.nextServer /\ e.nextView = d.nextView
      /\ e.view = view /\ e.tabs = tabs /\ e.primary = d.primary /\ e.active = d.active
      /\ e.visible = d.visible
  BY <1>1, <1>4, <1>5, <1>6 DEF Desk
<1>8. d.tabs[s] # <<>> /\ d.primary[s] # 0
  <2>1. ToSet(d.tabs[s]) # {} /\ d.primary[s] \in TabViews(d, s)
    BY <1>1, <1>2 DEF ServerSound
  <2> QED
    BY <2>1 DEF ToSet, TabViews, View
<1>9. /\ e.nextView >= d.nextView /\ e.nextView > v
      /\ d.view[v].parent # 0 => d.view[v].parent \in Live(d)
                              /\ d.view[d.view[v].parent].server = s
  BY <1>1, <1>7 DEF Counted, Desk, View, ServerSound
<1>10. Gained(d, e, v, s, "tab")
  BY <1>4, <1>5, <1>7, <1>8, <1>9 DEF Gained
<1>11. Sound(e)
  <2> HIDE DEF s
  <2> QED
    BY <1>1, <1>10, GainedSound DEF s
<1> QED
  BY <1>3, <1>11, SwitchSound

---------------------------------------------------------------------------
(* The invariant *)

LEMMA ViewsIInvInit ==
  ViewsInit => ViewsIInv
<1> SUFFICES ASSUME ViewsInit PROVE ViewsIInv
  OBVIOUS
<1> DEFINE n == Cardinality(StartServers)
<1>1. /\ n \in Nat /\ StartServers = 1..n /\ n <= MaxServers /\ n <= MaxViews
      /\ StartServers \subseteq Server /\ StartServers \subseteq View
  <2>1. /\ StartServers \subseteq Server /\ StartServers \subseteq View /\ StartServers = 1..n
        /\ MaxServers \in Nat /\ MaxViews \in Nat
    BY DesktopViewsAssumption DEF StartServers
  <2>2. n \in Nat
    <3>1. IsFiniteSet(Server)
      BY FS_Interval, DesktopViewsAssumption DEF Server
    <3> QED
      BY <2>1, <3>1, FS_Subset, FS_CardinalityType
  <2> HIDE DEF n
  <2>3. n >= 1 => n \in Server /\ n \in View
    BY <2>1, <2>2
  <2> QED
    BY <2>1, <2>2, <2>3 DEF Server, View
<1> HIDE DEF n
<1>2. PICK current \in StartServers \cup {0} :
        /\ current = 0 => StartServers = {}
        /\ desk = [servers |-> StartServers, order |-> Ascending(Server, Local), current |-> current,
                   loggedIn |-> {}, errored |-> {}, visible |-> current,
                   view |-> [v \in View |->
                        IF v \in StartServers THEN [NoView EXCEPT !.server = v, !.type = "tab"] ELSE NoView],
                   primary |-> [s \in Server |-> IF s \in StartServers THEN s ELSE 0],
                   active |-> [s \in Server |-> IF s \in StartServers THEN s ELSE 0],
                   tabs |-> [s \in Server |-> IF s \in StartServers THEN <<s>> ELSE <<>>],
                   nextServer |-> n + 1,
                   nextView |-> n + 1]
  BY DEF ViewsInit, n
<1>3. drag = NoDrag /\ moved = FALSE
  BY DEF ViewsInit
<1>4. Ascending(Server, Local) \in Seq(Server) /\ ToSet(Ascending(Server, Local)) \subseteq StartServers
  BY AscendingKeeps, DesktopViewsAssumption DEF Server, StartServers
<1>5. /\ desk.view \in [View -> ViewRecord]
      /\ \A v \in StartServers : /\ desk.view[v].server = v /\ desk.view[v].type = "tab"
                                 /\ desk.view[v].parent = 0
      /\ \A v \in View \ StartServers : desk.view[v] = NoView
  <2>1. NoView \in ViewRecord
    BY DEF NoView, ViewRecord
  <2>2. \A v \in StartServers : [NoView EXCEPT !.server = v, !.type = "tab"] \in ViewRecord
    BY <1>1, <2>1 DEF ViewRecord
  <2> QED
    BY <1>1, <1>2, <2>1, <2>2 DEF ViewRecord, NoView
<1>6. /\ desk.primary \in [Server -> View \cup {0}] /\ desk.active \in [Server -> View \cup {0}]
      /\ desk.tabs \in [Server -> Seq(View)]
      /\ \A s \in StartServers : /\ desk.primary[s] = s /\ desk.active[s] = s /\ desk.tabs[s] = <<s>>
      /\ \A s \in Server \ StartServers :
           desk.primary[s] = 0 /\ desk.active[s] = 0 /\ desk.tabs[s] = <<>>
  <2>1. /\ desk.primary = [s \in Server |-> IF s \in StartServers THEN s ELSE 0]
        /\ desk.active = [s \in Server |-> IF s \in StartServers THEN s ELSE 0]
        /\ desk.tabs = [s \in Server |-> IF s \in StartServers THEN <<s>> ELSE <<>>]
    BY <1>2
  <2>2. \A s \in StartServers : <<s>> \in Seq(View) /\ s \in Server /\ s \in View
    BY <1>1
  <2>3. <<>> \in Seq(View)
    OBVIOUS
  <2> QED
    BY <2>1, <2>2, <2>3
<1>7. desk \in Desk
  <2>1. n + 1 \in 1..(MaxServers + 1) /\ n + 1 \in 1..(MaxViews + 1)
    BY <1>1, DesktopViewsAssumption
  <2>2. current \in Server \cup {0} /\ current \in View \cup {0}
    BY <1>1
  <2> QED
    BY <1>1, <1>2, <1>4, <1>5, <1>6, <2>1, <2>2 DEF Desk
<1>8. /\ desk.servers = StartServers /\ desk.current = current /\ desk.visible = current
      /\ desk.errored = {} /\ desk.nextServer = n + 1 /\ desk.nextView = n + 1
      /\ ToSet(desk.order) \subseteq desk.servers
  BY <1>2, <1>4
<1>9. Live(desk) = StartServers /\ \A s \in StartServers : TabViews(desk, s) = {s}
  <2>1. \A v \in View \ StartServers : desk.view[v].type = "none"
    BY <1>5 DEF NoView
  <2>2. Live(desk) = StartServers
    BY <1>1, <1>5, <2>1 DEF Live
  <2>3. ASSUME NEW s \in StartServers PROVE TabViews(desk, s) = {s}
    <3>1. \A v \in View : desk.view[v].type = "tab" /\ desk.view[v].server = s <=> v = s
      BY <1>1, <1>5, <2>1
    <3> QED
      BY <1>1, <3>1 DEF TabViews
  <2> QED
    BY <2>2, <2>3
<1>10. Counted(desk)
  <2>1. \A s \in Server : s >= n + 1 => s \notin StartServers
    BY <1>1 DEF Server
  <2> QED
    BY <1>1, <1>5, <1>6, <1>8, <1>9, <2>1 DEF Counted, NoView
<1>11. ASSUME NEW s \in StartServers PROVE ServerSound(desk, s)
  <2>1. IsInjective(<<s>>) /\ ToSet(<<s>>) = {s}
    BY DEF IsInjective, ToSet
  <2>2. /\ desk.tabs[s] = <<s>> /\ desk.primary[s] = s /\ desk.active[s] = s
        /\ TabViews(desk, s) = {s}
    BY <1>6, <1>9
  <2>3. \A v \in Live(desk) : desk.view[v].parent = 0
    BY <1>5, <1>9
  <2> QED
    BY <2>1, <2>2, <2>3 DEF ServerSound
<1>12. Shown(desk)
  BY <1>6, <1>8, <1>9 DEF Shown
<1>13. KeptBut(desk, 0)
  <2>1. 0 \notin StartServers /\ 0 < n + 1
    BY <1>1
  <2> QED
    BY <1>5, <1>7, <1>8, <1>9, <1>10, <1>11, <2>1 DEF KeptBut
<1>14. Sound(desk)
  BY <1>8, <1>12, <1>13 DEF Sound, SoundBut
<1> QED
  BY <1>3, <1>7, <1>14 DEF ViewsIInv, DragKey, NoDrag

LEMMA BecomesKeeps ==
  ASSUME ViewsIInv, NEW d, ~moved => Sound(d), Becomes(d)
  PROVE  ViewsIInv'
<1>1. ~moved /\ desk' = d /\ UNCHANGED <<drag, moved>> /\ Sound(d)
  BY DEF Becomes
<1>2. d \in Desk
  BY <1>1 DEF Sound, SoundBut, KeptBut
<1> QED
  BY <1>1, <1>2 DEF ViewsIInv, DragKey

\* The operations of the user and of the pages.
ServerOperation(s) ==
    ServerIsRemoved(s) \/ ServerIsReloaded(s) \/ ServerIsChosen(s) \/ TabIsOpened(s)
ViewOperation(v) ==
    \/ \E b \in BOOLEAN : LoginChanges(v, b) \/ PopoutIsOpened(v, b)
    \/ TabIsChosen(v) \/ ViewIsMoved(v) \/ ViewIsClosed(v) \/ LinkIsFollowed(v)
    \/ Reload(v)

LEMMA OperationSound ==
  ASSUME Sound(desk)
  PROVE  /\ ServerIsAdded => \E d : Sound(d) /\ Becomes(d)
         /\ \A s \in Server : ServerOperation(s) => \E d : Sound(d) /\ Becomes(d)
         /\ \A v \in View : ViewOperation(v) => \E d : Sound(d) /\ Becomes(d)
<1>1. /\ desk \in Desk /\ KeptBut(desk, 0) /\ Shown(desk) /\ desk.current \in desk.servers \cup {0}
      /\ \A s \in desk.servers : ServerSound(desk, s)
      /\ \A v \in Live(desk) : /\ v \in View /\ desk.view[v].server \in desk.servers
                               /\ desk.view[v] \in ViewRecord
  BY DEF Sound, SoundBut, KeptBut, Counted, Desk, Live
<1>2. ASSUME ServerIsAdded PROVE \E d : Sound(d) /\ Becomes(d)
  BY <1>2, AddServerSound DEF ServerIsAdded, MayOpen
<1>3. ASSUME NEW s \in Server, ServerIsRemoved(s) PROVE \E d : Sound(d) /\ Becomes(d)
  BY <1>3, RemoveServerSound DEF ServerIsRemoved
<1>4. ASSUME NEW s \in Server, ServerIsReloaded(s) PROVE \E d : Sound(d) /\ Becomes(d)
  <2> DEFINE d == RemoveServer(desk, s)
  <2>1. /\ s \in desk.servers /\ desk.nextServer \in Server /\ desk.nextView \in View
        /\ Becomes(AddServer(d))
    BY <1>4 DEF ServerIsReloaded, ReloadServer, MayOpen
  <2>2. Sound(d) /\ d.nextServer = desk.nextServer /\ d.nextView = desk.nextView
    BY <2>1, RemoveServerSound
  <2> HIDE DEF d
  <2>3. Sound(AddServer(d))
    BY <2>1, <2>2, AddServerSound
  <2> QED
    BY <2>1, <2>3
<1>5. ASSUME NEW s \in Server, ServerIsChosen(s) PROVE \E d : Sound(d) /\ Becomes(d)
  <2>1. s \in desk.servers /\ Becomes(UpdateCurrentServer(desk, s))
    BY <1>5 DEF ServerIsChosen
  <2> QED
    BY <1>1, <2>1, UpdateCurrentSound DEF Sound
<1>6. ASSUME NEW s \in Server, TabIsOpened(s) PROVE \E d : Sound(d) /\ Becomes(d)
  <2> DEFINE d == CreateView(desk, s, "tab", FALSE, 0)
  <2>1. PICK switch \in BOOLEAN :
          /\ desk.nextView \in View /\ s \in desk.servers
          /\ Becomes(IF switch THEN SwitchToTab(d, desk.nextView) ELSE d)
    BY <1>6 DEF TabIsOpened, MayOpen
  <2>2. Sound(d)
    BY <2>1, CreateSound
  <2> HIDE DEF d
  <2>3. Sound(SwitchToTab(d, desk.nextView))
    BY <2>2, SwitchSound
  <2> QED
    BY <2>1, <2>2, <2>3
<1>7. ASSUME NEW v \in View, NEW b \in BOOLEAN, LoginChanges(v, b)
      PROVE  \E d : Sound(d) /\ Becomes(d)
  BY <1>7, SetLoggedInSound DEF LoginChanges
<1>8. ASSUME NEW v \in View, NEW b \in BOOLEAN, PopoutIsOpened(v, b)
      PROVE  \E d : Sound(d) /\ Becomes(d)
  <2> DEFINE s == desk.view[v].server
             parent == IF b THEN v ELSE 0
  <2>1. /\ desk.nextView \in View /\ v \in Live(desk)
        /\ Becomes(CreateView(desk, s, "window", b, parent))
    BY <1>8 DEF PopoutIsOpened, MayOpen
  <2>2. s \in desk.servers /\ TabViews(desk, s) # {}
    BY <1>1, <2>1 DEF ServerSound
  <2>3. parent \in View \cup {0} /\ (parent # 0 => parent \in Live(desk) /\ desk.view[parent].server = s)
    BY <2>1
  <2> HIDE DEF s, parent
  <2>4. Sound(CreateView(desk, s, "window", b, parent))
    BY <2>1, <2>2, <2>3, CreateSound
  <2> QED
    BY <2>1, <2>4
<1>9. ASSUME NEW v \in View, TabIsChosen(v) \/ LinkIsFollowed(v)
      PROVE  \E d : Sound(d) /\ Becomes(d)
  BY <1>9, SwitchSound DEF TabIsChosen, LinkIsFollowed
<1>10. ASSUME NEW v \in View, ViewIsMoved(v) PROVE \E d : Sound(d) /\ Becomes(d)
  <2>1. v \in Live(desk) /\ IsOffered(v)
    BY <1>10 DEF ViewIsMoved, IsOffered
  <2>2. CASE desk.view[v].type = "tab"
    <3>1. /\ v \in TabViews(desk, desk.current) /\ desk.current \in desk.servers
          /\ Len(desk.tabs[desk.current]) > 1
          /\ Becomes(UpdateViewType(desk, v, "window"))
      BY <1>1, <1>10, <2>1, <2>2 DEF ViewIsMoved, IsOffered, TabViews
    <3> QED
      BY <3>1, ToWindowSound
  <2>3. CASE desk.view[v].type # "tab"
    <3>1. desk.view[v].type = "window" /\ Becomes(UpdateViewType(desk, v, "tab"))
      BY <1>1, <1>10, <2>1, <2>3 DEF ViewIsMoved, Live, ViewRecord
    <3> QED
      BY <2>1, <3>1, ToTabSound
  <2> QED
    BY <2>2, <2>3
<1>11. ASSUME NEW v \in View, ViewIsClosed(v) PROVE \E d : Sound(d) /\ Becomes(d)
  <2> DEFINE s == desk.view[v].server
  <2>1. v \in Live(desk) /\ IsOffered(v) /\ Becomes(RemoveView(desk, v)) /\ s \in desk.servers
    BY <1>1, <1>11 DEF ViewIsClosed, IsOffered
  <2>2. MayGo(desk, 0, v, s)
    <3>1. CASE desk.view[v].type = "tab"
      <4>1. s = desk.current /\ Len(desk.tabs[s]) > 1
        BY <2>1, <3>1 DEF IsOffered
      <4>2. TabViews(desk, s) \ {v} # {}
        BY <2>1, <4>1, OtherTab
      <4> QED
        BY <4>1, <4>2 DEF MayGo
    <3>2. CASE desk.view[v].type # "tab"
      <4>1. v \notin TabViews(desk, s) /\ TabViews(desk, s) # {} /\ desk.active[s] # v
        BY <1>1, <2>1, <3>2 DEF TabViews, ServerSound
      <4> QED
        BY <4>1 DEF MayGo
    <3> QED
      BY <3>1, <3>2
  <2>3. Sound(RemoveView(desk, v))
    BY <2>1, <2>2, RemoveViewSound DEF Sound
  <2> QED
    BY <2>1, <2>3
<1>12. ASSUME NEW v \in View, Reload(v) PROVE \E d : Sound(d) /\ Becomes(d)
  <2> DEFINE e == [desk EXCEPT !.errored = @ \ {v}]
             d == IF IsActiveTab(e, v) /\ e.visible # v THEN SetActiveTab(e, v) ELSE e
             visible == IF IsActiveTab(desk, v) THEN v ELSE desk.visible
  <2>1. v \in Live(desk) /\ Becomes(d)
    BY <1>12 DEF Reload
  <2>2. IsActiveTab(desk, v) =>
          /\ desk.view[v].server = desk.current /\ desk.current \in Server
          /\ desk.active = [desk.active EXCEPT ![desk.current] = v]
    <3> SUFFICES ASSUME IsActiveTab(desk, v)
                 PROVE  /\ desk.view[v].server = desk.current /\ desk.current \in Server
                        /\ desk.active = [desk.active EXCEPT ![desk.current] = v]
      OBVIOUS
    <3>1. desk.current \in desk.servers /\ desk.active[desk.current] = v
      BY <1>1 DEF IsActiveTab
    <3>2. desk.current \in Server /\ desk.active \in [Server -> View \cup {0}]
      BY <1>1, <3>1 DEF Desk
    <3>3. ServerSound(desk, desk.current) /\ v # 0
      BY <1>1, <3>1 DEF View
    <3>4. v \in TabViews(desk, desk.current)
      BY <3>1, <3>3 DEF ServerSound
    <3> QED
      BY <3>1, <3>2, <3>4 DEF TabViews
  <2>3. /\ e.errored = desk.errored \ {v} /\ e.visible = desk.visible /\ e.view = desk.view
        /\ IsActiveTab(e, v) <=> IsActiveTab(desk, v)
    BY <1>1 DEF Desk, IsActiveTab
  <2>4. d = [desk EXCEPT !.errored = @ \ {v}, !.visible = visible]
    <3>1. CASE IsActiveTab(e, v) /\ e.visible # v
      <4>1. d = [e EXCEPT !.active[desk.current] = v, !.visible = v]
        BY <2>2, <2>3, <3>1 DEF SetActiveTab
      <4> QED
        BY <1>1, <2>2, <2>3, <3>1, <4>1 DEF Desk
    <3>2. CASE ~(IsActiveTab(e, v) /\ e.visible # v)
      BY <1>1, <2>3, <3>2 DEF Desk
    <3> QED
      BY <3>1, <3>2
  <2>5. visible \in View \cup {0}
    BY <1>1 DEF Desk
  <2>6. desk.current # 0 /\ TabViews(desk, desk.current) # {} =>
          visible = IF desk.active[desk.current] \in desk.errored \ {v} THEN 0
                    ELSE desk.active[desk.current]
    BY <1>1 DEF Shown, IsActiveTab
  <2> HIDE DEF d, e, visible
  <2>7. /\ d \in Desk /\ d.servers = desk.servers /\ d.order = desk.order
        /\ d.view = desk.view /\ d.primary = desk.primary /\ d.tabs = desk.tabs
        /\ d.nextServer = desk.nextServer /\ d.nextView = desk.nextView
        /\ d.current = desk.current /\ d.active = desk.active /\ d.visible = visible
        /\ d.errored = desk.errored \ {v}
    BY <1>1, <2>4, <2>5 DEF Desk
  <2>8. Displays(desk, d)
    BY <1>1, <2>6, <2>7 DEF Displays, Shown, TabViews
  <2>9. Sound(d)
    BY <1>1, <2>8, DisplaySound DEF Sound
  <2> QED
    BY <2>1, <2>9
<1> QED
  BY <1>2, <1>3, <1>4, <1>5, <1>6, <1>7, <1>8, <1>9, <1>10, <1>11, <1>12
     DEF ServerOperation, ViewOperation

LEMMA SwappedKeeps ==
  ASSUME NEW K, NEW q \in Seq(K), NEW i \in 1..Len(q) - 1
  PROVE  Swapped(q, i) \in Seq(K) /\ (IsInjective(q) => IsInjective(Swapped(q, i)))
<1> DEFINE r == Swapped(q, i)
<1>1. /\ Len(q) \in Nat /\ DOMAIN q = 1..Len(q) /\ i \in 1..Len(q) /\ i + 1 \in 1..Len(q)
      /\ \A k \in 1..Len(q) : q[k] \in K
  OBVIOUS
<1>2. r = [k \in 1..Len(q) |-> IF k = i THEN q[i + 1] ELSE IF k = i + 1 THEN q[i] ELSE q[k]]
  <2>1. q = [k \in 1..Len(q) |-> q[k]]
    OBVIOUS
  <2> QED
    BY <1>1, <2>1 DEF Swapped
<1> HIDE DEF r
<1>3. r \in Seq(K)
  BY <1>1, <1>2
<1>4. ASSUME IsInjective(q) PROVE IsInjective(r)
  BY <1>1, <1>2, <1>4 DEF IsInjective
<1> QED
  BY <1>3, <1>4 DEF r

LEMMA DragKeeps ==
  ASSUME ViewsIInv, TabIsDragged \/ ServerIsDragged
  PROVE  ViewsIInv'
<1>1. desk \in Desk /\ UNCHANGED <<desk, moved>>
  BY DEF ViewsIInv, TabIsDragged, ServerIsDragged, Drag
<1>2. DragKey'
  <2>1. CASE TabIsDragged
    <3> DEFINE s == desk.current
               q == desk.tabs[s]
    <3>1. s \in Server /\ q \in Seq(View)
      BY <1>1, <2>1 DEF TabIsDragged, Desk
    <3>2. PICK i \in 1..Len(q) - 1 : drag' = [kind |-> "tabs", server |-> s, list |-> Swapped(q, i)]
      BY <2>1 DEF TabIsDragged, Drag
    <3>3. ~moved => IsInjective(q)
      <4> SUFFICES ASSUME ~moved PROVE IsInjective(q)
        OBVIOUS
      <4>1. Sound(desk)
        BY DEF ViewsIInv
      <4>2. s # 0 /\ s \in desk.servers
        BY <2>1, <4>1 DEF TabIsDragged, Sound, SoundBut
      <4> QED
        BY <4>1, <4>2 DEF Sound, SoundBut, KeptBut, ServerSound
    <3>4. Swapped(q, i) \in Seq(View) /\ (IsInjective(q) => IsInjective(Swapped(q, i)))
      BY <3>1, SwappedKeeps
    <3> QED
      BY <1>1, <3>1, <3>2, <3>3, <3>4 DEF DragKey
  <2>2. CASE ServerIsDragged
    <3> DEFINE q == desk.order
    <3>1. q \in Seq(Server)
      BY <1>1 DEF Desk
    <3>2. PICK i \in 1..Len(q) - 1 : drag' = [kind |-> "servers", server |-> 0, list |-> Swapped(q, i)]
      BY <2>2 DEF ServerIsDragged, Drag
    <3>3. Swapped(q, i) \in Seq(Server)
      BY <3>1, SwappedKeeps
    <3> QED
      BY <3>2, <3>3 DEF DragKey
  <2> QED
    BY <2>1, <2>2
<1> QED
  BY <1>1, <1>2 DEF ViewsIInv, Sound, SoundBut, KeptBut, Shown, Counted, Live, TabViews, ServerSound

LEMMA LoadFailsKeeps ==
  ASSUME ViewsIInv, NEW v \in View, LoadFails(v)
  PROVE  ViewsIInv'
<1> DEFINE visible == IF desk.visible = v /\ IsActiveTab(desk, v) THEN 0 ELSE desk.visible
<1>1. /\ desk \in Desk /\ UNCHANGED <<drag, moved>>
      /\ desk' = [desk EXCEPT !.errored = @ \cup {v}, !.visible = visible]
  BY DEF ViewsIInv, LoadFails
<1>2. visible \in View \cup {0}
  BY <1>1 DEF Desk
<1>3. desk.current # 0 =>
        \/ ~(desk.visible = IF desk.active[desk.current] \in desk.errored THEN 0
                            ELSE desk.active[desk.current])
        \/ visible = IF desk.active[desk.current] \in desk.errored \cup {v} THEN 0
                      ELSE desk.active[desk.current]
  BY DEF IsActiveTab
<1> HIDE DEF visible
<1>4. /\ desk' \in Desk /\ desk'.servers = desk.servers /\ desk'.order = desk.order
      /\ desk'.view = desk.view /\ desk'.primary = desk.primary /\ desk'.tabs = desk.tabs
      /\ desk'.nextServer = desk.nextServer /\ desk'.nextView = desk.nextView
      /\ desk'.current = desk.current /\ desk'.active = desk.active /\ desk'.visible = visible
      /\ desk'.errored = desk.errored \cup {v}
  BY <1>1, <1>2 DEF Desk
<1>5. ASSUME ~moved PROVE Sound(desk')
  <2>1. /\ KeptBut(desk, 0) /\ Shown(desk) /\ desk.current \in desk.servers \cup {0}
    BY <1>5 DEF ViewsIInv, Sound, SoundBut
  <2>2. Displays(desk, desk')
    BY <1>3, <1>4, <2>1 DEF Displays, Shown, TabViews
  <2> QED
    BY <2>1, <2>2, DisplaySound DEF Sound
<1> QED
  BY <1>1, <1>4, <1>5 DEF ViewsIInv, DragKey, Sound, SoundBut, KeptBut, Shown, Counted, Live,
                          TabViews, ServerSound

LEMMA ListArrivesKeeps ==
  ASSUME ViewsIInv, ListArrives
  PROVE  ViewsIInv'
<1>1. desk \in Desk /\ drag' = NoDrag /\ drag # NoDrag /\ DragKey
      /\ drag.kind \in {"tabs", "servers"}
  BY DEF ViewsIInv, ListArrives, DragKey
<1>2. DragKey'
  BY <1>1 DEF DragKey, NoDrag
<1> SUFFICES desk' \in Desk /\ moved' \in BOOLEAN /\ (~moved' => Sound(desk'))
  BY <1>2 DEF ViewsIInv, Sound, SoundBut, KeptBut, Shown, Counted, Live, TabViews, ServerSound
<1>3. CASE drag.kind = "tabs"
  <2> DEFINE s == drag.server
             q == drag.list
  <2>1. /\ s \in Server /\ q \in Seq(View) /\ (~moved => IsInjective(q))
        /\ moved' = (moved \/ ToSet(desk.tabs[s]) # ToSet(q))
        /\ desk' = [desk EXCEPT !.tabs[s] = q]
    BY <1>1, <1>3 DEF ListArrives, DragKey
  <2> DEFINE tabs == [desk.tabs EXCEPT ![s] = q]
  <2>2. tabs \in [Server -> Seq(View)] /\ tabs[s] = q /\ \A t \in Server \ {s} : tabs[t] = desk.tabs[t]
    BY <1>1, <2>1 DEF Desk
  <2>3. desk' = [desk EXCEPT !.tabs = tabs]
    BY <1>1, <2>1 DEF Desk
  <2> HIDE DEF tabs
  <2>4. /\ desk' \in Desk /\ desk'.servers = desk.servers /\ desk'.order = desk.order
        /\ desk'.view = desk.view /\ desk'.primary = desk.primary /\ desk'.tabs = tabs
        /\ desk'.nextServer = desk.nextServer /\ desk'.nextView = desk.nextView
        /\ desk'.current = desk.current /\ desk'.active = desk.active
        /\ desk'.visible = desk.visible /\ desk'.errored = desk.errored
    BY <1>1, <2>2, <2>3 DEF Desk
  <2>5. ASSUME ~moved' PROVE Sound(desk')
    <3>1. Sound(desk) /\ IsInjective(q) /\ ToSet(desk.tabs[s]) = ToSet(q)
      BY <2>1, <2>5 DEF ViewsIInv
    <3>2. Live(desk') = Live(desk) /\ \A t : TabViews(desk', t) = TabViews(desk, t)
      BY <2>4 DEF Live, TabViews
    <3>3. desk.tabs[s] = <<>> => q = <<>>
      <4>1. ToSet(<<>>) = {}
        BY DEF ToSet
      <4>2. q # <<>> => q[1] \in ToSet(q)
        BY <2>1 DEF ToSet
      <4> QED
        BY <3>1, <4>1, <4>2
    <3>4. Counted(desk')
      BY <2>2, <2>4, <3>1, <3>2, <3>3 DEF Counted, Sound, SoundBut, KeptBut
    <3>5. \A t \in desk.servers : ServerSound(desk', t)
      <4> SUFFICES ASSUME NEW t \in desk.servers PROVE ServerSound(desk', t)
        OBVIOUS
      <4>1. ServerSound(desk, t) /\ t \in Server
        BY <1>1, <3>1 DEF Sound, SoundBut, KeptBut, Desk
      <4>2. IsInjective(tabs[t]) /\ ToSet(tabs[t]) = ToSet(desk.tabs[t])
        BY <2>2, <3>1, <4>1 DEF ServerSound
      <4> QED
        BY <2>4, <3>2, <4>1, <4>2 DEF ServerSound
    <3>6. Shown(desk')
      BY <2>4, <3>1, <3>2 DEF Shown, Sound, SoundBut
    <3> QED
      BY <2>4, <3>1, <3>2, <3>4, <3>5, <3>6 DEF Sound, SoundBut, KeptBut
  <2> QED
    BY <2>1, <2>4, <2>5 DEF ViewsIInv
<1>4. CASE drag.kind = "servers"
  <2> DEFINE order == Among(drag.list, desk.servers \ Predefined)
  <2>1. /\ drag.list \in Seq(Server) /\ desk' = [desk EXCEPT !.order = order]
        /\ moved' = (moved \/ ToSet(desk.order) # ToSet(drag.list))
    BY <1>1, <1>4 DEF ListArrives, DragKey
  <2>2. order \in Seq(Server) /\ ToSet(order) \subseteq desk.servers
    BY <2>1, AmongKeeps
  <2> HIDE DEF order
  <2>3. /\ desk' \in Desk /\ desk'.servers = desk.servers /\ desk'.order = order
        /\ desk'.view = desk.view /\ desk'.primary = desk.primary /\ desk'.tabs = desk.tabs
        /\ desk'.nextServer = desk.nextServer /\ desk'.nextView = desk.nextView
        /\ desk'.current = desk.current /\ desk'.active = desk.active
        /\ desk'.visible = desk.visible /\ desk'.errored = desk.errored
    BY <1>1, <2>1, <2>2 DEF Desk
  <2>4. ASSUME ~moved' PROVE Sound(desk')
    <3>1. Sound(desk)
      BY <2>1, <2>4 DEF ViewsIInv
    <3>2. Live(desk') = Live(desk) /\ \A t : TabViews(desk', t) = TabViews(desk, t)
      BY <2>3 DEF Live, TabViews
    <3>3. Counted(desk') /\ Shown(desk')
      BY <2>3, <3>1, <3>2 DEF Counted, Shown, Sound, SoundBut, KeptBut
    <3>4. \A t \in desk.servers : ServerSound(desk', t)
      BY <2>3, <3>1, <3>2 DEF ServerSound, Sound, SoundBut, KeptBut
    <3> QED
      BY <2>2, <2>3, <3>1, <3>2, <3>3, <3>4 DEF Sound, SoundBut, KeptBut
  <2> QED
    BY <2>1, <2>3, <2>4 DEF ViewsIInv
<1> QED
  BY <1>1, <1>3, <1>4

LEMMA ViewsIInvStep ==
  ViewsIInv /\ [ViewsNext]_viewsVars => ViewsIInv'
<1> SUFFICES ASSUME ViewsIInv, [ViewsNext]_viewsVars PROVE ViewsIInv'
  OBVIOUS
<1>1. ASSUME \E d : (~moved => Sound(d)) /\ Becomes(d) PROVE ViewsIInv'
  BY <1>1, BecomesKeeps
<1>2. ASSUME NEW v \in View, LoadFails(v) PROVE ViewsIInv'
  BY <1>2, LoadFailsKeeps
<1>3. CASE TabIsDragged \/ ServerIsDragged
  BY <1>3, DragKeeps
<1>4. CASE ListArrives
  BY <1>4, ListArrivesKeeps
<1>5. CASE UNCHANGED viewsVars
  BY <1>5 DEF viewsVars, ViewsIInv, DragKey, Sound, SoundBut, KeptBut, Shown, Counted, Live,
              TabViews, ServerSound
<1>6. ASSUME \/ ServerIsAdded
             \/ \E s \in Server : ServerOperation(s)
             \/ \E v \in View : ViewOperation(v)
      PROVE  ViewsIInv'
  <2>1. CASE moved
    <3>1. \E d : Becomes(d)
      BY <1>6 DEF ServerOperation, ViewOperation,
                  ServerIsAdded, ServerIsRemoved, ServerIsReloaded, ServerIsChosen, TabIsOpened,
                  LoginChanges, PopoutIsOpened, TabIsChosen, ViewIsMoved, ViewIsClosed,
                  LinkIsFollowed, Reload
    <3> QED
      BY <2>1, <3>1 DEF Becomes
  <2>2. CASE ~moved
    <3>1. Sound(desk)
      BY <2>2 DEF ViewsIInv
    <3>2. \E d : Sound(d) /\ Becomes(d)
      BY <1>6, <3>1, OperationSound
    <3> QED
      BY <1>1, <3>2
  <2> QED
    BY <2>1, <2>2
<1> QED
  BY <1>2, <1>3, <1>4, <1>5, <1>6 DEF ViewsNext, ServerOperation, ViewOperation

\* The inductive invariant holds in every state of the servers, views and tabs.
THEOREM ViewsIInvAlways == ViewsSpec => []ViewsIInv
<1>1. ViewsInit => ViewsIInv
  BY ViewsIInvInit
<1>2. ViewsIInv /\ [ViewsNext]_viewsVars => ViewsIInv'
  BY ViewsIInvStep
<1> QED
  BY <1>1, <1>2, PTL DEF ViewsSpec

\* The main window displays the active tab of the current server (setActiveTab and all that
\* calls it), for any number of servers and views and any limit of open tabs.
THEOREM ShownIsActiveAlways == ViewsSpec => []ShownIsActive
<1>1. ViewsIInv => ShownIsActive
  <2> SUFFICES ASSUME Sound(desk), desk.current # 0, TabViews(desk, desk.current) # {}
               PROVE  LET a == desk.active[desk.current]
                      IN  /\ a \in TabViews(desk, desk.current)
                          /\ desk.visible = IF a \in desk.errored THEN 0 ELSE a
    BY DEF ViewsIInv, ShownIsActive
  <2>1. desk.current \in desk.servers /\ ServerSound(desk, desk.current) /\ Shown(desk)
    BY DEF Sound, SoundBut, KeptBut
  <2> QED
    BY <2>1 DEF ServerSound, Shown
<1> QED
  BY <1>1, ViewsIInvAlways, PTL

\* Tab bars, primary views and parents refer to views that exist, and each tab is listed
\* once (setupTab, unregisterTab, setNewPrimaryViewIfNeeded, removeView).
THEOREM ReferencesLiveAlways == ViewsSpec => []ReferencesLive
<1>1. ViewsIInv => ReferencesLive
  <2> SUFFICES ASSUME Sound(desk)
               PROVE  /\ \A s \in desk.servers :
                          /\ IsInjective(desk.tabs[s]) /\ ToSet(desk.tabs[s]) = TabViews(desk, s)
                          /\ TabViews(desk, s) # {} => desk.primary[s] \in TabViews(desk, s)
                      /\ \A v \in Live(desk) : desk.view[v].parent \in Live(desk) \cup {0}
    BY DEF ViewsIInv, ReferencesLive
  <2>1. /\ \A s \in desk.servers : ServerSound(desk, s)
        /\ \A v \in Live(desk) : desk.view[v].server \in desk.servers
    BY DEF Sound, SoundBut, KeptBut, Counted
  <2> QED
    BY <2>1 DEF ServerSound
<1> QED
  BY <1>1, ViewsIInvAlways, PTL

\* The maps of the managers keep their types.
THEOREM ViewsTyped == ViewsSpec => []ViewsTypeOK
<1>1. ViewsIInv => ViewsTypeOK
  <2> SUFFICES ASSUME ViewsIInv PROVE ViewsTypeOK
    OBVIOUS
  <2>1. desk \in Desk /\ moved \in BOOLEAN /\ drag.kind \in {"none", "tabs", "servers"}
    BY DEF ViewsIInv, DragKey, NoDrag
  <2>2. /\ ToSet(desk.order) \subseteq Server
        /\ \A s \in Server : ToSet(desk.tabs[s]) \subseteq View
    <3>1. \A K, q : q \in Seq(K) => ToSet(q) \subseteq K
      BY DEF ToSet
    <3> QED
      BY <2>1, <3>1 DEF Desk
  <2> QED
    BY <2>1, <2>2 DEF ViewsTypeOK, Desk, ViewRecord
<1> QED
  BY <1>1, ViewsIInvAlways, PTL

---------------------------------------------------------------------------
(* The types of the window of a call *)

WindowType ==
    [shows : [Win -> Calls \cup {None}], made : 0..MaxWins, closing : SUBSET Win,
     win : 0..MaxWins, view : Views \cup {None}, call : Calls \cup {None}, joins : Seq(Join)]
ControlType ==
    [allowed : BOOLEAN, asked : SUBSET Win, queue : Seq(Event), processing : BOOLEAN,
     runs : SUBSET Event, sent : 0..MaxEvents]
WidgetTyped ==
    /\ wd \in WindowType /\ rc \in ControlType
    /\ gone \subseteq Views /\ approved \subseteq Win

\* The joins that go on make windows of their calls, as many as are left.
LEMMA OpenAllTyped ==
  ASSUME NEW d \in WindowType, NEW js \in Seq(Join), d.made + Len(js) <= MaxWins
  PROVE  OpenAll(d, js) \in WindowType
<1> DEFINE open == Among(js, {j \in Join : j.view \notin gone})
           n == Len(open)
           shown == [w \in Win |-> IF w \in (d.made + 1)..(d.made + n)
                                   THEN open[w - d.made].call ELSE d.shows[w]]
           view == open[n].view
           call == open[n].call
           made == d.made + n
<1>1. OpenAll(d, js) = IF n = 0 THEN d
                       ELSE [d EXCEPT !.made = made, !.win = made, !.view = view,
                                      !.call = call, !.shows = shown]
  BY DEF OpenAll
<1>2. open \in Seq(Join) /\ n \in Nat /\ n <= Len(js)
  BY AmongKeeps, AmongShorter
<1> HIDE DEF open
<1>3. \A k \in 1..n : open[k].view \in Views /\ open[k].call \in Calls
  <2>1. \A k \in 1..n : open[k] \in Join
    BY <1>2
  <2> QED
    BY <2>1 DEF Join
<1>4. d.made \in Nat /\ Len(js) \in Nat /\ MaxWins \in Nat
  BY WidgetAssumption DEF WindowType
<1>5. made \in 0..MaxWins
  BY <1>2, <1>4
<1>6. n # 0 => view \in Views /\ call \in Calls
  BY <1>2, <1>3
<1>7. shown \in [Win -> Calls \cup {None}]
  <2> SUFFICES ASSUME NEW w \in Win
               PROVE  shown[w] \in Calls \cup {None}
    OBVIOUS
  <2>1. CASE w \in (d.made + 1)..(d.made + n)
    <3>1. w - d.made \in 1..n
      BY <1>2, <1>4, <2>1 DEF Win
    <3> QED
      BY <1>3, <2>1, <3>1
  <2>2. CASE w \notin (d.made + 1)..(d.made + n)
    BY <2>2 DEF WindowType
  <2> QED
    BY <2>1, <2>2
<1> HIDE DEF n, shown, view, call, made
<1> QED
  BY <1>1, <1>5, <1>6, <1>7 DEF WindowType

LEMMA CloseTyped ==
  ASSUME NEW d \in WindowType
  PROVE  Close(d) \in WindowType
<1> DEFINE shut == IF d.win = 0 THEN d.closing ELSE d.closing \cup {d.win}
<1>1. Close(d) = [d EXCEPT !.closing = shut]
  BY DEF Close
<1>2. shut \subseteq Win
  BY DEF WindowType, Win
<1> HIDE DEF shut
<1> QED
  BY <1>1, <1>2 DEF WindowType

\* The queue is emptied.
LEMMA EmptiedTyped ==
  ASSUME NEW r \in ControlType, NEW s,
         NEW allowed \in BOOLEAN, NEW processing \in BOOLEAN,
         s = [r EXCEPT !.allowed = allowed, !.queue = <<>>, !.processing = processing]
  PROVE  s \in ControlType
<1> DEFINE none == <<>>
<1>1. none \in Seq(Event)
  OBVIOUS
<1>2. s = [r EXCEPT !.allowed = allowed, !.queue = none, !.processing = processing]
  OBVIOUS
<1> HIDE DEF none
<1> QED
  BY <1>1, <1>2 DEF ControlType

LEMMA TurnTyped ==
  ASSUME NEW r \in ControlType
  PROVE  Turn(r) \in ControlType
<1> DEFINE left == Tail(r.queue)
           runs == r.runs \cup {Head(r.queue)}
<1>1. Turn(r) = IF r.queue = <<>> THEN [r EXCEPT !.processing = FALSE]
                ELSE IF ~r.allowed THEN [r EXCEPT !.queue = <<>>, !.processing = FALSE]
                ELSE [r EXCEPT !.queue = left, !.processing = TRUE, !.runs = runs]
  BY DEF Turn
<1>2. r.queue \in Seq(Event) /\ r.runs \subseteq Event
  BY DEF ControlType
<1>3. r.queue # <<>> => left \in Seq(Event) /\ runs \subseteq Event
  BY <1>2
<1> HIDE DEF left, runs
<1>4. CASE r.queue = <<>>
  BY <1>1, <1>4 DEF ControlType
<1>5. CASE r.queue # <<>> /\ ~r.allowed
  <2>1. Turn(r) = [r EXCEPT !.allowed = FALSE, !.queue = <<>>, !.processing = FALSE]
    BY <1>1, <1>5 DEF ControlType
  <2> QED
    BY <2>1, EmptiedTyped
<1>6. CASE r.queue # <<>> /\ r.allowed
  BY <1>1, <1>3, <1>6 DEF ControlType
<1> QED
  BY <1>4, <1>5, <1>6

LEMMA WindowTyped ==
  ASSUME WidgetTyped,
         \/ CallsLeave \/ \E v \in Views : ViewRemoved(v) \/ \E c \in Calls : JoinCall(v, c)
  PROVE  WidgetTyped'
<1>1. ASSUME NEW v \in Views, NEW c \in Calls, JoinCall(v, c)
      PROVE  WidgetTyped'
  <2> DEFINE d == IF wd.view # None /\ (wd.view \in gone \/ wd.win = 0)
                  THEN [wd EXCEPT !.view = None, !.call = None] ELSE wd
             join == [view |-> v, call |-> c, on |-> wd.win]
             waits == [Close(d) EXCEPT !.joins = Append(@, join)]
  <2>1. /\ wd' = d \/ (wd.win = 0 /\ wd' = OpenAll(d, <<join>>)) \/ wd' = waits
        /\ UNCHANGED <<gone, rc, approved>>
        /\ wd.win = 0 => wd.made + 1 <= MaxWins
    BY <1>1 DEF JoinCall, WindowsLeft, widgetHistory, WidgetTyped, WindowType
  <2>2. d \in WindowType /\ d.made = wd.made
    BY DEF WidgetTyped, WindowType
  <2>3. join \in Join
    BY DEF Join, WidgetTyped, WindowType
  <2> HIDE DEF d, join
  <2>4. wd.win = 0 => OpenAll(d, <<join>>) \in WindowType
    <3>1. <<join>> \in Seq(Join) /\ Len(<<join>>) = 1
      BY <2>3
    <3> QED
      BY <2>1, <2>2, <3>1, OpenAllTyped
  <2>5. waits \in WindowType
    <3> DEFINE shut == Close(d)
               joins == Append(shut.joins, join)
    <3>1. shut \in WindowType
      BY <2>2, CloseTyped
    <3>2. waits = [shut EXCEPT !.joins = joins]
      OBVIOUS
    <3> HIDE DEF shut
    <3>3. joins \in Seq(Join)
      BY <2>3, <3>1 DEF WindowType
    <3> HIDE DEF joins, waits
    <3> QED
      BY <3>1, <3>2, <3>3 DEF WindowType
  <2> QED
    BY <2>1, <2>2, <2>4, <2>5 DEF WidgetTyped
<1>2. ASSUME NEW v \in Views, ViewRemoved(v)
      PROVE  WidgetTyped'
  <2>1. wd' \in {wd, Close(wd)} \/ \E u \in Views : wd' = [wd EXCEPT !.view = u]
    BY <1>2 DEF ViewRemoved
  <2>2. wd' \in WindowType
    BY <2>1, CloseTyped DEF WidgetTyped, WindowType
  <2> QED
    BY <1>2, <2>2 DEF ViewRemoved, WidgetTyped, widgetHistory
<1>3. CASE CallsLeave
  BY <1>3, CloseTyped DEF CallsLeave, WidgetTyped, widgetHistory
<1> QED
  BY <1>1, <1>2, <1>3

LEMMA ClosedTyped ==
  ASSUME WidgetTyped, NEW w \in Win, Closed(w)
  PROVE  WidgetTyped'
<1> DEFINE next == Among(wd.joins, {j \in Join : j.on = w})
           kept == Among(wd.joins, {j \in Join : j.on # w})
           shown == [wd.shows EXCEPT ![w] = None]
           d == [wd EXCEPT !.shows = shown, !.closing = @ \ {w}, !.win = 0, !.view = None,
                           !.call = None, !.joins = kept]
<1>1. /\ wd' = OpenAll(d, next) /\ WindowsLeft(next)
      /\ rc' = [rc EXCEPT !.allowed = FALSE, !.queue = <<>>, !.processing = FALSE]
      /\ UNCHANGED <<gone, approved>>
  BY DEF Closed, WidgetTyped, WindowType
<1>2. wd.joins \in Seq(Join)
  BY DEF WidgetTyped, WindowType
<1>3. next \in Seq(Join) /\ kept \in Seq(Join)
  BY <1>2, AmongKeeps
<1>4. shown \in [Win -> Calls \cup {None}]
  BY DEF WidgetTyped, WindowType
<1> HIDE DEF next, kept, shown
<1> DEFINE closing == wd.closing \ {w}
<1>5. d \in WindowType /\ d.made = wd.made
  <2>1. closing \subseteq Win /\ 0 \in 0..MaxWins /\ None \in Views \cup {None}
        /\ None \in Calls \cup {None}
    BY WidgetAssumption DEF WidgetTyped, WindowType
  <2>2. d = [wd EXCEPT !.shows = shown, !.closing = closing, !.win = 0, !.view = None,
                       !.call = None, !.joins = kept]
    BY DEF WidgetTyped, WindowType
  <2> HIDE DEF closing, d
  <2> QED
    BY <1>3, <1>4, <2>1, <2>2 DEF WidgetTyped, WindowType
<1> HIDE DEF d
<1>6. wd' \in WindowType
  BY <1>1, <1>3, <1>5, OpenAllTyped DEF WindowsLeft
<1>7. rc' \in ControlType
  BY <1>1, EmptiedTyped DEF WidgetTyped
<1> QED
  BY <1>1, <1>6, <1>7 DEF WidgetTyped

LEMMA ControlTyped ==
  ASSUME WidgetTyped,
         \/ AskControl \/ Terminate \/ HandleShareScreen
         \/ \E w \in Win, yes \in BOOLEAN : AnswerControl(w, yes)
  PROVE  WidgetTyped'
<1> USE DEF WidgetTyped, ControlStep, widgetHistory
<1>1. CASE AskControl
  <2>1. wd.win \in Win
    BY <1>1 DEF AskControl, WindowType, Win
  <2> QED
    BY <1>1, <2>1 DEF AskControl, ControlType
<1>2. CASE Terminate \/ HandleShareScreen
  <2>1. \E allowed, processing \in BOOLEAN :
          rc' = [rc EXCEPT !.allowed = allowed, !.queue = <<>>, !.processing = processing]
    <3>1. CASE Terminate
      <4>1. rc' = [rc EXCEPT !.allowed = FALSE, !.queue = <<>>, !.processing = rc.processing]
        BY <3>1 DEF Terminate, ControlType
      <4>2. rc.processing \in BOOLEAN
        BY DEF ControlType
      <4> QED
        BY <4>1, <4>2
    <3>2. CASE HandleShareScreen
      <4>1. rc' = [rc EXCEPT !.allowed = rc.allowed, !.queue = <<>>, !.processing = FALSE]
        BY <3>2 DEF HandleShareScreen, ControlType
      <4>2. rc.allowed \in BOOLEAN
        BY DEF ControlType
      <4> QED
        BY <4>1, <4>2
    <3> QED
      BY <1>2, <3>1, <3>2
  <2>2. rc' \in ControlType
    BY <2>1, EmptiedTyped
  <2> QED
    BY <1>2, <2>2 DEF Terminate, HandleShareScreen
<1>3. ASSUME NEW w \in Win, NEW yes \in BOOLEAN, AnswerControl(w, yes)
      PROVE  WidgetTyped'
  <2> DEFINE allowed == rc.allowed \/ yes
  <2>1. rc' = [rc EXCEPT !.asked = @ \ {w}, !.allowed = allowed]
    BY <1>3 DEF AnswerControl, ControlType
  <2>2. allowed \in BOOLEAN
    BY DEF ControlType
  <2> HIDE DEF allowed
  <2> QED
    BY <1>3, <2>1, <2>2 DEF AnswerControl, ControlType
<1> QED
  BY <1>1, <1>2, <1>3

LEMMA EventsTyped ==
  ASSUME WidgetTyped, (\E press \in BOOLEAN : SendEvent(press)) \/ Processor
  PROVE  WidgetTyped'
<1> USE DEF WidgetTyped, ControlStep, widgetHistory
<1>1. ASSUME NEW press \in BOOLEAN, SendEvent(press)
      PROVE  WidgetTyped'
  <2> DEFINE e == [n |-> rc.sent + 1, press |-> press, at |-> "move"]
             q == rc.queue
             coalesced == ~press /\ q # <<>> /\ ~Last(q).press
             new == IF coalesced THEN Append(Front(q), e) ELSE Append(q, e)
             n == rc.sent + 1
             r == [rc EXCEPT !.sent = n, !.queue = new]
  <2>1. rc' \in {r, Turn(r)} /\ UNCHANGED <<wd, gone, approved>> /\ rc.sent < MaxEvents
    BY <1>1 DEF SendEvent
  <2>2. e \in Event /\ n \in 0..MaxEvents
    BY <2>1, WidgetAssumption DEF ControlType, Event
  <2>3. q \in Seq(Event)
    BY DEF ControlType
  <2>4. q # <<>> => Front(q) \in Seq(Event)
    BY <2>3 DEF Front
  <2> HIDE DEF e
  <2>5. new \in Seq(Event)
    BY <2>2, <2>3, <2>4
  <2> HIDE DEF new, n
  <2>6. r \in ControlType
    BY <2>2, <2>5 DEF ControlType
  <2> HIDE DEF r
  <2> QED
    BY <2>1, <2>6, TurnTyped
<1>2. ASSUME NEW e \in Event, MouseMoved(e)
      PROVE  WidgetTyped'
  <2> DEFINE f == [e EXCEPT !.at = IF e.press /\ rc.allowed THEN "press" ELSE "end"]
             runs == (rc.runs \ {e}) \cup {f}
  <2>1. rc' = [rc EXCEPT !.runs = runs]
    BY <1>2 DEF MouseMoved
  <2>2. f \in Event
    BY DEF Event
  <2>3. runs \subseteq Event
    BY <2>2 DEF ControlType
  <2> HIDE DEF runs
  <2> QED
    BY <1>2, <2>1, <2>3 DEF MouseMoved, ControlType
<1>3. ASSUME NEW e \in Event, EventEnds(e)
      PROVE  WidgetTyped'
  <2> DEFINE r == [rc EXCEPT !.runs = @ \ {e}]
  <2>1. r \in ControlType
    BY DEF ControlType
  <2> HIDE DEF r
  <2>2. rc' = Turn(r)
    BY <1>3 DEF EventEnds, r
  <2> QED
    BY <1>3, <2>1, <2>2, TurnTyped DEF EventEnds
<1> QED
  BY <1>1, <1>2, <1>3 DEF Processor

\* The window, the joins that wait for one to be closed, and the queue of remote control
\* keep their types (callsWidgetWindow.ts).
THEOREM WidgetTypedAlways == WidgetSpec => []WidgetTypeOK
<1>1. WidgetInit => WidgetTyped
  <2> SUFFICES ASSUME WidgetInit PROVE WidgetTyped
    OBVIOUS
  <2>1. wd \in WindowType
    BY WidgetAssumption DEF WidgetInit, WindowType
  <2>2. rc \in ControlType
    BY WidgetAssumption DEF WidgetInit, ControlType
  <2> QED
    BY <2>1, <2>2 DEF WidgetInit, WidgetTyped
<1>2. WidgetTyped /\ [WidgetNext]_widgetVars => WidgetTyped'
  <2> SUFFICES ASSUME WidgetTyped, [WidgetNext]_widgetVars PROVE WidgetTyped'
    OBVIOUS
  <2>1. CASE UNCHANGED widgetVars
    BY <2>1 DEF widgetVars, widgetHistory, WidgetTyped
  <2>2. CASE WidgetNext
    BY <2>2, WindowTyped, ClosedTyped, ControlTyped, EventsTyped DEF WidgetNext
  <2> QED
    BY <2>1, <2>2
<1>3. WidgetTyped => WidgetTypeOK
  BY DEF WidgetTyped, WidgetTypeOK, WindowType, ControlType
<1> QED
  BY <1>1, <1>2, <1>3, PTL DEF WidgetSpec

---------------------------------------------------------------------------
(* The types of the downloads *)

EntryType ==
    [key : Key, at : 0..MaxStarted + 1,
     st : {"progressing", "interrupted", "completed", "cancelled", "deleted", "available"}]

\* An item that has been chosen has a file, which the update has not.
ItemsTyped ==
    /\ items \in [Item -> ItemType] /\ started \in 0..MaxStarted
    /\ \A i \in Item : items[i].st # "none" => items[i].file \in Files
ListTyped ==
    /\ downloads \subseteq EntryType
    /\ progressing \subseteq Item /\ saving \subseteq Item /\ dropped \subseteq Files
DownloadsTyped == ItemsTyped /\ ListTyped /\ isOpen \in BOOLEAN /\ timer \in BOOLEAN

LEMMA FindTyped ==
  ASSUME ListTyped, NEW key, Has(key)
  PROVE  Find(key) \in EntryType /\ Find(key).key = key
<1>1. \E e \in downloads : e.key = key
  BY DEF Has
<1>2. Find(key) \in downloads /\ Find(key).key = key
  BY <1>1 DEF Find
<1> QED
  BY <1>2 DEF ListTyped

LEMMA PutTyped ==
  ASSUME ListTyped, NEW e \in EntryType
  PROVE  Put(downloads, e) \subseteq EntryType
BY DEF ListTyped, Put, Without

LEMMA UpsertTyped ==
  ASSUME ItemsTyped, ListTyped, NEW i \in Item, NEW st \in {"progressing", "interrupted", "completed", "cancelled"},
         Upsert(i, st)
  PROVE  downloads' \subseteq EntryType
<1>1. Entry(items[i].file, st, i) \in EntryType
  BY DownloadsAssumption DEF ItemsTyped, ItemType, Entry, EntryType, Item
<1>2. downloads' \subseteq Put(downloads, Entry(items[i].file, st, i))
  BY TrimmedRemoves DEF Upsert
<1> QED
  BY <1>1, <1>2, PutTyped

LEMMA ProgressTyped ==
  ASSUME progressing \subseteq Item, NEW i \in Item
  PROVE  Progresses(i) \subseteq Item /\ Forget(i) \subseteq Item
BY DEF Progresses, Forget

\* An item changes its state.
LEMMA ItemTyped ==
  ASSUME ItemsTyped, NEW i \in Item, items[i].st # "none", NEW st \in {"live", "ended"},
         items' = [items EXCEPT ![i].st = st], UNCHANGED started
  PROVE  ItemsTyped'
<1>1. items' \in [Item -> ItemType] /\ items'[i].file = items[i].file
  BY DEF ItemsTyped, ItemType
<1>2. \A j \in Item : j # i => items'[j] = items[j]
  BY DEF ItemsTyped
<1> QED
  BY <1>1, <1>2 DEF ItemsTyped

LEMMA ChooseTyped ==
  ASSUME DownloadsTyped, NEW f \in Files, Choose(f)
  PROVE  DownloadsTyped'
<1>1. started + 1 \in Item /\ started' = started + 1 /\ started' \in 0..MaxStarted
  BY DownloadsAssumption DEF Choose, Item, DownloadsTyped, ItemsTyped
<1>2. items' = [items EXCEPT ![started + 1] = [file |-> f, st |-> "chosen"]]
  BY DEF Choose
<1>3. items' \in [Item -> ItemType] /\ \A i \in Item : items'[i].st # "none" => items'[i].file \in Files
  BY <1>1, <1>2 DEF DownloadsTyped, ItemsTyped, ItemType, Key
<1> QED
  BY <1>1, <1>3 DEF Choose, DownloadsTyped, ItemsTyped, ListTyped

LEMMA RecordedTyped ==
  ASSUME DownloadsTyped, NEW i \in Item, NEW st \in {"completed", "cancelled", "interrupted"},
         Recorded(i, st)
  PROVE  /\ downloads' \subseteq EntryType /\ progressing' \subseteq Item
         /\ isOpen' \in BOOLEAN /\ timer' \in BOOLEAN
<1>1. downloads' \subseteq EntryType
  BY UpsertTyped DEF Recorded, DownloadsTyped
<1>2. progressing' \subseteq Item
  BY ProgressTyped DEF Recorded, DownloadsTyped, ListTyped
<1>3. isOpen' \in BOOLEAN /\ timer' \in BOOLEAN
  BY Zenon DEF Recorded, DownloadsTyped
<1> QED
  BY <1>1, <1>2, <1>3

LEMMA EventTyped ==
  ASSUME DownloadsTyped, NEW i \in Item
  PROVE  /\ NewDownload(i) => DownloadsTyped'
         /\ \A st \in {"progressing", "interrupted"} : Updated(i, st) => DownloadsTyped'
         /\ \A st \in {"completed", "cancelled", "interrupted"} : Done(i, st) => DownloadsTyped'
         /\ ThumbnailMade(i) => DownloadsTyped'
<1>1. CASE NewDownload(i)
  <2>1. ItemsTyped'
    BY <1>1, ItemTyped DEF NewDownload, DownloadsTyped
  <2>2. downloads' \subseteq EntryType
    BY <1>1, UpsertTyped DEF NewDownload, DownloadsTyped
  <2> QED
    BY <1>1, <2>1, <2>2, ProgressTyped DEF NewDownload, DownloadsTyped, ListTyped, OpenDropdown
<1>2. ASSUME NEW st \in {"progressing", "interrupted"}, Updated(i, st)
      PROVE  DownloadsTyped'
  <2>1. ItemsTyped'
    BY <1>2 DEF Updated, DownloadsTyped, ItemsTyped
  <2>2. downloads' \subseteq EntryType
    BY <1>2, UpsertTyped DEF Updated, DownloadsTyped
  <2> QED
    BY <1>2, <2>1, <2>2, ProgressTyped DEF Updated, DownloadsTyped, ListTyped
<1>3. ASSUME NEW st \in {"completed", "cancelled", "interrupted"}, Done(i, st)
      PROVE  DownloadsTyped'
  <2>1. ItemsTyped'
    BY <1>3, ItemTyped DEF Done, Running, DownloadsTyped
  <2>2. items[i].file \in Files
    BY <1>3 DEF Done, Running, DownloadsTyped, ItemsTyped
  <2>3. CASE Recorded(i, st) /\ UNCHANGED <<saving, dropped>>
    BY <2>1, <2>3, RecordedTyped DEF DownloadsTyped, ListTyped
  <2>4. CASE ~(Recorded(i, st) /\ UNCHANGED <<saving, dropped>>)
    <3>1. /\ UNCHANGED <<downloads, progressing, isOpen, timer>>
          /\ saving' \in {saving, saving \cup {i}}
          /\ dropped' \in {dropped, dropped \cup {items[i].file}}
      BY <1>3, <2>4 DEF Done
    <3> QED
      BY <2>1, <2>2, <3>1 DEF DownloadsTyped, ListTyped
  <2> QED
    BY <2>3, <2>4
<1>4. CASE ThumbnailMade(i)
  <2>1. ItemsTyped' /\ saving' \subseteq Item /\ dropped' = dropped
    BY <1>4 DEF ThumbnailMade, DownloadsTyped, ItemsTyped, ListTyped
  <2> QED
    BY <1>4, <2>1, RecordedTyped DEF ThumbnailMade, DownloadsTyped, ListTyped
<1> QED
  BY <1>1, <1>2, <1>3, <1>4

\* The steps that start and end no item.
LEMMA ListedTyped ==
  ASSUME DownloadsTyped, UNCHANGED <<items, started, saving, dropped>>,
         downloads' \subseteq EntryType, progressing' \subseteq progressing,
         isOpen' \in BOOLEAN, timer' \in BOOLEAN
  PROVE  DownloadsTyped'
BY DEF DownloadsTyped, ItemsTyped, ListTyped

LEMMA UserTyped ==
  ASSUME DownloadsTyped,
         \/ ClearAll \/ CancelUpdate \/ Toggle \/ AutoClose
         \/ \E i \in Item : CancelDownload(i)
         \/ \E f \in Files : ClearFile(f) \/ MarkDeleted(f)
  PROVE  DownloadsTyped'
<1>1. isOpen' \in BOOLEAN /\ timer' \in BOOLEAN
  BY Zenon DEF DownloadsTyped, ClearAll, CancelUpdate, Toggle, AutoClose, CancelDownload, ClearFile,
     MarkDeleted, CloseIfEmpty, CloseDropdown
<1>2. progressing' \subseteq progressing
  BY DEF ClearAll, CancelUpdate, Toggle, AutoClose, CancelDownload, ClearFile, MarkDeleted, Forget
<1>3. UNCHANGED <<items, started, saving, dropped>>
  BY DEF ClearAll, CancelUpdate, Toggle, AutoClose, CancelDownload, ClearFile, MarkDeleted, Listed
<1>4. downloads' \subseteq EntryType
  <2>1. CASE CancelUpdate
    <3>1. [Find(Update) EXCEPT !.st = "cancelled"] \in EntryType
      BY <2>1, FindTyped DEF CancelUpdate, DownloadsTyped, EntryType
    <3> QED
      BY <2>1, <3>1, PutTyped DEF CancelUpdate, DownloadsTyped, Listed
  <2>2. ASSUME NEW f \in Files, MarkDeleted(f)
        PROVE  downloads' \subseteq EntryType
    <3>1. [Find(f) EXCEPT !.st = "deleted"] \in EntryType
      BY <2>2, FindTyped DEF MarkDeleted, DownloadsTyped, EntryType
    <3> QED
      BY <2>2, <3>1, PutTyped DEF MarkDeleted, DownloadsTyped, Listed
  <2>3. CASE \/ ClearAll \/ Toggle \/ AutoClose
             \/ \E i \in Item : CancelDownload(i)
             \/ \E f \in Files : ClearFile(f)
    <3>1. downloads' \subseteq downloads
      BY <2>3 DEF ClearAll, Toggle, AutoClose, CancelDownload, ClearFile, Listed, Without
    <3> QED
      BY <3>1 DEF DownloadsTyped, ListTyped
  <2> QED
    BY <2>1, <2>2, <2>3
<1> QED
  BY <1>1, <1>2, <1>3, <1>4, ListedTyped

LEMMA UpdaterTyped ==
  ASSUME DownloadsTyped, UpdateAvailable \/ UpdateProgress \/ UpdateDownloaded \/ NoUpdate
  PROVE  DownloadsTyped'
<1>1. isOpen' \in BOOLEAN /\ timer' \in BOOLEAN
  BY Zenon DEF DownloadsTyped, UpdateAvailable, UpdateProgress, UpdateDownloaded, NoUpdate, UpdateEvent,
     OpenDropdown, CloseIfEmpty, CloseDropdown
<1>2. progressing' = progressing /\ UNCHANGED <<items, started, saving, dropped>>
  BY DEF UpdateAvailable, UpdateProgress, UpdateDownloaded, NoUpdate, UpdateEvent
<1>3. Update \in Key /\ 0 \in 0..MaxStarted + 1 /\ started + 1 \in 0..MaxStarted + 1
  BY DownloadsAssumption DEF Key, DownloadsTyped, ItemsTyped
<1>4. downloads' \subseteq EntryType
  <2>1. CASE UpdateAvailable
    <3>1. Entry(Update, "available", 0) \in EntryType
      BY <1>3 DEF Entry, EntryType
    <3> QED
      BY <2>1, <3>1, PutTyped DEF UpdateAvailable, DownloadsTyped
  <2>2. CASE UpdateProgress
    <3> DEFINE at == IF Has(Update) /\ Find(Update).at > 0 THEN Find(Update).at ELSE started + 1
    <3>1. at \in 0..MaxStarted + 1
      BY <1>3, FindTyped DEF DownloadsTyped, EntryType
    <3>2. downloads' = Put(downloads, Entry(Update, "progressing", at))
      BY <2>2 DEF UpdateProgress
    <3> HIDE DEF at
    <3>3. Entry(Update, "progressing", at) \in EntryType
      BY <1>3, <3>1 DEF Entry, EntryType
    <3> QED
      BY <3>2, <3>3, PutTyped DEF DownloadsTyped
  <2>3. CASE UpdateDownloaded
    <3>1. [Find(Update) EXCEPT !.st = "completed"] \in EntryType
      BY <2>3, FindTyped DEF UpdateDownloaded, DownloadsTyped, EntryType
    <3> QED
      BY <2>3, <3>1, PutTyped DEF UpdateDownloaded, DownloadsTyped
  <2>4. CASE NoUpdate
    BY <2>4 DEF NoUpdate, Without, DownloadsTyped, ListTyped
  <2> QED
    BY <2>1, <2>2, <2>3, <2>4
<1> QED
  BY <1>1, <1>2, <1>4, ListedTyped

LEMMA RestartTyped ==
  ASSUME DownloadsTyped, Restart
  PROVE  DownloadsTyped'
<1> DEFINE ended == [i \in Item |-> IF items[i].st = "none" THEN items[i]
                                     ELSE [items[i] EXCEPT !.st = "ended"]]
<1>1. items' = ended /\ saving' = {} /\ dropped' = {} /\ started' = started
      /\ progressing' = {} /\ isOpen' = FALSE /\ timer' = FALSE
  BY DEF Restart
<1>2. ItemsTyped'
  <2>1. \A i \in Item : /\ ended[i] \in ItemType /\ ended[i].file = items[i].file
                        /\ ended[i].st # "none" => items[i].st # "none"
    BY DEF DownloadsTyped, ItemsTyped, ItemType
  <2>2. ended \in [Item -> ItemType]
    BY <2>1
  <2> HIDE DEF ended
  <2> QED
    BY <1>1, <2>1, <2>2 DEF DownloadsTyped, ItemsTyped
<1>3. PICK lost \in SUBSET {e.key : e \in {x \in downloads : x.st = "completed"}},
           upgraded \in BOOLEAN :
        downloads' = {IF e.key = Update THEN e
                      ELSE IF e.key \in lost THEN [e EXCEPT !.st = "deleted"]
                      ELSE IF e.st = "progressing" THEN [e EXCEPT !.st = "interrupted"]
                      ELSE e : e \in IF upgraded THEN Without(downloads, Update) ELSE downloads}
  BY DEF Restart
<1>4. ASSUME NEW x \in downloads'
      PROVE  x \in EntryType
  <2>1. PICK e \in downloads :
          x = IF e.key = Update THEN e
              ELSE IF e.key \in lost THEN [e EXCEPT !.st = "deleted"]
              ELSE IF e.st = "progressing" THEN [e EXCEPT !.st = "interrupted"] ELSE e
    BY <1>3 DEF Without
  <2> QED
    BY <2>1 DEF DownloadsTyped, ListTyped, EntryType
<1> QED
  BY <1>1, <1>2, <1>4 DEF DownloadsTyped, ListTyped

\* The list, the items and the flags of the dropdown keep their types: what is downloaded
\* has a file, and what the update adds is of its own key (downloadsManager.ts).
THEOREM DownloadsTypedAlways == DownloadsSpec => []DownloadsTypeOK
<1>1. DownloadsInit => DownloadsTyped
  <2> SUFFICES ASSUME DownloadsInit PROVE DownloadsTyped
    OBVIOUS
  <2>1. ItemsTyped
    BY DownloadsAssumption DEF DownloadsInit, ItemsTyped, NoItem, ItemType, Key
  <2>2. ListTyped
    BY DEF DownloadsInit, ListTyped
  <2> QED
    BY <2>1, <2>2 DEF DownloadsInit, DownloadsTyped
<1>2. DownloadsTyped /\ [DownloadsNext]_downloadsVars => DownloadsTyped'
  <2> SUFFICES ASSUME DownloadsTyped, [DownloadsNext]_downloadsVars PROVE DownloadsTyped'
    OBVIOUS
  <2>1. CASE UNCHANGED downloadsVars
    BY <2>1 DEF downloadsVars, DownloadsTyped, ItemsTyped, ListTyped
  <2>2. CASE DownloadsNext
    BY <2>2, EventTyped, ChooseTyped, UserTyped, UpdaterTyped, RestartTyped DEF DownloadsNext
  <2> QED
    BY <2>1, <2>2
<1>3. DownloadsTyped => DownloadsTypeOK
  BY DEF DownloadsTyped, DownloadsTypeOK, ItemsTyped, ListTyped, EntryType, ItemType
<1> QED
  BY <1>1, <1>2, <1>3, PTL DEF DownloadsSpec

---------------------------------------------------------------------------
(* All of them together *)

\* Each part is the one that runs or stays as it is.
LEMMA WindowsStep ==
  ASSUME [WindowsNext]_windowsVars
  PROVE  /\ [MediaNext]_mediaVars /\ [WidgetNext]_widgetVars
         /\ [DownloadsNext]_downloadsVars /\ [ViewsNext]_viewsVars
BY DEF WindowsNext, windowsVars

LEMMA WindowsParts == WindowsSpec => MediaSpec /\ WidgetSpec /\ DownloadsSpec /\ ViewsSpec
<1>1. WindowsInit => MediaInit /\ WidgetInit /\ DownloadsInit /\ ViewsInit
  BY DEF WindowsInit
<1>2. [WindowsNext]_windowsVars =>
        /\ [MediaNext]_mediaVars /\ [WidgetNext]_widgetVars
        /\ [DownloadsNext]_downloadsVars /\ [ViewsNext]_viewsVars
  BY WindowsStep
<1> QED
  BY <1>1, <1>2, PTL DEF WindowsSpec, MediaSpec, WidgetSpec, DownloadsSpec, ViewsSpec

\* Every variable of the parts keeps its type, also while another part runs.
THEOREM WindowsTyped == WindowsSpec => []TypeOK
<1>1. MediaTypeOK /\ WidgetTypeOK /\ DownloadsTypeOK /\ ViewsTypeOK => TypeOK
  BY DEF TypeOK
<1> QED
  BY <1>1, MediaTypedAlways, WidgetTypedAlways, DownloadsTypedAlways, ViewsTyped, WindowsParts, PTL
=============================================================================

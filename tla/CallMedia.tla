------------------------------ MODULE CallMedia ------------------------------
(***************************************************************************)
(* The microphone, camera and screen of one CallsClient                    *)
(* (webapp/src/client.ts): what is captured, what is enabled and what the  *)
(* client tells the store and the server, while requests for media are     *)
(* pending and the call may be left.                                       *)
(*                                                                         *)
(* A request is a task: the code before its await is one step and the code *)
(* after it, with the granted or refused media, another one. RTCPeer is    *)
(* external: adding a track takes a while, replacing one does not.         *)
(***************************************************************************)
EXTENDS Integers, FiniteSets

CONSTANTS
    MaxTracks,  \* bound: tracks captured
    MaxTasks    \* bound: requests pending at a time

ASSUME MediaAssumption == MaxTracks \in Nat /\ MaxTasks \in Nat \ {0}

Slot == 1..MaxTasks
Track == [k : {"mic", "cam", "screen"}, n : 1..MaxTracks]
NoTrack == [k |-> "none", n |-> 0]
NoTask == [do |-> "none", old |-> NoTrack, on |-> FALSE]

VARIABLES
    stage,      \* of init: "new", "asked", "ready"
    withVideo,  \* config.enableVideo, which stays as it is
    closed, ws, peer,
    live,       \* tracks that capture
    streams,    \* tracks of this.streams
    enabled,
    mic, cam, screen,       \* audioTrack, localVideoStream, localScreenTrack
    micAdded, camAdded,     \* voiceTrackAdded, videoTrackAdded
    said,       \* what the last event and message of each kind said: on or not
    task,
    tracks,     \* number of tracks captured so far
    strays,     \* history: tracks granted to a request that found the client gone or busy
    stale,      \* history: devices whose state changed while a request had read it
    barred      \* history: init has been refused media

media == <<live, streams, enabled, mic, cam, screen, micAdded, camAdded, said>>
history == <<strays, stale, barred>>
mediaVars == <<stage, withVideo, closed, ws, peer, media, task, tracks, history>>

MediaInit ==
    /\ stage = "new" /\ withVideo \in BOOLEAN
    /\ closed = FALSE /\ ws = FALSE /\ peer = FALSE
    /\ live = {} /\ streams = {} /\ enabled = {}
    /\ mic = NoTrack /\ cam = NoTrack /\ screen = NoTrack
    /\ micAdded = FALSE /\ camAdded = FALSE /\ said = [mic |-> FALSE, cam |-> FALSE]
    /\ task = [i \in Slot |-> NoTask] /\ tracks = 0
    /\ strays = {} /\ stale = {} /\ barred = FALSE

---------------------------------------------------------------------------
(* Tasks *)

Pending(do) == \E i \in Slot : task[i].do = do
Begin(t) ==
    \E i \in Slot : /\ task[i] = NoTask /\ \A j \in 1..(i - 1) : task[j] # NoTask
                   /\ task' = [task EXCEPT ![i] = t]
Ask(do) == Begin([NoTask EXCEPT !.do = do])
End(i) == task' = [task EXCEPT ![i] = NoTask]
GoesOn(i, do) == task' = [task EXCEPT ![i] = [NoTask EXCEPT !.do = do]]

NewTrack(k) == [k |-> k, n |-> tracks + 1]
Captured == tracks < MaxTracks /\ tracks' = tracks + 1

\* A track that is granted to a client that has been closed, but for init.
Late(t, init) == strays' = IF closed /\ ~init THEN strays \cup {t} ELSE strays

\* Requests run on when the client is closed; nobody else holds it then.
ClientFixed == UNCHANGED <<stage, withVideo, closed, ws, peer, barred>>
Used == ~closed /\ ClientFixed /\ UNCHANGED <<tracks, strays, stale>>
Answer == ClientFixed
Nothing == UNCHANGED <<media, tracks, strays, stale>>

---------------------------------------------------------------------------
(* Joining and leaving *)

\* One task stands for init and one for each of its two requests.
InitClient ==
    /\ stage = "new" /\ stage' = "asked"
    /\ task' = [task EXCEPT ![1].do = "initMic",
                            ![2].do = IF withVideo THEN "initCam" ELSE "none"]
    /\ UNCHANGED <<withVideo, closed, ws, peer, media, tracks, history>>

Stops(ts) == live' = live \ ts
CleanUp == Stops(streams) /\ streams' = {}

\* Without an error the client may have been closed meanwhile.
Initialised(i) ==
    /\ \A j \in Slot \ {i} : task[j].do \notin {"initMic", "initCam"}
    /\ stage = "asked"

\* initAudio: the track is off until the user unmutes.
TakeMic(t) ==
    /\ live' = live \cup {t} /\ streams' = streams \cup {t} /\ mic' = t
    /\ stale' = IF mic # NoTrack THEN stale \cup {"mic"} ELSE stale
    /\ UNCHANGED <<enabled, cam, screen, micAdded, camAdded, said>>

\* Mutant of InitMicGranted: it is not asked whether the client has been closed.
InitMicGrantedAnyway(i) ==
    /\ task[i].do = "initMic" /\ End(i) /\ Captured
    /\ TakeMic(NewTrack("mic"))
    /\ IF Initialised(i) THEN stage' = "ready" /\ ws' = TRUE ELSE UNCHANGED <<stage, ws>>
    /\ Late(NewTrack("mic"), stage = "asked")
    /\ UNCHANGED <<withVideo, closed, peer, barred>>

InitMicGranted(i) ==
    /\ task[i].do = "initMic" /\ End(i) /\ Captured
    /\ LET t == NewTrack("mic") IN
        IF Initialised(i)
        THEN IF closed
             THEN /\ live' = live \ streams /\ streams' = {} /\ mic' = t
                  /\ UNCHANGED <<stage, ws, enabled, cam, screen, micAdded, camAdded, said, stale>>
             ELSE stage' = "ready" /\ ws' = TRUE /\ TakeMic(t)
        ELSE TakeMic(t) /\ UNCHANGED <<stage, ws>>
    /\ Late(NewTrack("mic"), stage = "asked")
    /\ UNCHANGED <<withVideo, closed, peer, barred>>

\* initVideo(false) stops the camera at once.
InitCamGranted(i) ==
    /\ task[i].do = "initCam" /\ End(i)
    /\ IF Initialised(i)
       THEN IF closed
            THEN CleanUp /\ UNCHANGED <<stage, ws>>
            ELSE stage' = "ready" /\ ws' = TRUE /\ UNCHANGED <<live, streams>>
       ELSE UNCHANGED <<stage, ws, live, streams>>
    /\ UNCHANGED <<withVideo, closed, peer, enabled, mic, cam, screen, micAdded, camAdded,
                   said, tracks, history>>

\* The error is reported, and the client joins without media: also a closed one.
InitRefused(i) ==
    /\ task[i].do \in {"initMic", "initCam"} /\ End(i)
    /\ IF stage = "asked"
       THEN stage' = "ready" /\ ws' = TRUE /\ barred' = TRUE
       ELSE UNCHANGED <<stage, ws, barred>>
    /\ UNCHANGED <<withVideo, closed, peer, media, tracks, strays, stale>>

\* ws.on('join')
JoinAck ==
    /\ ws /\ ~peer /\ peer' = TRUE
    /\ UNCHANGED <<stage, withVideo, closed, ws, media, task, tracks, history>>

\* Called by the user, by the host and on errors; the screen's onended runs too.
Disconnect ==
    /\ stage # "new" /\ ~closed /\ closed' = TRUE
    /\ ws' = FALSE /\ peer' = FALSE
    /\ CleanUp /\ screen' = NoTrack
    /\ UNCHANGED <<stage, withVideo, enabled, mic, cam, micAdded, camAdded, said,
                   task, tracks, history>>

---------------------------------------------------------------------------
(* The microphone *)

\* Mutant of Mute: the others are told, but the track stays on.
MuteSaysOnly ==
    /\ Used /\ peer /\ mic # NoTrack /\ said' = [said EXCEPT !.mic = FALSE]
    /\ UNCHANGED <<live, streams, enabled, mic, cam, screen, micAdded, camAdded, task>>

Mute ==
    /\ Used /\ peer /\ mic # NoTrack
    /\ enabled' = enabled \ {mic} /\ said' = [said EXCEPT !.mic = FALSE]
    /\ UNCHANGED <<live, streams, mic, cam, screen, micAdded, camAdded, task>>

\* What unmute does with the track it has: i is the slot of its request, or 0.
Unmute ==
    /\ Used /\ peer
    /\ IF mic = NoTrack
       THEN Ask("unmute") /\ UNCHANGED media
       ELSE IF micAdded
       THEN /\ enabled' = enabled \cup {mic} /\ said' = [said EXCEPT !.mic = TRUE]
            /\ UNCHANGED <<live, streams, mic, cam, screen, micAdded, camAdded, task>>
       ELSE Ask("addMic") /\ UNCHANGED media

UnmuteGranted(i) ==
    /\ task[i].do = "unmute" /\ Captured /\ Answer
    /\ LET t == NewTrack("mic") IN
       /\ Late(t, FALSE)
       /\ IF peer /\ micAdded
          THEN /\ live' = live \cup {t} /\ streams' = streams \cup {t} /\ mic' = t
               /\ enabled' = enabled \cup {t} /\ said' = [said EXCEPT !.mic = TRUE]
               /\ stale' = stale \cup {"mic"}
               /\ UNCHANGED <<cam, screen, micAdded, camAdded>> /\ End(i)
          ELSE TakeMic(t) /\ IF peer THEN GoesOn(i, "addMic") ELSE End(i)

\* The track that is there by then is enabled.
MicIsAdded(i) ==
    /\ task[i].do = "addMic" /\ Answer /\ End(i)
    /\ micAdded' = TRUE /\ enabled' = enabled \cup {mic}
    /\ said' = [said EXCEPT !.mic = TRUE]
    /\ UNCHANGED <<live, streams, mic, cam, screen, camAdded, tracks, strays, stale>>

\* setAudioInputDevice, chosen or fallen back to. Whether the track is enabled is
\* read before the request.
SetAudioInputDevice ==
    /\ Used /\ peer /\ UNCHANGED media
    /\ IF mic = NoTrack THEN Ask("newMic")
       ELSE Begin([do |-> "switchMic", old |-> mic, on |-> mic \in enabled])

NewMicGranted(i) ==
    /\ task[i].do = "newMic" /\ End(i) /\ Captured /\ Answer
    /\ TakeMic(NewTrack("mic")) /\ Late(NewTrack("mic"), FALSE)

SwitchMicGranted(i) ==
    /\ task[i].do = "switchMic" /\ End(i) /\ Captured /\ Answer
    /\ LET t == NewTrack("mic")
           read == task[i]
           fails == read.on /\ ~peer
       IN /\ Late(t, FALSE)
          /\ live' = (live \cup {t}) \ {read.old} /\ streams' = streams \cup {t}
          /\ enabled' = IF read.on THEN enabled \cup {t} ELSE enabled
          /\ mic' = IF fails THEN mic ELSE t
          /\ micAdded' = (micAdded /\ read.on)
          /\ stale' = IF mic = read.old /\ read.on = (mic \in enabled) THEN stale
                      ELSE stale \cup {"mic"}
    /\ UNCHANGED <<cam, screen, camAdded, said>>

---------------------------------------------------------------------------
(* The camera *)

\* startVideo enables the track before it is added to the peer, or replaced there.
TurnOn(t) == enabled' = enabled \cup {t}

StartVideo ==
    /\ Used /\ ws /\ peer /\ withVideo
    /\ UNCHANGED <<live, streams, mic, cam, screen, micAdded, camAdded, said>>
    /\ IF cam = NoTrack THEN Ask("video") /\ UNCHANGED enabled
       ELSE Ask("addCam") /\ TurnOn(cam)

VideoGranted(i) ==
    /\ task[i].do = "video" /\ Captured /\ Answer
    /\ LET t == NewTrack("cam") IN
       /\ Late(t, FALSE)
       /\ live' = live \cup {t} /\ streams' = streams \cup {t} /\ cam' = t /\ TurnOn(t)
       /\ stale' = IF cam = NoTrack THEN stale ELSE stale \cup {"cam"}
    /\ IF peer THEN GoesOn(i, "addCam") ELSE End(i)
    /\ UNCHANGED <<mic, screen, micAdded, camAdded, said>>

\* The track may have been disabled while it was added.
CamIsAdded(i) ==
    /\ task[i].do = "addCam" /\ End(i) /\ Answer
    /\ camAdded' = TRUE
    /\ said' = IF ws THEN [said EXCEPT !.cam = TRUE] ELSE said
    /\ stale' = IF cam \in enabled THEN stale ELSE stale \cup {"cam"}
    /\ UNCHANGED <<live, streams, enabled, mic, cam, screen, micAdded, tracks, strays>>

StopVideo ==
    /\ Used /\ ws /\ peer /\ cam # NoTrack
    /\ enabled' = enabled \ {cam} /\ said' = [said EXCEPT !.cam = FALSE]
    /\ UNCHANGED <<live, streams, mic, cam, screen, micAdded, camAdded, task>>

\* setVideoInputDevice, also to turn the blurring of the background on or off.
SetVideoInputDevice ==
    /\ Used /\ peer /\ UNCHANGED media
    /\ IF cam = NoTrack THEN Ask("newCam")
       ELSE Begin([do |-> "switchCam", old |-> cam, on |-> cam \in enabled])

NewCamGranted(i) == task[i].do = "newCam" /\ End(i) /\ Answer /\ Nothing

SwitchCamGranted(i) ==
    /\ task[i].do = "switchCam" /\ End(i) /\ Captured /\ Answer
    /\ LET t == NewTrack("cam")
           read == task[i]
       IN /\ Late(t, FALSE)
          /\ live' = (live \cup {t}) \ {read.old} /\ streams' = streams \cup {t} /\ cam' = t
          /\ enabled' = IF read.on THEN enabled \cup {t} ELSE enabled
          /\ camAdded' = (camAdded /\ read.on)
          /\ stale' = IF cam = read.old /\ read.on = (cam \in enabled) THEN stale
                      ELSE stale \cup {"cam"}
    /\ UNCHANGED <<mic, screen, micAdded, said>>

---------------------------------------------------------------------------
(* The screen *)

ShareScreen == Used /\ ws /\ peer /\ Ask("share") /\ UNCHANGED media

\* setScreenStream takes the stream unless the client shares already or is closed.
ShareGranted(i) ==
    /\ task[i].do = "share" /\ End(i) /\ Captured /\ Answer
    /\ LET t == NewTrack("screen")
           taken == ws /\ peer /\ screen = NoTrack
       IN /\ live' = live \cup {t}
          /\ streams' = IF taken THEN streams \cup {t} ELSE streams
          /\ screen' = IF taken THEN t ELSE screen
          /\ strays' = IF taken THEN strays ELSE strays \cup {t}
    /\ UNCHANGED <<enabled, mic, cam, micAdded, camAdded, said, stale>>

UnshareScreen ==
    /\ Used /\ ws /\ screen # NoTrack
    /\ Stops({screen}) /\ screen' = NoTrack
    /\ UNCHANGED <<streams, enabled, mic, cam, micAdded, camAdded, said, task>>

Requests == {"unmute", "newMic", "switchMic", "video", "newCam", "switchCam", "share"}
Refused(i) == task[i].do \in Requests /\ End(i) /\ Answer /\ Nothing

---------------------------------------------------------------------------
MediaNext ==
    \/ InitClient \/ JoinAck \/ Disconnect
    \/ Mute \/ Unmute \/ SetAudioInputDevice
    \/ StartVideo \/ StopVideo \/ SetVideoInputDevice
    \/ ShareScreen \/ UnshareScreen
    \/ \E i \in Slot :
        \/ InitMicGranted(i) \/ InitCamGranted(i) \/ InitRefused(i)
        \/ UnmuteGranted(i) \/ MicIsAdded(i) \/ NewMicGranted(i) \/ SwitchMicGranted(i)
        \/ VideoGranted(i) \/ CamIsAdded(i) \/ NewCamGranted(i) \/ SwitchCamGranted(i)
        \/ ShareGranted(i) \/ Refused(i)

MediaSpec == MediaInit /\ [][MediaNext]_mediaVars

---------------------------------------------------------------------------
(* Properties *)

MediaTypeOK ==
    /\ stage \in {"new", "asked", "ready"}
    /\ {withVideo, closed, ws, peer, micAdded, camAdded, barred} \subseteq BOOLEAN
    /\ live \subseteq Track /\ streams \subseteq Track /\ enabled \subseteq Track
    /\ {mic, cam, screen} \subseteq Track \cup {NoTrack}
    /\ said \in [mic : BOOLEAN, cam : BOOLEAN] /\ tracks \in 0..MaxTracks
    /\ strays \subseteq Track /\ stale \subseteq {"mic", "cam"}

Hears(k) == {t \in live \cap enabled : t.k = k}

\* The others hear and see what the client last told them, and no track but the current
\* one is on: whoever is shown as muted is silent. Two exceptions, which the code leaves:
\* the device was muted, unmuted or replaced while another request for it had read its
\* state; and the camera is on while its track is being added.
MediaAgrees ==
    ~closed =>
        /\ "mic" \notin stale => Hears("mic") = (IF said.mic THEN {mic} ELSE {})
        /\ "cam" \notin stale /\ ~Pending("addCam") =>
            Hears("cam") = (IF said.cam THEN {cam} ELSE {})

\* A client that has been closed does not join, and captures nothing once init's requests
\* are answered: also if the user leaves before that. It does not hold when one of these
\* requests is refused, nor for the tracks of requests made in the call (strays).
ClosedIsQuiet ==
    closed /\ ~barred =>
        /\ ~ws
        /\ (\A i \in Slot : task[i].do \notin {"initMic", "initCam"}) => live \subseteq strays
=============================================================================

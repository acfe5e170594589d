------------------------------ MODULE CallJobs ------------------------------
(***************************************************************************)
(* The recording, transcription and live captions jobs of one call:        *)
(* server/recording_api.go, transcription_api.go, the status reports of    *)
(* bot_api.go, and what session.go does when a bot joins or leaves.        *)
(*                                                                         *)
(* Whatever a handler does while it holds the channel's lock is one step,  *)
(* in which the updates of one row may fail. Starting a job gives the lock *)
(* up while the job service is called, so it takes two or three steps.     *)
(* The job service and the bots it runs are external.                      *)
(***************************************************************************)
EXTENDS Integers, FiniteSets

CONSTANTS
    MaxJob,         \* bound: rows ever created in calls_jobs
    Transcribing,   \* transcriptionsEnabled()
    Captioning,     \* liveCaptionsEnabled(), which needs transcriptions
    RunsFailed,     \* whether RunJob may fail although the service runs the job
    MaxReconnects,  \* bound: bots that come back on another connection, or faults
    MaxFaults       \* bound: handlers in which a query or the lock fails, or reconnections

ASSUME JobsAssumption ==
    /\ MaxJob \in Nat /\ MaxReconnects \in Nat /\ MaxFaults \in Nat
    /\ Transcribing \in BOOLEAN /\ Captioning \in BOOLEAN /\ RunsFailed \in BOOLEAN
    /\ Captioning => Transcribing

VARIABLES
    jobs,       \* table calls_jobs: id -> row
    starts,     \* id of a recording -> where startRecordingJob for it is
    checkers,   \* ids of the jobs whose timeout checker sleeps
    bot,        \* id of a job -> its bot, as the job service runs it
    told,       \* ids of the jobs whose bot knows that it has to leave
    people,     \* somebody other than the bots is in the call
    reconnects, faults

env == <<people, reconnects>>
vars == <<jobs, starts, checkers, bot, told, people, reconnects, faults>>

Id == 1..MaxJob

\* The connections of the bot that runs job i: the one it joins on, and the
\* one it may come back on. 0 is no job.
Conn == Id \X {"first", "later"}
NoConn == <<0, "first">>

\* A row of calls_jobs. job is Props.JobID, named here by the row whose RunJob
\* returned it; conn is Props.BotConnID.
Row == [type : {"none", "recording", "transcribing", "captioning"},
        started : BOOLEAN, ended : BOOLEAN, job : 0..MaxJob, conn : Conn \cup {NoConn}]
Fresh(type) == [type |-> type, started |-> FALSE, ended |-> FALSE, job |-> 0, conn |-> NoConn]
NoRow == Fresh("none")

\* pc "recording" and "transcribing": waiting for RunJob of that type; tr is
\* the row that the second one is for.
Start == [pc : {"idle", "recording", "transcribing", "done"}, tr : 0..MaxJob]
Idle == [pc |-> "idle", tr |-> 0]
Done == [pc |-> "done", tr |-> 0]

\* A bot is "in" the call once it has joined, and "on" once it has reported
\* that the job has started.
BotState == [st : {"none", "run", "in", "on", "out"}, conn : {"first", "later"}]

Init ==
    /\ jobs = [i \in Id |-> NoRow]
    /\ starts = [i \in Id |-> Idle]
    /\ checkers = {}
    /\ bot = [i \in Id |-> [st |-> "none", conn |-> "first"]]
    /\ told = {}
    /\ people = TRUE
    /\ reconnects = 0 /\ faults = 0

---------------------------------------------------------------------------
(* The state a handler reads in the lock *)

Bots == {i \in Id : bot[i].st \in {"in", "on"}}

\* There is a call; otherwise the state is nil.
CallOn == people \/ Bots # {}

ActiveJobs(type) == {i \in Id : jobs[i].type = type /\ ~jobs[i].ended}

\* GetActiveCallJobs keeps one job of each type, a started one if there is one
\* (which of several is a matter of times and random ids).
JobOf(type) ==
    LET A == ActiveJobs(type)
        S == {i \in A : jobs[i].started}
    IN  IF A = {} \/ ~CallOn THEN {0} ELSE IF S # {} THEN S ELSE A

View == {[rec |-> r, tr |-> t, lc |-> l] :
            r \in JobOf("recording"), t \in JobOf("transcribing"), l \in JobOf("captioning")}

\* The updates of row x fail in this handler; 0 stands for none. Faults and
\* reconnections share the bounds: a behaviour has few of both together.
MayFault == faults + reconnects < MaxFaults
Failing(x) == faults' = IF x = 0 THEN faults ELSE faults + 1
MayFail == IF MayFault THEN 0..MaxJob ELSE {0}

End(S) == jobs' = [i \in Id |-> IF i \in S THEN [jobs[i] EXCEPT !.ended = TRUE] ELSE jobs[i]]

\* StopJob sends wsEventJobStop, which reaches the bots that are there.
Tell(S) == told' = told \cup (S \cap Bots)

\* stopTranscribingJob, called when the recording has an end already: the rows
\* it ends, and the jobs it stops. It returns at the first error.
TrEnded(v, x) == IF v.tr \in {0, x} THEN {} ELSE {v.tr, v.lc} \ {0, x}
TrStopped(v, x) == IF v.tr \in {0, x} \/ (v.lc = x /\ x # 0) THEN {} ELSE {v.tr}

NewJob == {i \in Id : \A j \in Id : (jobs[j].type = "none") <=> (j >= i)}

---------------------------------------------------------------------------
(* Host actions: startRecordingJob, stopRecordingJob *)

\* Mutant: a recording may be started while one is going on.
StartRecordingAgain ==
    /\ people
    /\ \E i \in NewJob :
         /\ jobs' = [jobs EXCEPT ![i] = Fresh("recording")]
         /\ starts' = [starts EXCEPT ![i].pc = "recording"]
    /\ UNCHANGED <<checkers, bot, told, env, faults>>

\* The row is created and the lock released for RunJob.
StartRecording ==
    /\ people
    /\ ActiveJobs("recording") = {}
    /\ \E i \in NewJob :
         /\ jobs' = [jobs EXCEPT ![i] = Fresh("recording")]
         /\ starts' = [starts EXCEPT ![i].pc = "recording"]
    /\ UNCHANGED <<checkers, bot, told, env, faults>>

\* Mutant: the recording of before the unlock is written, not read again.
RecordingRunsStale(i) ==
    /\ starts[i].pc = "recording"
    /\ bot[i].st # "none"
    /\ jobs' = [jobs EXCEPT ![i] = [Fresh("recording") EXCEPT !.job = i]]
    /\ checkers' = checkers \cup {i}
    /\ starts' = [starts EXCEPT ![i] = Done]
    /\ UNCHANGED <<bot, told, env, faults>>

\* RunJob has returned the id of the job; whatever recording there is now gets
\* it, unless it has one. Then the transcription is started likewise.
RecordingRuns(i) ==
    /\ starts[i].pc = "recording"
    /\ bot[i].st # "none"
    /\ \E v \in View, x \in MayFail :
         /\ Failing(x)
         /\ IF v.rec = 0 \/ jobs[v.rec].job # 0 \/ v.rec = x
            THEN starts' = [starts EXCEPT ![i] = Done] /\ UNCHANGED <<jobs, checkers>>
            ELSE LET js == [jobs EXCEPT ![v.rec].job = i] IN
                 IF ~Transcribing
                 THEN /\ jobs' = js
                      /\ checkers' = checkers \cup {i}
                      /\ starts' = [starts EXCEPT ![i] = Done]
                 ELSE IF v.tr # 0
                 THEN jobs' = js /\ starts' = [starts EXCEPT ![i] = Done] /\ UNCHANGED checkers
                 ELSE \E t \in NewJob :
                      /\ Captioning => t + 1 \in Id
                      /\ jobs' = [j \in Id |->
                              IF j = t /\ x # t THEN Fresh("transcribing")
                              ELSE IF j = t + 1 /\ Captioning /\ x \notin {t, j}
                              THEN Fresh("captioning") ELSE js[j]]
                      /\ starts' = [starts EXCEPT ![i] =
                              IF x = t \/ (Captioning /\ x = t + 1) THEN Done
                              ELSE [pc |-> "transcribing", tr |-> t]]
                      /\ UNCHANGED checkers
    /\ UNCHANGED <<bot, told, env>>

\* RunJob has failed: whatever recording there is now ends.
RecordingFails(i) ==
    /\ starts[i].pc = "recording"
    /\ RunsFailed \/ bot[i].st = "none"
    /\ \E v \in View, x \in MayFail : Failing(x) /\ End({v.rec} \ {0, x})
    /\ starts' = [starts EXCEPT ![i] = Done]
    /\ UNCHANGED <<checkers, bot, told, env>>

\* The same for the transcription; on success the timeouts of both begin.
TranscriptionRuns(i) ==
    LET t == starts[i].tr IN
    /\ starts[i].pc = "transcribing"
    /\ bot[t].st # "none"
    /\ starts' = [starts EXCEPT ![i] = Done]
    /\ \E v \in View, x \in MayFail :
         /\ Failing(x)
         /\ IF v.tr = 0 \/ jobs[v.tr].job # 0 \/ v.tr = x
            THEN UNCHANGED <<jobs, checkers>>
            ELSE /\ jobs' = [j \in Id |-> IF j \in {v.tr, v.lc} \ {x}
                                      THEN [jobs[j] EXCEPT !.job = t] ELSE jobs[j]]
                 /\ checkers' = IF x # 0 /\ v.lc = x THEN checkers ELSE checkers \cup {i, t}
    /\ UNCHANGED <<bot, told, env>>

TranscriptionFails(i) ==
    /\ starts[i].pc = "transcribing"
    /\ RunsFailed \/ bot[starts[i].tr].st = "none"
    /\ \E v \in View, x \in MayFail :
         /\ Failing(x)
         /\ End(IF v.tr = 0 THEN {} ELSE {v.tr, v.lc} \ {0, x})
    /\ starts' = [starts EXCEPT ![i] = Done]
    /\ UNCHANGED <<checkers, bot, told, env>>

\* The channel cannot be locked again, or the node dies.
StartLost(i) ==
    /\ starts[i].pc \in {"recording", "transcribing"}
    /\ MayFault
    /\ faults' = faults + 1
    /\ starts' = [starts EXCEPT ![i] = Done]
    /\ UNCHANGED <<jobs, checkers, bot, told, env>>

StopRecording ==
    /\ people
    /\ \E v \in View, x \in MayFail :
         /\ v.rec # 0
         /\ Failing(x)
         /\ IF v.rec = x
            THEN UNCHANGED <<jobs, told>>
            ELSE End({v.rec} \cup TrEnded(v, x)) /\ Tell({v.rec} \cup TrStopped(v, x))
    /\ UNCHANGED <<starts, checkers, bot, env>>

---------------------------------------------------------------------------
(* recJobTimeoutChecker, transcriptionJobTimeoutChecker *)

\* A minute after the start, a recording whose bot has not reported is ended.
RecordingTimeout(k) ==
    /\ k \in checkers /\ jobs[k].type = "recording"
    /\ checkers' = checkers \ {k}
    /\ \E v \in View, x \in MayFail :
         /\ Failing(x)
         /\ IF v.rec # 0 /\ ~jobs[v.rec].started /\ jobs[v.rec].job = k
            THEN End(({v.rec} \ {x}) \cup TrEnded(v, x)) /\ Tell(TrStopped(v, x))
            ELSE UNCHANGED <<jobs, told>>
    /\ UNCHANGED <<starts, bot, env>>

\* Mutant: the transcription is left as it is, like the live captions.
TranscriptionTimeoutNone(k) ==
    /\ k \in checkers /\ jobs[k].type = "transcribing"
    /\ checkers' = checkers \ {k}
    /\ \E v \in View, x \in MayFail :
         /\ Failing(x)
         /\ IF v.tr # 0 /\ ~jobs[v.tr].started /\ jobs[v.tr].job = k
            THEN End({v.rec} \ {0, x}) /\ Tell({v.rec} \ {0, x})
            ELSE UNCHANGED <<jobs, told>>
    /\ UNCHANGED <<starts, bot, env>>

\* The transcription and the recording end; the second update is of the
\* transcription again, and not of the live captions.
TranscriptionTimeout(k) ==
    /\ k \in checkers /\ jobs[k].type = "transcribing"
    /\ checkers' = checkers \ {k}
    /\ \E v \in View, x \in MayFail :
         /\ Failing(x)
         /\ IF v.tr # 0 /\ ~jobs[v.tr].started /\ jobs[v.tr].job = k
            THEN End({v.rec, v.tr} \ {0, x}) /\ Tell({v.rec} \ {0, x})
            ELSE UNCHANGED <<jobs, told>>
    /\ UNCHANGED <<starts, bot, env>>

\* The channel cannot be locked, or the node dies.
TimeoutLost(k) ==
    /\ k \in checkers
    /\ MayFault
    /\ faults' = faults + 1
    /\ checkers' = checkers \ {k}
    /\ UNCHANGED <<jobs, starts, bot, told, env>>

---------------------------------------------------------------------------
(* The bots: addUserSession, handleBotPostJobsStatus, removeUserSession *)

\* The job service gets the request of RunJob, and runs a bot.
Run(i) ==
    /\ bot[i].st = "none"
    /\ \/ starts[i].pc = "recording"
       \/ \E j \in Id : starts[j].pc = "transcribing" /\ starts[j].tr = i
    /\ bot' = [bot EXCEPT ![i].st = "run"]
    /\ UNCHANGED <<jobs, starts, checkers, told, env, faults>>

\* The live captions are updated first, then the job i, unless that failed.
Updated(i, lc, x) == IF x \in lc THEN {} ELSE ({i} \cup lc) \ {x}

\* The bot joins only for the job there is, and before it has started; else it
\* exits.
BotJoins(i) ==
    LET c == <<i, "first">> IN
    /\ bot[i].st = "run"
    /\ \E v \in View, x \in MayFail :
         LET ok == i \in {v.rec, v.tr} /\ ~jobs[i].started
             lc == IF i = v.tr /\ v.lc # 0 /\ ~jobs[v.lc].started THEN {v.lc} ELSE {}
         IN
         /\ Failing(x)
         /\ jobs' = [j \in Id |-> IF ok /\ j \in Updated(i, lc, x)
                                  THEN [jobs[j] EXCEPT !.conn = c] ELSE jobs[j]]
         /\ bot' = [bot EXCEPT ![i].st = IF ok /\ x \notin {i} \cup lc THEN "in" ELSE "out"]
    /\ UNCHANGED <<starts, checkers, told, env>>

\* It reports that the job has started; if it may not, it leaves.
BotStarted(i) ==
    /\ bot[i].st = "in"
    /\ \E v \in View, x \in MayFail :
         LET ok == i \in {v.rec, v.tr} /\ ~jobs[i].started
             lc == IF i = v.tr /\ Captioning /\ v.lc # 0 THEN {v.lc} ELSE {}
         IN
         /\ Failing(x)
         /\ jobs' = [j \in Id |-> IF ok /\ j \in Updated(i, lc, x)
                                  THEN [jobs[j] EXCEPT !.started = TRUE] ELSE jobs[j]]
         /\ IF ok /\ x \notin {i} \cup lc
            THEN bot' = [bot EXCEPT ![i].st = "on"] /\ UNCHANGED told
            ELSE Tell({i}) /\ UNCHANGED bot
    /\ UNCHANGED <<starts, checkers, env>>

\* It reports that the job has failed, and exits.
BotFailed(i) ==
    /\ bot[i].st \in {"run", "in", "on"} /\ i \notin told
    /\ \E v \in View, x \in MayFail :
         /\ Failing(x)
         /\ \/ /\ i = v.rec
               /\ End(({i} \ {x}) \cup TrEnded(v, x))
               /\ Tell({i} \cup TrStopped(v, x))
            \/ /\ i = v.tr
               /\ End({v.rec, i} \ {0, x})
               /\ Tell({i} \cup ({v.rec} \ {0, x}))
            \/ /\ i \notin {v.rec, v.tr}
               /\ Tell({i})
               /\ UNCHANGED jobs
    /\ bot' = [bot EXCEPT ![i].st = IF @ = "run" THEN "out" ELSE @]
    /\ UNCHANGED <<starts, checkers, env>>

\* handleBotWSReconnect
BotReconnects(i) ==
    LET old == <<i, "first">>
        new == <<i, "later">>
        moved(v) == IF v.rec # 0 /\ jobs[v.rec].conn = old THEN {v.rec}
                    ELSE IF v.tr # 0 /\ jobs[v.tr].conn = old
                    THEN {v.tr} \cup {j \in {v.lc} \ {0} : jobs[j].conn = old}
                    ELSE {}
    IN
    /\ i \in Bots /\ bot[i].conn = "first"
    /\ reconnects + faults < MaxReconnects
    /\ reconnects' = reconnects + 1
    /\ bot' = [bot EXCEPT ![i].conn = "later"]
    /\ \E v \in View :
         jobs' = [j \in Id |-> IF j \in moved(v) THEN [jobs[j] EXCEPT !.conn = new] ELSE jobs[j]]
    /\ UNCHANGED <<starts, checkers, told, people, faults>>

\* Mutant: the session that goes is compared with the connection after a
\* reconnection only.
RowsLeftOpen(i, v, x) == {j \in {v.rec, v.tr} \ {0} : jobs[j].conn = <<i, "later">>}

\* The rows that end when the session of bot i goes, which is known by its first
\* connection; only for the live captions it is the last one.
RowsLeft(i, v, x) ==
    LET c == <<i, "first">>
        rec == v.rec # 0 /\ jobs[v.rec].conn = c
        tr == v.tr # 0 /\ jobs[v.tr].conn = c
        lc == v.lc # 0 /\ jobs[v.lc].conn = <<i, bot[i].conn>>
    IN  (IF rec /\ v.rec # x THEN {v.rec} \cup TrEnded(v, x) ELSE {})
        \cup (IF tr /\ v.tr # x THEN {v.rec, v.tr} \ {0, x} ELSE {})
        \cup (IF lc /\ ~(rec /\ v.rec = x) /\ ~(tr /\ v.tr = x) THEN {v.lc} \ {x} ELSE {})

\* The jobs that StopJob is called for then: the coupled one, and all of them
\* if only bots are left.
StopsLeft(i, v, x) ==
    LET c == <<i, "first">>
        rec == v.rec # 0 /\ v.rec # x /\ jobs[v.rec].conn = c
        tr == v.tr # 0 /\ v.tr # x /\ jobs[v.tr].conn = c
    IN  (IF rec THEN TrStopped(v, x) ELSE {})
        \cup (IF tr THEN {v.rec} \ {0, x} ELSE {})
        \cup (IF people \/ Bots \subseteq {i} THEN {} ELSE {v.rec, v.tr} \ {0})

\* A bot leaves when it is told to, at its maximum duration, or because it fails.
BotLeaves(i) ==
    /\ i \in Bots
    /\ \E v \in View, x \in MayFail :
         /\ Failing(x)
         /\ End(RowsLeft(i, v, x))
         /\ told' = (told \cup (StopsLeft(i, v, x) \cap Bots)) \ {i}
    /\ bot' = [bot EXCEPT ![i].st = "out"]
    /\ UNCHANGED <<starts, checkers, env>>

\* Mutant: nobody is told.
PeopleLeaveQuietly ==
    /\ people
    /\ people' = FALSE
    /\ UNCHANGED <<jobs, starts, checkers, bot, told, reconnects, faults>>

\* The last of the others leaves: only bots are left, if anybody.
PeopleLeave ==
    /\ people
    /\ people' = FALSE
    /\ \E v \in View : Tell({v.rec, v.tr} \ {0})
    /\ UNCHANGED <<jobs, starts, checkers, bot, reconnects, faults>>

---------------------------------------------------------------------------

StartStep(i) ==
    \/ RecordingRuns(i) \/ RecordingFails(i)
    \/ TranscriptionRuns(i) \/ TranscriptionFails(i)

Timeout(k) == RecordingTimeout(k) \/ TranscriptionTimeout(k)

BotStep(i) ==
    \/ Run(i) \/ BotJoins(i) \/ BotStarted(i) \/ BotFailed(i)
    \/ BotReconnects(i) \/ BotLeaves(i)

Next ==
    \/ StartRecording \/ StopRecording \/ PeopleLeave
    \/ \E i \in Id : StartStep(i) \/ StartLost(i) \/ Timeout(i) \/ TimeoutLost(i) \/ BotStep(i)

Spec == Init /\ [][Next]_vars

\* RunJob returns, timers fire, and a bot that is told to stop leaves the call.
Fairness ==
    /\ WF_vars(\E i \in Id : StartStep(i))
    /\ WF_vars(\E i \in Id : Timeout(i))
    /\ WF_vars(\E i \in Id : BotStarted(i))
    /\ WF_vars(\E i \in told : BotLeaves(i))

FairSpec == Spec /\ Fairness

---------------------------------------------------------------------------
(* Properties *)

\* Every variable has its type.
TypeOK ==
    /\ jobs \in [Id -> Row]
    /\ starts \in [Id -> Start]
    /\ checkers \subseteq Id
    /\ bot \in [Id -> BotState]
    /\ told \subseteq Id
    /\ people \in BOOLEAN
    /\ reconnects \in 0..MaxReconnects /\ faults \in 0..MaxFaults

\* A call never has two recordings, or two transcriptions: the second row would
\* be hidden from every handler (GetActiveCallJobs).
OneJobPerType ==
    \A type \in {"recording", "transcribing"} :
        \A i, j \in ActiveJobs(type) : i = j

\* A job that has ended is over: no handler that gave the lock up in between
\* writes its row again.
EndedJobStays == [][\A i \in Id : jobs[i].ended => jobs'[i] = jobs[i]]_vars

\* A job that is shown as started has its bot in the call, which will end it by
\* leaving; unless a query failed.
StartedJobHasBot ==
    \A i \in Id : jobs[i].started /\ ~jobs[i].ended /\ jobs[i].type # "captioning"
                  /\ faults = 0 /\ bot[i].conn = "first" => bot[i].st = "on"

\* The inductive invariant. A row that does not exist yet has no bot; the row
\* that a start waits for exists; a bot that is in the call is the one its row
\* names.
Unused == \A i \in Id : jobs[i].type = "none" => jobs[i] = NoRow /\ bot[i].st = "none"

StartKey ==
    \A i \in Id :
        /\ starts[i].pc = "recording" => jobs[i].type = "recording"
        /\ starts[i].pc = "transcribing" =>
               starts[i].tr \in Id /\ jobs[starts[i].tr].type = "transcribing"

ConnKey ==
    \A i \in Bots :
        jobs[i].type # "captioning" /\ ~jobs[i].ended /\ faults = 0 /\ bot[i].conn = "first"
        => jobs[i].conn = <<i, "first">>

IInv ==
    /\ TypeOK /\ OneJobPerType /\ StartedJobHasBot
    /\ Unused /\ StartKey /\ ConnKey

\* No recording goes on behind the back of the participants: the bot that
\* records has an active job, or has been told to stop.
NoHiddenRecording ==
    \A i \in Id : bot[i].st = "on" => ~jobs[i].ended \/ i \in told

\* A transcription that does not start is ended (transcriptionJobTimeoutChecker),
\* whatever other starts and stops come in between.
TranscriptionResolves ==
    \A i \in Id : jobs[i].type = "transcribing" ~> (jobs[i].started \/ jobs[i].ended \/ ~CallOn \/ faults > 0)

\* Bots that are left alone leave, so that the call ends; except a bot whose job
\* was ended without telling it, or when a query failed.
LonelyBotsLeave ==
    ~people ~> (Bots = {} \/ ~NoHiddenRecording \/ faults > 0)
=============================================================================

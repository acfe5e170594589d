--------------------------- MODULE CallJobsProofs ---------------------------
(***************************************************************************)
(* Proofs about CallJobs, for every number of rows, failed queries and     *)
(* reconnections, and for every configuration of the plugin.               *)
(***************************************************************************)
EXTENDS CallJobs, TLAPS

\* The rows that handlers write: those of jobs that have not ended.
Live == {i \in Id : jobs[i].type # "none" /\ ~jobs[i].ended}

\* A step that writes rows of live jobs only, and creates none.
Rewrites ==
    /\ jobs' \in [Id -> Row]
    /\ \A i \in Id : jobs'[i] # jobs[i] => i \in Live /\ jobs'[i].type = jobs[i].type

\* A step that marks no job as started and gives none another connection.
SameBots == \A i \in Id : jobs'[i].started = jobs[i].started /\ jobs'[i].conn = jobs[i].conn

\* There is no job in the beginning.
LEMMA InitIInv == Init => IInv
<1> SUFFICES ASSUME Init PROVE IInv
  OBVIOUS
<1> USE JobsAssumption DEF JobsAssumption, Init
<1>1. NoRow \in Row
  BY DEF NoRow, Fresh, Row, NoConn
<1>2. TypeOK
  BY <1>1 DEF TypeOK, Start, Idle, BotState
<1>3. Bots = {}
  BY DEF Bots
<1> QED
  BY <1>2, <1>3 DEF IInv, OneJobPerType, ActiveJobs, StartedJobHasBot, Unused, StartKey, ConnKey,
     NoRow, Fresh, Idle

\* What a handler sees is live, and the view misses no active job of a call that
\* is on.
LEMMA ViewFacts ==
  ASSUME TypeOK, NEW v \in View
  PROVE  /\ v.rec = 0 \/ (v.rec \in Live /\ jobs[v.rec].type = "recording")
         /\ v.tr = 0 \/ (v.tr \in Live /\ jobs[v.tr].type = "transcribing")
         /\ v.lc = 0 \/ (v.lc \in Live /\ jobs[v.lc].type = "captioning")
         /\ v.rec = 0 => ~CallOn \/ ActiveJobs("recording") = {}
         /\ v.tr = 0 => ~CallOn \/ ActiveJobs("transcribing") = {}
         /\ v.rec # 0 => CallOn
<1> USE JobsAssumption DEF JobsAssumption
<1>1. PICK r \in JobOf("recording"), t \in JobOf("transcribing"), l \in JobOf("captioning") :
        v = [rec |-> r, tr |-> t, lc |-> l]
  BY DEF View
<1>2. ASSUME NEW type \in {"recording", "transcribing", "captioning"}, NEW j \in JobOf(type)
      PROVE  /\ j = 0 \/ (j \in Live /\ jobs[j].type = type)
             /\ j = 0 => ~CallOn \/ ActiveJobs(type) = {}
             /\ j # 0 => CallOn
  BY <1>2 DEF JobOf, ActiveJobs, Live, Id
<1> QED
  BY <1>1, <1>2

\* The only active recording or transcription is the one that a handler sees.
LEMMA ViewOfOne ==
  ASSUME IInv, NEW v \in View, CallOn, NEW i \in Id, ~jobs[i].ended
  PROVE  /\ jobs[i].type = "recording" => v.rec = i
         /\ jobs[i].type = "transcribing" => v.tr = i
<1>1. TypeOK /\ OneJobPerType
  BY DEF IInv
<1>2. CASE jobs[i].type = "recording"
  <2>1. i \in ActiveJobs("recording")
    BY <1>2 DEF ActiveJobs
  <2>2. v.rec \in ActiveJobs("recording")
    BY <1>1, <2>1, ViewFacts DEF ActiveJobs, Live
  <2> QED
    BY <1>1, <1>2, <2>1, <2>2 DEF OneJobPerType
<1>3. CASE jobs[i].type = "transcribing"
  <2>1. i \in ActiveJobs("transcribing")
    BY <1>3 DEF ActiveJobs
  <2>2. v.tr \in ActiveJobs("transcribing")
    BY <1>1, <2>1, ViewFacts DEF ActiveJobs, Live
  <2> QED
    BY <1>1, <1>3, <2>1, <2>2 DEF OneJobPerType
<1> QED
  BY <1>2, <1>3

\* A handler with failing updates stays in the bound on faults, and fails
\* nowhere if none is counted.
LEMMA FaultFacts ==
  ASSUME TypeOK, NEW x \in MayFail, Failing(x)
  PROVE  /\ faults' \in 0..MaxFaults
         /\ faults' = 0 => x = 0 /\ faults = 0
  BY JobsAssumption, SMTT(20) DEF JobsAssumption, TypeOK, MayFail, MayFault, Failing

\* Ending live jobs is a rewrite of live rows.
LEMMA EndRewrites ==
  ASSUME TypeOK, NEW S, S \cap Id \subseteq Live, End(S)
  PROVE  Rewrites /\ SameBots
  BY DEF TypeOK, End, Rewrites, SameBots, Live, Row

\* A step that writes nothing is one, too.
LEMMA SameRewrites ==
  ASSUME TypeOK, UNCHANGED jobs
  PROVE  Rewrites /\ SameBots
  BY DEF TypeOK, Rewrites, SameBots

\* A rewrite of live rows keeps what is said about the rows alone.
LEMMA RewritesKeep ==
  ASSUME IInv, Rewrites
  PROVE  /\ OneJobPerType'
         /\ \A i \in Id : jobs'[i].type = jobs[i].type
         /\ \A i \in Id : jobs[i].ended => jobs'[i] = jobs[i]
         /\ \A i \in Id : jobs[i].type = "none" => jobs'[i] = NoRow
<1>1. \A i \in Id : jobs'[i].type = jobs[i].type
  BY DEF Rewrites
<1>2. \A i \in Id : jobs[i].ended => jobs'[i] = jobs[i]
  BY DEF Rewrites, Live
<1>3. \A i \in Id : jobs[i].type = "none" => jobs'[i] = NoRow
  BY DEF Rewrites, Live, IInv, Unused
<1>4. ActiveJobs("recording")' \subseteq ActiveJobs("recording")
  BY <1>1, <1>2 DEF ActiveJobs
<1>5. ActiveJobs("transcribing")' \subseteq ActiveJobs("transcribing")
  BY <1>1, <1>2 DEF ActiveJobs
<1>6. OneJobPerType'
  BY <1>4, <1>5 DEF IInv, OneJobPerType
<1> QED
  BY <1>1, <1>2, <1>3, <1>6

\* A step of a handler that neither creates a row nor moves a bot.
LEMMA HandlerIInv ==
  ASSUME IInv, TypeOK', Rewrites, SameBots, bot' = bot,
         faults' = 0 => faults = 0,
         \A i \in Id : starts'[i] = starts[i] \/ starts'[i] = Done
  PROVE  IInv'
<1>1. \A i \in Id : jobs[i].ended => jobs'[i] = jobs[i]
  BY RewritesKeep
<1>2. /\ OneJobPerType'
      /\ \A i \in Id : jobs'[i].type = jobs[i].type
      /\ \A i \in Id : jobs[i].type = "none" => jobs'[i] = NoRow
  BY RewritesKeep
<1>3. StartedJobHasBot'
  BY <1>1, <1>2 DEF IInv, StartedJobHasBot, SameBots
<1>4. Unused'
  BY <1>2 DEF IInv, Unused
<1>5. StartKey'
  BY <1>2 DEF IInv, StartKey, Done
<1>6. ConnKey'
  <2>1. Bots' = Bots /\ Bots \subseteq Id
    BY DEF Bots
  <2> QED
    BY <1>1, <1>2, <2>1 DEF IInv, ConnKey, SameBots
<1> QED
  BY <1>2, <1>3, <1>4, <1>5, <1>6 DEF IInv

\* A new row is of its type, and neither started nor ended.
LEMMA NewRow ==
  ASSUME NEW type \in {"none", "recording", "transcribing", "captioning"}
  PROVE  /\ Fresh(type) \in Row
         /\ Fresh(type).type = type /\ Fresh(type).conn = NoConn
         /\ ~Fresh(type).started /\ ~Fresh(type).ended
<1>1. 0 \in 0..MaxJob
  BY JobsAssumption DEF JobsAssumption
<1> QED
  BY <1>1 DEF Fresh, Row

\* A new recording is the only one, and has no bot yet.
LEMMA StartRecordingIInv ==
  ASSUME IInv, StartRecording
  PROVE  IInv' /\ \A i \in Id : jobs[i].ended => jobs'[i] = jobs[i]
<1> USE JobsAssumption DEF JobsAssumption
<1> DEFINE new == Fresh("recording")
<1>0. PICK n \in NewJob : /\ jobs' = [jobs EXCEPT ![n] = new]
                          /\ starts' = [starts EXCEPT ![n].pc = "recording"]
  BY DEF StartRecording
<1>1. n \in Id /\ jobs[n] = NoRow /\ bot[n].st = "none" /\ TypeOK
  BY DEF NewJob, IInv, Unused, Id
<1>2. /\ new \in Row /\ ~new.ended /\ ~new.started /\ new.type = "recording"
      /\ jobs'[n] = new /\ ~jobs[n].ended /\ jobs[n].type = "none"
      /\ \A i \in Id : i # n => jobs'[i] = jobs[i]
  BY <1>0, <1>1, NewRow DEF TypeOK, NoRow
<1> HIDE DEF new
<1>3. UNCHANGED <<checkers, bot, told, people, reconnects, faults>>
  BY DEF StartRecording, env
<1>4. TypeOK'
  <2>1. jobs' \in [Id -> Row]
    BY <1>0, <1>1, <1>2 DEF TypeOK
  <2>2. starts' \in [Id -> Start]
    BY <1>0, <1>1 DEF TypeOK, Start
  <2> QED
    BY <1>1, <1>3, <2>1, <2>2 DEF TypeOK
<1>5. OneJobPerType'
  <2>1. ActiveJobs("recording")' \subseteq {n}
    BY <1>2 DEF ActiveJobs, StartRecording
  <2>2. ActiveJobs("transcribing")' \subseteq ActiveJobs("transcribing")
    BY <1>2 DEF ActiveJobs
  <2> QED
    BY <2>1, <2>2 DEF IInv, OneJobPerType
<1>6. StartedJobHasBot'
  BY <1>2, <1>3 DEF IInv, StartedJobHasBot
<1>7. Unused'
  BY <1>2, <1>3 DEF IInv, Unused
<1>8. StartKey'
  <2>1. \A i \in Id : i # n => starts'[i] = starts[i]
    BY <1>0, <1>1 DEF TypeOK
  <2>2. starts'[n].pc = "recording"
    BY <1>0, <1>1 DEF TypeOK, Start
  <2>3. \A i \in Id : jobs[i].type # "none" => jobs'[i] = jobs[i]
    BY <1>2
  <2>4. ASSUME NEW j \in Id, j # n
        PROVE  /\ starts'[j].pc = "recording" => jobs'[j].type = "recording"
               /\ starts'[j].pc = "transcribing" =>
                      starts'[j].tr \in Id /\ jobs'[starts'[j].tr].type = "transcribing"
    BY <2>1, <2>3, <2>4 DEF IInv, StartKey
  <2> QED
    BY <1>2, <2>2, <2>4 DEF StartKey
<1>9. ConnKey'
  <2>1. Bots' = Bots /\ n \notin Bots /\ Bots \subseteq Id
    BY <1>1, <1>3 DEF Bots
  <2> QED
    BY <1>2, <1>3, <2>1 DEF IInv, ConnKey
<1> QED
  BY <1>2, <1>4, <1>5, <1>6, <1>7, <1>8, <1>9 DEF IInv

\* RunJob of the recording returns: its job is noted, or the rows of the
\* transcription and the live captions are created.
LEMMA RecordingRunsIInv ==
  ASSUME IInv, NEW i \in Id, RecordingRuns(i)
  PROVE  IInv' /\ \A j \in Id : jobs[j].ended => jobs'[j] = jobs[j]
<1> USE JobsAssumption DEF JobsAssumption
<1>0. TypeOK
  BY DEF IInv
<1> DEFINE tr == Fresh("transcribing")
           lc == Fresh("captioning")
<1>1. /\ tr \in Row /\ ~tr.ended /\ ~tr.started /\ tr.type = "transcribing"
      /\ lc \in Row /\ ~lc.ended /\ ~lc.started /\ lc.type = "captioning"
      /\ ~NoRow.ended /\ NoRow.type = "none"
  BY NewRow DEF NoRow
<1> HIDE DEF tr, lc
<1>2. PICK v \in View, x \in MayFail : RecordingRuns(i)!3!(v, x)
  BY DEF RecordingRuns
<1>3. UNCHANGED <<bot, told, people, reconnects>>
  BY DEF RecordingRuns, env
<1>4. faults' \in 0..MaxFaults /\ (faults' = 0 => faults = 0)
  BY <1>0, <1>2, FaultFacts
<1>5. Done \in Start
  BY DEF Done, Start
<1>6. CASE v.rec = 0 \/ jobs[v.rec].job # 0 \/ v.rec = x
  <2>1. starts' = [starts EXCEPT ![i] = Done] /\ UNCHANGED <<jobs, checkers>>
    BY <1>2, <1>6
  <2>2. TypeOK'
    BY <1>0, <1>3, <1>4, <1>5, <2>1 DEF TypeOK
  <2>3. \A j \in Id : starts'[j] = starts[j] \/ starts'[j] = Done
    BY <1>0, <2>1 DEF TypeOK
  <2> QED
    BY <1>0, <1>3, <1>4, <2>1, <2>2, <2>3, SameRewrites, HandlerIInv
<1>7. CASE ~(v.rec = 0 \/ jobs[v.rec].job # 0 \/ v.rec = x)
  <2> DEFINE js == [jobs EXCEPT ![v.rec].job = i]
  <2>1. v.rec \in Live /\ CallOn
    BY <1>0, <1>7, ViewFacts
  <2>2. /\ js \in [Id -> Row]
        /\ \A j \in Id : /\ js[j].type = jobs[j].type
                         /\ js[j].started = jobs[j].started
                         /\ js[j].conn = jobs[j].conn
                         /\ js[j].ended = jobs[j].ended
                         /\ js[j] # jobs[j] => j \in Live
    <3>1. v.rec \in Id /\ jobs[v.rec] \in Row /\ i \in 0..MaxJob
      BY <1>0, <2>1 DEF TypeOK, Live, Id
    <3>2. [jobs[v.rec] EXCEPT !.job = i] \in Row
      BY <3>1 DEF Row
    <3>3. \A j \in Id : j # v.rec => js[j] = jobs[j]
      BY <1>0 DEF TypeOK
    <3>4. js[v.rec] = [jobs[v.rec] EXCEPT !.job = i] /\ js \in [Id -> Row]
      BY <1>0, <3>1, <3>2 DEF TypeOK
    <3> QED
      BY <2>1, <3>1, <3>3, <3>4 DEF Row
  <2>3. ASSUME jobs' = js, checkers' \subseteq Id, starts' = [starts EXCEPT ![i] = Done]
        PROVE  IInv' /\ \A j \in Id : jobs[j].ended => jobs'[j] = jobs[j]
    <3>1. Rewrites /\ SameBots
      BY <2>2, <2>3 DEF Rewrites, SameBots
    <3>2. TypeOK'
      BY <1>0, <1>3, <1>4, <1>5, <2>2, <2>3 DEF TypeOK
    <3>3. \A j \in Id : starts'[j] = starts[j] \/ starts'[j] = Done
      BY <1>0, <2>3 DEF TypeOK
    <3>4. IInv'
      BY <1>3, <1>4, <3>1, <3>2, <3>3, HandlerIInv
    <3> QED
      BY <3>1, <3>4, RewritesKeep
  <2>4. CASE ~Transcribing
    <3>1. jobs' = js /\ checkers' = checkers \cup {i} /\ starts' = [starts EXCEPT ![i] = Done]
      BY <1>2, <1>7, <2>4
    <3> QED
      BY <1>0, <2>3, <3>1 DEF TypeOK
  <2>5. CASE Transcribing /\ v.tr # 0
    <3>1. jobs' = js /\ checkers' = checkers /\ starts' = [starts EXCEPT ![i] = Done]
      BY <1>2, <1>7, <2>5
    <3> QED
      BY <1>0, <2>3, <3>1 DEF TypeOK
  <2>6. CASE Transcribing /\ v.tr = 0
    <3> USE DEF tr, lc
    <3>1. PICK t \in NewJob :
            /\ Captioning => t + 1 \in Id
            /\ jobs' = [j \in Id |->
                    IF j = t /\ x # t THEN tr
                    ELSE IF j = t + 1 /\ Captioning /\ x \notin {t, j} THEN lc ELSE js[j]]
            /\ starts' = [starts EXCEPT ![i] =
                    IF x = t \/ (Captioning /\ x = t + 1) THEN Done
                    ELSE [pc |-> "transcribing", tr |-> t]]
            /\ UNCHANGED checkers
      BY <1>2, <1>7, <2>6
    <3> HIDE DEF tr, lc, js
    <3>2. /\ t \in Id
          /\ \A j \in Id : j >= t => jobs[j] = NoRow /\ bot[j].st = "none"
      BY DEF NewJob, IInv, Unused, Id
    <3>3. \A j \in Id : \/ jobs'[j] = js[j]
                        \/ /\ jobs[j] = NoRow /\ bot[j].st = "none"
                           /\ (j = t /\ jobs'[j] = tr) \/ jobs'[j] = lc
      BY <3>1, <3>2 DEF Id
    <3>4. jobs' \in [Id -> Row]
      BY <1>1, <2>2, <3>1
    <3>5. \A j \in Id : jobs[j].ended => jobs'[j] = jobs[j]
      BY <1>1, <2>2, <3>3 DEF Live
    <3>6. TypeOK'
      <4>1. starts' \in [Id -> Start]
        BY <1>0, <1>5, <3>1, <3>2 DEF TypeOK, Start, Id
      <4> QED
        BY <1>0, <1>3, <1>4, <3>1, <3>4, <4>1 DEF TypeOK
    <3>7. OneJobPerType'
      <4>1. ActiveJobs("recording")' \subseteq ActiveJobs("recording")
        BY <1>1, <2>2, <3>3 DEF ActiveJobs
      <4>2. ActiveJobs("transcribing") = {}
        BY <1>0, <2>1, <2>6, ViewFacts
      <4>3. ActiveJobs("transcribing")' \subseteq {t}
        BY <1>1, <2>2, <3>3, <4>2 DEF ActiveJobs
      <4> QED
        BY <4>1, <4>3 DEF IInv, OneJobPerType
    <3>8. StartedJobHasBot'
      BY <1>1, <1>3, <1>4, <2>2, <3>3 DEF IInv, StartedJobHasBot
    <3>9. Unused'
      BY <1>1, <1>3, <2>2, <3>3 DEF IInv, Unused, Live
    <3>10. StartKey'
      <4>1. \A j \in Id : jobs[j].type # "none" => jobs'[j].type = jobs[j].type
        BY <1>1, <2>2, <3>3
      <4>2. starts'[i].pc = "transcribing" => starts'[i].tr = t /\ jobs'[t] = tr
        BY <1>0, <3>1, <3>2 DEF TypeOK, Done
      <4>3. starts'[i].pc # "recording"
        BY <1>0, <3>1 DEF TypeOK, Done
      <4>4. \A j \in Id : j # i => starts'[j] = starts[j]
        BY <1>0, <3>1 DEF TypeOK
      <4> QED
        BY <1>1, <3>2, <4>1, <4>2, <4>3, <4>4 DEF IInv, StartKey
    <3>11. ConnKey'
      <4>1. Bots' = Bots /\ Bots \subseteq Id /\ \A j \in Bots : bot[j].st # "none"
        BY <1>3 DEF Bots
      <4> QED
        BY <1>3, <1>4, <2>2, <3>3, <4>1 DEF IInv, ConnKey
    <3> QED
      BY <3>5, <3>6, <3>7, <3>8, <3>9, <3>10, <3>11 DEF IInv
  <2> QED
    BY <2>4, <2>5, <2>6
<1> QED
  BY <1>6, <1>7

\* The rows of a view are live, and so are those that stopTranscribingJob ends.
LEMMA ViewLive ==
  ASSUME TypeOK, NEW v \in View, NEW x
  PROVE  {v.rec, v.tr, v.lc} \ {0} \subseteq Live /\ TrEnded(v, x) \subseteq Live
<1>1. {v.rec, v.tr, v.lc} \ {0} \subseteq Live
  BY ViewFacts
<1> QED
  BY <1>1 DEF TrEnded

\* A handler that ends some of these rows, tells some bots, and is done.
LEMMA EndingIInv ==
  ASSUME IInv, NEW S, S \subseteq Live, End(S) \/ UNCHANGED jobs,
         told' \subseteq Id, bot' = bot, people' \in BOOLEAN, reconnects' = reconnects,
         faults' \in 0..MaxFaults, faults' = 0 => faults = 0,
         checkers' \subseteq Id,
         starts' = starts \/ \E i \in Id : starts' = [starts EXCEPT ![i] = Done]
  PROVE  IInv' /\ \A j \in Id : jobs[j].ended => jobs'[j] = jobs[j]
<1>0. TypeOK
  BY DEF IInv
<1>1. Rewrites /\ SameBots
  BY <1>0, EndRewrites, SameRewrites
<1>2. Done \in Start
  BY JobsAssumption DEF JobsAssumption, Done, Start
<1>3. /\ starts' \in [Id -> Start]
      /\ \A i \in Id : starts'[i] = starts[i] \/ starts'[i] = Done
  BY <1>0, <1>2 DEF TypeOK
<1>4. TypeOK'
  BY <1>0, <1>1, <1>3 DEF TypeOK, Rewrites
<1>5. IInv'
  BY <1>1, <1>3, <1>4, HandlerIInv
<1> QED
  BY <1>1, <1>5, RewritesKeep

\* RunJob of the recording fails.
LEMMA RecordingFailsIInv ==
  ASSUME IInv, NEW i \in Id, RecordingFails(i)
  PROVE  IInv' /\ \A j \in Id : jobs[j].ended => jobs'[j] = jobs[j]
<1>0. TypeOK
  BY DEF IInv
<1>1. PICK v \in View, x \in MayFail : Failing(x) /\ End({v.rec} \ {0, x})
  BY DEF RecordingFails
<1>2. {v.rec} \ {0, x} \subseteq Live
  BY <1>0, ViewLive
<1>3. faults' \in 0..MaxFaults /\ (faults' = 0 => faults = 0)
  BY <1>0, <1>1, FaultFacts
<1> QED
  BY <1>0, <1>1, <1>2, <1>3, EndingIInv DEF RecordingFails, env, TypeOK

\* RunJob of the transcription returns: its job is noted.
LEMMA TranscriptionRunsIInv ==
  ASSUME IInv, NEW i \in Id, TranscriptionRuns(i)
  PROVE  IInv' /\ \A j \in Id : jobs[j].ended => jobs'[j] = jobs[j]
<1> DEFINE t == starts[i].tr
<1>0. TypeOK
  BY DEF IInv
<1>1. PICK v \in View, x \in MayFail :
        /\ Failing(x)
        /\ \/ UNCHANGED <<jobs, checkers>>
           \/ /\ jobs' = [j \in Id |-> IF j \in {v.tr, v.lc} \ {x}
                                       THEN [jobs[j] EXCEPT !.job = t] ELSE jobs[j]]
              /\ checkers' = checkers \/ checkers' = checkers \cup {i, t}
  BY DEF TranscriptionRuns
<1>2. t \in Id /\ t \in 0..MaxJob
  BY DEF TranscriptionRuns, IInv, StartKey, Id
<1>3. faults' \in 0..MaxFaults /\ (faults' = 0 => faults = 0)
  BY <1>0, <1>1, FaultFacts
<1>4. starts' = [starts EXCEPT ![i] = Done] /\ UNCHANGED <<bot, told, people, reconnects>>
  BY DEF TranscriptionRuns, env
<1>5. Rewrites /\ SameBots
  <2>1. ASSUME NEW j \in Id
        PROVE  /\ [jobs[j] EXCEPT !.job = t] \in Row
               /\ [jobs[j] EXCEPT !.job = t].type = jobs[j].type
               /\ [jobs[j] EXCEPT !.job = t].started = jobs[j].started
               /\ [jobs[j] EXCEPT !.job = t].conn = jobs[j].conn
    BY <1>0, <1>2 DEF TypeOK, Row
  <2>2. \A j \in Id : j \in {v.tr, v.lc} => j \in Live
    BY <1>0, ViewFacts DEF Id
  <2> HIDE DEF t
  <2>3. CASE UNCHANGED jobs
    BY <1>0, <2>3, SameRewrites
  <2>4. CASE jobs' = [j \in Id |-> IF j \in {v.tr, v.lc} \ {x}
                                   THEN [jobs[j] EXCEPT !.job = t] ELSE jobs[j]]
    <3>1. jobs' \in [Id -> Row]
      BY <1>0, <2>1, <2>4 DEF TypeOK
    <3>2. \A j \in Id : \/ jobs'[j] = jobs[j]
                        \/ j \in Live /\ jobs'[j] = [jobs[j] EXCEPT !.job = t]
      BY <2>2, <2>4
    <3> QED
      BY <2>1, <3>1, <3>2 DEF Rewrites, SameBots
  <2> QED
    BY <1>1, <2>3, <2>4
<1>6. \A j \in Id : starts'[j] = starts[j] \/ starts'[j] = Done
  BY <1>0, <1>4 DEF TypeOK
<1>7. TypeOK'
  <2>1. Done \in Start
    BY JobsAssumption DEF JobsAssumption, Done, Start
  <2>2. checkers' \subseteq Id
    BY <1>0, <1>1, <1>2 DEF TypeOK
  <2> QED
    BY <1>0, <1>3, <1>4, <1>5, <2>1, <2>2 DEF TypeOK, Rewrites
<1>8. IInv'
  BY <1>3, <1>4, <1>5, <1>6, <1>7, HandlerIInv
<1> QED
  BY <1>5, <1>8, RewritesKeep

\* RunJob of the transcription fails.
LEMMA TranscriptionFailsIInv ==
  ASSUME IInv, NEW i \in Id, TranscriptionFails(i)
  PROVE  IInv' /\ \A j \in Id : jobs[j].ended => jobs'[j] = jobs[j]
<1>0. TypeOK
  BY DEF IInv
<1>1. PICK v \in View, x \in MayFail :
        Failing(x) /\ End(IF v.tr = 0 THEN {} ELSE {v.tr, v.lc} \ {0, x})
  BY DEF TranscriptionFails
<1>2. (IF v.tr = 0 THEN {} ELSE {v.tr, v.lc} \ {0, x}) \subseteq Live
  BY <1>0, ViewLive
<1>3. faults' \in 0..MaxFaults /\ (faults' = 0 => faults = 0)
  BY <1>0, <1>1, FaultFacts
<1> DEFINE S == IF v.tr = 0 THEN {} ELSE {v.tr, v.lc} \ {0, x}
<1>4. S \subseteq Live /\ End(S)
  BY <1>1, <1>2
<1> HIDE DEF S
<1>5. /\ bot' = bot /\ people' \in BOOLEAN /\ reconnects' = reconnects
      /\ told' \subseteq Id /\ checkers' \subseteq Id
      /\ starts' = [starts EXCEPT ![i] = Done]
  BY <1>0 DEF TranscriptionFails, env, TypeOK
<1> QED
  BY <1>3, <1>4, <1>5, EndingIInv

\* A start or a timeout that is lost only counts as a fault.
LEMMA LostIInv ==
  ASSUME IInv, NEW i \in Id, StartLost(i) \/ TimeoutLost(i)
  PROVE  IInv' /\ \A j \in Id : jobs[j].ended => jobs'[j] = jobs[j]
<1>0. TypeOK
  BY DEF IInv
<1>1. faults' \in 0..MaxFaults /\ (faults' = 0 => faults = 0)
  BY <1>0, JobsAssumption DEF JobsAssumption, TypeOK, MayFault, StartLost, TimeoutLost
<1>2. {} \subseteq Live
  OBVIOUS
<1> QED
  BY <1>0, <1>1, <1>2, EndingIInv DEF StartLost, TimeoutLost, env, TypeOK

\* The host stops the recording, and with it the transcription.
LEMMA StopRecordingIInv ==
  ASSUME IInv, StopRecording
  PROVE  IInv' /\ \A j \in Id : jobs[j].ended => jobs'[j] = jobs[j]
<1>0. TypeOK
  BY DEF IInv
<1>1. PICK v \in View, x \in MayFail :
        /\ v.rec # 0 /\ Failing(x)
        /\ \/ UNCHANGED <<jobs, told>>
           \/ /\ End({v.rec} \cup TrEnded(v, x))
              /\ Tell({v.rec} \cup TrStopped(v, x))
  BY DEF StopRecording
<1>2. {v.rec} \cup TrEnded(v, x) \subseteq Live
  BY <1>0, <1>1, ViewLive
<1>3. faults' \in 0..MaxFaults /\ (faults' = 0 => faults = 0)
  BY <1>0, <1>1, FaultFacts
<1>4. told' \subseteq Id
  BY <1>0, <1>1 DEF TypeOK, Tell, Bots
<1> QED
  BY <1>0, <1>1, <1>2, <1>3, <1>4, EndingIInv DEF StopRecording, env, TypeOK

\* A timeout checker wakes up.
LEMMA TimeoutIInv ==
  ASSUME IInv, NEW k \in Id, Timeout(k)
  PROVE  IInv' /\ \A j \in Id : jobs[j].ended => jobs'[j] = jobs[j]
<1>0. TypeOK
  BY DEF IInv
<1>1. PICK v \in View, x \in MayFail :
        /\ Failing(x)
        /\ \/ UNCHANGED <<jobs, told>>
           \/ /\ v.rec # 0
              /\ End(({v.rec} \ {x}) \cup TrEnded(v, x))
              /\ Tell(TrStopped(v, x))
           \/ End({v.rec, v.tr} \ {0, x}) /\ Tell({v.rec} \ {0, x})
  BY DEF Timeout, RecordingTimeout, TranscriptionTimeout
<1>2. /\ v.rec # 0 => ({v.rec} \ {x}) \cup TrEnded(v, x) \subseteq Live
      /\ {v.rec, v.tr} \ {0, x} \subseteq Live
      /\ {} \subseteq Live
  BY <1>0, ViewLive
<1>3. faults' \in 0..MaxFaults /\ (faults' = 0 => faults = 0)
  BY <1>0, <1>1, FaultFacts
<1>4. told' \subseteq Id
  BY <1>0, <1>1 DEF TypeOK, Tell, Bots
<1>5. /\ starts' = starts /\ bot' = bot /\ people' = people /\ reconnects' = reconnects
      /\ checkers' \subseteq Id
  BY <1>0 DEF Timeout, RecordingTimeout, TranscriptionTimeout, env, TypeOK
<1>6. people' \in BOOLEAN
  BY <1>0, <1>5 DEF TypeOK
<1> QED
  BY <1>1, <1>2, <1>3, <1>4, <1>5, <1>6, EndingIInv

\* The last of the others leaves.
LEMMA PeopleLeaveIInv ==
  ASSUME IInv, PeopleLeave
  PROVE  IInv' /\ \A j \in Id : jobs[j].ended => jobs'[j] = jobs[j]
<1>0. TypeOK
  BY DEF IInv
<1>1. told' \subseteq Id
  BY <1>0 DEF TypeOK, PeopleLeave, Tell, Bots
<1>2. {} \subseteq Live
  OBVIOUS
<1> QED
  BY <1>0, <1>1, <1>2, EndingIInv DEF PeopleLeave, TypeOK

\* A bot that is run, for a row that a start waits for.
LEMMA RunIInv ==
  ASSUME IInv, NEW i \in Id, Run(i)
  PROVE  IInv' /\ \A j \in Id : jobs[j].ended => jobs'[j] = jobs[j]
<1>0. TypeOK
  BY DEF IInv
<1>1. /\ UNCHANGED <<jobs, starts, checkers, told, people, reconnects, faults>>
      /\ bot' = [bot EXCEPT ![i].st = "run"]
      /\ bot[i].st = "none"
  BY DEF Run, env
<1>2. jobs[i].type # "none"
  BY DEF Run, IInv, StartKey
<1>3. /\ bot' \in [Id -> BotState]
      /\ bot'[i].st = "run"
      /\ \A j \in Id : j # i => bot'[j] = bot[j]
  BY <1>0, <1>1 DEF TypeOK, BotState
<1>4. TypeOK'
  BY <1>0, <1>1, <1>3 DEF TypeOK
<1>5. OneJobPerType' /\ StartKey'
  BY <1>1 DEF IInv, OneJobPerType, ActiveJobs, StartKey
<1>6. StartedJobHasBot'
  <2>1. bot'[i].conn = bot[i].conn
    BY <1>0, <1>1 DEF TypeOK, BotState
  <2> QED
    BY <1>1, <1>3, <2>1 DEF IInv, StartedJobHasBot
<1>7. Unused'
  BY <1>1, <1>2, <1>3 DEF IInv, Unused
<1>8. ConnKey'
  <2>1. Bots' \subseteq Bots \ {i}
    BY <1>3 DEF Bots
  <2> QED
    BY <1>1, <1>3, <2>1 DEF IInv, ConnKey, Bots
<1> QED
  BY <1>1, <1>4, <1>5, <1>6, <1>7, <1>8 DEF IInv

\* What a step of bot i preserves as long as it rewrites live rows and leaves
\* the other bots alone.
LEMMA BotIInv ==
  ASSUME IInv, NEW i \in Id, Rewrites, TypeOK', starts' = starts,
         bot[i].st # "none", \A j \in Id : j # i => bot'[j] = bot[j],
         StartedJobHasBot', ConnKey'
  PROVE  IInv' /\ \A j \in Id : jobs[j].ended => jobs'[j] = jobs[j]
<1>1. /\ OneJobPerType'
      /\ \A j \in Id : jobs'[j].type = jobs[j].type
      /\ \A j \in Id : jobs[j].ended => jobs'[j] = jobs[j]
      /\ \A j \in Id : jobs[j].type = "none" => jobs'[j] = NoRow
  BY RewritesKeep
<1>2. Unused'
  BY <1>1 DEF IInv, Unused
<1>3. StartKey'
  BY <1>1 DEF IInv, StartKey
<1> QED
  BY <1>1, <1>2, <1>3 DEF IInv

\* The rows that the bot of row i updates are its own and the live captions.
LEMMA UpdatedFacts ==
  ASSUME NEW i, NEW lc, NEW x
  PROVE  Updated(i, lc, x) \subseteq {i} \cup lc
  BY DEF Updated

\* A bot joins: its row gets its connection, unless a query fails.
LEMMA BotJoinsIInv ==
  ASSUME IInv, NEW i \in Id, BotJoins(i)
  PROVE  IInv' /\ \A j \in Id : jobs[j].ended => jobs'[j] = jobs[j]
<1> DEFINE c == <<i, "first">>
<1>0. TypeOK
  BY DEF IInv
<1> DEFINE may(v) == i \in {v.rec, v.tr} /\ ~jobs[i].started
           cap(v) == IF i = v.tr /\ v.lc # 0 /\ ~jobs[v.lc].started THEN {v.lc} ELSE {}
<1>a. PICK v \in View, x \in MayFail :
        /\ Failing(x)
        /\ jobs' = [j \in Id |-> IF may(v) /\ j \in Updated(i, cap(v), x)
                                 THEN [jobs[j] EXCEPT !.conn = c] ELSE jobs[j]]
        /\ bot' = [bot EXCEPT ![i].st = IF may(v) /\ x \notin {i} \cup cap(v)
                                      THEN "in" ELSE "out"]
  BY DEF BotJoins
<1> DEFINE ok == may(v)
           lc == cap(v)
<1>1. /\ ok => i \in {v.rec, v.tr}
      /\ lc # {} => v.lc # 0 /\ lc = {v.lc}
      /\ Failing(x)
      /\ jobs' = [j \in Id |-> IF ok /\ j \in Updated(i, lc, x)
                               THEN [jobs[j] EXCEPT !.conn = c] ELSE jobs[j]]
      /\ bot' = [bot EXCEPT ![i].st = IF ok /\ x \notin {i} \cup lc THEN "in" ELSE "out"]
  BY <1>a
<1> HIDE DEF ok, lc, may, cap
<1>2. /\ UNCHANGED <<starts, checkers, told, people, reconnects>>
      /\ bot[i].st = "run"
  BY DEF BotJoins, env
<1>3. faults' \in 0..MaxFaults /\ (faults' = 0 => x = 0 /\ faults = 0)
  BY <1>0, <1>1, FaultFacts
<1>4. /\ bot' \in [Id -> BotState]
      /\ bot'[i].st \in {"in", "out"} /\ bot'[i].conn = bot[i].conn
      /\ \A j \in Id : j # i => bot'[j] = bot[j]
      /\ bot'[i].st = "in" => ok /\ x \notin {i} \cup lc
  BY <1>0, <1>1 DEF TypeOK, BotState
<1>5. ASSUME NEW j \in Id
      PROVE  /\ [jobs[j] EXCEPT !.conn = c] \in Row
             /\ [jobs[j] EXCEPT !.conn = c].type = jobs[j].type
             /\ [jobs[j] EXCEPT !.conn = c].started = jobs[j].started
             /\ [jobs[j] EXCEPT !.conn = c].ended = jobs[j].ended
             /\ [jobs[j] EXCEPT !.conn = c].conn = c
  BY <1>0 DEF TypeOK, Row, Conn
<1>6. ASSUME NEW j \in Id, ok, j \in Updated(i, lc, x)
      PROVE  j \in Live /\ (j # i => jobs[j].type = "captioning")
  BY <1>0, <1>1, <1>6, ViewFacts, UpdatedFacts DEF Id
<1>7. ASSUME NEW j \in Id
      PROVE  \/ jobs'[j] = jobs[j]
             \/ /\ ok /\ j \in Live /\ jobs'[j] = [jobs[j] EXCEPT !.conn = c]
                /\ j # i => jobs[j].type = "captioning"
  BY <1>1, <1>6
<1>8. ok /\ x \notin {i} \cup lc => jobs'[i] = [jobs[i] EXCEPT !.conn = c]
  BY <1>1 DEF Updated
<1> HIDE DEF c
<1>9. Rewrites
  <2>1. jobs' \in [Id -> Row]
    BY <1>0, <1>1, <1>5 DEF TypeOK
  <2> QED
    BY <1>5, <1>7, <2>1 DEF Rewrites
<1>10. TypeOK'
  BY <1>0, <1>2, <1>3, <1>4, <1>9 DEF TypeOK, Rewrites
<1>11. StartedJobHasBot'
  <2>1. ASSUME NEW j \in Id, jobs'[j].started, ~jobs'[j].ended, jobs'[j].type # "captioning",
               faults' = 0, bot'[j].conn = "first"
        PROVE  bot'[j].st = "on"
    <3>1. jobs[j].started /\ ~jobs[j].ended /\ jobs[j].type # "captioning"
      BY <1>5, <1>7, <2>1
    <3>2. bot[j].conn = "first"
      BY <1>4, <2>1
    <3>3. bot[j].st = "on"
      BY <1>3, <2>1, <3>1, <3>2 DEF IInv, StartedJobHasBot
    <3> QED
      BY <1>2, <1>4, <3>3
  <2> QED
    BY <2>1 DEF StartedJobHasBot
<1>12. ConnKey'
  <2>1. ASSUME NEW j \in Bots', jobs'[j].type # "captioning", ~jobs'[j].ended, faults' = 0,
               bot'[j].conn = "first"
        PROVE  jobs'[j].conn = <<j, "first">>
    <3>1. CASE j = i
      BY <1>4, <1>5, <1>8, <2>1, <3>1 DEF Bots, c
    <3>2. CASE j # i
      <4>1. j \in Id /\ jobs'[j] = jobs[j]
        BY <1>5, <1>7, <2>1, <3>2 DEF Bots
      <4> QED
        BY <1>3, <1>4, <2>1, <3>2, <4>1 DEF IInv, ConnKey, Bots
    <3> QED
      BY <3>1, <3>2
  <2> QED
    BY <2>1 DEF ConnKey
<1> QED
  BY <1>2, <1>4, <1>9, <1>10, <1>11, <1>12, BotIInv

\* A bot reports that the job has started: its row is marked, and the bot is on,
\* unless a query fails.
LEMMA BotStartedIInv ==
  ASSUME IInv, NEW i \in Id, BotStarted(i)
  PROVE  IInv' /\ \A j \in Id : jobs[j].ended => jobs'[j] = jobs[j]
<1>0. TypeOK
  BY DEF IInv
<1> DEFINE may(v) == i \in {v.rec, v.tr} /\ ~jobs[i].started
           cap(v) == IF i = v.tr /\ Captioning /\ v.lc # 0 THEN {v.lc} ELSE {}
<1>a. PICK v \in View, x \in MayFail :
        /\ Failing(x)
        /\ jobs' = [j \in Id |-> IF may(v) /\ j \in Updated(i, cap(v), x)
                                 THEN [jobs[j] EXCEPT !.started = TRUE] ELSE jobs[j]]
        /\ IF may(v) /\ x \notin {i} \cup cap(v)
           THEN bot' = [bot EXCEPT ![i].st = "on"] /\ UNCHANGED told
           ELSE Tell({i}) /\ UNCHANGED bot
  BY DEF BotStarted
<1> DEFINE ok == may(v)
           lc == cap(v)
<1>1. /\ ok => i \in {v.rec, v.tr}
      /\ lc # {} => v.lc # 0 /\ lc = {v.lc}
      /\ Failing(x)
      /\ jobs' = [j \in Id |-> IF ok /\ j \in Updated(i, lc, x)
                               THEN [jobs[j] EXCEPT !.started = TRUE] ELSE jobs[j]]
      /\ ok /\ x \notin {i} \cup lc => bot' = [bot EXCEPT ![i].st = "on"]
      /\ bot' = [bot EXCEPT ![i].st = "on"] \/ bot' = bot
      /\ told' = told \/ Tell({i})
  BY <1>a
<1> HIDE DEF ok, lc, may, cap
<1>2. UNCHANGED <<starts, checkers, people, reconnects>> /\ bot[i].st = "in"
  BY DEF BotStarted, env
<1>3. faults' \in 0..MaxFaults /\ (faults' = 0 => x = 0 /\ faults = 0)
  BY <1>0, <1>1, FaultFacts
<1>4. /\ bot' \in [Id -> BotState]
      /\ bot'[i].st \in {"in", "on"}
      /\ \A j \in Id : bot'[j].conn = bot[j].conn
      /\ \A j \in Id : j # i => bot'[j] = bot[j]
      /\ ok /\ x \notin {i} \cup lc => bot'[i].st = "on"
  BY <1>0, <1>1, <1>2 DEF TypeOK, BotState
<1>5. ASSUME NEW j \in Id
      PROVE  /\ [jobs[j] EXCEPT !.started = TRUE] \in Row
             /\ [jobs[j] EXCEPT !.started = TRUE].type = jobs[j].type
             /\ [jobs[j] EXCEPT !.started = TRUE].ended = jobs[j].ended
             /\ [jobs[j] EXCEPT !.started = TRUE].conn = jobs[j].conn
  BY <1>0 DEF TypeOK, Row
<1>6. ASSUME NEW j \in Id, ok, j \in Updated(i, lc, x)
      PROVE  j \in Live /\ (j # i => jobs[j].type = "captioning")
  BY <1>0, <1>1, <1>6, ViewFacts, UpdatedFacts DEF Id
<1>7. ASSUME NEW j \in Id
      PROVE  \/ jobs'[j] = jobs[j]
             \/ /\ ok /\ j \in Live /\ jobs'[j] = [jobs[j] EXCEPT !.started = TRUE]
                /\ j # i => jobs[j].type = "captioning"
  BY <1>1, <1>6
<1>8. ok /\ faults' = 0 => x \notin {i} \cup lc
  BY <1>1, <1>3 DEF Id
<1>9. Rewrites
  <2>1. jobs' \in [Id -> Row]
    BY <1>0, <1>1, <1>5 DEF TypeOK
  <2> QED
    BY <1>5, <1>7, <2>1 DEF Rewrites
<1>10. TypeOK'
  <2>1. told' \subseteq Id
    BY <1>0, <1>1 DEF TypeOK, Tell, Bots
  <2> QED
    BY <1>0, <1>2, <1>3, <1>4, <1>9, <2>1 DEF TypeOK, Rewrites
<1>11. StartedJobHasBot'
  <2>1. ASSUME NEW j \in Id, jobs'[j].started, ~jobs'[j].ended, jobs'[j].type # "captioning",
               faults' = 0, bot'[j].conn = "first"
        PROVE  bot'[j].st = "on"
    <3>1. CASE jobs'[j] = jobs[j]
      <4>1. bot[j].st = "on"
        BY <1>3, <1>4, <2>1, <3>1 DEF IInv, StartedJobHasBot
      <4> QED
        BY <1>2, <1>4, <4>1
    <3>2. CASE ok /\ j = i
      BY <1>4, <1>8, <2>1, <3>2
    <3> QED
      BY <1>5, <1>7, <2>1, <3>1, <3>2
  <2> QED
    BY <2>1 DEF StartedJobHasBot
<1>12. ConnKey'
  <2>1. Bots' \subseteq Bots
    BY <1>2, <1>4 DEF Bots
  <2>2. \A j \in Id : /\ jobs'[j].type = jobs[j].type /\ jobs'[j].ended = jobs[j].ended
                      /\ jobs'[j].conn = jobs[j].conn
    BY <1>5, <1>7
  <2> QED
    BY <1>3, <1>4, <2>1, <2>2 DEF IInv, ConnKey, Bots
<1> QED
  BY <1>2, <1>4, <1>9, <1>10, <1>11, <1>12, BotIInv

\* A bot reports a failure: rows end, and a bot that has not joined exits.
LEMMA BotFailedIInv ==
  ASSUME IInv, NEW i \in Id, BotFailed(i)
  PROVE  IInv' /\ \A j \in Id : jobs[j].ended => jobs'[j] = jobs[j]
<1>0. TypeOK
  BY DEF IInv
<1>1. PICK v \in View, x \in MayFail :
        /\ Failing(x)
        /\ \/ i = v.rec /\ End(({i} \ {x}) \cup TrEnded(v, x))
           \/ i = v.tr /\ End({v.rec, i} \ {0, x})
           \/ UNCHANGED jobs
  BY DEF BotFailed
<1>2. /\ UNCHANGED <<starts, checkers, people, reconnects>>
      /\ bot' = [bot EXCEPT ![i].st = IF @ = "run" THEN "out" ELSE @]
      /\ bot[i].st \in {"run", "in", "on"}
      /\ told' \subseteq Id
  BY <1>0 DEF BotFailed, env, TypeOK, Tell, Bots
<1>3. faults' \in 0..MaxFaults /\ (faults' = 0 => faults = 0)
  BY <1>0, <1>1, FaultFacts
<1>4. /\ bot' \in [Id -> BotState]
      /\ \A j \in Id : bot'[j].conn = bot[j].conn
      /\ \A j \in Id : j # i => bot'[j] = bot[j]
      /\ bot[i].st # "run" => bot'[i] = bot[i]
      /\ bot[i].st = "run" => bot'[i].st = "out"
  BY <1>0, <1>2 DEF TypeOK, BotState
<1>5. Rewrites /\ SameBots
  <2>1. i = v.rec => ({i} \ {x}) \cup TrEnded(v, x) \subseteq Live
    BY <1>0, ViewLive DEF Id
  <2>2. i = v.tr => {v.rec, i} \ {0, x} \subseteq Live
    BY <1>0, ViewLive
  <2> QED
    BY <1>0, <1>1, <2>1, <2>2, EndRewrites, SameRewrites
<1>6. TypeOK'
  BY <1>0, <1>2, <1>3, <1>4, <1>5 DEF TypeOK, Rewrites
<1>7. /\ \A j \in Id : jobs[j].ended => jobs'[j] = jobs[j]
      /\ \A j \in Id : jobs'[j].type = jobs[j].type
  BY <1>5, RewritesKeep
<1>8. StartedJobHasBot'
  <2>1. \A j \in Id : jobs[j].started /\ ~jobs[j].ended /\ jobs[j].type # "captioning"
                      /\ faults = 0 /\ bot[j].conn = "first" => bot[j].st = "on"
    BY DEF IInv, StartedJobHasBot
  <2> QED
    BY <1>3, <1>4, <1>5, <1>7, <2>1 DEF SameBots, StartedJobHasBot
<1>9. ConnKey'
  <2>1. Bots' \subseteq Bots /\ Bots \subseteq Id
    BY <1>4 DEF Bots
  <2> QED
    BY <1>3, <1>4, <1>5, <1>7, <2>1 DEF IInv, ConnKey, SameBots
<1> QED
  BY <1>2, <1>4, <1>5, <1>6, <1>8, <1>9, BotIInv

\* A bot comes back on another connection: only rows of its first one move.
LEMMA BotReconnectsIInv ==
  ASSUME IInv, NEW i \in Id, BotReconnects(i)
  PROVE  IInv' /\ \A j \in Id : jobs[j].ended => jobs'[j] = jobs[j]
<1>0. TypeOK
  BY DEF IInv
<1> DEFINE old == <<i, "first">>
           new == <<i, "later">>
<1>1. PICK v \in View, M \in SUBSET Id :
        /\ \A j \in M : j \in {v.rec, v.tr, v.lc} /\ jobs[j].conn = old
        /\ jobs' = [j \in Id |-> IF j \in M THEN [jobs[j] EXCEPT !.conn = new] ELSE jobs[j]]
  <2> DEFINE moved(v) == IF v.rec # 0 /\ jobs[v.rec].conn = old THEN {v.rec}
                         ELSE IF v.tr # 0 /\ jobs[v.tr].conn = old
                         THEN {v.tr} \cup {j \in {v.lc} \ {0} : jobs[j].conn = old}
                         ELSE {}
  <2>1. PICK v \in View :
          jobs' = [j \in Id |-> IF j \in moved(v) THEN [jobs[j] EXCEPT !.conn = new] ELSE jobs[j]]
    BY DEF BotReconnects
  <2>2. moved(v) \in SUBSET Id
    BY <1>0, ViewFacts DEF Live
  <2>3. \A j \in moved(v) : j \in {v.rec, v.tr, v.lc} /\ jobs[j].conn = old
    OBVIOUS
  <2> QED
    BY <2>1, <2>2, <2>3
<1>2. /\ UNCHANGED <<starts, checkers, told, people, faults>>
      /\ bot' = [bot EXCEPT ![i].conn = "later"]
      /\ i \in Bots /\ reconnects' = reconnects + 1 /\ reconnects + faults < MaxReconnects
  BY DEF BotReconnects
<1>3. /\ bot' \in [Id -> BotState]
      /\ bot'[i].conn = "later" /\ bot'[i].st = bot[i].st
      /\ \A j \in Id : j # i => bot'[j] = bot[j]
  BY <1>0, <1>2 DEF TypeOK, BotState
<1>4. ASSUME NEW j \in Id
      PROVE  /\ [jobs[j] EXCEPT !.conn = new] \in Row
             /\ [jobs[j] EXCEPT !.conn = new].type = jobs[j].type
             /\ [jobs[j] EXCEPT !.conn = new].started = jobs[j].started
             /\ [jobs[j] EXCEPT !.conn = new].ended = jobs[j].ended
  BY <1>0 DEF TypeOK, Row, Conn
<1>5. ASSUME NEW j \in Id
      PROVE  \/ jobs'[j] = jobs[j]
             \/ /\ j \in Live /\ jobs[j].conn = old
                /\ jobs'[j] = [jobs[j] EXCEPT !.conn = new]
  BY <1>0, <1>1, ViewFacts DEF Id
<1> HIDE DEF new
<1>6. Rewrites
  <2>1. jobs' \in [Id -> Row]
    BY <1>0, <1>1, <1>4 DEF TypeOK
  <2> QED
    BY <1>4, <1>5, <2>1 DEF Rewrites
<1>7. TypeOK'
  <2>1. reconnects' \in 0..MaxReconnects
    BY <1>0, <1>2, JobsAssumption DEF JobsAssumption, TypeOK
  <2> QED
    BY <1>0, <1>2, <1>3, <1>6, <2>1 DEF TypeOK, Rewrites
<1>8. \A j \in Id : /\ jobs'[j].type = jobs[j].type /\ jobs'[j].ended = jobs[j].ended
                    /\ jobs'[j].started = jobs[j].started
  BY <1>4, <1>5
<1>9. StartedJobHasBot'
  BY <1>2, <1>3, <1>8 DEF IInv, StartedJobHasBot
<1>10. ConnKey'
  <2>1. ASSUME NEW j \in Bots', jobs'[j].type # "captioning", ~jobs'[j].ended, faults' = 0,
               bot'[j].conn = "first"
        PROVE  jobs'[j].conn = <<j, "first">>
    <3>1. j \in Id /\ j # i /\ j \in Bots
      BY <1>3, <2>1 DEF Bots
    <3>2. jobs[j].conn = <<j, "first">>
      BY <1>2, <1>3, <1>8, <2>1, <3>1 DEF IInv, ConnKey
    <3>3. jobs[j].conn # old
      BY <3>1, <3>2
    <3> QED
      BY <1>5, <3>1, <3>2, <3>3
  <2> QED
    BY <2>1 DEF ConnKey
<1>11. bot[i].st # "none"
  BY <1>2 DEF Bots
<1> QED
  BY <1>2, <1>3, <1>6, <1>7, <1>9, <1>10, <1>11, BotIInv

\* A bot leaves: its row, found by its connection, ends.
LEMMA BotLeavesIInv ==
  ASSUME IInv, NEW i \in Id, BotLeaves(i)
  PROVE  IInv' /\ \A j \in Id : jobs[j].ended => jobs'[j] = jobs[j]
<1>0. TypeOK
  BY DEF IInv
<1>1. PICK v \in View, x \in MayFail :
        /\ Failing(x)
        /\ End(RowsLeft(i, v, x))
        /\ told' = (told \cup (StopsLeft(i, v, x) \cap Bots)) \ {i}
  BY DEF BotLeaves
<1>2. /\ UNCHANGED <<starts, checkers, people, reconnects>>
      /\ bot' = [bot EXCEPT ![i].st = "out"]
      /\ i \in Bots
  BY DEF BotLeaves, env
<1>3. faults' \in 0..MaxFaults /\ (faults' = 0 => x = 0 /\ faults = 0)
  BY <1>0, <1>1, FaultFacts
<1>4. /\ bot' \in [Id -> BotState]
      /\ bot'[i].st = "out" /\ bot'[i].conn = bot[i].conn
      /\ \A j \in Id : j # i => bot'[j] = bot[j]
  BY <1>0, <1>2 DEF TypeOK, BotState
<1>5. RowsLeft(i, v, x) \subseteq Live
  BY <1>0, ViewLive DEF RowsLeft
<1>6. Rewrites /\ SameBots
  BY <1>0, <1>1, <1>5, EndRewrites
<1>7. TypeOK'
  <2>1. told' \subseteq Id
    BY <1>0, <1>1 DEF TypeOK, Bots
  <2> QED
    BY <1>0, <1>2, <1>3, <1>4, <1>6, <2>1 DEF TypeOK, Rewrites
<1>8. /\ \A j \in Id : jobs[j].ended => jobs'[j] = jobs[j]
      /\ \A j \in Id : jobs'[j].type = jobs[j].type
      /\ \A j \in Id : jobs[j].type = "none" => jobs'[j] = NoRow
  BY <1>6, RewritesKeep
<1>9. StartedJobHasBot'
  <2>1. ASSUME NEW j \in Id, jobs'[j].started, ~jobs'[j].ended, jobs'[j].type # "captioning",
               faults' = 0, bot'[j].conn = "first"
        PROVE  bot'[j].st = "on"
    <3>1. /\ jobs[j].started /\ ~jobs[j].ended /\ jobs[j].type # "captioning"
          /\ faults = 0 /\ x = 0 /\ bot[j].conn = "first"
      BY <1>3, <1>4, <1>6, <1>8, <2>1 DEF SameBots
    <3>2. bot[j].st = "on"
      BY <3>1 DEF IInv, StartedJobHasBot
    <3>3. ASSUME j = i PROVE FALSE
      <4>1. CallOn
        BY <1>2 DEF CallOn
      <4>2. jobs[i].conn = <<i, "first">>
        BY <1>2, <3>1, <3>3 DEF IInv, ConnKey
      <4>3. jobs[i].type \in {"recording", "transcribing"}
        <5>1. jobs[i].type # "none"
          BY <3>1, <3>3, NewRow DEF IInv, Unused, NoRow
        <5> QED
          BY <1>0, <3>1, <3>3, <5>1 DEF TypeOK, Row
      <4>4. i = v.rec \/ i = v.tr
        BY <3>1, <3>3, <4>1, <4>3, ViewOfOne
      <4>5. i \in RowsLeft(i, v, x)
        BY <3>1, <4>2, <4>4 DEF RowsLeft, Id
      <4>6. jobs'[i].ended
        BY <1>0, <1>1, <4>5 DEF End, TypeOK, Row
      <4> QED
        BY <2>1, <3>3, <4>6
    <3> QED
      BY <1>4, <3>2, <3>3
  <2> QED
    BY <2>1 DEF StartedJobHasBot
<1>10. ConnKey'
  <2>1. Bots' \subseteq Bots \ {i} /\ Bots \subseteq Id
    BY <1>4 DEF Bots
  <2> QED
    BY <1>3, <1>4, <1>6, <1>8, <2>1 DEF IInv, ConnKey, SameBots
<1>11. bot[i].st # "none"
  BY <1>2 DEF Bots
<1> QED
  BY <1>2, <1>4, <1>6, <1>7, <1>9, <1>10, <1>11, BotIInv

\* Every step keeps the invariant, and writes no job that has ended.
LEMMA NextIInv ==
  ASSUME IInv, [Next]_vars
  PROVE  IInv' /\ \A j \in Id : jobs[j].ended => jobs'[j] = jobs[j]
<1>1. CASE UNCHANGED vars
  BY <1>1 DEF vars, IInv, TypeOK, OneJobPerType, ActiveJobs, StartedJobHasBot, Unused, StartKey,
     ConnKey, Bots
<1>2. CASE StartRecording \/ StopRecording \/ PeopleLeave
  BY <1>2, StartRecordingIInv, StopRecordingIInv, PeopleLeaveIInv
<1>3. ASSUME NEW i \in Id, StartStep(i) \/ StartLost(i)
      PROVE  IInv' /\ \A j \in Id : jobs[j].ended => jobs'[j] = jobs[j]
  BY <1>3, RecordingRunsIInv, RecordingFailsIInv, TranscriptionRunsIInv, TranscriptionFailsIInv,
     LostIInv DEF StartStep
<1>4. ASSUME NEW i \in Id, Timeout(i) \/ TimeoutLost(i)
      PROVE  IInv' /\ \A j \in Id : jobs[j].ended => jobs'[j] = jobs[j]
  BY <1>4, TimeoutIInv, LostIInv
<1>5. ASSUME NEW i \in Id, BotStep(i)
      PROVE  IInv' /\ \A j \in Id : jobs[j].ended => jobs'[j] = jobs[j]
  BY <1>5, RunIInv, BotJoinsIInv, BotStartedIInv, BotFailedIInv, BotReconnectsIInv, BotLeavesIInv
  DEF BotStep
<1> QED
  BY <1>1, <1>2, <1>3, <1>4, <1>5 DEF Next

\* The invariant always holds.
THEOREM JobsIInvAlways == Spec => []IInv
<1>1. IInv /\ [Next]_vars => IInv'
  BY NextIInv
<1> QED
  BY <1>1, InitIInv, PTL DEF Spec

\* Type correctness of the rows, the handlers and the bots.
THEOREM JobsTyping == Spec => []TypeOK
<1>1. IInv => TypeOK
  BY DEF IInv
<1> QED
  BY <1>1, JobsIInvAlways, PTL

\* A call never has two active recordings or two active transcriptions, although
\* the lock is given up while a job is started.
THEOREM OneActiveJobPerType == Spec => []OneJobPerType
<1>1. IInv => OneJobPerType
  BY DEF IInv
<1> QED
  BY <1>1, JobsIInvAlways, PTL

\* A job that is shown as started has its bot, which ends it by leaving, as long
\* as no query fails and the bot stays on its connection.
THEOREM StartedJobs == Spec => []StartedJobHasBot
<1>1. IInv => StartedJobHasBot
  BY DEF IInv
<1> QED
  BY <1>1, JobsIInvAlways, PTL

\* No handler, timeout checker or report writes the row of a job that has ended.
THEOREM EndedJobsStay == Spec => EndedJobStays
<1>1. IInv /\ [Next]_vars => [\A i \in Id : jobs[i].ended => jobs'[i] = jobs[i]]_vars
  BY NextIInv
<1> QED
  BY <1>1, JobsIInvAlways, PTL DEF Spec, EndedJobStays
=============================================================================

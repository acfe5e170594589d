--------------------------- MODULE JsonFileProofs ---------------------------
(***************************************************************************)
(* Proofs about JsonFile, for every number of changes, failed calls, ends  *)
(* and starts of the process.                                              *)
(***************************************************************************)
EXTENDS JsonFile, SequenceTheorems, TLAPS

Keys == OrderKey /\ ChainKey /\ JobKey /\ SyncKey

\* What each step keeps; KnownKey is left to a lemma of its own.
Keeps == JsonTypeOK' /\ DownKey' /\ (~raced' => Keys')

\* The file does not go back, unless the save on quit has met a write.
Forward == ~raced' => Disk' >= Disk

\* What a file contains is a version.
LEMMA DiskInVer == ASSUME JsonTypeOK PROVE Disk \in Ver
BY JsonFileAssumption DEF JsonFileAssumption, JsonTypeOK, Disk, Ver, Inode

\* A job that has begun is a job, and so is none.
LEMMA JobTypes ==
    NoJob \in Job /\ \A ver \in Ver : Begin(ver) \in Job /\ Begin(ver).pc = "open"
BY JsonFileAssumption DEF JsonFileAssumption, NoJob, Begin, Job, Ver

\* A call that is executed or issued changes the job's state and descriptor only.
LEMMA JobStep ==
    ASSUME job \in Job, job.pc # "none", NEW pc \in {"open", "write", "rename"},
           NEW res \in {"issued", "done", "error"}, NEW fd \in 0..3,
           job' = [job EXCEPT !.pc = pc, !.res = res, !.fd = fd]
    PROVE  /\ job' \in Job /\ job' # NoJob
           /\ job'.pc = pc /\ job'.res = res /\ job'.fd = fd
           /\ job'.snap = job.snap /\ job.snap \in Ver
<1>1. job \in [pc : {"open", "write", "rename"}, res : {"issued", "done", "error"},
              snap : Ver, fd : 0..3]
  BY DEF Job, NoJob
<1>2. job'.pc = pc /\ job'.res = res /\ job'.fd = fd /\ job'.snap = job.snap
  BY <1>1
<1>3. job' \in [pc : {"open", "write", "rename"}, res : {"issued", "done", "error"},
               snap : Ver, fd : 0..3]
  BY <1>1
<1> QED
  BY <1>1, <1>2, <1>3 DEF Job, NoJob

\* Steps that leave the file system alone leave the file alone.
LEMMA SameDisk == ASSUME UNCHANGED disk PROVE Disk' = Disk
BY DEF disk, Disk

\* In the beginning there are no files and no changes.
LEMMA InitIInv == JsonInit => IInv
<1> SUFFICES ASSUME JsonInit PROVE IInv
  OBVIOUS
<1> USE JsonFileAssumption DEF JsonFileAssumption, JsonInit
<1>1. JsonTypeOK
  <2>1. 0 \in Ver /\ chain \in Seq(Ver) /\ job \in Job
    BY JobTypes DEF Ver
  <2>2. path \in [{"json", "tmp"} -> 0..3] /\ inode \in [Inode -> Ver]
    BY <2>1
  <2> QED
    BY <2>1, <2>2 DEF JsonTypeOK, Writing, NoJob
<1>2. Disk = 0
  BY DEF Disk
<1>3. Keys
  BY <1>2 DEF Keys, OrderKey, ChainKey, JobKey, SyncKey, NoJob
<1>4. KnownKey
  BY DEF KnownKey, NoJob, Inode
<1> QED
  BY <1>1, <1>3, <1>4 DEF IInv, Keys, DownKey

\* A change: its snapshot is the newest of all.
LEMMA SetValueIInv == ASSUME IInv, SetValue PROVE Keeps /\ Forward
<1> USE JsonFileAssumption DEF JsonFileAssumption, SetValue, exit, disk
<1>1. Disk' = Disk /\ Disk \in Ver
  BY SameDisk, DiskInVer DEF IInv
<1>2. last \in Ver /\ json \in Ver /\ last' \in Ver /\ chain \in Seq(Ver) /\ job \in Job
  BY DEF IInv, JsonTypeOK, Ver
<1>3. WriteToFile(last')
  OBVIOUS
<1>4. job' \in Job /\ chain' \in Seq(Ver)
  <2>1. Begin(last') \in Job
    BY <1>2, JobTypes
  <2>2. Append(chain, last') \in Seq(Ver)
    BY <1>2
  <2> QED
    BY <1>2, <1>3, <2>1, <2>2 DEF WriteToFile
<1>5. Writing' => Writing /\ job' = job
  BY <1>3 DEF WriteToFile, Begin, Writing
<1>6. JsonTypeOK'
  BY <1>2, <1>4, <1>5 DEF IInv, JsonTypeOK
<1>7. ASSUME ~raced' PROVE Keys'
  <2>1. OrderKey /\ ChainKey /\ JobKey /\ SyncKey
    BY <1>7 DEF IInv
  <2>2. json' = last + 1 /\ json \in Nat /\ last \in Nat /\ json <= last /\ json < json'
    BY <1>2 DEF IInv, KnownKey, Ver
  <2>3. OrderKey'
    BY <1>1, <2>1, <2>2, <1>2 DEF OrderKey, Ver
  <2>4. SyncKey'
    BY <2>1 DEF SyncKey
  <2>5. CASE job = NoJob /\ ~failed /\ job' = Begin(last') /\ UNCHANGED chain
    <3>1. chain = <<>>
      BY <2>1, <2>5 DEF ChainKey, NoJob
    <3>2. ChainKey'
      BY <3>1, <2>5 DEF ChainKey
    <3>3. JobKey'
      BY <2>1, <2>2, <2>5, <1>1, <1>2 DEF JobKey, Begin, OrderKey, Ver, Writing, Complete
    <3> QED
      BY <2>3, <2>4, <3>2, <3>3 DEF Keys
  <2>6. CASE job # NoJob /\ chain' = Append(chain, last') /\ UNCHANGED job
    <3>1. job.pc # "none" /\ Len(chain) \in Nat
      BY <1>2, <2>6 DEF Job
    <3>2. Len(chain') = Len(chain) + 1 /\ chain'[Len(chain) + 1] = last'
      BY <1>2, <2>6
    <3>3. \A k \in 1..Len(chain) : chain'[k] = chain[k] /\ chain[k] \in Ver
      BY <1>2, <2>6
    <3>4. job.snap \in Ver /\ job.snap <= json
      BY <1>2, <2>1, <3>1 DEF Job, NoJob, JobKey
    <3>5. ChainKey'
      <4>1. \A k \in 1..Len(chain') : job.snap <= chain'[k] /\ chain'[k] <= json'
        <5> SUFFICES ASSUME NEW k \in 1..Len(chain')
                     PROVE  job.snap <= chain'[k] /\ chain'[k] <= json'
          OBVIOUS
        <5>1. CASE k \in 1..Len(chain)
          BY <2>1, <2>2, <3>3, <3>4, <5>1 DEF ChainKey, Ver
        <5>2. CASE k = Len(chain) + 1
          BY <2>2, <3>2, <3>4, <5>2 DEF Ver
        <5> QED
          BY <3>1, <3>2, <5>1, <5>2
      <4>2. \A k, l \in 1..Len(chain') : k <= l => chain'[k] <= chain'[l]
        <5> SUFFICES ASSUME NEW k \in 1..Len(chain'), NEW l \in 1..Len(chain'), k <= l
                     PROVE  chain'[k] <= chain'[l]
          OBVIOUS
        <5>1. CASE l \in 1..Len(chain)
          <6>1. k \in 1..Len(chain)
            BY <3>1, <5>1
          <6> QED
            BY <2>1, <3>3, <5>1, <6>1 DEF ChainKey
        <5>2. CASE l = Len(chain) + 1
          BY <2>2, <3>2, <4>1, <5>2
        <5> QED
          BY <3>1, <3>2, <5>1, <5>2
      <4> QED
        BY <4>1, <4>2, <3>1, <2>6 DEF ChainKey
    <3>6. JobKey'
      BY <2>1, <2>2, <2>6, <3>4, <1>1 DEF JobKey, Ver, Writing, Complete
    <3> QED
      BY <2>3, <2>4, <3>5, <3>6 DEF Keys
  <2>7. CASE failed /\ UNCHANGED <<job, chain>>
    <3>1. \A k \in 1..Len(chain) : chain[k] \in Nat
      BY <1>2 DEF Ver
    <3>2. ChainKey'
      BY <2>1, <2>2, <2>7, <3>1 DEF ChainKey
    <3>3. job.pc # "none" => job.snap \in Nat
      BY <1>2 DEF Job, NoJob, Ver
    <3>4. JobKey'
      BY <2>1, <2>2, <2>7, <1>1, <3>3 DEF JobKey, Writing, Complete
    <3> QED
      BY <2>3, <2>4, <3>2, <3>4 DEF Keys
  <2> QED
    BY <2>5, <2>6, <2>7, <1>3 DEF WriteToFile
<1> QED
  BY <1>1, <1>6, <1>7 DEF IInv, Keeps, Keys, DownKey, Forward, Ver

\* Opening the temporary file truncates no other file than that one.
LEMMA OpenedTmp ==
    ASSUME JsonTypeOK, NEW i \in Inode, Opened("tmp", i)
    PROVE  /\ path'.tmp = i /\ path'.json = path.json /\ i # path.json /\ i # 0
           /\ path' \in [{"json", "tmp"} -> 0..3]
           /\ inode' \in [Inode -> Ver] /\ inode'[i] = 0
           /\ Disk' = Disk
<1> USE DEF JsonTypeOK, Opened, Target, Inode
<1>1. i # 0 /\ i # path.json
  OBVIOUS
<1>2. path'.tmp = i /\ path'.json = path.json /\ path' \in [{"json", "tmp"} -> 0..3]
  OBVIOUS
<1>3. inode' \in [Inode -> Ver] /\ inode'[i] = 0
  BY JsonFileAssumption DEF JsonFileAssumption, Ver
<1>4. path.json # 0 => path.json \in Inode /\ inode'[path.json] = inode[path.json]
  BY <1>1
<1> QED
  BY <1>1, <1>2, <1>3, <1>4 DEF Disk

\* Writing changes the content of that inode only, and exactly if it was empty.
LEMMA WrittenOne ==
    ASSUME JsonTypeOK, NEW i \in Inode, NEW ver \in Ver, Written(i, ver)
    PROVE  /\ inode' \in [Inode -> Ver]
           /\ inode[i] = 0 => inode'[i] = ver
           /\ \A k \in Inode \ {i} : inode'[k] = inode[k]
<1>1. PICK text \in IF inode[i] = 0 THEN {ver} ELSE {ver, 0} : inode' = [inode EXCEPT ![i] = text]
  BY DEF Written
<1>2. text \in Ver
  BY <1>1, JsonFileAssumption DEF JsonFileAssumption, Ver
<1> QED
  BY <1>1, <1>2 DEF JsonTypeOK

\* The pool opens the temporary file.
LEMMA OpenTmpIInv == ASSUME IInv, OpenTmp PROVE Keeps /\ Forward
<1> USE DEF OpenTmp, exit, mem
<1>1. PICK i \in Inode : Opened("tmp", i) /\ Succeeds(i)
  BY DEF OpenTmp
<1>2. JsonTypeOK /\ DownKey /\ job \in Job
  BY DEF IInv, JsonTypeOK
<1>3. /\ path'.tmp = i /\ path'.json = path.json /\ i # path.json /\ i # 0
      /\ path' \in [{"json", "tmp"} -> 0..3] /\ inode' \in [Inode -> Ver] /\ inode'[i] = 0
      /\ Disk' = Disk
  BY <1>1, <1>2, OpenedTmp
<1>4. Disk \in Ver
  BY <1>2, DiskInVer
<1>5. /\ job' \in Job /\ job' # NoJob
      /\ job'.pc = "open" /\ job'.res = "done" /\ job'.fd = i /\ job'.snap = job.snap
  <2>1. job' = [job EXCEPT !.pc = "open", !.res = "done", !.fd = i]
    BY <1>1, <1>2 DEF Succeeds, Job, NoJob
  <2>2. job.pc # "none" /\ i \in 0..3
    BY DEF Inode
  <2> QED
    BY <1>2, <2>1, <2>2, JobStep
<1>6. JsonTypeOK'
  BY <1>2, <1>3, <1>5 DEF JsonTypeOK
<1>7. DownKey'
  BY <1>2 DEF DownKey, NoJob
<1>8. ASSUME ~raced PROVE Keys'
  <2>1. Keys
    BY <1>8 DEF IInv, Keys
  <2>2. main = "free"
    BY <2>1 DEF Keys, JobKey
  <2>3. OrderKey' /\ ChainKey' /\ SyncKey'
    BY <2>1, <2>2, <1>3, <1>5 DEF Keys, OrderKey, ChainKey, SyncKey
  <2>4. JobKey'
    BY <2>1, <2>2, <1>3, <1>5 DEF Keys, JobKey, Writing, Complete
  <2> QED
    BY <2>3, <2>4 DEF Keys
<1> QED
  BY <1>3, <1>4, <1>6, <1>7, <1>8, JsonFileAssumption
     DEF Keeps, Keys, Forward, Ver, JsonFileAssumption

\* The pool writes the snapshot.
LEMMA WriteTmpIInv == ASSUME IInv, WriteTmp PROVE Keeps /\ Forward
<1> USE DEF WriteTmp, exit, mem
<1>1. JsonTypeOK /\ DownKey /\ job \in Job /\ Disk \in Ver
  BY DiskInVer DEF IInv, JsonTypeOK
<1>2. Writing /\ job.fd \in Inode /\ job.snap \in Ver
  BY <1>1 DEF JsonTypeOK, Job, NoJob, Writing, Inode
<1>3. /\ job' \in Job /\ job' # NoJob
      /\ job'.pc = "write" /\ job'.res = "done" /\ job'.snap = job.snap
  <2>1. job' = [job EXCEPT !.pc = "write", !.res = "done", !.fd = 0]
    BY <1>1 DEF Succeeds, Job, NoJob
  <2> QED
    BY <1>1, <2>1, JobStep
<1>4. /\ inode' \in [Inode -> Ver]
      /\ inode[job.fd] = 0 => inode'[job.fd] = job.snap
      /\ \A k \in Inode \ {job.fd} : inode'[k] = inode[k]
  BY <1>1, <1>2, WrittenOne
<1>5. JsonTypeOK'
  BY <1>1, <1>3, <1>4 DEF JsonTypeOK, Writing
<1>6. DownKey'
  BY <1>1 DEF DownKey, NoJob
<1>7. ASSUME ~raced PROVE Keys' /\ Disk' = Disk
  <2>1. Keys /\ main = "free"
    BY <1>7, <1>2 DEF IInv, Keys, JobKey
  <2>2. job.fd = path.tmp /\ inode[job.fd] = 0
    BY <1>2, <2>1 DEF Keys, JobKey
  <2>3. Disk' = Disk
    BY <1>1, <1>4, <2>2 DEF JsonTypeOK, Disk, Inode
  <2>4. OrderKey' /\ ChainKey' /\ SyncKey'
    BY <2>1, <2>3, <1>3 DEF Keys, OrderKey, ChainKey, SyncKey
  <2>5. JobKey'
    BY <2>1, <2>2, <2>3, <1>2, <1>3, <1>4 DEF Keys, JobKey, Writing, Complete, Inode
  <2> QED
    BY <2>3, <2>4, <2>5 DEF Keys
<1> QED
  BY <1>1, <1>5, <1>6, <1>7, JsonFileAssumption
     DEF Keeps, Keys, Forward, Ver, JsonFileAssumption

\* The pool renames the temporary file, which has the snapshot.
LEMMA RenameTmpIInv == ASSUME IInv, RenameTmp PROVE Keeps /\ Forward
<1> USE DEF RenameTmp, Renamed, exit, mem
<1>1. JsonTypeOK /\ DownKey /\ job \in Job /\ Disk \in Ver
  BY DiskInVer DEF IInv, JsonTypeOK
<1>2. /\ job' \in Job /\ job' # NoJob
      /\ job'.pc = "rename" /\ job'.res = "done" /\ job'.snap = job.snap /\ job.snap \in Ver
  <2>1. job' = [job EXCEPT !.pc = "rename", !.res = "done", !.fd = 0]
    BY <1>1 DEF Succeeds, Job, NoJob
  <2> QED
    BY <1>1, <2>1, JobStep
<1>3. path' \in [{"json", "tmp"} -> 0..3] /\ path'.json = path.tmp /\ path'.tmp = 0
  BY <1>1 DEF JsonTypeOK
<1>4. JsonTypeOK'
  BY <1>1, <1>2, <1>3 DEF JsonTypeOK, Writing
<1>5. DownKey'
  BY <1>1 DEF DownKey, NoJob
<1>6. Disk' = inode[path.tmp]
  BY <1>3 DEF Disk
<1>7. ASSUME ~raced PROVE Keys' /\ Disk' >= Disk
  <2>1. Keys /\ main = "free"
    BY <1>7 DEF IInv, Keys, JobKey
  <2>2. Disk' = job.snap /\ Disk <= job.snap /\ job.snap <= json
    BY <2>1, <1>6 DEF Keys, JobKey, Complete
  <2>3. Disk \in Nat /\ job.snap \in Nat /\ saved \in Nat
    BY <1>1, <1>2 DEF JsonTypeOK, Ver
  <2>4. OrderKey' /\ ChainKey' /\ SyncKey'
    BY <2>1, <2>2, <2>3, <1>2 DEF Keys, OrderKey, ChainKey, SyncKey
  <2>5. JobKey'
    BY <2>1, <2>2, <2>3, <1>2 DEF Keys, JobKey, Writing, Complete
  <2> QED
    BY <2>2, <2>3, <2>4, <2>5 DEF Keys
<1> QED
  BY <1>4, <1>5, <1>7 DEF Keeps, Keys, Forward

\* A call fails: its file is left as it is.
LEMMA CallFailsIInv == ASSUME IInv, CallFails PROVE Keeps /\ Forward
<1> USE DEF CallFails, exit, mem
<1>1. JsonTypeOK /\ DownKey /\ job \in Job /\ Disk \in Ver /\ Disk' = Disk
  BY DiskInVer, SameDisk DEF IInv, JsonTypeOK
<1>2. job.pc # "none" /\ job.pc \in {"open", "write", "rename"}
  BY <1>1 DEF Job, NoJob
<1>3. /\ job' \in Job /\ job' # NoJob
      /\ job'.res = "error" /\ job'.pc = job.pc /\ job'.snap = job.snap
  <2>1. PICK pc \in {"open", "write", "rename"} : pc = job.pc
    BY <1>2
  <2>2. job' = [job EXCEPT !.pc = pc, !.res = "error", !.fd = 0]
    BY <1>1, <1>2, <2>1 DEF Job, NoJob
  <2>3. /\ job' \in Job /\ job' # NoJob
        /\ job'.res = "error" /\ job'.pc = pc /\ job'.snap = job.snap
    <3>1. "error" \in {"issued", "done", "error"} /\ 0 \in 0..3
      OBVIOUS
    <3>2. job \in Job /\ job.pc # "none"
      BY <1>1, <1>2
    <3> HIDE DEF CallFails
    <3> QED
      BY <3>1, <3>2, <2>2, JobStep
  <2> QED
    BY <2>1, <2>3
<1>4. JsonTypeOK'
  BY <1>1, <1>3 DEF JsonTypeOK, Writing, disk
<1>5. DownKey'
  BY <1>1 DEF DownKey, NoJob
<1>6. ASSUME ~raced PROVE Keys'
  <2>1. Keys /\ main = "free"
    BY <1>2, <1>6 DEF IInv, Keys, JobKey
  <2> QED
    BY <1>1, <1>2, <1>3, <2>1
       DEF Keys, OrderKey, ChainKey, JobKey, SyncKey, Writing, Complete
<1> QED
  BY <1>1, <1>4, <1>5, <1>6, JsonFileAssumption
     DEF Keeps, Keys, Forward, Ver, JsonFileAssumption

\* The callback of a call that succeeded issues the next one.
LEMMA NextCallIInv == ASSUME IInv, NextCall PROVE Keeps /\ Forward
<1> USE DEF NextCall, exit, mem
<1>1. JsonTypeOK /\ DownKey /\ job \in Job /\ Disk \in Ver /\ Disk' = Disk
  BY DiskInVer, SameDisk DEF IInv, JsonTypeOK
<1>2. job.pc # "none" /\ job.fd \in 0..3
  BY <1>1 DEF Job, NoJob
<1>3. /\ job' \in Job /\ job' # NoJob
      /\ job'.res = "issued" /\ job'.snap = job.snap /\ job'.fd = job.fd
      /\ \/ job.pc = "open" /\ job'.pc = "write"
         \/ job.pc = "write" /\ job'.pc = "rename"
  <2>1. PICK pc \in {"write", "rename"} :
            /\ job' = [job EXCEPT !.pc = pc, !.res = "issued"]
            /\ (job.pc = "open" /\ pc = "write") \/ (job.pc = "write" /\ pc = "rename")
    OBVIOUS
  <2>2. job' = [job EXCEPT !.pc = pc, !.res = "issued", !.fd = job.fd]
    BY <1>1, <1>2, <2>1 DEF Job, NoJob
  <2>3. PICK fd \in 0..3 : fd = job.fd
    BY <1>2
  <2>4. job' = [job EXCEPT !.pc = pc, !.res = "issued", !.fd = fd]
    BY <2>2, <2>3
  <2> QED
    BY <1>1, <1>2, <2>1, <2>3, <2>4, JobStep
<1>4. (Writing' => Writing) /\ (Complete' => Complete)
  BY <1>3 DEF Writing, Complete
<1>5. JsonTypeOK'
  BY <1>1, <1>3, <1>4 DEF JsonTypeOK, disk
<1>6. DownKey'
  BY <1>1, <1>2 DEF DownKey, NoJob
<1>7. ASSUME ~raced PROVE Keys'
  <2>1. Keys
    BY <1>7 DEF IInv, Keys
  <2> QED
    BY <1>1, <1>2, <1>3, <1>4, <2>1, disk = disk'
       DEF Keys, OrderKey, ChainKey, JobKey, SyncKey, disk
<1> QED
  BY <1>1, <1>5, <1>6, <1>7, JsonFileAssumption
     DEF Keeps, Keys, Forward, Ver, JsonFileAssumption

\* The callback of the last call begins with the oldest snapshot that waits.
LEMMA NextWriteIInv == ASSUME IInv, NextWrite PROVE Keeps /\ Forward
<1> USE DEF NextWrite, exit
<1>1. JsonTypeOK /\ DownKey /\ job \in Job /\ chain \in Seq(Ver) /\ Disk \in Ver /\ Disk' = Disk
  BY DiskInVer, SameDisk DEF IInv, JsonTypeOK
<1>2. job # NoJob /\ job.snap \in Ver
  BY <1>1 DEF Job, NoJob
<1>3. CASE chain = <<>> /\ job' = NoJob /\ UNCHANGED chain
  <2>1. JsonTypeOK'
    BY <1>1, <1>3, JobTypes DEF JsonTypeOK, Writing, NoJob, disk
  <2>2. DownKey'
    BY <1>1, <1>2 DEF DownKey
  <2>3. ASSUME ~raced PROVE Keys'
    BY <1>1, <1>3, <2>3
       DEF IInv, Keys, OrderKey, ChainKey, JobKey, SyncKey, NoJob, disk
  <2> QED
    BY <1>1, <2>1, <2>2, <2>3, JsonFileAssumption
       DEF Keeps, Keys, Forward, Ver, JsonFileAssumption
<1>4. CASE chain # <<>> /\ job' = Begin(Head(chain)) /\ chain' = Tail(chain)
  <2>1. Head(chain) = chain[1] /\ Head(chain) \in Ver /\ chain' \in Seq(Ver)
    BY <1>1, <1>4
  <2>2. job' \in Job /\ job'.pc = "open" /\ job'.res = "issued" /\ job'.snap = chain[1]
    BY <1>4, <2>1, JobTypes DEF Begin
  <2>3. JsonTypeOK'
    BY <1>1, <2>1, <2>2 DEF JsonTypeOK, Writing, disk
  <2>4. DownKey'
    BY <1>1, <1>2 DEF DownKey
  <2>5. ASSUME ~raced PROVE Keys'
    <3>1. Keys
      BY <2>5 DEF IInv, Keys
    <3>2. Len(chain) \in Nat /\ Len(chain) >= 1 /\ Len(chain') = Len(chain) - 1
      BY <1>1, <1>4
    <3>3. \A k \in 1..Len(chain') : chain'[k] = chain[k + 1] /\ k + 1 \in 1..Len(chain)
      <4>1. \A k \in 1..Len(Tail(chain)) : Tail(chain)[k] = chain[k + 1]
        BY <1>1, <1>4, HeadTailProperties
      <4>2. chain' = Tail(chain)
        BY <1>4
      <4>3. \A k \in 1..Len(chain') : chain'[k] = chain[k + 1]
        BY <4>1, <4>2, Zenon
      <4>4. \A k \in 1..Len(chain') : k + 1 \in 1..Len(chain)
        BY <3>2
      <4> QED
        BY <4>3, <4>4
    <3>4. job.snap <= chain[1] /\ chain[1] <= json
      BY <3>1, <3>2 DEF Keys, ChainKey
    <3>5. ChainKey'
      <4>1. \A k \in 1..Len(chain') : chain[1] <= chain'[k] /\ chain'[k] <= json
        <5> SUFFICES ASSUME NEW k \in 1..Len(chain')
                     PROVE  chain[1] <= chain'[k] /\ chain'[k] <= json
          OBVIOUS
        <5>1. k + 1 \in 1..Len(chain) /\ 1 \in 1..Len(chain) /\ 1 <= k + 1
          BY <3>2, <3>3
        <5> QED
          BY <3>1, <3>3, <5>1 DEF Keys, ChainKey
      <4>2. \A k, l \in 1..Len(chain') : k <= l => chain'[k] <= chain'[l]
        <5> SUFFICES ASSUME NEW k \in 1..Len(chain'), NEW l \in 1..Len(chain'), k <= l
                     PROVE  chain'[k] <= chain'[l]
          OBVIOUS
        <5>1. k + 1 \in 1..Len(chain) /\ l + 1 \in 1..Len(chain) /\ k + 1 <= l + 1
          BY <3>2, <3>3
        <5> QED
          BY <3>1, <3>3, <5>1 DEF Keys, ChainKey
      <4> QED
        BY <2>2, <4>1, <4>2 DEF ChainKey
    <3>6. Disk <= chain[1]
      BY <1>1, <1>2, <2>1, <3>1, <3>4 DEF Keys, JobKey, NoJob, Ver
    <3>7. JobKey'
      BY <1>1, <2>2, <3>4, <3>6 DEF JobKey, Writing, Complete
    <3>8. OrderKey' /\ SyncKey'
      BY <1>1, <3>1 DEF Keys, OrderKey, SyncKey, disk
    <3> QED
      BY <3>5, <3>7, <3>8 DEF Keys
  <2> QED
    BY <1>1, <2>3, <2>4, <2>5, JsonFileAssumption
       DEF Keeps, Keys, Forward, Ver, JsonFileAssumption
<1> QED
  BY <1>3, <1>4

\* The callback of a call that failed gives up all snapshots that wait.
LEMMA RejectIInv == ASSUME IInv, Reject PROVE Keeps /\ Forward
<1> USE DEF Reject, exit
<1>1. JsonTypeOK /\ DownKey /\ job \in Job /\ Disk \in Ver
  BY DiskInVer DEF IInv, JsonTypeOK
<1>2. job # NoJob
  BY DEF NoJob
<1>3. path' \in [{"json", "tmp"} -> 0..3] /\ path'.json = path.json /\ path'.tmp \in {0, path.tmp}
  BY <1>1 DEF JsonTypeOK
<1>4. Disk' = Disk
  BY <1>3 DEF Disk
<1>5. JsonTypeOK'
  <2>1. chain' \in Seq(Ver) /\ job' \in Job /\ ~Writing'
    BY JobTypes DEF Writing, NoJob
  <2> QED
    BY <1>1, <1>3, <2>1 DEF JsonTypeOK
<1>6. DownKey'
  BY <1>1, <1>2 DEF DownKey
<1>7. ASSUME ~raced PROVE Keys'
  <2>1. Keys /\ job.pc # "none"
    BY <1>1, <1>2, <1>7 DEF IInv, Keys, Job
  <2> QED
    BY <1>4, <2>1 DEF Keys, OrderKey, ChainKey, JobKey, SyncKey, NoJob
<1> QED
  BY <1>1, <1>4, <1>5, <1>6, <1>7, JsonFileAssumption
     DEF Keeps, Keys, Forward, Ver, JsonFileAssumption

\* The save on quit begins.
LEMMA BeforeQuitIInv == ASSUME IInv, BeforeQuit PROVE Keeps /\ Forward
<1> USE DEF BeforeQuit, mem
<1>1. JsonTypeOK /\ Disk \in Ver /\ Disk' = Disk
  BY DiskInVer, SameDisk DEF IInv, JsonTypeOK
<1>2. JsonTypeOK'
  BY <1>1 DEF JsonTypeOK, Writing, disk
<1>3. ASSUME ~raced' PROVE Keys'
  <2>1. Keys /\ job = NoJob
    BY <1>1, <1>3 DEF IInv, Keys, JsonTypeOK
  <2> QED
    BY <1>1, <2>1
       DEF Keys, OrderKey, ChainKey, JobKey, SyncKey, NoJob, disk
<1> QED
  BY <1>1, <1>2, <1>3, JsonFileAssumption
     DEF IInv, Keeps, Keys, DownKey, Forward, Ver, JsonFileAssumption

\* While the main thread saves, no write is under way.
LEMMA NoJobMeanwhile == ASSUME IInv, main # "free", ~raced PROVE job = NoJob /\ chain = <<>>
<1>1. job.pc = "none" /\ job \in Job
  BY DEF IInv, JobKey, JsonTypeOK
<1> QED
  BY <1>1 DEF IInv, ChainKey, Job

\* The main thread opens the temporary file.
LEMMA SyncOpenIInv == ASSUME IInv, SyncOpen PROVE Keeps /\ Forward
<1> USE DEF SyncOpen, mem
<1>1. PICK i \in Inode : Opened("tmp", i) /\ sfd' = i
  BY DEF SyncOpen
<1>2. JsonTypeOK /\ Disk \in Ver
  BY DiskInVer DEF IInv, JsonTypeOK
<1>3. /\ path'.tmp = i /\ i # 0
      /\ path' \in [{"json", "tmp"} -> 0..3] /\ inode' \in [Inode -> Ver] /\ inode'[i] = 0
      /\ path'.json = path.json /\ i # path.json
      /\ Disk' = Disk
  BY <1>1, <1>2, OpenedTmp
<1>4. JsonTypeOK'
  BY <1>1, <1>2, <1>3 DEF JsonTypeOK, Writing, Inode
<1>5. DownKey'
  BY DEF IInv, DownKey
<1>6. ASSUME ~raced PROVE Keys'
  <2>1. Keys /\ job = NoJob
    BY <1>6, NoJobMeanwhile DEF IInv, Keys
  <2> QED
    BY <1>1, <1>3, <2>1 DEF Keys, OrderKey, ChainKey, JobKey, SyncKey, NoJob
<1> QED
  BY <1>2, <1>3, <1>4, <1>5, <1>6, JsonFileAssumption
     DEF Keeps, Keys, Forward, Ver, JsonFileAssumption

\* The main thread writes the object.
LEMMA SyncWriteIInv == ASSUME IInv, SyncWrite PROVE Keeps /\ Forward
<1> USE DEF SyncWrite, mem
<1>1. JsonTypeOK /\ sfd \in Inode /\ json \in Ver /\ Disk \in Ver
  BY DiskInVer DEF IInv, JsonTypeOK, Inode
<1>2. /\ inode' \in [Inode -> Ver]
      /\ inode[sfd] = 0 => inode'[sfd] = json
      /\ \A k \in Inode \ {sfd} : inode'[k] = inode[k]
  BY <1>1, WrittenOne
<1>3. JsonTypeOK'
  BY <1>1, <1>2 DEF JsonTypeOK, Writing
<1>4. DownKey'
  BY DEF IInv, DownKey
<1>5. ASSUME ~raced PROVE Keys' /\ Disk' = Disk
  <2>1. Keys /\ job = NoJob
    BY <1>5, NoJobMeanwhile DEF IInv, Keys
  <2>2. sfd = path.tmp /\ inode[sfd] = 0
    BY <2>1 DEF Keys, SyncKey
  <2>3. Disk' = Disk
    BY <1>1, <1>2, <2>2 DEF JsonTypeOK, Disk, Inode
  <2> QED
    BY <1>1, <1>2, <2>1, <2>2, <2>3
       DEF Keys, OrderKey, ChainKey, JobKey, SyncKey, NoJob, Inode
<1> QED
  BY <1>1, <1>3, <1>4, <1>5, JsonFileAssumption
     DEF Keeps, Keys, Forward, Ver, JsonFileAssumption

\* The main thread renames the temporary file, which has the object.
LEMMA SyncRenameIInv == ASSUME IInv, SyncRename PROVE Keeps /\ Forward
<1> USE DEF SyncRename, Renamed, mem
<1>1. JsonTypeOK /\ Disk \in Ver /\ json \in Ver
  BY DiskInVer DEF IInv, JsonTypeOK
<1>2. path' \in [{"json", "tmp"} -> 0..3] /\ (path'.json # 0 => path'.json # path'.tmp)
  BY <1>1 DEF JsonTypeOK
<1>3. JsonTypeOK'
  BY <1>1, <1>2 DEF JsonTypeOK, Writing
<1>4. DownKey'
  BY DEF IInv, DownKey
<1>5. ASSUME ~raced PROVE Keys' /\ Disk' >= Disk
  <2>1. Keys /\ job = NoJob
    BY <1>5, NoJobMeanwhile DEF IInv, Keys
  <2>2. path.tmp # 0 /\ inode[path.tmp] = json /\ Disk <= json
    BY <2>1 DEF Keys, SyncKey, OrderKey
  <2>3. Disk' = json
    BY <2>2 DEF Disk
  <2> QED
    BY <1>1, <2>1, <2>2, <2>3, JsonFileAssumption
       DEF Keys, OrderKey, ChainKey, JobKey, SyncKey, NoJob, Ver, JsonFileAssumption
<1> QED
  BY <1>3, <1>4, <1>5 DEF Keeps, Keys, Forward

\* The save fails and is given up.
LEMMA SyncFailsIInv == ASSUME IInv, SyncFails PROVE Keeps /\ Forward
<1> USE DEF SyncFails, mem
<1>1. JsonTypeOK /\ Disk \in Ver /\ Disk' = Disk
  BY DiskInVer, SameDisk DEF IInv, JsonTypeOK
<1>2. JsonTypeOK'
  BY <1>1 DEF JsonTypeOK, Writing, disk
<1>3. DownKey'
  BY DEF IInv, DownKey
<1>4. ASSUME ~raced PROVE Keys'
  <2>1. Keys /\ job = NoJob
    BY <1>4, NoJobMeanwhile DEF IInv, Keys
  <2> QED
    BY <1>1, <2>1 DEF Keys, OrderKey, ChainKey, JobKey, SyncKey, NoJob, disk
<1> QED
  BY <1>1, <1>2, <1>3, <1>4, JsonFileAssumption
     DEF Keeps, Keys, Forward, Ver, JsonFileAssumption

\* The process ends; what it has not written is lost, the file is not.
LEMMA StopIInv == ASSUME IInv, Stop PROVE Keeps /\ Forward
<1> USE DEF Stop
<1>1. JsonTypeOK /\ Disk \in Ver /\ Disk' = Disk
  BY DiskInVer, SameDisk DEF IInv, JsonTypeOK
<1>2. JsonTypeOK'
  <2>1. chain' \in Seq(Ver) /\ job' \in Job /\ ~Writing'
    BY JobTypes DEF Writing, NoJob
  <2>2. /\ up' \in BOOLEAN /\ failed' \in BOOLEAN /\ main' = "free" /\ sfd' = 0
        /\ UNCHANGED <<json, last, quit, raced, saved, path, inode>>
    BY DEF disk
  <2> HIDE DEF Stop
  <2> QED
    BY <1>1, <2>1, <2>2 DEF JsonTypeOK
<1>3. ASSUME ~raced PROVE Keys'
  BY <1>1, <1>3 DEF IInv, Keys, OrderKey, ChainKey, JobKey, SyncKey, NoJob, disk
<1> QED
  BY <1>1, <1>2, <1>3, JsonFileAssumption
     DEF IInv, Keeps, Keys, DownKey, Forward, Ver, JsonFileAssumption

\* The next process has what the file has.
LEMMA StartIInv == ASSUME IInv, Start PROVE Keeps /\ Forward
<1> USE DEF Start
<1>1. JsonTypeOK /\ Disk \in Ver /\ Disk' = Disk /\ job = NoJob /\ chain = <<>> /\ main = "free"
  BY DiskInVer, SameDisk DEF IInv, JsonTypeOK, DownKey
<1>2. JsonTypeOK'
  <2>1. json' \in Ver /\ saved' \in Ver
    BY <1>1, JsonFileAssumption DEF Ver, JsonFileAssumption
  <2> QED
    BY <1>1, <2>1 DEF JsonTypeOK, Writing, disk
<1>3. Keys'
  BY <1>1, JsonFileAssumption
     DEF Keys, OrderKey, ChainKey, JobKey, SyncKey, NoJob, disk, Ver, JsonFileAssumption
<1> QED
  BY <1>1, <1>2, <1>3, JsonFileAssumption
     DEF IInv, Keeps, Keys, DownKey, Forward, Ver, JsonFileAssumption

\* Nothing that a file, a job or a snapshot has is newer than the latest change.
LEMMA KnownStep == ASSUME IInv, JsonNext, JsonTypeOK' PROVE KnownKey'
<1>1. JsonTypeOK /\ KnownKey /\ json \in Nat /\ last \in Nat /\ job.snap \in Nat
  BY DEF IInv, JsonTypeOK, Ver, Job, NoJob
<1>2. CASE SetValue
  <2>1. last' = last + 1 /\ json' = last'
    BY <1>2 DEF SetValue
  <2>2. \A i \in Inode : inode'[i] <= last'
    BY <1>1, <1>2, <2>1 DEF SetValue, KnownKey, JsonTypeOK, Ver, disk
  <2>3. WriteToFile(last')
    BY <1>2 DEF SetValue
  <2>4. job'.snap <= last'
    BY <1>1, <2>1, <2>3 DEF WriteToFile, Begin, KnownKey
  <2>5. \A k \in 1..Len(chain') : chain'[k] <= last'
    <3>1. /\ chain \in Seq(Ver) /\ last' \in Ver
          /\ \A k \in 1..Len(chain) : chain[k] <= last /\ chain[k] \in Nat
      <4>1. last' \in Ver
        BY <1>1, <1>2, JsonFileAssumption DEF SetValue, JsonTypeOK, Ver, JsonFileAssumption
      <4>2. chain \in Seq(Ver)
        BY <1>1 DEF JsonTypeOK
      <4>3. \A k \in 1..Len(chain) : chain[k] \in Ver
        BY <4>2
      <4> QED
        BY <1>1, <4>1, <4>2, <4>3 DEF KnownKey, Ver
    <3>2. CASE UNCHANGED chain
      BY <2>1, <3>1, <3>2, <1>1
    <3>3. CASE chain' = Append(chain, last')
      BY <2>1, <3>1, <3>3, <1>1
    <3> QED
      BY <2>3, <3>2, <3>3 DEF WriteToFile
  <2> QED
    BY <2>1, <2>2, <2>4, <2>5, <1>1 DEF KnownKey
<1>3. CASE OpenTmp \/ SyncOpen
  <2>1. PICK i \in Inode : Opened("tmp", i)
    BY <1>3 DEF OpenTmp, SyncOpen
  <2>2. inode' = [inode EXCEPT ![i] = 0]
    BY <2>1 DEF Opened
  <2>3. job'.snap = job.snap
    BY <1>1, <1>3 DEF OpenTmp, SyncOpen, Succeeds, JsonTypeOK, Job, NoJob
  <2> QED
    BY <1>1, <1>3, <2>2, <2>3 DEF OpenTmp, SyncOpen, mem, KnownKey, JsonTypeOK
<1>4. CASE WriteTmp \/ SyncWrite
  <2>1. PICK i \in 0..3, ver \in Ver : Written(i, ver) /\ ver <= last
    BY <1>1, <1>4 DEF WriteTmp, SyncWrite, KnownKey, JsonTypeOK, Job, NoJob
  <2>2. PICK text \in {ver, 0} : inode' = [inode EXCEPT ![i] = text]
    BY <2>1 DEF Written
  <2>3. job'.snap = job.snap
    BY <1>1, <1>4 DEF WriteTmp, SyncWrite, Succeeds, JsonTypeOK, Job, NoJob
  <2> QED
    BY <1>1, <1>4, <2>1, <2>2, <2>3 DEF WriteTmp, SyncWrite, mem, KnownKey, JsonTypeOK
<1>5. CASE RenameTmp \/ CallFails \/ NextCall
  <2>1. job'.snap = job.snap
    BY <1>1, <1>5 DEF RenameTmp, CallFails, NextCall, Succeeds, JsonTypeOK, Job, NoJob
  <2> QED
    BY <1>1, <1>5, <2>1 DEF RenameTmp, CallFails, NextCall, mem, disk, KnownKey
<1>6. CASE NextWrite
  <2>1. chain \in Seq(Ver) /\ last' = last /\ json' = json /\ inode' = inode
    BY <1>1, <1>6 DEF NextWrite, JsonTypeOK, disk
  <2>2. CASE chain = <<>> /\ job' = NoJob /\ UNCHANGED chain
    BY <1>1, <2>1, <2>2 DEF KnownKey, NoJob
  <2>3. CASE chain # <<>> /\ job' = Begin(Head(chain)) /\ chain' = Tail(chain)
    <3>1. Len(chain) \in Nat \ {0} /\ Head(chain) = chain[1] /\ Len(Tail(chain)) = Len(chain) - 1
      BY <2>1, <2>3
    <3>2. job'.snap = chain[1] /\ chain[1] <= last
      BY <1>1, <2>3, <3>1 DEF Begin, KnownKey
    <3>3. \A k \in 1..Len(Tail(chain)) : Tail(chain)[k] = chain[k + 1]
      BY <2>1, <2>3, HeadTailProperties
    <3>4. \A k \in 1..Len(Tail(chain)) : k + 1 \in 1..Len(chain)
      BY <3>1
    <3>5. \A k \in 1..Len(Tail(chain)) : Tail(chain)[k] <= last
      BY <1>1, <3>3, <3>4 DEF KnownKey
    <3> QED
      BY <1>1, <2>1, <2>3, <3>2, <3>5 DEF KnownKey
  <2> QED
    BY <1>6, <2>2, <2>3 DEF NextWrite
<1>7. CASE Reject \/ Stop
  BY <1>1, <1>7 DEF Reject, Stop, NoJob, disk, KnownKey
<1>8. CASE BeforeQuit \/ SyncRename \/ SyncFails
  BY <1>1, <1>8 DEF BeforeQuit, SyncRename, SyncFails, mem, disk, KnownKey
<1>9. CASE Start
  <2>1. Disk <= last
    BY <1>1, <1>9 DEF JsonTypeOK, Disk, KnownKey, Inode
  <2> QED
    BY <1>1, <1>9, <2>1 DEF Start, disk, KnownKey
<1> QED
  BY <1>2, <1>3, <1>4, <1>5, <1>6, <1>7, <1>8, <1>9 DEF JsonNext, Pool, Callback, SaveSync

\* A step keeps the invariant and does not take the file back.
LEMMA NextIInv == ASSUME IInv, [JsonNext]_jsonVars PROVE IInv' /\ Forward
<1>1. CASE JsonNext
  <2>1. Keeps /\ Forward
    BY <1>1, SetValueIInv, OpenTmpIInv, WriteTmpIInv, RenameTmpIInv, CallFailsIInv,
       NextCallIInv, NextWriteIInv, RejectIInv, BeforeQuitIInv, SyncOpenIInv, SyncWriteIInv,
       SyncRenameIInv, SyncFailsIInv, StopIInv, StartIInv
       DEF JsonNext, Pool, Callback, SaveSync
  <2>2. KnownKey'
    BY <1>1, <2>1, KnownStep DEF Keeps
  <2> QED
    BY <2>1, <2>2 DEF IInv, Keeps, Keys
<1>2. CASE UNCHANGED jsonVars
  <2>1. Disk' = Disk /\ Disk \in Ver
    BY <1>2, SameDisk, DiskInVer DEF jsonVars, IInv
  <2>2. Forward
    BY <2>1, JsonFileAssumption DEF Forward, Ver, JsonFileAssumption
  <2>3. IInv'
    BY <1>2, <2>1 DEF jsonVars, mem, exit, disk, IInv, JsonTypeOK, DownKey, KnownKey, OrderKey,
       ChainKey, JobKey, SyncKey, Writing, Complete
  <2> QED
    BY <2>2, <2>3
<1> QED
  BY <1>1, <1>2

\* The inductive invariant holds in every state.
THEOREM JsonFileIInvAlways == JsonSpec => []IInv
BY InitIInv, NextIInv, PTL DEF JsonSpec

\* Type correctness of the manager, the write under way and the file system.
THEOREM JsonFileTyping == JsonSpec => []JsonTypeOK
<1>1. IInv => JsonTypeOK
  BY DEF IInv
<1> QED
  BY <1>1, JsonFileIInvAlways, PTL

\* The file is whole at every moment and never goes back to an older object, for
\* every number of changes, failed calls, crashes and starts, unless the save on
\* quit has met a write.
THEOREM FileNeverGoesBack == JsonSpec => NeverGoesBack
<1>1. IInv /\ [JsonNext]_jsonVars => [~raced' => Disk' >= Disk]_jsonVars
  BY NextIInv DEF Forward
<1> QED
  BY <1>1, JsonFileIInvAlways, PTL DEF JsonSpec, NeverGoesBack

\* What was saved on quit is what the next start finds, if no write was under way.
THEOREM QuietQuit == JsonSpec => []QuietQuitSaves
<1>1. IInv => QuietQuitSaves
  <2> SUFFICES ASSUME IInv, saved > 0, ~raced PROVE Disk >= saved
    BY DEF QuietQuitSaves
  <2>1. Disk \in Nat /\ saved \in Nat /\ saved <= Disk
    BY DiskInVer DEF IInv, JsonTypeOK, OrderKey, Ver
  <2> QED
    BY <2>1
<1> QED
  BY <1>1, JsonFileIInvAlways, PTL
=============================================================================

------------------------------ MODULE JsonFile ------------------------------
(***************************************************************************)
(* JsonFileManager of the desktop application: an object in memory that is *)
(* saved as a JSON file after every change.  A save writes <file>.tmp and  *)
(* renames it; the main thread issues each system call and a thread of the *)
(* pool executes it, so that the main thread goes on in between.  On quit  *)
(* the main thread itself saves once more, through the same <file>.tmp.    *)
(*                                                                         *)
(* The object is represented by the number of the change that made it.  A  *)
(* file that cannot be parsed (torn, empty or missing) is 0, the object {} *)
(* that the constructor falls back to.  The file system is external: names *)
(* refer to inodes, and a descriptor keeps its inode when the name moves.  *)
(* A crash here is a crash of the process, not of the machine.             *)
(***************************************************************************)
EXTENDS Naturals, Sequences

CONSTANT MaxVer  \* bound: changes of the object

ASSUME JsonFileAssumption == MaxVer \in Nat

VARIABLES
    up,       \* the process runs
    json,     \* this.json
    last,     \* the latest change ever made
    job,      \* the asynchronous write that is under way
    chain,    \* snapshots that wait behind this.saving
    failed,   \* this.saving is rejected: nothing is written any more
    main,     \* what the main thread is doing: "free", or a step of saveSync
    sfd,      \* the inode that saveSync has open
    quit,     \* before-quit has been handled
    raced,    \* a write was under way when it was
    saved,    \* what saveSync has saved, until the next start
    path,     \* the inodes of <file> and <file>.tmp (0: no such name)
    inode     \* their contents

mem == <<json, last, chain, failed>>
exit == <<main, sfd, quit, raced, saved>>
disk == <<path, inode>>
jsonVars == <<up, mem, job, exit, disk>>

Ver == 0..MaxVer
Inode == 1..3

\* The write of one snapshot: the system call issued last, and its result.
NoJob == [pc |-> "none", res |-> "done", snap |-> 0, fd |-> 0]
Job == {NoJob} \cup [pc : {"open", "write", "rename"}, res : {"issued", "done", "error"},
                     snap : Ver, fd : 0..3]
Begin(snap) == [pc |-> "open", res |-> "issued", snap |-> snap, fd |-> 0]

\* What a start of the application would read.
Disk == IF path.json = 0 THEN 0 ELSE inode[path.json]

---------------------------------------------------------------------------
\* The system calls.

\* Opening for writing truncates the file of that name, or makes one.
Target(name) ==
    IF path[name] # 0 THEN {path[name]}
    ELSE Inode \ {path.json, path.tmp, job.fd, sfd}
Opened(name, i) ==
    /\ i \in Target(name)
    /\ path' = [path EXCEPT ![name] = i]
    /\ inode' = [inode EXCEPT ![i] = 0]

\* Text written into a file that is not empty may leave a rest of what was there.
Written(i, ver) ==
    \E text \in IF inode[i] = 0 THEN {ver} ELSE {ver, 0} :
        inode' = [inode EXCEPT ![i] = text]

Renamed == path' = [json |-> path.tmp, tmp |-> 0]

---------------------------------------------------------------------------
JsonInit ==
    /\ up = TRUE
    /\ json = 0 /\ last = 0
    /\ job = NoJob /\ chain = <<>> /\ failed = FALSE
    /\ main = "free" /\ sfd = 0 /\ quit = FALSE /\ raced = FALSE /\ saved = 0
    /\ path = [json |-> 0, tmp |-> 0]
    /\ inode = [i \in Inode |-> 0]

\* Mutant: a change is not written when a write is under way.
WriteToFileBusy(ver) ==
    \/ /\ job = NoJob /\ ~failed
       /\ job' = Begin(ver)
       /\ UNCHANGED chain
    \/ /\ job # NoJob \/ failed
       /\ UNCHANGED <<job, chain>>

\* A snapshot is taken at once and written when the earlier ones have been. A
\* promise that was rejected never calls what is chained to it.
WriteToFile(ver) ==
    \/ /\ job = NoJob /\ ~failed
       /\ job' = Begin(ver)
       /\ UNCHANGED chain
    \/ /\ job # NoJob
       /\ chain' = Append(chain, ver)
       /\ UNCHANGED job
    \/ /\ failed
       /\ UNCHANGED <<job, chain>>

SetValue ==
    /\ up /\ main = "free" /\ last < MaxVer
    /\ last' = last + 1
    /\ json' = last + 1
    /\ WriteToFile(last + 1)
    /\ UNCHANGED <<up, failed, exit, disk>>

\* The pool executes the call that was issued, whatever the main thread does.
Succeeds(fd) == job' = [job EXCEPT !.res = "done", !.fd = fd]

\* Mutant: the file itself is opened, and written in place.
OpenTmpInPlace ==
    /\ job.pc = "open" /\ job.res = "issued"
    /\ \E i \in Inode : Opened("json", i) /\ Succeeds(i)
    /\ UNCHANGED <<up, mem, exit>>

OpenTmp ==
    /\ job.pc = "open" /\ job.res = "issued"
    /\ \E i \in Inode : Opened("tmp", i) /\ Succeeds(i)
    /\ UNCHANGED <<up, mem, exit>>

WriteTmp ==
    /\ job.pc = "write" /\ job.res = "issued"
    /\ Written(job.fd, job.snap)
    /\ Succeeds(0)
    /\ UNCHANGED <<up, mem, exit, path>>

RenameTmp ==
    /\ job.pc = "rename" /\ job.res = "issued" /\ path.tmp # 0
    /\ Renamed
    /\ Succeeds(0)
    /\ UNCHANGED <<up, mem, exit, inode>>

\* A call fails: an error of the file system, or there is nothing to rename.
CallFails ==
    /\ job.res = "issued"
    /\ job' = [job EXCEPT !.res = "error", !.fd = 0]
    /\ UNCHANGED <<up, mem, exit, disk>>

\* The callbacks, on the main thread: the next call, or the next snapshot.
NextCall ==
    /\ main = "free" /\ job.res = "done"
    /\ \/ job.pc = "open" /\ job' = [job EXCEPT !.pc = "write", !.res = "issued"]
       \/ job.pc = "write" /\ job' = [job EXCEPT !.pc = "rename", !.res = "issued"]
    /\ UNCHANGED <<up, mem, exit, disk>>

NextWrite ==
    /\ main = "free" /\ job.res = "done" /\ job.pc = "rename"
    /\ \/ chain = <<>> /\ job' = NoJob /\ UNCHANGED chain
       \/ chain # <<>> /\ job' = Begin(Head(chain)) /\ chain' = Tail(chain)
    /\ UNCHANGED <<up, json, last, failed, exit, disk>>

Reject ==
    /\ main = "free" /\ job.res = "error"
    /\ failed' = TRUE /\ chain' = <<>>
    /\ path' = IF job.pc = "rename" THEN [path EXCEPT !.tmp = 0] ELSE path
    /\ job' = NoJob
    /\ UNCHANGED <<up, json, last, exit, inode>>

---------------------------------------------------------------------------
\* handleAppBeforeQuit saves with three calls that the main thread waits for;
\* the call that the pool executes is not waited for.
BeforeQuit ==
    /\ up /\ main = "free" /\ ~quit
    /\ quit' = TRUE /\ raced' = (job # NoJob)
    /\ main' = "open"
    /\ UNCHANGED <<up, mem, job, sfd, saved, disk>>

SyncOpen ==
    /\ main = "open" /\ main' = "write"
    /\ \E i \in Inode : Opened("tmp", i) /\ sfd' = i
    /\ UNCHANGED <<up, mem, job, quit, raced, saved>>

\* Mutant: the object of the last asynchronous write is saved.
SyncWriteDisk ==
    /\ main = "write" /\ main' = "rename"
    /\ Written(sfd, Disk)
    /\ sfd' = 0
    /\ UNCHANGED <<up, mem, job, quit, raced, saved, path>>

SyncWrite ==
    /\ main = "write" /\ main' = "rename"
    /\ Written(sfd, json)
    /\ sfd' = 0
    /\ UNCHANGED <<up, mem, job, quit, raced, saved, path>>

\* If the pool has renamed the file in between, the error is caught.
SyncRename ==
    /\ main = "rename" /\ main' = "free"
    /\ IF path.tmp # 0 THEN Renamed ELSE UNCHANGED path
    /\ saved' = json
    /\ UNCHANGED <<up, mem, job, sfd, quit, raced, inode>>

SyncFails ==
    /\ main # "free"
    /\ main' = "free" /\ sfd' = 0
    /\ UNCHANGED <<up, mem, job, quit, raced, saved, disk>>

\* The process ends: killed at any moment, or after before-quit. It waits for no
\* promise, and what the pool has not executed is lost.
Stop ==
    /\ up /\ up' = FALSE
    /\ job' = NoJob /\ chain' = <<>> /\ failed' = FALSE
    /\ main' = "free" /\ sfd' = 0
    /\ UNCHANGED <<json, last, quit, raced, saved, disk>>

\* The constructor reads the file.
Start ==
    /\ ~up /\ up' = TRUE
    /\ json' = Disk
    /\ quit' = FALSE /\ raced' = FALSE /\ saved' = 0
    /\ UNCHANGED <<last, job, chain, failed, main, sfd, disk>>

Pool == OpenTmp \/ WriteTmp \/ RenameTmp
Callback == NextCall \/ NextWrite \/ Reject
SaveSync == SyncOpen \/ SyncWrite \/ SyncRename

JsonNext ==
    \/ SetValue \/ Pool \/ CallFails \/ Callback
    \/ BeforeQuit \/ SaveSync \/ SyncFails
    \/ Stop \/ Start

JsonSpec == JsonInit /\ [][JsonNext]_jsonVars

\* The pool and the main thread get on while the process runs.
JsonFairness == WF_jsonVars(Pool \/ Callback \/ SaveSync)

JsonFairSpec == JsonSpec /\ JsonFairness

---------------------------------------------------------------------------
\* Between the calls: the temporary file is open, or its text is complete.
Writing == (job.pc = "open" /\ job.res = "done") \/ (job.pc = "write" /\ job.res = "issued")
Complete == (job.pc = "write" /\ job.res = "done") \/ (job.pc = "rename" /\ job.res = "issued")

JsonTypeOK ==
    /\ up \in BOOLEAN /\ failed \in BOOLEAN /\ quit \in BOOLEAN /\ raced \in BOOLEAN
    /\ raced => quit
    /\ json \in Ver /\ last \in Ver /\ saved \in Ver
    /\ job \in Job /\ (Writing => job.fd # 0)
    /\ chain \in Seq(Ver)
    /\ main \in {"free", "open", "write", "rename"}
    /\ sfd \in 0..3 /\ (main = "write" <=> sfd # 0)
    /\ path \in [{"json", "tmp"} -> 0..3]
    /\ path.json # 0 => path.json # path.tmp
    /\ inode \in [Inode -> Ver]

\* The file is whole at every moment and never goes back to an older object,
\* whatever system calls fail and whenever the process dies; except when the
\* save on quit met a write that was under way.
NeverGoesBack == [][~raced' => Disk' >= Disk]_jsonVars

\* What was saved on quit is what the next start finds, or something newer, if no
\* write was under way.
QuietQuitSaves == saved > 0 /\ ~raced => Disk >= saved

\* The inductive invariant. A process that has ended does nothing, and there is
\* nothing that is newer than the latest change; and as long as
\* no save on quit has met a write, the file is no newer than the object, the
\* snapshots that wait come in order between the two, and the temporary file is
\* the one that the writer opened, with what it has written.
DownKey == ~up => job = NoJob /\ chain = <<>> /\ main = "free"

KnownKey ==
    /\ json <= last /\ job.snap <= last
    /\ \A k \in 1..Len(chain) : chain[k] <= last
    /\ \A i \in Inode : inode[i] <= last

OrderKey == Disk <= json /\ saved <= Disk

ChainKey ==
    /\ \A k \in 1..Len(chain) : job.snap <= chain[k] /\ chain[k] <= json
    /\ \A k, l \in 1..Len(chain) : k <= l => chain[k] <= chain[l]
    /\ chain # <<>> => job.pc # "none"

JobKey ==
    job.pc # "none" =>
        /\ main = "free"
        /\ Disk <= job.snap /\ job.snap <= json
        /\ Writing => job.fd = path.tmp /\ inode[path.tmp] = 0
        /\ Complete => path.tmp # 0 /\ inode[path.tmp] = job.snap

SyncKey ==
    /\ main = "write" => sfd = path.tmp /\ inode[sfd] = 0
    /\ main = "rename" => path.tmp # 0 /\ inode[path.tmp] = json

IInv ==
    /\ JsonTypeOK /\ DownKey /\ KnownKey
    /\ ~raced => OrderKey /\ ChainKey /\ JobKey /\ SyncKey

\* An object that is newer than its file is saved sooner or later, if the process does
\* not end before; except after a write has failed, or when the save on quit met one.
ChangeIsSaved == (up /\ json > Disk) ~> (Disk >= json \/ ~up \/ failed \/ raced)

\* "Force config and state save on quit to prevent corruption/loss"
\* (main/app/app.ts:80): when the process has ended, the file has what was saved.
QuitSaves == ~up /\ saved > 0 => Disk >= saved
=============================================================================

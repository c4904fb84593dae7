---------------------------- MODULE KeepOldOutput ----------------------------
(***************************************************************************)
(* An output of the same name is kept until the new one is complete (class *)
(* KeepOldOutput in main.cpp).  Jobs run one after the other, each a       *)
(* process of its own that may stop at any moment: a job writes its output *)
(* in place when none is there ("fresh"), else under a temporary name that *)
(* holds the number of its process ("armed"), and moves it to its place    *)
(* when it has succeeded.  What a job leaves on the disk is what the next  *)
(* one finds.                                                              *)
(*                                                                         *)
(* A file is its name, the job that wrote it, and whether it is whole.     *)
(* Four kinds of output differ: a file or its split parts, an image with   *)
(* its layer break map, a disc folder, a demux folder.                     *)
(***************************************************************************)
EXTENDS Integers, Sequences, FiniteSets

CONSTANTS
  Kinds,     \* the kinds of output: "file", "image", "disc", "demux"
  Pids,      \* numbers of processes
  PidReuse,  \* a process may have the number of an earlier one that left files
  MaxFiles,  \* bound: split parts, clips of a disc, tracks of a demux
  MaxJobs    \* bound: jobs, the first of them before the model begins

ASSUME KeepOldOutputAssumption ==
  /\ Kinds \subseteq {"file", "image", "disc", "demux"}
  /\ PidReuse \in BOOLEAN
  /\ MaxFiles \in Nat \ {0} /\ MaxJobs \in Nat \ {0}

(* Names of files, as <<what, number>> *)
Main == <<"main", 0>>           \* name.ext
LayerMap == <<"map", 0>>        \* name.iso.layerbreak.txt
Bdmv == <<"BDMV", 0>>
Certificate == <<"CERTIFICATE", 0>>
DemuxDir == <<"folder", 0>>
Numbered(what, n) == {<<what, i>> : i \in 1..n}
Parts == Numbered("part", MaxFiles)     \* name.split.<i>.ext
Clips == Numbered("clip", MaxFiles)     \* in BDMV
Tracks == Numbered("track", MaxFiles)   \* in the demux folder
Names == {Main, LayerMap, Bdmv, Certificate, DemuxDir} \cup Parts \cup Clips \cup Tracks

\* A folder and what lies in it
Inside(folder) ==
  {folder} \cup (IF folder = Bdmv THEN Clips ELSE IF folder = DemuxDir THEN Tracks ELSE {})
Folders == {Bdmv, Certificate, DemuxDir}

\* The names a job of a kind may write
Plans(k) ==
  CASE k = "file"  -> {{Main}} \cup {Numbered("part", n) : n \in 1..MaxFiles}
    [] k = "image" -> {{Main}, {Main, LayerMap}}
    [] k = "disc"  -> {{Bdmv, Certificate} \cup Numbered("clip", n) : n \in 1..MaxFiles}
    [] k = "demux" -> {{DemuxDir} \cup tracks : tracks \in (SUBSET Tracks) \ {{}}}

Gone == [by |-> 0, whole |-> FALSE]
Empty == [n \in Names |-> Gone]
There(dir) == {n \in Names : dir[n] # Gone}

VARIABLES
  kind,     \* the kind of the output
  place,    \* place[n]: what lies under the name n where the output belongs
  temp,     \* temp[p][n]: what lies under the temporary name of n of process p
  job,      \* the number of jobs so far: the one that runs, or the last that did
  plans,    \* plans[j]: the names job j writes (history)
  pid,      \* the number of its process
  armed,    \* KeepOldOutput::m_armed
  mapWasThere,  \* UnfinishedImage::sideFileExisted
  kept,     \* KeepOldOutput::m_keepNew
  step,     \* what the job does, or how it ended
  queue,    \* the names the job has still to move or to remove
  moved,    \* the names commit has moved ("written" in it)
  complete, \* the jobs whose output was complete (history)
  rough     \* a removal of this job failed (history)

disk == <<place, temp>>
jobVars == <<job, plans, pid, armed, mapWasThere>>
vars == <<kind, disk, jobVars, kept, step, queue, moved, complete, rough>>

Ended == {"success", "failed", "crashed", "notMoved"}
plan == plans[job]
\* The folder of a demux stays where it is; its files are the output
Content(names) == names \ {DemuxDir}
Whole(j) == [by |-> j, whole |-> TRUE]
Target == IF armed THEN temp[pid] ELSE place
Put(n, what) ==
  IF armed THEN temp' = [temp EXCEPT ![pid][n] = what] /\ UNCHANGED place
           ELSE place' = [place EXCEPT ![n] = what] /\ UNCHANGED temp

Init ==
  /\ kind \in Kinds
  /\ \/ \E names \in Plans(kind) :       \* an earlier output
          /\ place = [n \in Names |-> IF n \in names THEN Whole(1) ELSE Gone]
          /\ plans = <<names>> /\ complete = {1}
     \/ place = Empty /\ plans = <<{}>> /\ complete = {}
  /\ temp = [p \in Pids |-> Empty]
  /\ job = 1 /\ pid \in Pids /\ armed = FALSE /\ mapWasThere = FALSE /\ kept = FALSE
  /\ step = "success" /\ queue = {} /\ moved = {} /\ rough = FALSE

-----------------------------------------------------------------------------
(* forFile, forDiscFolder, forDemuxFolder.  A condition of the code stands  *)
(* after a form of it with a defect that a run detects.                     *)
WitnessesOneFile == {Main, Bdmv, Certificate, DemuxDir}
Witnesses == CASE kind = "disc" -> {Bdmv, Certificate}
               [] kind = "demux" -> {DemuxDir}
               [] OTHER -> {Main} \cup Parts
Exists == \E n \in Witnesses : place[n] # Gone
\* The folders made before anything is written
Made(names) == IF kind = "disc" THEN names \cap {Bdmv, Certificate}
               ELSE names \cap {DemuxDir}
WithFolders(dir, names, j) == [n \in Names |-> IF n \in Made(names) THEN Whole(j) ELSE dir[n]]

Start(p, names) ==
  /\ step \in Ended /\ job < MaxJobs
  /\ PidReuse \/ temp[p] = Empty
  /\ job' = job + 1 /\ plans' = Append(plans, names) /\ pid' = p
  /\ armed' = Exists
  /\ IF Exists
       THEN /\ temp' = [temp EXCEPT ![p] =
                 IF kind = "demux" THEN Empty ELSE WithFolders(temp[p], names, job + 1)]
            /\ UNCHANGED place
       ELSE /\ place' = WithFolders(place, names, job + 1)
            /\ UNCHANGED temp
  /\ mapWasThere' = ((IF Exists THEN temp[p] ELSE place)[LayerMap] # Gone)
  /\ kept' = FALSE /\ rough' = FALSE /\ moved' = {} /\ queue' = {}
  /\ step' = "mux"
  /\ UNCHANGED <<kind, complete>>

Unwritten == {n \in Content(plan) \ Folders : Target[n].by # job}
\* The layer break map is written when the image is there, the parts one by one
MayOpen(n) ==
  /\ n = LayerMap => Target[Main] = Whole(job)
  /\ n \in Parts \cup Clips /\ n[2] > 1 => Target[<<n[1], n[2] - 1>>].by = job

OpenFile(n) ==
  /\ step = "mux" /\ n \in Unwritten /\ MayOpen(n)
  /\ Put(n, [by |-> job, whole |-> FALSE])
  /\ UNCHANGED <<kind, jobVars, kept, step, queue, moved, complete, rough>>

CloseFile(n) ==
  /\ step = "mux" /\ Target[n] = [by |-> job, whole |-> FALSE]
  /\ Put(n, Whole(job))
  /\ UNCHANGED <<kind, jobVars, kept, step, queue, moved, complete, rough>>

AllWritten == \A n \in Content(plan) : Target[n].by = job
AllWhole == \A n \in Content(plan) : Target[n] = Whole(job)

-----------------------------------------------------------------------------
(* The job fails: ~KeepOldOutput, and ~UnfinishedImage before it *)
OwnFilesNotFresh(keep) == IF armed THEN There(temp[pid]) ELSE {}
OwnFiles(keep) ==
  IF armed THEN There(temp[pid])
  ELSE There(place) \cap
         CASE kind = "file"  -> IF keep THEN {} ELSE {Main} \cup Parts
           [] kind = "image" -> {Main} \cup (IF mapWasThere THEN {} ELSE plan \cap {LayerMap})
           [] kind = "disc"  -> IF keep THEN {} ELSE Inside(Bdmv) \cup Inside(Certificate)
           [] kind = "demux" -> Inside(DemuxDir)

Fail ==
  /\ step = "mux"
  /\ step' = "undo" /\ queue' = OwnFiles(FALSE)
  /\ UNCHANGED <<kind, disk, jobVars, kept, moved, complete, rough>>

\* A source is cut off: the output holds what the file has (keepNewOutput).
\* With --inner-only the check comes before forFile.
FailCutOff ==
  /\ step = "mux" /\ AllWhole /\ kind # "demux" /\ LayerMap \notin plan
  /\ step' = "undo" /\ queue' = OwnFiles(TRUE) /\ kept' = TRUE
  /\ UNCHANGED <<kind, disk, jobVars, moved, complete, rough>>

\* A folder goes after what lies in it
Removable(n) == n \in queue /\ Inside(n) \cap queue = {n}

Undo(n) ==
  /\ step = "undo" /\ Removable(n)
  /\ Put(n, Gone)
  /\ queue' = queue \ {n}
  /\ UNCHANGED <<kind, jobVars, kept, step, moved, complete, rough>>

\* The error is ignored: the file stays, and the folders around it
UndoFails(n) ==
  /\ step = "undo" /\ Removable(n)
  /\ queue' = {m \in queue : n \notin Inside(m)} /\ rough' = TRUE
  /\ UNCHANGED <<kind, disk, jobVars, kept, step, moved, complete>>

Undone ==
  /\ step = "undo" /\ queue = {}
  /\ step' = "failed"
  /\ UNCHANGED <<kind, disk, jobVars, kept, queue, moved, complete, rough>>

-----------------------------------------------------------------------------
(* The job has succeeded: commit *)
Succeed ==
  /\ step = "mux" /\ AllWhole
  /\ complete' = complete \cup {job}
  /\ IF ~armed THEN step' = "success" /\ UNCHANGED queue
     ELSE IF kind = "disc" THEN step' = "clear" /\ queue' = {Bdmv, Certificate}
     ELSE step' = "move" /\ queue' = There(temp[pid])
  /\ UNCHANGED <<kind, disk, jobVars, kept, moved, rough>>

Move(n) ==
  /\ step = "move" /\ n \in queue
  /\ place' = [place EXCEPT ![n] = temp[pid][n]]
  /\ temp' = [temp EXCEPT ![pid][n] = Gone]
  /\ queue' = queue \ {n} /\ moved' = moved \cup {n}
  /\ UNCHANGED <<kind, jobVars, kept, step, complete, rough>>

MoveFailsRemoves ==
  /\ step = "move" /\ queue # {}
  /\ step' = "notMoved" /\ queue' = {} /\ temp' = [temp EXCEPT ![pid] = Empty]
  /\ UNCHANGED <<kind, place, jobVars, kept, moved, complete, rough>>

\* A rename fails: the message says where the new output is, nothing is undone
MoveFails ==
  /\ \/ step = "move" /\ queue # {}
     \/ step = "swap"
  /\ step' = "notMoved" /\ queue' = {}
  /\ UNCHANGED <<kind, disk, jobVars, kept, moved, complete, rough>>

\* What of the old output goes: its layer break map, and its further parts
StaleNone == {}
StaleAnyPart == There(place) \cap Parts
Stale == There(place) \cap
  ( (IF kind = "image" THEN {LayerMap} \ moved ELSE {})
    \cup (IF moved \cap Parts # {} THEN Parts \ moved ELSE {}) )

AllMoved ==
  /\ step = "move" /\ queue = {}
  /\ step' = "tidy" /\ queue' = Stale
  /\ temp' = IF kind = "demux" THEN [temp EXCEPT ![pid] = Empty] ELSE temp
  /\ UNCHANGED <<kind, place, jobVars, kept, moved, complete, rough>>

Tidy(n) ==
  /\ step = "tidy" /\ n \in queue
  /\ place' = [place EXCEPT ![n] = Gone] /\ queue' = queue \ {n}
  /\ UNCHANGED <<kind, temp, jobVars, kept, step, moved, complete, rough>>

TidyFails(n) ==
  /\ step = "tidy" /\ n \in queue
  /\ queue' = queue \ {n} /\ rough' = TRUE
  /\ UNCHANGED <<kind, disk, jobVars, kept, step, moved, complete>>

Tidied ==
  /\ step = "tidy" /\ queue = {}
  /\ step' = "success"
  /\ UNCHANGED <<kind, disk, jobVars, kept, queue, moved, complete, rough>>

-----------------------------------------------------------------------------
(* commit of a disc folder: BDMV, then CERTIFICATE; the old folder is       *)
(* removed file by file before the new one is renamed                       *)
SubCertificateFirst == IF Certificate \in queue THEN Certificate ELSE Bdmv
Sub == IF Bdmv \in queue THEN Bdmv ELSE Certificate
InTheWay == There(place) \cap Inside(Sub)

ClearOld(n) ==
  /\ step = "clear" /\ n \in InTheWay
  /\ n = Sub => InTheWay = {Sub}
  /\ place' = [place EXCEPT ![n] = Gone]
  /\ UNCHANGED <<kind, temp, jobVars, kept, step, queue, moved, complete, rough>>

\* remove_all has ended, with an error nobody looks at when something is left
Cleared ==
  /\ step = "clear"
  /\ step' = "swap"
  /\ UNCHANGED <<kind, disk, jobVars, kept, queue, moved, complete, rough>>

SwapSub ==
  /\ step = "swap" /\ InTheWay \subseteq {Sub}   \* not onto a folder with files
  /\ place' = [n \in Names |-> IF n \in Inside(Sub) THEN temp[pid][n] ELSE place[n]]
  /\ temp' = [temp EXCEPT ![pid] =
       IF queue = {Certificate} THEN Empty          \* remove_all(m_tmp)
       ELSE [n \in Names |-> IF n \in Inside(Sub) THEN Gone ELSE temp[pid][n]]]
  /\ queue' = queue \ {Sub}
  /\ step' = IF queue = {Certificate} THEN "success" ELSE "clear"
  /\ UNCHANGED <<kind, jobVars, kept, moved, complete, rough>>

-----------------------------------------------------------------------------
\* The process is killed or crashes: the disk stays as it is, the rest is gone
Crash ==
  /\ step \notin Ended
  /\ step' = "crashed"
  /\ armed' = FALSE /\ mapWasThere' = FALSE /\ kept' = FALSE
  /\ queue' = {} /\ moved' = {} /\ rough' = FALSE
  /\ UNCHANGED <<kind, disk, job, plans, pid, complete>>

WriteFile == \E n \in Names : OpenFile(n) \/ CloseFile(n)
Undoing == (\E n \in Names : Undo(n) \/ UndoFails(n)) \/ Undone
Tidying == (\E n \in Names : Tidy(n) \/ TidyFails(n)) \/ Tidied
Moving == (\E n \in Names : Move(n)) \/ MoveFails \/ AllMoved
Swapping == (\E n \in Names : ClearOld(n)) \/ Cleared \/ SwapSub

Next ==
  \/ \E p \in Pids, names \in Plans(kind) : Start(p, names)
  \/ WriteFile \/ Fail \/ FailCutOff \/ Undoing
  \/ Succeed \/ Moving \/ Tidying \/ Swapping
  \/ Crash

Spec == Init /\ [][Next]_vars

-----------------------------------------------------------------------------
Entry == [by : 0..MaxJobs, whole : BOOLEAN]
Dir == [Names -> Entry]

TypeOK ==
  /\ kind \in Kinds /\ place \in Dir /\ temp \in [Pids -> Dir]
  /\ job \in 1..MaxJobs /\ plans \in Seq(SUBSET Names) /\ Len(plans) = job
  /\ pid \in Pids /\ armed \in BOOLEAN /\ {mapWasThere, kept, rough} \subseteq BOOLEAN
  /\ step \in {"mux", "undo", "move", "tidy", "clear", "swap"} \cup Ended
  /\ step \in {"clear", "swap"} => queue \in {{Bdmv, Certificate}, {Certificate}}
  /\ queue \subseteq Names /\ moved \subseteq Names /\ complete \subseteq 1..job

\* Every file of job j is there and whole, in its place or under a temporary name
Found(j, n) == place[n] = Whole(j) \/ \E p \in Pids : temp[p][n] = Whole(j)
OutputWhole(j) == \A n \in Content(plans[j]) : Found(j, n)

(* When an output has once been complete, a complete output of one job lies *)
(* on the disk at every moment, whatever jobs fail, are killed, or cannot   *)
(* move their output.                                                       *)
OutputKept == complete # {} => \E j \in complete : OutputWhole(j)

(* A job that could not put its output in place has lost nothing of it.     *)
NotMovedIsWhole == step = "notMoved" => OutputWhole(job)

(* A job that has not succeeded changes no file that was there before it    *)
(* began.  (The map of an image that is gone is no output.)                 *)
LeavesOld ==
  step \in Ended \cup {"mux", "undo"} =>
    \A n \in There(place) \ {LayerMap} :
      (place[n].by # job \/ step \in Ended) => place'[n] = place[n]
OldUntouched == [][LeavesOld]_vars

(* A failed job leaves nothing of its own: no temporary file, and in place  *)
(* only the whole files of a job whose source was cut off.                  *)
FailureLeavesNothing ==
  step = "failed" /\ ~rough =>
    /\ temp[pid] = Empty
    /\ \A n \in Names \ {LayerMap} :
         place[n].by = job => kept /\ kind # "image" /\ place[n].whole
    /\ place[LayerMap].by = job => mapWasThere

(* After success the output is in place, whole, and no temporary file is left. *)
SuccessInPlace ==
  step = "success" /\ job > 1 =>
    /\ \A n \in Content(plan) : place[n] = Whole(job)
    /\ temp[pid] = Empty

(* The names that must not be left from another job beside a new output:    *)
(* the parts of a split, the map of an image, all of a disc.                *)
Companions ==
  CASE kind = "file"  -> IF plan \cap Parts # {} THEN Parts ELSE {}
    [] kind = "image" -> {LayerMap}
    [] kind = "disc"  -> Inside(Bdmv) \cup Inside(Certificate)
    [] kind = "demux" -> {}
(* An output that replaced another is made by one job. *)
MadeByOneJob ==
  step = "success" /\ armed /\ ~rough =>
    \A n \in There(place) \cap Companions : place[n].by = job
=============================================================================

------------------------ MODULE KeepOldOutputProofs ------------------------
(***************************************************************************)
(* Theorems about KeepOldOutput for any number of files, processes and     *)
(* jobs, and every kind of output: when no process finds files left under  *)
(* its own number, a complete output is on the disk at every moment, and   *)
(* an old output is untouched until the new one is complete.               *)
(***************************************************************************)
EXTENDS KeepOldOutput, TLAPS

Running == step \notin Ended

\* What a job may find or make in place, by the kind of its output
Region == IF kind = "disc" THEN Inside(Bdmv) \cup Inside(Certificate)
          ELSE IF kind = "demux" THEN Inside(DemuxDir) ELSE {Main} \cup Parts

\* The running job has a plan of its kind, and is not complete before it has succeeded
PlanInv == /\ Running => plan \in Plans(kind)
           /\ step \in {"mux", "undo"} => job \notin complete /\ moved = {}
\* Under the number of the process lies only what this job wrote
TempInv == Running /\ armed =>
  \A n \in Names : temp[pid][n] = Gone \/ (temp[pid][n].by = job /\ n \in plan)
\* A job that writes in place found nothing there
FreshInv == step \in {"mux", "undo"} /\ ~armed =>
  /\ \A n \in Region : place[n] = Gone \/ place[n].by = job
  /\ kind \in {"file", "image"} => complete = {}
  /\ step = "mux" => \A n \in Made(plan) : place[n] # Gone
\* A file lies in its folder
FolderInv ==
  /\ \A n \in Clips : place[n] # Gone => place[Bdmv] # Gone
  /\ \A n \in Tracks : place[n] # Gone => place[DemuxDir] # Gone
\* An output that was there is never quite gone
ExistsInv == /\ Running /\ armed /\ kind # "disc" => Exists
             /\ kind \in {"file", "image"} /\ complete # {} => Exists
UndoInv == step = "undo" /\ ~armed =>
  /\ queue \subseteq Region \cup {LayerMap}
  /\ LayerMap \in queue => kind = "image"
  /\ \A f \in queue : There(place) \cap Inside(f) \subseteq queue
\* While the new output moves, each of its files is in one of the two places
MoveInv == step = "move" =>
  /\ armed /\ kind # "disc" /\ job \in complete
  /\ queue \cup moved \subseteq plan /\ Content(plan) \subseteq queue \cup moved
  /\ \A n \in queue : temp[pid][n] # Gone /\ (n \in Content(plan) => temp[pid][n] = Whole(job))
  /\ \A n \in moved : place[n] # Gone /\ (n \in Content(plan) => place[n] = Whole(job))
TidyInv == step = "tidy" =>
  /\ armed /\ kind # "disc" /\ job \in complete
  /\ queue \subseteq (Parts \cup {LayerMap}) \ moved
  /\ queue \cap Parts # {} => moved \cap Parts # {}
  /\ Content(plan) \subseteq moved
  /\ \A n \in moved : place[n] # Gone /\ (n \in Content(plan) => place[n] = Whole(job))
SwapInv == step \in {"clear", "swap"} =>
  /\ armed /\ kind = "disc" /\ job \in complete
  /\ \A n \in plan : IF \E s \in queue : n \in Inside(s)
                       THEN temp[pid][n] = Whole(job) ELSE place[n] = Whole(job)

IInv == /\ TypeOK /\ PlanInv /\ TempInv /\ FreshInv /\ FolderInv /\ ExistsInv
        /\ UndoInv /\ MoveInv /\ TidyInv /\ SwapInv /\ OutputKept /\ NotMovedIsWhole

-----------------------------------------------------------------------------
(* Names and plans *)
LEMMA NameFacts ==
  /\ {Main, LayerMap, Bdmv, Certificate, DemuxDir} \cup Parts \cup Clips \cup Tracks = Names
  /\ Main # LayerMap /\ Main # Bdmv /\ Main # Certificate /\ Main # DemuxDir
  /\ LayerMap # Bdmv /\ LayerMap # Certificate /\ LayerMap # DemuxDir
  /\ Bdmv # Certificate /\ Bdmv # DemuxDir /\ Certificate # DemuxDir
  /\ \A n \in Parts : n \notin Clips /\ n \notin Tracks
  /\ \A n \in Clips : n \notin Tracks
  /\ \A n \in Parts \cup Clips \cup Tracks :
       n # Main /\ n # LayerMap /\ n # Bdmv /\ n # Certificate /\ n # DemuxDir
BY DEF Names, Main, LayerMap, Bdmv, Certificate, DemuxDir, Parts, Clips, Tracks, Numbered

LEMMA InsideFacts ==
  /\ Inside(Bdmv) = {Bdmv} \cup Clips
  /\ Inside(Certificate) = {Certificate}
  /\ Inside(DemuxDir) = {DemuxDir} \cup Tracks
  /\ \A n : n # Bdmv /\ n # DemuxDir => Inside(n) = {n}
BY NameFacts DEF Inside

LEMMA PlanFacts ==
  ASSUME NEW names
  PROVE  /\ names \in Plans("file") =>
               names \subseteq {Main} \cup Parts /\ names # {}
         /\ names \in Plans("image") => names \subseteq {Main, LayerMap} /\ Main \in names
         /\ names \in Plans("disc") =>
               /\ names \subseteq {Bdmv, Certificate} \cup Clips
               /\ Bdmv \in names /\ Certificate \in names
         /\ names \in Plans("demux") =>
               names \subseteq {DemuxDir} \cup Tracks /\ DemuxDir \in names
<1>1. \A w : \A m \in 1..MaxFiles : Numbered(w, m) \subseteq Numbered(w, MaxFiles) /\ Numbered(w, m) # {}
  <2> SUFFICES ASSUME NEW w, NEW m \in 1..MaxFiles
               PROVE  Numbered(w, m) \subseteq Numbered(w, MaxFiles) /\ Numbered(w, m) # {}
    OBVIOUS
  <2>1. \A i \in 1..m : i \in 1..MaxFiles
    BY KeepOldOutputAssumption
  <2>2. 1 \in 1..m /\ <<w, 1>> \in Numbered(w, m)
    BY KeepOldOutputAssumption DEF Numbered
  <2>3. QED  BY <2>1, <2>2 DEF Numbered
<1>2. names \in Plans("file") => names \subseteq {Main} \cup Parts /\ names # {}
  BY <1>1 DEF Plans, Parts
<1>3. names \in Plans("image") => names \subseteq {Main, LayerMap} /\ Main \in names
  BY DEF Plans
<1>4. names \in Plans("disc") =>
        /\ names \subseteq {Bdmv, Certificate} \cup Clips
        /\ Bdmv \in names /\ Certificate \in names
  BY <1>1 DEF Plans, Clips
<1>5. names \in Plans("demux") => names \subseteq {DemuxDir} \cup Tracks /\ DemuxDir \in names
  BY DEF Plans
<1>6. QED  BY <1>2, <1>3, <1>4, <1>5

LEMMA PlanInNames == ASSUME NEW k \in Kinds, NEW names \in Plans(k) PROVE names \subseteq Names
<1>1. k \in {"file", "image", "disc", "demux"}  BY KeepOldOutputAssumption
<1>2. QED  BY <1>1, PlanFacts, NameFacts

-----------------------------------------------------------------------------
(* What the steps of a job have in common *)
LEMMA RunningPlan ==
  ASSUME TypeOK, PlanInv, Running
  PROVE  plan \in Plans(kind) /\ plan \subseteq Names /\ kind \in {"file", "image", "disc", "demux"}
BY PlanInNames, KeepOldOutputAssumption DEF TypeOK, PlanInv

LEMMA TypeFacts ==
  ASSUME TypeOK
  PROVE  /\ place \in [Names -> Entry] /\ temp \in [Pids -> [Names -> Entry]]
         /\ job \in 1..MaxJobs /\ pid \in Pids /\ armed \in BOOLEAN
         /\ complete \subseteq 1..job
         /\ \A j \in 1..job : plans[j] \subseteq Names
BY DEF TypeOK, Dir

LEMMA EntryFacts ==
  /\ Gone \in Entry
  /\ \A j \in 1..MaxJobs : /\ Whole(j) \in Entry /\ Whole(j) # Gone /\ Whole(j).by = j
                         /\ \A w \in BOOLEAN : [by |-> j, whole |-> w] \in Entry
  /\ \A i, j : i # j => Whole(i) # Whole(j)
BY KeepOldOutputAssumption DEF Entry, Gone, Whole

(* A step that changes what job j did not write under one name loses nothing of it. *)
LEMMA OthersKept ==
  ASSUME TypeOK, NEW j \in 1..job, OutputWhole(j), NEW n \in Names, NEW c,
         Put(n, c), Target[n] # Whole(j), plans' = plans
  PROVE  OutputWhole(j)'
<1> SUFFICES ASSUME NEW m \in Content(plans[j]) PROVE Found(j, m)'
  BY DEF OutputWhole
<1>1. Found(j, m) /\ m \in Names
  BY TypeFacts DEF OutputWhole, Content
<1>2. pid \in Pids /\ temp \in [Pids -> [Names -> Entry]] /\ place \in [Names -> Entry]
  BY TypeFacts
<1>3. CASE armed
  BY <1>1, <1>2, <1>3 DEF Put, Target, Found
<1>4. CASE ~armed
  BY <1>1, <1>2, <1>4 DEF Put, Target, Found
<1>5. QED  BY <1>3, <1>4

LEMMA PutType ==
  ASSUME TypeOK, NEW n \in Names, NEW c \in Entry, Put(n, c)
  PROVE  place' \in [Names -> Entry] /\ temp' \in [Pids -> [Names -> Entry]]
BY TypeFacts DEF Put

-----------------------------------------------------------------------------
(* Writing *)
LEMMA WriteKeepsInv ==
  ASSUME IInv, NEW n \in Names, OpenFile(n) \/ CloseFile(n)
  PROVE  IInv'
<1> USE DEF Running
<1>0. /\ step = "mux" /\ Running /\ Running'
      /\ UNCHANGED <<kind, jobVars, kept, step, queue, moved, complete, rough>>
      /\ job \in 1..MaxJobs
  BY DEF OpenFile, CloseFile, Ended, IInv, TypeOK, jobVars
<1>1. plan \in Plans(kind) /\ plan \subseteq Names /\ kind \in {"file", "image", "disc", "demux"}
  BY <1>0, RunningPlan DEF IInv
<1>2. PICK c \in Entry : Put(n, c) /\ c.by = job
  <2>1. Whole(job) \in Entry /\ Whole(job).by = job
    BY <1>0, EntryFacts
  <2>2. LET c == [by |-> job, whole |-> FALSE] IN c \in Entry /\ c.by = job
    BY <1>0, EntryFacts
  <2>3. QED  BY <2>1, <2>2 DEF OpenFile, CloseFile
<1>3. c # Gone
  BY <1>0, <1>2 DEF Gone
<1>4. n \in plan \ Folders \/ Target[n].by = job
  BY DEF OpenFile, CloseFile, Unwritten, Content
<1>5. IF armed THEN temp' = [temp EXCEPT ![pid][n] = c] /\ place' = place
               ELSE place' = [place EXCEPT ![n] = c] /\ temp' = temp
  BY <1>2 DEF Put
<1>t. /\ place \in [Names -> Entry] /\ temp \in [Pids -> [Names -> Entry]]
      /\ pid \in Pids /\ complete \subseteq 1..job
  BY TypeFacts DEF IInv
<1>6. TypeOK'
  <2>1. place' \in [Names -> Entry] /\ temp' \in [Pids -> [Names -> Entry]]
    BY <1>2, PutType DEF IInv
  <2>2. QED  BY <1>0, <2>1 DEF IInv, TypeOK, Dir, jobVars
<1>7. PlanInv' /\ UndoInv' /\ MoveInv' /\ TidyInv' /\ SwapInv' /\ NotMovedIsWhole'
  BY <1>0, <1>1 DEF IInv, PlanInv, UndoInv, MoveInv, TidyInv, SwapInv, NotMovedIsWhole, jobVars, plan
<1>8. n \in plan \ Folders => n \in Region \/ (n = LayerMap /\ kind = "image")
  BY <1>1, PlanFacts, NameFacts, InsideFacts DEF Region, Folders
<1>9. TempInv'
  <2> SUFFICES ASSUME armed, NEW m \in Names
               PROVE  (temp[pid][m] = Gone \/ (temp[pid][m].by = job /\ m \in plan))'
    BY <1>0 DEF TempInv, jobVars
  <2>1. temp[pid][m] = Gone \/ (temp[pid][m].by = job /\ m \in plan)
    BY <1>0 DEF IInv, TempInv
  <2>2. n \in plan
    BY <1>0, <1>4 DEF Target, IInv, TempInv, Gone
  <2>3. QED  BY <1>0, <1>2, <1>5, <1>t, <2>1, <2>2 DEF jobVars, plan
<1>10. FreshInv'
  <2> SUFFICES ASSUME ~armed PROVE FreshInv'
    BY <1>0 DEF FreshInv, jobVars
  <2>1. place' = [place EXCEPT ![n] = c] /\ Region \subseteq Names
    BY <1>5, InsideFacts, NameFacts DEF Region
  <2>2. QED  BY <1>0, <1>2, <1>3, <1>t, <2>1 DEF FreshInv, IInv, jobVars, plan, Region, Made
<1>11. FolderInv'
  <2>1. CASE armed
    BY <2>1, <1>5 DEF IInv, FolderInv
  <2>2. CASE ~armed
    <3>1. place' = [place EXCEPT ![n] = c]
      BY <1>5, <2>2
    <3>2. \A m \in Names : place'[m] # Gone => place[m] # Gone \/ m = n
      BY <3>1, <1>t
    <3>3. \A m \in Names : place[m] # Gone => place'[m] # Gone
      BY <3>1, <1>t, <1>3
    <3>4. n \in Clips /\ place[n] = Gone => place[Bdmv] # Gone
      <4> SUFFICES ASSUME n \in Clips, place[n] = Gone PROVE place[Bdmv] # Gone
        OBVIOUS
      <4>1. n \in plan
        BY <1>0, <1>4, <2>2 DEF Target, Gone
      <4>2. kind = "disc" /\ Bdmv \in plan
        BY <4>1, <1>1, PlanFacts, NameFacts
      <4>3. QED  BY <4>2, <1>0, <2>2 DEF IInv, FreshInv, Made
    <3>5. n \in Tracks /\ place[n] = Gone => place[DemuxDir] # Gone
      <4> SUFFICES ASSUME n \in Tracks, place[n] = Gone PROVE place[DemuxDir] # Gone
        OBVIOUS
      <4>1. n \in plan
        BY <1>0, <1>4, <2>2 DEF Target, Gone
      <4>2. kind = "demux" /\ DemuxDir \in plan
        BY <4>1, <1>1, PlanFacts, NameFacts
      <4>3. QED  BY <4>2, <1>0, <2>2 DEF IInv, FreshInv, Made
    <3>6. QED  BY <3>2, <3>3, <3>4, <3>5, NameFacts DEF IInv, FolderInv
  <2>3. QED  BY <2>1, <2>2
<1>12. ExistsInv'
  <2>1. \A m \in Names : place[m] # Gone => place'[m] # Gone
    BY <1>5, <1>t, <1>3
  <2>2. Witnesses \subseteq Names /\ Witnesses' = Witnesses
    BY <1>0, NameFacts DEF Witnesses
  <2>3. Exists => Exists'
    BY <2>1, <2>2 DEF Exists
  <2>4. QED  BY <1>0, <2>3 DEF IInv, ExistsInv, jobVars
<1>13. OutputKept'
  <2> SUFFICES ASSUME complete # {} PROVE \E j \in complete : OutputWhole(j)'
    BY <1>0 DEF OutputKept
  <2>1. PICK j \in complete : OutputWhole(j)
    BY DEF IInv, OutputKept
  <2>2. j \in 1..job /\ j # job
    BY <1>0, <1>t, <2>1 DEF IInv, PlanInv
  <2>3. Target[n] # Whole(j)
    <3>1. Target[n].by = job => Target[n] # Whole(j)
      BY <2>2 DEF Whole
    <3>2. Gone # Whole(j)
      BY <2>2 DEF Whole, Gone
    <3>3. CASE armed
      BY <3>1, <3>2, <3>3, <1>0 DEF Target, IInv, TempInv
    <3>4. CASE ~armed /\ n \in plan \ Folders
      BY <3>1, <3>2, <3>4, <1>0, <1>8, <2>1 DEF Target, IInv, FreshInv
    <3>5. QED  BY <3>1, <3>3, <3>4, <1>4
  <2>4. QED  BY <1>0, <1>2, <2>1, <2>2, <2>3, OthersKept DEF IInv, jobVars
<1>14. QED
  BY <1>6, <1>7, <1>9, <1>10, <1>11, <1>12, <1>13 DEF IInv

-----------------------------------------------------------------------------
(* Steps that leave the disk alone *)
LEMMA SameDisk ==
  ASSUME place' = place, temp' = temp, plans' = plans, complete' = complete, kind' = kind
  PROVE  /\ OutputKept => OutputKept'
         /\ FolderInv => FolderInv'
         /\ Exists => Exists'
         /\ \A j : OutputWhole(j) => OutputWhole(j)'
<1>1. \A j : OutputWhole(j) => OutputWhole(j)'
  BY DEF OutputWhole, Found
<1>2. QED  BY <1>1 DEF OutputKept, FolderInv, Exists, Witnesses

LEMMA EndKeepsInv ==
  ASSUME IInv, Crash \/ Undone \/ Tidied
  PROVE  IInv'
<1> USE DEF Running
<1>1. /\ UNCHANGED <<kind, place, temp, job, plans, pid, complete>>
      /\ step \notin Ended /\ step' \in Ended /\ step' # "notMoved"
      /\ queue' \subseteq Names /\ moved' \subseteq Names
  BY DEF Crash, Undone, Tidied, Ended, disk, jobVars, IInv, TypeOK
<1>2. TypeOK'
  BY <1>1 DEF IInv, TypeOK, Dir, Crash, Undone, Tidied, jobVars, Ended
<1>3. OutputKept' /\ FolderInv' /\ (Exists => Exists')
  BY <1>1, SameDisk DEF IInv
<1>4. QED
  BY <1>1, <1>2, <1>3 DEF IInv, PlanInv, TempInv, FreshInv, ExistsInv, UndoInv, MoveInv,
     TidyInv, SwapInv, NotMovedIsWhole, Ended

(* The job fails: what it may remove are its own files.                    *)
LEMMA FailKeepsInv ==
  ASSUME IInv, Fail \/ FailCutOff
  PROVE  IInv'
<1> USE DEF Running
<1>1. /\ UNCHANGED <<kind, place, temp, job, plans, pid, complete, armed, mapWasThere, moved>>
      /\ step = "mux" /\ step' = "undo"
  BY DEF Fail, FailCutOff, disk, jobVars
<1>2. PICK keep \in BOOLEAN : queue' = OwnFiles(keep)
  BY DEF Fail, FailCutOff
<1>3. plan \in Plans(kind) /\ plan \subseteq Names /\ kind \in {"file", "image", "disc", "demux"}
  BY <1>1, RunningPlan DEF IInv, Ended
<1>4. queue' \subseteq Names
  BY <1>2, <1>3 DEF OwnFiles, There
<1>5. TypeOK'
  BY <1>1, <1>4 DEF IInv, TypeOK, Dir, Fail, FailCutOff
<1>6. OutputKept' /\ FolderInv' /\ (Exists => Exists')
  BY <1>1, SameDisk DEF IInv
<1>7. UndoInv'
  <2> SUFFICES ASSUME ~armed
               PROVE  /\ queue' \subseteq Region \cup {LayerMap}
                      /\ LayerMap \in queue' => kind = "image"
                      /\ \A f \in queue' : There(place) \cap Inside(f) \subseteq queue'
    BY <1>1 DEF UndoInv, Region, There
  <2>1. CASE kind = "file"
    BY <2>1, <1>2, InsideFacts, NameFacts DEF OwnFiles, Region
  <2>2. CASE kind = "image"
    BY <2>2, <1>2, InsideFacts, NameFacts DEF OwnFiles, Region
  <2>3. CASE kind = "disc"
    BY <2>3, <1>2, InsideFacts, NameFacts DEF OwnFiles, Region
  <2>4. CASE kind = "demux"
    BY <2>4, <1>2, InsideFacts, NameFacts DEF OwnFiles, Region
  <2>5. QED  BY <1>3, <2>1, <2>2, <2>3, <2>4
<1>8. FreshInv'
  BY <1>1 DEF IInv, FreshInv, Region
<1>9. QED
  BY <1>1, <1>5, <1>6, <1>7, <1>8 DEF IInv, PlanInv, TempInv, ExistsInv, MoveInv,
     TidyInv, SwapInv, NotMovedIsWhole, Ended, plan

LEMMA UndoFailsKeepsInv ==
  ASSUME IInv, NEW n \in Names, UndoFails(n)
  PROVE  IInv'
<1> USE DEF Running
<1>1. /\ UNCHANGED <<kind, place, temp, job, plans, pid, complete, armed, mapWasThere, moved, step>>
      /\ step = "undo" /\ queue' = {m \in queue : n \notin Inside(m)}
  BY DEF UndoFails, disk, jobVars
<1>2. TypeOK'
  BY <1>1 DEF IInv, TypeOK, Dir, UndoFails
<1>3. OutputKept' /\ FolderInv' /\ (Exists => Exists')
  BY <1>1, SameDisk DEF IInv
<1>4. UndoInv'
  <2> SUFFICES ASSUME ~armed, NEW f \in queue', NEW m \in There(place) \cap Inside(f)
               PROVE  m \in queue'
    BY <1>1 DEF IInv, UndoInv, Region, There
  <2>1. f \in queue /\ n \notin Inside(f) /\ m \in queue
    BY <1>1 DEF IInv, UndoInv
  <2>2. Inside(m) \subseteq Inside(f)
    BY NameFacts, InsideFacts
  <2>3. QED  BY <1>1, <2>1, <2>2
<1>5. QED
  BY <1>1, <1>2, <1>3, <1>4 DEF IInv, PlanInv, TempInv, FreshInv, ExistsInv, MoveInv,
     TidyInv, SwapInv, NotMovedIsWhole, Ended, plan, Region

LEMMA UndoKeepsInv ==
  ASSUME IInv, NEW n \in Names, Undo(n)
  PROVE  IInv'
<1> USE DEF Running
<1>1. /\ UNCHANGED <<kind, job, plans, pid, complete, armed, mapWasThere, moved, step, kept, rough>>
      /\ step = "undo" /\ n \in queue /\ queue' = queue \ {n} /\ Inside(n) \cap queue = {n}
      /\ Put(n, Gone) /\ job \in 1..MaxJobs
  BY DEF Undo, Removable, jobVars, IInv, TypeOK
<1>2. IF armed THEN temp' = [temp EXCEPT ![pid][n] = Gone] /\ place' = place
               ELSE place' = [place EXCEPT ![n] = Gone] /\ temp' = temp
  BY <1>1 DEF Put
<1>3. /\ place \in [Names -> Entry] /\ temp \in [Pids -> [Names -> Entry]]
      /\ pid \in Pids /\ complete \subseteq 1..job
  BY TypeFacts DEF IInv
<1>4. TypeOK'
  <2>1. place' \in [Names -> Entry] /\ temp' \in [Pids -> [Names -> Entry]]
    BY <1>1, PutType, EntryFacts DEF IInv
  <2>2. QED  BY <1>1, <2>1 DEF IInv, TypeOK, Dir, Undo
<1>5. PlanInv' /\ MoveInv' /\ TidyInv' /\ SwapInv' /\ NotMovedIsWhole'
  BY <1>1 DEF IInv, PlanInv, MoveInv, TidyInv, SwapInv, NotMovedIsWhole, plan, Ended
<1>6. TempInv'
  BY <1>1, <1>2, <1>3 DEF IInv, TempInv, plan, Ended
<1>7. FreshInv'
  <2> SUFFICES ASSUME ~armed PROVE FreshInv'
    BY <1>1 DEF FreshInv
  <2>1. place' = [place EXCEPT ![n] = Gone] /\ Region \subseteq Names
    BY <1>2, InsideFacts, NameFacts DEF Region
  <2>2. QED  BY <1>1, <1>3, <2>1 DEF FreshInv, IInv, Region
<1>8. There(place') \subseteq There(place)
  BY <1>2, <1>3 DEF There
<1>9. UndoInv'
  <2> SUFFICES ASSUME ~armed, NEW f \in queue', NEW m \in There(place') \cap Inside(f)
               PROVE  m \in queue'
    BY <1>1 DEF IInv, UndoInv, Region, There
  <2>1. m \in queue
    BY <1>1, <1>8 DEF IInv, UndoInv
  <2>2. m # n
    BY <1>2, <1>3 DEF There
  <2>3. QED  BY <1>1, <2>1, <2>2
<1>10. FolderInv'
  <2>1. CASE armed
    BY <1>2, <2>1 DEF IInv, FolderInv
  <2>2. CASE ~armed
    <3>1. \A m \in Names : place'[m] # Gone => place[m] # Gone /\ m # n
      BY <1>2, <1>3, <2>2
    <3>2. \A m \in Names : m # n => place'[m] = place[m]
      BY <1>2, <1>3, <2>2
    <3>3. There(place) \cap Inside(n) \subseteq {n}
      BY <1>1, <2>2 DEF IInv, UndoInv
    <3>4. n = Bdmv => \A m \in Clips : place[m] = Gone
      BY <3>3, NameFacts, InsideFacts DEF There
    <3>5. n = DemuxDir => \A m \in Tracks : place[m] = Gone
      BY <3>3, NameFacts, InsideFacts DEF There
    <3>6. QED  BY <3>1, <3>2, <3>4, <3>5, NameFacts DEF IInv, FolderInv
  <2>3. QED  BY <2>1, <2>2, <1>3 DEF IInv, TypeOK
<1>11. ExistsInv'
  <2>1. armed => (Exists <=> Exists')
    BY <1>1, <1>2 DEF Exists, Witnesses
  <2>2. ~armed /\ kind \in {"file", "image"} => complete = {}
    BY <1>1 DEF IInv, FreshInv
  <2>3. QED  BY <1>1, <2>1, <2>2 DEF IInv, ExistsInv, Ended
<1>12. OutputKept'
  <2> SUFFICES ASSUME complete # {} PROVE \E j \in complete : OutputWhole(j)'
    BY <1>1 DEF OutputKept
  <2>1. PICK j \in complete : OutputWhole(j)
    BY DEF IInv, OutputKept
  <2>2. j \in 1..job /\ j # job
    BY <1>1, <1>3, <2>1 DEF IInv, PlanInv
  <2>3. Target[n] # Whole(j)
    <3>1. Target[n].by = job => Target[n] # Whole(j)
      BY <2>2 DEF Whole
    <3>2. Gone # Whole(j)
      BY <2>2 DEF Whole, Gone
    <3>3. CASE armed
      BY <3>1, <3>2, <3>3, <1>1 DEF Target, IInv, TempInv, Ended
    <3>4. CASE ~armed
      BY <3>1, <3>2, <3>4, <1>1, <2>1 DEF Target, IInv, FreshInv, UndoInv
    <3>5. QED  BY <3>3, <3>4
  <2>4. QED  BY <1>1, <2>1, <2>2, <2>3, OthersKept DEF IInv
<1>13. QED
  BY <1>4, <1>5, <1>6, <1>7, <1>9, <1>10, <1>11, <1>12 DEF IInv

-----------------------------------------------------------------------------
(* commit *)
LEMMA SucceedKeepsInv ==
  ASSUME IInv, Succeed
  PROVE  IInv'
<1> USE DEF Running
<1>1. /\ UNCHANGED <<kind, place, temp, job, plans, pid, armed, mapWasThere, moved, kept, rough>>
      /\ step = "mux" /\ AllWhole /\ complete' = complete \cup {job} /\ job \in 1..MaxJobs
      /\ step' # "notMoved" /\ step' # "mux" /\ step' # "undo" /\ step' # "tidy"
  BY DEF Succeed, disk, jobVars, IInv, TypeOK
<1>2. plan \in Plans(kind) /\ plan \subseteq Names /\ kind \in {"file", "image", "disc", "demux"}
  BY <1>1, RunningPlan DEF IInv, Ended
<1>3. /\ place \in [Names -> Entry] /\ temp \in [Pids -> [Names -> Entry]]
      /\ pid \in Pids /\ complete \subseteq 1..job /\ armed \in BOOLEAN
  BY TypeFacts DEF IInv
<1>4. \A n \in Content(plan) : Target[n] = Whole(job) /\ Target[n] # Gone
  BY <1>1, EntryFacts DEF AllWhole
<1>5. TypeOK'
  <2>1. queue' \subseteq Names /\ (step' \in {"clear", "swap"} => queue' = {Bdmv, Certificate})
    BY <1>1, NameFacts DEF Succeed, There, IInv, TypeOK
  <2>2. step' \in {"success", "clear", "move"}
    BY DEF Succeed
  <2>3. QED  BY <1>1, <2>1, <2>2 DEF IInv, TypeOK, Dir, Ended
<1>6. OutputWhole(job)'
  <2>1. \A n \in Content(plan) : place[n] = Whole(job) \/ temp[pid][n] = Whole(job)
    BY <1>4 DEF Target
  <2>2. QED  BY <1>1, <1>3, <2>1 DEF OutputWhole, Found, plan
<1>7. OutputKept'
  BY <1>1, <1>6 DEF OutputKept
<1>8. PlanInv' /\ TempInv' /\ FreshInv' /\ FolderInv' /\ UndoInv' /\ TidyInv' /\ NotMovedIsWhole'
  BY <1>1 DEF IInv, PlanInv, TempInv, FreshInv, FolderInv, UndoInv, TidyInv, NotMovedIsWhole,
     Ended, plan
<1>9. ExistsInv'
  <2>1. Exists <=> Exists'
    BY <1>1 DEF Exists, Witnesses
  <2>2. ~armed /\ kind \in {"file", "image"} => Exists
    <3> SUFFICES ASSUME ~armed, kind \in {"file", "image"} PROVE Exists
      OBVIOUS
    <3>1. plan \cap ({Main} \cup Parts) # {} /\ DemuxDir \notin plan
      BY <1>2, PlanFacts, NameFacts
    <3>2. QED  BY <1>4, <3>1 DEF Target, Content, Exists, Witnesses
  <2>3. QED  BY <1>1, <1>3, <2>1, <2>2 DEF IInv, ExistsInv, Ended
<1>10. MoveInv'
  <2> SUFFICES ASSUME step' = "move" PROVE MoveInv'
    BY DEF MoveInv
  <2>1. armed /\ kind # "disc" /\ queue' = There(temp[pid]) /\ moved = {}
    BY <1>1 DEF Succeed, IInv, PlanInv
  <2>2. There(temp[pid]) \subseteq plan
    BY <1>1, <2>1 DEF There, IInv, TempInv, Ended
  <2>3. Content(plan) \subseteq There(temp[pid])
    BY <1>2, <1>4, <2>1 DEF There, Target, Content
  <2>4. \A n \in There(temp[pid]) :
          temp[pid][n] # Gone /\ (n \in Content(plan) => temp[pid][n] = Whole(job))
    BY <1>4, <2>1 DEF There, Target
  <2>5. QED  BY <1>1, <2>1, <2>2, <2>3, <2>4 DEF MoveInv, plan
<1>11. SwapInv'
  <2> SUFFICES ASSUME step' \in {"clear", "swap"} PROVE SwapInv'
    BY DEF SwapInv
  <2>1. armed /\ kind = "disc" /\ queue' = {Bdmv, Certificate} /\ Content(plan) = plan
    <3>1. DemuxDir \notin plan \/ kind # "disc"
      BY <1>2, PlanFacts, NameFacts
    <3>2. QED  BY <3>1 DEF Succeed, Content
  <2>2. \A n \in plan : \E s \in queue' : n \in Inside(s)
    BY <1>2, <2>1, PlanFacts, InsideFacts
  <2>3. QED  BY <1>1, <1>4, <2>1, <2>2 DEF SwapInv, Target, plan
<1>12. QED
  BY <1>5, <1>7, <1>8, <1>9, <1>10, <1>11 DEF IInv

LEMMA MoveKeepsInv ==
  ASSUME IInv, NEW n \in Names, Move(n)
  PROVE  IInv'
<1> USE DEF Running
<1>1. /\ UNCHANGED <<kind, job, plans, pid, armed, mapWasThere, kept, rough, step, complete>>
      /\ step = "move" /\ n \in queue /\ queue' = queue \ {n} /\ moved' = moved \cup {n}
      /\ place' = [place EXCEPT ![n] = temp[pid][n]]
      /\ temp' = [temp EXCEPT ![pid][n] = Gone]
  BY DEF Move, jobVars
<1>2. /\ place \in [Names -> Entry] /\ temp \in [Pids -> [Names -> Entry]]
      /\ pid \in Pids /\ complete \subseteq 1..job /\ job \in 1..MaxJobs
  BY TypeFacts DEF IInv
<1>3. plan \in Plans(kind) /\ plan \subseteq Names /\ kind \in {"file", "image", "disc", "demux"}
  BY <1>1, RunningPlan DEF IInv, Ended
<1>4. /\ armed /\ kind # "disc" /\ job \in complete
      /\ queue \cup moved \subseteq plan /\ Content(plan) \subseteq queue \cup moved
      /\ \A m \in queue : temp[pid][m] # Gone /\ (m \in Content(plan) => temp[pid][m] = Whole(job))
      /\ \A m \in moved : place[m] # Gone /\ (m \in Content(plan) => place[m] = Whole(job))
  BY <1>1 DEF IInv, MoveInv
<1>5. TypeOK'
  <2>1. place' \in [Names -> Entry] /\ temp' \in [Pids -> [Names -> Entry]]
    BY <1>1, <1>2, EntryFacts
  <2>2. QED  BY <1>1, <2>1 DEF IInv, TypeOK, Dir
<1>6. /\ place'[n] = temp[pid][n] /\ \A m \in Names \ {n} : place'[m] = place[m]
      /\ temp'[pid][n] = Gone /\ \A m \in Names \ {n} : temp'[pid][m] = temp[pid][m]
  BY <1>1, <1>2
<1>7. PlanInv' /\ FreshInv' /\ UndoInv' /\ TidyInv' /\ SwapInv' /\ NotMovedIsWhole'
  BY <1>1 DEF IInv, PlanInv, FreshInv, UndoInv, TidyInv, SwapInv, NotMovedIsWhole, plan, Ended
<1>8. TempInv'
  BY <1>1, <1>6 DEF IInv, TempInv, plan
<1>9. MoveInv'
  <2>1. queue' \cup moved' = queue \cup moved
    BY <1>1
  <2>2. \A m \in queue' :
          temp'[pid][m] # Gone /\ (m \in Content(plan) => temp'[pid][m] = Whole(job))
    BY <1>1, <1>3, <1>4, <1>6
  <2>3. \A m \in moved' :
          place'[m] # Gone /\ (m \in Content(plan) => place'[m] = Whole(job))
    BY <1>1, <1>3, <1>4, <1>6
  <2>4. QED  BY <1>1, <1>4, <2>1, <2>2, <2>3 DEF MoveInv, plan
<1>10. FolderInv'
  <2>1. \A m \in Names : place[m] # Gone => place'[m] # Gone
    BY <1>1, <1>4, <1>6
  <2>2. \A m \in Names : place'[m] # Gone => place[m] # Gone \/ m = n
    BY <1>6
  <2>3. n \notin Clips
    BY <1>1, <1>3, <1>4, PlanFacts, NameFacts
  <2>4. n \in Tracks => place[DemuxDir] # Gone
    <3>1. n \in Tracks => kind = "demux"
      BY <1>1, <1>3, <1>4, PlanFacts, NameFacts
    <3>2. kind = "demux" => Exists
      BY <1>1, <1>4 DEF IInv, ExistsInv, Ended
    <3>3. QED  BY <3>1, <3>2 DEF Exists, Witnesses
  <2>5. QED  BY <2>1, <2>2, <2>3, <2>4, NameFacts DEF IInv, FolderInv
<1>11. ExistsInv'
  <2>1. \A m \in Names : place[m] # Gone => place'[m] # Gone
    BY <1>1, <1>4, <1>6
  <2>2. Witnesses \subseteq Names /\ Witnesses' = Witnesses
    BY <1>1, NameFacts DEF Witnesses
  <2>3. Exists => Exists'
    BY <2>1, <2>2 DEF Exists
  <2>4. QED  BY <1>1, <2>3 DEF IInv, ExistsInv
<1>12. OutputKept'
  <2>1. \A m \in Content(plan) : place'[m] = Whole(job) \/ temp'[pid][m] = Whole(job)
    BY <1>1, <1>3, <1>4, <1>6 DEF Content
  <2>2. OutputWhole(job)'
    BY <1>1, <1>2, <2>1 DEF OutputWhole, Found, plan
  <2>3. QED  BY <1>1, <1>4, <2>2 DEF OutputKept
<1>13. QED
  BY <1>5, <1>7, <1>8, <1>9, <1>10, <1>11, <1>12 DEF IInv

LEMMA MoveFailsKeepsInv ==
  ASSUME IInv, MoveFails
  PROVE  IInv'
<1> USE DEF Running
<1>1. /\ UNCHANGED <<kind, place, temp, job, plans, pid, armed, mapWasThere, kept, rough, moved, complete>>
      /\ step \in {"move", "swap"} /\ step' = "notMoved" /\ queue' = {}
  BY DEF MoveFails, disk, jobVars
<1>2. TypeOK'
  BY <1>1 DEF IInv, TypeOK, Dir, Ended
<1>3. OutputKept' /\ FolderInv' /\ (Exists => Exists') /\ \A j : OutputWhole(j) => OutputWhole(j)'
  BY <1>1, SameDisk DEF IInv
<1>4. pid \in Pids
  BY TypeFacts DEF IInv
<1>5. OutputWhole(job)
  <2>1. CASE step = "move"
    <3>1. \A n \in Content(plan) : place[n] = Whole(job) \/ temp[pid][n] = Whole(job)
      BY <2>1 DEF IInv, MoveInv
    <3>2. QED  BY <1>4, <3>1 DEF OutputWhole, Found, plan
  <2>2. CASE step = "swap"
    <3>1. \A n \in plan : place[n] = Whole(job) \/ temp[pid][n] = Whole(job)
      BY <2>2 DEF IInv, SwapInv
    <3>2. QED  BY <1>4, <3>1 DEF OutputWhole, Found, plan, Content
  <2>3. QED  BY <1>1, <2>1, <2>2
<1>6. NotMovedIsWhole'
  BY <1>1, <1>3, <1>5 DEF NotMovedIsWhole
<1>7. QED
  BY <1>1, <1>2, <1>3, <1>6 DEF IInv, PlanInv, TempInv, FreshInv, ExistsInv, UndoInv, MoveInv,
     TidyInv, SwapInv, Ended

LEMMA AllMovedKeepsInv ==
  ASSUME IInv, AllMoved
  PROVE  IInv'
<1> USE DEF Running
<1>1. /\ UNCHANGED <<kind, place, job, plans, pid, armed, mapWasThere, kept, rough, moved, complete>>
      /\ step = "move" /\ step' = "tidy" /\ queue = {} /\ queue' = Stale
  BY DEF AllMoved, jobVars
<1>2. /\ place \in [Names -> Entry] /\ temp \in [Pids -> [Names -> Entry]]
      /\ pid \in Pids /\ complete \subseteq 1..job
  BY TypeFacts DEF IInv
<1>3. temp' \in [Pids -> [Names -> Entry]] /\ (temp' = temp \/ temp'[pid] = Empty)
  <2>1. Empty \in [Names -> Entry]
    BY EntryFacts DEF Empty
  <2>2. QED  BY <1>2, <2>1 DEF AllMoved
<1>4. /\ armed /\ kind # "disc" /\ job \in complete /\ Content(plan) \subseteq moved
      /\ \A m \in moved : place[m] # Gone /\ (m \in Content(plan) => place[m] = Whole(job))
  BY <1>1 DEF IInv, MoveInv
<1>5. Stale \subseteq (Parts \cup {LayerMap}) \ moved /\ (Stale \cap Parts # {} => moved \cap Parts # {})
  BY NameFacts DEF Stale
<1>6. TypeOK'
  <2>1. queue' \subseteq Names
    BY <1>1, <1>5, NameFacts
  <2>2. QED  BY <1>1, <1>3, <2>1 DEF IInv, TypeOK, Dir, Ended
<1>7. TidyInv'
  BY <1>1, <1>4, <1>5 DEF TidyInv, plan
<1>8. TempInv'
  BY <1>1, <1>3 DEF IInv, TempInv, plan, Empty, Ended
<1>9. ExistsInv' /\ FolderInv'
  BY <1>1 DEF IInv, ExistsInv, FolderInv, Exists, Witnesses, Ended
<1>10. OutputKept'
  <2>1. OutputWhole(job)'
    BY <1>1, <1>4 DEF OutputWhole, Found, plan
  <2>2. QED  BY <1>1, <1>4, <2>1 DEF OutputKept
<1>11. QED
  BY <1>1, <1>6, <1>7, <1>8, <1>9, <1>10 DEF IInv, PlanInv, FreshInv, UndoInv, MoveInv,
     SwapInv, NotMovedIsWhole, Ended, plan

LEMMA TidyKeepsInv ==
  ASSUME IInv, NEW n \in Names, Tidy(n) \/ TidyFails(n)
  PROVE  IInv'
<1> USE DEF Running
<1>1. /\ UNCHANGED <<kind, temp, job, plans, pid, armed, mapWasThere, kept, moved, complete, step>>
      /\ step = "tidy" /\ n \in queue /\ queue' = queue \ {n} /\ rough' \in BOOLEAN
      /\ place' = place \/ place' = [place EXCEPT ![n] = Gone]
  BY DEF Tidy, TidyFails, disk, jobVars, IInv, TypeOK
<1>2. /\ place \in [Names -> Entry] /\ temp \in [Pids -> [Names -> Entry]]
      /\ pid \in Pids /\ complete \subseteq 1..job
  BY TypeFacts DEF IInv
<1>3. /\ armed /\ kind # "disc" /\ job \in complete /\ Content(plan) \subseteq moved
      /\ queue \subseteq (Parts \cup {LayerMap}) \ moved
      /\ queue \cap Parts # {} => moved \cap Parts # {}
      /\ \A m \in moved : place[m] # Gone /\ (m \in Content(plan) => place[m] = Whole(job))
  BY <1>1 DEF IInv, TidyInv
<1>4. place' \in [Names -> Entry] /\ \A m \in Names \ {n} : place'[m] = place[m]
  BY <1>1, <1>2, EntryFacts
<1>5. moved \subseteq Names /\ n \notin moved /\ n \in Parts \cup {LayerMap}
  BY <1>1, <1>3 DEF IInv, TypeOK
<1>6. TypeOK'
  BY <1>1, <1>4 DEF IInv, TypeOK, Dir
<1>7. TidyInv'
  BY <1>1, <1>3, <1>4, <1>5 DEF TidyInv, plan
<1>8. FolderInv'
  <2>1. n \notin Clips /\ n \notin Tracks /\ n # Bdmv /\ n # DemuxDir
    BY <1>5, NameFacts
  <2>2. QED  BY <1>4, <2>1, NameFacts DEF IInv, FolderInv
<1>9. ExistsInv'
  <2>1. Exists
    BY <1>1, <1>3 DEF IInv, ExistsInv, Ended
  <2>2. Exists'
    <3>1. CASE kind = "demux"
      <4>1. place'[DemuxDir] = place[DemuxDir]
        BY <1>4, <1>5, NameFacts
      <4>2. QED  BY <1>1, <2>1, <3>1, <4>1 DEF Exists, Witnesses
    <3>2. CASE kind # "demux" /\ n = LayerMap
      <4>1. \A m \in {Main} \cup Parts : place'[m] = place[m]
        BY <1>4, <3>2, NameFacts
      <4>2. QED  BY <1>1, <1>3, <2>1, <3>2, <4>1 DEF Exists, Witnesses
    <3>3. CASE kind # "demux" /\ n \in Parts
      <4>1. PICK m \in moved \cap Parts : place[m] # Gone
        BY <1>1, <1>3, <3>3
      <4>2. place'[m] # Gone
        BY <1>4, <1>5, <4>1
      <4>3. QED  BY <1>1, <1>3, <3>3, <4>1, <4>2 DEF Exists, Witnesses
    <3>4. QED  BY <1>5, <3>1, <3>2, <3>3
  <2>3. QED  BY <1>1, <2>2 DEF ExistsInv
<1>10. OutputKept'
  <2>1. OutputWhole(job)'
    BY <1>1, <1>3, <1>4, <1>5 DEF OutputWhole, Found, plan
  <2>2. QED  BY <1>1, <1>3, <2>1 DEF OutputKept
<1>11. QED
  BY <1>1, <1>6, <1>7, <1>8, <1>9, <1>10 DEF IInv, PlanInv, TempInv, FreshInv, UndoInv, MoveInv,
     SwapInv, NotMovedIsWhole, Ended, plan

LEMMA ClearKeepsInv ==
  ASSUME IInv, NEW n \in Names, ClearOld(n) \/ Cleared
  PROVE  IInv'
<1> USE DEF Running
<1>1. /\ UNCHANGED <<kind, temp, job, plans, pid, armed, mapWasThere, kept, rough, moved, queue, complete>>
      /\ step = "clear" /\ step' \in {"clear", "swap"}
      /\ \/ place' = place
         \/ /\ n \in InTheWay /\ (n = Sub => InTheWay = {Sub})
            /\ place' = [place EXCEPT ![n] = Gone]
  BY DEF ClearOld, Cleared, disk, jobVars
<1>2. /\ place \in [Names -> Entry] /\ temp \in [Pids -> [Names -> Entry]]
      /\ pid \in Pids /\ complete \subseteq 1..job
      /\ queue \in {{Bdmv, Certificate}, {Certificate}}
  BY <1>1, TypeFacts DEF IInv, TypeOK
<1>3. plan \in Plans(kind) /\ plan \subseteq Names
  BY <1>1, RunningPlan DEF IInv, Ended
<1>4. /\ armed /\ kind = "disc" /\ job \in complete
      /\ \A m \in plan : IF \E s \in queue : m \in Inside(s)
                           THEN temp[pid][m] = Whole(job) ELSE place[m] = Whole(job)
  BY <1>1 DEF IInv, SwapInv
<1>5. Sub \in queue
  BY <1>2, NameFacts DEF Sub
<1>6. \A m \in Names : place'[m] = place[m] \/ (place'[m] = Gone /\ m \in Inside(Sub))
  BY <1>1, <1>2 DEF InTheWay
<1>7. TypeOK'
  <2>1. place' \in [Names -> Entry]
    BY <1>1, <1>2, EntryFacts
  <2>2. QED  BY <1>1, <2>1 DEF IInv, TypeOK, Dir, Ended
<1>8. \A m \in plan : IF \E s \in queue : m \in Inside(s)
                        THEN temp[pid][m] = Whole(job) ELSE place'[m] = Whole(job)
  BY <1>3, <1>4, <1>5, <1>6
<1>9. SwapInv'
  BY <1>1, <1>4, <1>8 DEF SwapInv, plan
<1>10. FolderInv'
  <2>1. CASE place' = place
    BY <2>1 DEF IInv, FolderInv
  <2>2. CASE /\ n \in InTheWay /\ (n = Sub => InTheWay = {Sub})
             /\ place' = [place EXCEPT ![n] = Gone]
    <3>1. Sub = Bdmv \/ Sub = Certificate
      BY DEF Sub
    <3>2. n # DemuxDir /\ n \notin Tracks
      BY <2>2, <3>1, NameFacts, InsideFacts DEF InTheWay
    <3>3. n = Bdmv => Sub = Bdmv
      BY <2>2, <3>1, NameFacts, InsideFacts DEF InTheWay
    <3>4. n = Bdmv => \A m \in Clips : place[m] = Gone
      BY <2>2, <3>3, NameFacts, InsideFacts DEF InTheWay, There
    <3>5. \A m \in Names \ {n} : place'[m] = place[m]
      BY <2>2, <1>2
    <3>6. place'[n] = Gone
      BY <2>2, <1>2
    <3>7. QED  BY <3>2, <3>4, <3>5, <3>6, NameFacts DEF IInv, FolderInv
  <2>3. QED  BY <1>1, <2>1, <2>2
<1>11. OutputKept'
  <2>1. \A m \in plan : place'[m] = Whole(job) \/ temp[pid][m] = Whole(job)
    BY <1>8
  <2>2. OutputWhole(job)'
    BY <1>1, <1>2, <2>1 DEF OutputWhole, Found, plan, Content
  <2>3. QED  BY <1>1, <1>4, <2>2 DEF OutputKept
<1>12. QED
  BY <1>1, <1>4, <1>7, <1>9, <1>10, <1>11 DEF IInv, PlanInv, TempInv, FreshInv, ExistsInv, UndoInv,
     MoveInv, TidyInv, NotMovedIsWhole, Ended, plan

LEMMA SwapKeepsInv ==
  ASSUME IInv, SwapSub
  PROVE  IInv'
<1> USE DEF Running
<1>1. /\ UNCHANGED <<kind, job, plans, pid, armed, mapWasThere, kept, rough, moved, complete>>
      /\ step = "swap" /\ queue' = queue \ {Sub}
      /\ place' = [m \in Names |-> IF m \in Inside(Sub) THEN temp[pid][m] ELSE place[m]]
      /\ temp' = [temp EXCEPT ![pid] =
           IF queue = {Certificate} THEN Empty
           ELSE [m \in Names |-> IF m \in Inside(Sub) THEN Gone ELSE temp[pid][m]]]
      /\ step' = IF queue = {Certificate} THEN "success" ELSE "clear"
  BY DEF SwapSub, jobVars
<1>2. /\ place \in [Names -> Entry] /\ temp \in [Pids -> [Names -> Entry]]
      /\ pid \in Pids /\ complete \subseteq 1..job
      /\ queue \in {{Bdmv, Certificate}, {Certificate}}
  BY <1>1, TypeFacts DEF IInv, TypeOK
<1>3. plan \in Plans(kind) /\ plan \subseteq Names
  BY <1>1, RunningPlan DEF IInv, Ended
<1>4. /\ armed /\ kind = "disc" /\ job \in complete
      /\ \A m \in plan : IF \E s \in queue : m \in Inside(s)
                           THEN temp[pid][m] = Whole(job) ELSE place[m] = Whole(job)
  BY <1>1 DEF IInv, SwapInv
<1>5. /\ \A m \in Names : place'[m] = IF m \in Inside(Sub) THEN temp[pid][m] ELSE place[m]
      /\ \A m \in Names : temp'[pid][m] = Gone \/ temp'[pid][m] = temp[pid][m]
      /\ queue # {Certificate} =>
           \A m \in Names \ Inside(Sub) : temp'[pid][m] = temp[pid][m]
  BY <1>1, <1>2 DEF Empty
<1>6. TypeOK'
  <2>1. place' \in [Names -> Entry] /\ temp' \in [Pids -> [Names -> Entry]]
    <3>1. Empty \in [Names -> Entry]
      BY EntryFacts DEF Empty
    <3>2. [m \in Names |-> IF m \in Inside(Sub) THEN Gone ELSE temp[pid][m]] \in [Names -> Entry]
      BY <1>2, EntryFacts
    <3>3. QED  BY <1>1, <1>2, <3>1, <3>2
  <2>2. queue' = IF queue = {Certificate} THEN {} ELSE {Certificate}
    BY <1>1, <1>2, NameFacts DEF Sub
  <2>3. queue' \subseteq Names
    BY <2>2, NameFacts
  <2>4. QED  BY <1>1, <2>1, <2>2, <2>3 DEF IInv, TypeOK, Dir, Ended
<1>7. TempInv'
  BY <1>1, <1>5 DEF IInv, TempInv, plan, Ended
<1>8. CASE queue = {Certificate}
  <2>1. Sub = Certificate /\ Inside(Sub) = {Certificate}
    BY <1>8, NameFacts, InsideFacts DEF Sub
  <2>2. \A m \in plan : place'[m] = Whole(job)
    BY <1>3, <1>4, <1>5, <1>8, <2>1, InsideFacts
  <2>3. OutputKept'
    <3>1. OutputWhole(job)'
      BY <1>1, <2>2 DEF OutputWhole, Found, plan, Content
    <3>2. QED  BY <1>1, <1>4, <3>1 DEF OutputKept
  <2>4. FolderInv'
    <3>1. \A m \in Names \ {Certificate} : place'[m] = place[m]
      BY <1>5, <2>1
    <3>2. QED  BY <3>1, NameFacts DEF IInv, FolderInv
  <2>5. QED
    BY <1>1, <1>4, <1>6, <1>7, <1>8, <2>3, <2>4 DEF IInv, PlanInv, FreshInv, ExistsInv, UndoInv,
       MoveInv, TidyInv, SwapInv, NotMovedIsWhole, Ended
<1>9. CASE queue = {Bdmv, Certificate}
  <2>1. /\ Sub = Bdmv /\ Inside(Sub) = {Bdmv} \cup Clips /\ queue # {Certificate}
        /\ queue' = {Certificate}
    BY <1>1, <1>9, NameFacts, InsideFacts DEF Sub
  <2>2. plan \subseteq {Bdmv, Certificate} \cup Clips /\ Bdmv \in plan
    BY <1>3, <1>4, PlanFacts
  <2>3. \A m \in plan : temp[pid][m] = Whole(job)
    BY <1>4, <1>9, <2>2, InsideFacts
  <2>4. \A m \in plan : IF m = Certificate THEN temp'[pid][m] = Whole(job)
                                           ELSE place'[m] = Whole(job)
    BY <1>3, <1>5, <2>1, <2>2, <2>3, NameFacts
  <2>5. SwapInv'
    <3>1. \A m \in plan : (\E s \in queue' : m \in Inside(s)) <=> m = Certificate
      BY <2>1, InsideFacts
    <3>2. QED  BY <1>1, <1>4, <2>4, <3>1 DEF SwapInv, plan
  <2>6. OutputKept'
    <3>1. OutputWhole(job)'
      BY <1>1, <1>2, <2>4 DEF OutputWhole, Found, plan, Content
    <3>2. QED  BY <1>1, <1>4, <3>1 DEF OutputKept
  <2>7. FolderInv'
    <3>1. place'[Bdmv] # Gone
      <4>1. Whole(job) # Gone
        BY EntryFacts DEF IInv, TypeOK
      <4>2. QED  BY <2>2, <2>4, <4>1, NameFacts
    <3>2. \A m \in Tracks \cup {DemuxDir} : place'[m] = place[m]
      BY <1>5, <2>1, NameFacts
    <3>3. QED  BY <3>1, <3>2, NameFacts DEF IInv, FolderInv
  <2>8. QED
    BY <1>1, <1>4, <1>6, <1>7, <1>9, <2>1, <2>5, <2>6, <2>7 DEF IInv, PlanInv, FreshInv, ExistsInv,
       UndoInv, MoveInv, TidyInv, NotMovedIsWhole, Ended, plan
<1>10. QED  BY <1>2, <1>8, <1>9

-----------------------------------------------------------------------------
(* A new job finds nothing under its number, and in place an output or nothing *)
LEMMA MadeFacts ==
  ASSUME TypeOK, NEW names \in Plans(kind)
  PROVE  /\ names \subseteq Names /\ Made(names) \subseteq names
         /\ kind \in {"file", "image", "disc", "demux"}
         /\ ~Exists => \A n \in Made(names) : place[n] = Gone
<1>1. kind \in Kinds /\ kind \in {"file", "image", "disc", "demux"}
  BY KeepOldOutputAssumption DEF TypeOK
<1>2. names \subseteq Names /\ Made(names) \subseteq names
  BY <1>1, PlanInNames DEF Made
<1>3. CASE kind = "disc" \/ kind = "demux"
  BY <1>1, <1>2, <1>3 DEF Exists, Witnesses, Made
<1>4. CASE kind = "file" \/ kind = "image"
  <2>1. DemuxDir \notin names
    BY <1>4, PlanFacts, NameFacts
  <2>2. QED  BY <1>1, <1>2, <1>4, <2>1 DEF Made
<1>5. QED  BY <1>1, <1>2, <1>3, <1>4

LEMMA StartKeepsInv ==
  ASSUME IInv, ~PidReuse, NEW p \in Pids, NEW names \in Plans(kind), Start(p, names)
  PROVE  IInv'
<1> USE DEF Running
<1>1. /\ UNCHANGED <<kind, complete>> /\ step \in Ended /\ step' = "mux"
      /\ job' = job + 1 /\ job < MaxJobs /\ plans' = Append(plans, names) /\ pid' = p
      /\ temp[p] = Empty /\ armed' = Exists
      /\ kept' = FALSE /\ rough' = FALSE /\ moved' = {} /\ queue' = {} /\ mapWasThere' \in BOOLEAN
  BY DEF Start
<1>2. /\ place \in [Names -> Entry] /\ temp \in [Pids -> [Names -> Entry]]
      /\ complete \subseteq 1..job /\ job \in 1..MaxJobs /\ job' \in 1..MaxJobs
      /\ plans \in Seq(SUBSET Names) /\ Len(plans) = job
  BY <1>1, TypeFacts, KeepOldOutputAssumption DEF IInv, TypeOK
<1>3. /\ names \subseteq Names /\ Made(names) \subseteq names
      /\ kind \in {"file", "image", "disc", "demux"}
      /\ ~Exists => \A n \in Made(names) : place[n] = Gone
  BY MadeFacts DEF IInv
<1>4. plans' \in Seq(SUBSET Names) /\ Len(plans') = job' /\ plan' = names
      /\ \A j \in 1..job : plans'[j] = plans[j]
  BY <1>1, <1>2, <1>3 DEF plan
<1>a. /\ 1..job \subseteq 1..MaxJobs /\ complete' \subseteq 1..job'
      /\ {mapWasThere', kept', rough'} \subseteq BOOLEAN
  <2>1. 1..job \subseteq 1..MaxJobs /\ 1..job \subseteq 1..(job + 1)
    BY <1>2, KeepOldOutputAssumption
  <2>2. {mapWasThere', kept', rough'} \subseteq BOOLEAN
    BY <1>1
  <2>3. QED  BY <1>1, <1>2, <2>1, <2>2
<1>b. armed' \in BOOLEAN
  <2>1. Exists \in BOOLEAN
    BY DEF Exists
  <2>2. QED  BY <1>1, <2>1
<1>5. Whole(job') \in Entry /\ Whole(job') # Gone /\ Whole(job').by = job' /\ Whole(job') = Whole(job + 1)
  BY <1>1, <1>2, EntryFacts
<1>6. CASE Exists
  <2>1. /\ place' = place
        /\ temp' = [temp EXCEPT ![p] =
             IF kind = "demux" THEN Empty ELSE WithFolders(temp[p], names, job + 1)]
    BY <1>6 DEF Start
  <2>2. WithFolders(temp[p], names, job + 1) =
          [n \in Names |-> IF n \in Made(names) THEN Whole(job') ELSE Gone]
    BY <1>1, <1>5 DEF WithFolders, Empty
  <2>3. \A n \in Names : temp'[p][n] = Gone \/ (temp'[p][n] = Whole(job') /\ n \in names)
    BY <1>2, <1>3, <2>1, <2>2 DEF Empty
  <2>4. temp' \in [Pids -> [Names -> Entry]]
    <3>1. Empty \in [Names -> Entry] /\ WithFolders(temp[p], names, job + 1) \in [Names -> Entry]
      BY <1>5, <2>2, EntryFacts DEF Empty
    <3>2. QED  BY <1>2, <2>1, <3>1
  <2>5. TypeOK'
    BY <1>1, <1>2, <1>4, <1>a, <1>b, <2>1, <2>4 DEF IInv, TypeOK, Dir, Ended
  <2>6. TempInv'
    BY <1>1, <1>4, <1>5, <2>3 DEF TempInv
  <2>7. FolderInv' /\ ExistsInv'
    BY <1>1, <1>6, <2>1 DEF IInv, FolderInv, ExistsInv, Exists, Witnesses
  <2>8. OutputKept'
    <3> SUFFICES ASSUME complete # {} PROVE \E j \in complete : OutputWhole(j)'
      BY <1>1 DEF OutputKept
    <3>1. PICK j \in complete : OutputWhole(j)
      BY DEF IInv, OutputKept
    <3>2. j \in 1..job /\ Whole(j) # Gone
      BY <1>2, <1>a, <3>1, EntryFacts
    <3>3. \A q \in Pids, n \in Names : temp[q][n] = Whole(j) => temp'[q][n] = Whole(j)
      BY <1>1, <1>2, <2>1, <3>2 DEF Empty
    <3>4. \A n \in Content(plans[j]) : n \in Names
      BY <1>2, <3>2 DEF Content
    <3>5. QED  BY <1>4, <2>1, <3>1, <3>2, <3>3, <3>4 DEF OutputWhole, Found
  <2>9. QED
    BY <1>1, <1>2, <1>4, <1>6, <2>5, <2>6, <2>7, <2>8 DEF IInv, PlanInv, FreshInv, UndoInv, MoveInv,
       TidyInv, SwapInv, NotMovedIsWhole
<1>7. CASE ~Exists
  <2>1. /\ temp' = temp /\ place' = WithFolders(place, names, job + 1)
    BY <1>7 DEF Start
  <2>2. place' = [n \in Names |-> IF n \in Made(names) THEN Whole(job') ELSE place[n]]
    BY <1>5, <2>1 DEF WithFolders
  <2>3. place' \in [Names -> Entry]
    BY <1>2, <1>5, <2>2
  <2>4. \A n \in Names : /\ place[n] # Gone => place'[n] = place[n]
                         /\ place'[n] = place[n] \/ n \in {Bdmv, Certificate, DemuxDir}
    BY <1>2, <1>3, <1>7, <2>2 DEF Made
  <2>5. TypeOK'
    BY <1>1, <1>2, <1>4, <1>a, <1>b, <2>1, <2>3 DEF IInv, TypeOK, Dir, Ended
  <2>6. FolderInv'
    BY <2>4, NameFacts DEF IInv, FolderInv
  <2>7. \A n \in Region : place[n] = Gone
    <3>1. CASE kind = "file" \/ kind = "image"
      BY <1>7, <3>1 DEF Exists, Witnesses, Region
    <3>2. CASE kind = "disc"
      <4>1. place[Bdmv] = Gone /\ place[Certificate] = Gone
        BY <1>7, <3>2 DEF Exists, Witnesses
      <4>2. QED  BY <3>2, <4>1, InsideFacts DEF Region, IInv, FolderInv
    <3>3. CASE kind = "demux"
      <4>1. place[DemuxDir] = Gone
        BY <1>7, <3>3 DEF Exists, Witnesses
      <4>2. QED  BY <3>3, <4>1, InsideFacts DEF Region, IInv, FolderInv
    <3>4. QED  BY <1>3, <3>1, <3>2, <3>3
  <2>8. FreshInv'
    <3>1. Region' = Region /\ Region \subseteq Names
      BY <1>1, InsideFacts, NameFacts DEF Region
    <3>2. \A n \in Region : place'[n] = Gone \/ place'[n].by = job'
      BY <1>5, <2>2, <2>7, <3>1
    <3>3. kind \in {"file", "image"} => complete = {}
      BY <1>7 DEF IInv, ExistsInv
    <3>4. \A n \in Made(names) : place'[n] # Gone
      BY <1>3, <1>5, <2>2
    <3>5. Made(names)' = Made(names)
      BY <1>1 DEF Made
    <3>6. (Made(plan))' = Made(names)
      BY <1>1, <1>4 DEF Made
    <3>7. QED  BY <1>1, <3>1, <3>2, <3>3, <3>4, <3>6 DEF FreshInv
  <2>9. ExistsInv'
    BY <1>1, <1>7 DEF IInv, ExistsInv
  <2>10. OutputKept'
    <3> SUFFICES ASSUME complete # {} PROVE \E j \in complete : OutputWhole(j)'
      BY <1>1 DEF OutputKept
    <3>1. PICK j \in complete : OutputWhole(j)
      BY DEF IInv, OutputKept
    <3>2. j \in 1..job /\ Whole(j) # Gone
      BY <1>2, <1>a, <3>1, EntryFacts
    <3>3. \A n \in Content(plans[j]) : n \in Names
      BY <1>2, <3>2 DEF Content
    <3>4. QED  BY <1>4, <2>1, <2>4, <3>1, <3>2, <3>3 DEF OutputWhole, Found
  <2>11. QED
    BY <1>1, <1>2, <1>4, <1>7, <2>5, <2>6, <2>8, <2>9, <2>10 DEF IInv, PlanInv, TempInv, UndoInv,
       MoveInv, TidyInv, SwapInv, NotMovedIsWhole
<1>8. QED  BY <1>6, <1>7

LEMMA InitInv == ASSUME Init PROVE IInv
<1> USE DEF Running
<1>1. /\ kind \in Kinds /\ temp = [p \in Pids |-> Empty] /\ job = 1 /\ pid \in Pids
      /\ step = "success" /\ queue = {} /\ moved = {}
      /\ armed = FALSE /\ mapWasThere = FALSE /\ kept = FALSE /\ rough = FALSE
  BY DEF Init
<1>2. 1 \in 1..MaxJobs /\ kind \in {"file", "image", "disc", "demux"}
  BY <1>1, KeepOldOutputAssumption
<1>3. Whole(1) \in Entry /\ Whole(1) # Gone /\ Gone \in Entry /\ Empty \in [Names -> Entry]
  BY <1>2, EntryFacts DEF Empty
<1>4. PICK names \in Plans(kind) \cup {{}} :
        /\ plans = <<names>> /\ complete \subseteq {1} /\ (names = {} => complete = {})
        /\ place = [n \in Names |-> IF n \in names THEN Whole(1) ELSE Gone]
        /\ complete # {} => complete = {1} /\ names \in Plans(kind)
  <2>1. CASE place = Empty /\ plans = <<{}>> /\ complete = {}
    <3>1. place = [n \in Names |-> IF n \in {} THEN Whole(1) ELSE Gone]
      BY <2>1 DEF Empty
    <3>2. QED  BY <2>1, <3>1
  <2>2. CASE \E names \in Plans(kind) :
          /\ place = [n \in Names |-> IF n \in names THEN Whole(1) ELSE Gone]
          /\ plans = <<names>> /\ complete = {1}
    <3>1. PICK names \in Plans(kind) :
            /\ place = [n \in Names |-> IF n \in names THEN Whole(1) ELSE Gone]
            /\ plans = <<names>> /\ complete = {1}
      BY <2>2
    <3>2. names # {}
      BY <1>2, PlanFacts
    <3>3. QED  BY <3>1, <3>2
  <2>3. QED  BY <2>1, <2>2 DEF Init
<1>5. names \subseteq Names
  BY <1>1, <1>4, PlanInNames
<1>6. plans \in Seq(SUBSET Names)
  BY <1>4, <1>5
<1>7. TypeOK
  <2>1. Len(plans) = job /\ complete \subseteq 1..job
    BY <1>1, <1>4
  <2>2. place \in [Names -> Entry] /\ temp \in [Pids -> [Names -> Entry]]
    BY <1>1, <1>3, <1>4
  <2>3. QED  BY <1>1, <1>2, <1>6, <2>1, <2>2 DEF TypeOK, Dir, Ended
<1>8. FolderInv
  <2>1. \A n \in Clips : n \in names => kind = "disc" /\ Bdmv \in names
    BY <1>2, <1>4, PlanFacts, NameFacts
  <2>2. \A n \in Tracks : n \in names => kind = "demux" /\ DemuxDir \in names
    BY <1>2, <1>4, PlanFacts, NameFacts
  <2>3. QED  BY <1>3, <1>4, <2>1, <2>2, NameFacts DEF FolderInv
<1>9. ExistsInv
  <2>1. kind \in {"file", "image"} /\ complete # {} => names \cap ({Main} \cup Parts) # {}
    BY <1>4, PlanFacts
  <2>2. kind \in {"file", "image"} /\ complete # {} => Exists
    BY <1>3, <1>4, <2>1, NameFacts DEF Exists, Witnesses
  <2>3. QED  BY <1>1, <2>2 DEF ExistsInv, Ended
<1>10. OutputKept
  <2>1. complete # {} => \A n \in Content(plans[1]) : place[n] = Whole(1)
    BY <1>4, <1>5 DEF Content
  <2>2. QED  BY <1>4, <2>1 DEF OutputKept, OutputWhole, Found
<1>11. QED
  BY <1>1, <1>7, <1>8, <1>9, <1>10 DEF IInv, PlanInv, TempInv, FreshInv, UndoInv, MoveInv,
     TidyInv, SwapInv, NotMovedIsWhole, Ended

-----------------------------------------------------------------------------
(* Every step keeps the invariant, when no process finds files left under its number. *)
LEMMA StepKeepsInv ==
  ASSUME IInv, ~PidReuse, [Next]_vars
  PROVE  IInv'
<1>1. ASSUME NEW p \in Pids, NEW names \in Plans(kind), Start(p, names) PROVE IInv'
  BY <1>1, StartKeepsInv
<1>2. CASE WriteFile  BY <1>2, WriteKeepsInv DEF WriteFile
<1>3. CASE Fail \/ FailCutOff  BY <1>3, FailKeepsInv
<1>4. CASE Undoing  BY <1>4, UndoKeepsInv, UndoFailsKeepsInv, EndKeepsInv DEF Undoing
<1>5. CASE Succeed  BY <1>5, SucceedKeepsInv
<1>6. CASE Moving  BY <1>6, MoveKeepsInv, MoveFailsKeepsInv, AllMovedKeepsInv DEF Moving
<1>7. CASE Tidying  BY <1>7, TidyKeepsInv, EndKeepsInv DEF Tidying
<1>8. CASE Swapping
  <2>1. Main \in Names
    BY NameFacts
  <2>2. QED  BY <1>8, <2>1, ClearKeepsInv, SwapKeepsInv DEF Swapping
<1>9. CASE Crash  BY <1>9, EndKeepsInv
<1>10. CASE UNCHANGED vars
  BY <1>10 DEF IInv, TypeOK, Dir, PlanInv, TempInv, FreshInv, FolderInv, ExistsInv, UndoInv, MoveInv,
     TidyInv, SwapInv, OutputKept, NotMovedIsWhole, vars, disk, jobVars, Running, Region, Exists,
     Witnesses, OutputWhole, Found, There, plan, Made
<1>11. QED
  BY <1>1, <1>2, <1>3, <1>4, <1>5, <1>6, <1>7, <1>8, <1>9, <1>10 DEF Next

(* The invariant holds at every moment. *)
THEOREM Invariance == ~PidReuse => (Spec => []IInv)
<1>1. SUFFICES ASSUME ~PidReuse PROVE Spec => []IInv
  OBVIOUS
<1>2. Init => IInv
  BY InitInv
<1>3. IInv /\ [Next]_vars => IInv'
  BY <1>1, StepKeepsInv
<1>4. QED  BY <1>2, <1>3, PTL DEF Spec

(* Every variable stays within its type (TypeOK). *)
THEOREM TypeCorrect == ~PidReuse => (Spec => []TypeOK)
<1>1. SUFFICES ASSUME ~PidReuse PROVE Spec => []TypeOK
  OBVIOUS
<1>2. Spec => []IInv
  BY <1>1, Invariance
<1>3. IInv => TypeOK
  BY DEF IInv
<1>4. QED  BY <1>2, <1>3, PTL

(* Once an output has been complete, a complete output of one job lies on   *)
(* the disk at every moment: the user never ends with neither the old nor   *)
(* the new one (OutputKept), whatever fails or is killed.                   *)
THEOREM OutputIsKept == ~PidReuse => (Spec => []OutputKept)
<1>1. SUFFICES ASSUME ~PidReuse PROVE Spec => []OutputKept
  OBVIOUS
<1>2. Spec => []IInv
  BY <1>1, Invariance
<1>3. IInv => OutputKept
  BY DEF IInv
<1>4. QED  BY <1>2, <1>3, PTL

(* A job that could not move its output into place has lost nothing of it   *)
(* (NotMovedIsWhole): each file lies in one of the two places.              *)
THEOREM NotMovedStaysWhole == ~PidReuse => (Spec => []NotMovedIsWhole)
<1>1. SUFFICES ASSUME ~PidReuse PROVE Spec => []NotMovedIsWhole
  OBVIOUS
<1>2. Spec => []IInv
  BY <1>1, Invariance
<1>3. IInv => NotMovedIsWhole
  BY DEF IInv
<1>4. QED  BY <1>2, <1>3, PTL

-----------------------------------------------------------------------------
(* An old output is untouched until the new one is complete *)
LEMMA StepLeavesOld == ASSUME IInv, Next PROVE LeavesOld
<1> USE DEF Running
<1> SUFFICES ASSUME step \in Ended \cup {"mux", "undo"},
                    NEW m \in There(place) \ {LayerMap},
                    place[m].by # job \/ step \in Ended
             PROVE  place'[m] = place[m]
  BY DEF LeavesOld
<1>1. m \in Names /\ place[m] # Gone /\ m # LayerMap
  BY DEF There
<1>2. place \in [Names -> Entry]
  BY TypeFacts DEF IInv
<1>3. ASSUME NEW p \in Pids, NEW names \in Plans(kind), Start(p, names)
      PROVE  place'[m] = place[m]
  <2>1. CASE Exists  BY <1>3, <2>1 DEF Start
  <2>2. CASE ~Exists
    <3>1. m \notin Made(names)
      BY <1>1, <2>2, MadeFacts DEF IInv
    <3>2. QED  BY <1>1, <1>3, <2>2, <3>1 DEF Start, WithFolders
  <2>3. QED  BY <2>1, <2>2
<1>4. ASSUME NEW n \in Names, OpenFile(n) \/ CloseFile(n)
      PROVE  place'[m] = place[m]
  <2>1. CASE armed  BY <1>4, <2>1 DEF OpenFile, CloseFile, Put
  <2>2. CASE ~armed
    <3>1. PICK c : place' = [place EXCEPT ![n] = c]
      BY <1>4, <2>2 DEF OpenFile, CloseFile, Put
    <3>2. step = "mux" /\ step \notin Ended
      BY <1>4 DEF OpenFile, CloseFile, Ended
    <3>3. m \in Region => place[m].by = job
      BY <1>1, <2>2, <3>2 DEF IInv, FreshInv
    <3>4. m # n
      <4>1. CASE OpenFile(n)
        <5>1. plan \in Plans(kind) /\ kind \in {"file", "image", "disc", "demux"}
          BY <3>2, RunningPlan DEF IInv
        <5>2. n \in plan \ Folders => n \in Region \/ n = LayerMap
          BY <5>1, PlanFacts, NameFacts, InsideFacts DEF Region, Folders
        <5>3. QED  BY <1>1, <3>2, <3>3, <4>1, <5>2 DEF OpenFile, Unwritten, Content
      <4>2. CASE CloseFile(n)
        BY <2>2, <3>2, <4>2 DEF CloseFile, Target
      <4>3. QED  BY <1>4, <4>1, <4>2
    <3>5. QED  BY <1>1, <1>2, <3>1, <3>4
  <2>3. QED  BY <2>1, <2>2
<1>5. ASSUME NEW n \in Names, Undo(n)
      PROVE  place'[m] = place[m]
  <2>1. CASE armed  BY <1>5, <2>1 DEF Undo, Put
  <2>2. CASE ~armed
    <3>1. place' = [place EXCEPT ![n] = Gone] /\ n \in queue /\ step = "undo" /\ step \notin Ended
      BY <1>5, <2>2 DEF Undo, Put, Removable, Ended
    <3>2. m # n
      BY <1>1, <2>2, <3>1 DEF IInv, UndoInv, FreshInv
    <3>3. QED  BY <1>1, <1>2, <3>1, <3>2
  <2>3. QED  BY <2>1, <2>2
<1>6. CASE Moving \/ Tidying \/ Swapping
  BY <1>6 DEF Moving, Tidying, Swapping, Move, MoveFails, AllMoved, Tidy, TidyFails, Tidied,
     ClearOld, Cleared, SwapSub, Ended
<1>7. CASE Fail \/ FailCutOff \/ Succeed \/ Crash
  BY <1>7 DEF Fail, FailCutOff, Succeed, Crash, disk
<1>8. ASSUME NEW n \in Names, UndoFails(n)
      PROVE  place'[m] = place[m]
  BY <1>8 DEF UndoFails, disk
<1>9. CASE Undone
  BY <1>9 DEF Undone, disk
<1>10. QED
  BY <1>3, <1>4, <1>5, <1>6, <1>7, <1>8, <1>9 DEF Next, WriteFile, Undoing

(* A job changes nothing of what was there before it began until its own    *)
(* output is complete (OldUntouched).                                       *)
THEOREM OldStaysUntouched == ~PidReuse => (Spec => OldUntouched)
<1>1. SUFFICES ASSUME ~PidReuse PROVE Spec => OldUntouched
  OBVIOUS
<1>2. Spec => []IInv
  BY <1>1, Invariance
<1>3. IInv /\ [Next]_vars => [LeavesOld]_vars
  BY StepLeavesOld
<1>4. QED  BY <1>2, <1>3, PTL DEF Spec, OldUntouched

-----------------------------------------------------------------------------
(* How a job ends.  IInv says that the output is there; what follows says   *)
(* that nothing else is left of the job, or of the job before.              *)

\* No file is from a job that has not begun
ByInv == \A n \in Names : /\ place[n].by \in 0..job
                          /\ \A p \in Pids : temp[p][n].by \in 0..job
\* What this job has written, before its end
OwnInv == step \in {"mux", "undo"} =>
  \A n \in Names : place[n].by = job => ~armed /\ n \in plan
\* Under its number lies what it will still move, and nothing of a job that writes in place
EmptyInv == /\ Running /\ ~armed => temp[pid] = Empty
            /\ step = "move" => There(temp[pid]) \subseteq queue
            /\ step = "tidy" => temp[pid] = Empty
\* What the failed job has still to remove
LeftInv == step = "undo" /\ ~rough =>
  /\ armed => There(temp[pid]) \subseteq queue
  /\ \A n \in Names \ {LayerMap} :
       place[n].by = job => n \in queue \/ (kept /\ kind # "image" /\ place[n].whole)
  /\ place[LayerMap].by = job => mapWasThere \/ LayerMap \in queue
\* What is by this job among the names an older output may hold
ByJobInv ==
  /\ step \in {"move", "tidy"} => \A n \in moved : place[n].by = job
  /\ step = "tidy" /\ ~rough =>
       \A n \in There(place) \cap Companions : n \in queue \/ place[n].by = job
  /\ step \in {"clear", "swap"} /\ queue = {Certificate} =>
       \A n \in There(place) \cap Inside(Bdmv) : place[n].by = job

EndInv == /\ ByInv /\ OwnInv /\ EmptyInv /\ LeftInv /\ ByJobInv
          /\ FailureLeavesNothing /\ SuccessInPlace /\ MadeByOneJob

LEMMA StartKeepsEnd ==
  ASSUME IInv, EndInv, ~PidReuse, NEW p \in Pids, NEW names \in Plans(kind), Start(p, names)
  PROVE  EndInv'
<1> USE DEF Running
<1>1. /\ kind' = kind /\ job' = job + 1 /\ pid' = p /\ armed' = Exists
      /\ step' = "mux" /\ temp[p] = Empty /\ plans' = Append(plans, names)
  BY DEF Start
<1>2. /\ place \in [Names -> Entry] /\ temp \in [Pids -> [Names -> Entry]] /\ job \in Nat \ {0}
      /\ plan' = names
  BY <1>1, TypeFacts, KeepOldOutputAssumption DEF IInv, TypeOK, plan
<1>3. Made(names) \subseteq names
  BY MadeFacts DEF IInv
<1>4. /\ \A n \in Names : place[n].by \in 0..job
      /\ \A q \in Pids, n \in Names : temp[q][n].by \in 0..job
  BY DEF EndInv, ByInv
<1>5. \A n \in Names : place'[n] = place[n] \/ (place'[n] = Whole(job + 1) /\ ~Exists /\ n \in names)
  BY <1>2, <1>3 DEF Start, WithFolders
<1>6. \A q \in Pids, n \in Names :
        temp'[q][n] = temp[q][n] \/ temp'[q][n] = Whole(job + 1) \/ temp'[q][n] = Gone
  <2>1. CASE ~Exists
    BY <2>1 DEF Start
  <2>2. CASE Exists
    BY <1>2, <2>2 DEF Start, WithFolders, Empty
  <2>3. QED  BY <2>1, <2>2
<1>7. Whole(job + 1).by = job + 1 /\ Gone.by = 0
  BY DEF Whole, Gone
<1>8. ByInv'
  <2>1. 0..job \subseteq 0..(job + 1) /\ job + 1 \in 0..(job + 1) /\ 0 \in 0..(job + 1)
    BY <1>2
  <2>2. QED  BY <1>1, <1>4, <1>5, <1>6, <1>7, <2>1 DEF ByInv
<1>9. OwnInv'
  <2>1. \A n \in Names : place[n].by # job + 1
    BY <1>2, <1>4
  <2>2. QED  BY <1>1, <1>2, <1>5, <2>1 DEF OwnInv
<1>10. EmptyInv'
  BY <1>1 DEF EmptyInv, Start
<1>11. QED
  BY <1>1, <1>8, <1>9, <1>10 DEF EndInv, LeftInv, ByJobInv, FailureLeavesNothing, SuccessInPlace,
     MadeByOneJob, Ended

LEMMA WriteKeepsEnd ==
  ASSUME IInv, EndInv, NEW n \in Names, OpenFile(n) \/ CloseFile(n)
  PROVE  EndInv'
<1> USE DEF Running
<1>1. /\ step = "mux" /\ step \notin Ended
      /\ UNCHANGED <<kind, job, plans, pid, armed, mapWasThere, kept, step, queue, moved, rough>>
  BY DEF OpenFile, CloseFile, jobVars, Ended
<1>2. /\ place \in [Names -> Entry] /\ temp \in [Pids -> [Names -> Entry]] /\ job \in Nat \ {0}
      /\ pid \in Pids
  BY TypeFacts, KeepOldOutputAssumption DEF IInv, TypeOK
<1>3. PICK c : Put(n, c) /\ c.by = job
  BY DEF OpenFile, CloseFile, Whole
<1>4. ~armed => n \in plan
  BY <1>1 DEF OpenFile, CloseFile, Unwritten, Content, Target, EndInv, OwnInv
<1>5. IF armed THEN temp' = [temp EXCEPT ![pid][n] = c] /\ place' = place
               ELSE place' = [place EXCEPT ![n] = c] /\ temp' = temp
  BY <1>3 DEF Put
<1>6. job \in 0..job
  BY <1>2
<1>7. ByInv'
  <2>1. /\ \A m \in Names : place'[m] = place[m] \/ place'[m] = c
        /\ \A p \in Pids, m \in Names : temp'[p][m] = temp[p][m] \/ temp'[p][m] = c
    BY <1>2, <1>5
  <2>2. QED  BY <1>1, <1>3, <1>6, <2>1 DEF EndInv, ByInv
<1>8. OwnInv'
  BY <1>1, <1>2, <1>4, <1>5 DEF EndInv, OwnInv, plan
<1>9. EmptyInv'
  BY <1>1, <1>5 DEF EndInv, EmptyInv
<1>10. QED
  BY <1>1, <1>7, <1>8, <1>9 DEF EndInv, LeftInv, ByJobInv, FailureLeavesNothing, SuccessInPlace,
     MadeByOneJob, Ended

LEMMA ByUnchanged ==
  ASSUME place' = place, temp' = temp, job' = job, ByInv
  PROVE  ByInv'
BY DEF ByInv

LEMMA FailKeepsEnd ==
  ASSUME IInv, EndInv, Fail \/ FailCutOff
  PROVE  EndInv'
<1> USE DEF Running
<1>1. /\ UNCHANGED <<kind, place, temp, job, plans, pid, complete, armed, mapWasThere, moved, rough>>
      /\ step = "mux" /\ step' = "undo" /\ step \notin Ended
  BY DEF Fail, FailCutOff, disk, jobVars, Ended
<1>2. plan \in Plans(kind) /\ plan \subseteq Names /\ kind \in {"file", "image", "disc", "demux"}
  BY <1>1, RunningPlan DEF IInv
<1>3. /\ armed \in BOOLEAN /\ job \in Nat \ {0} /\ Gone.by = 0
      /\ \A n \in Names : place[n].by = job => ~armed /\ n \in plan /\ n \in There(place)
  BY <1>1, TypeFacts, KeepOldOutputAssumption DEF IInv, TypeOK, EndInv, OwnInv, There, Gone
<1>4. LeftInv'
  <2>1. armed => queue' = There(temp[pid])
    BY DEF Fail, FailCutOff, OwnFiles
  <2>2. ASSUME NEW n \in Names, place[n].by = job
        PROVE  IF n = LayerMap THEN mapWasThere \/ n \in queue'
               ELSE n \in queue' \/ (kept' /\ kind # "image" /\ place[n].whole)
    <3>1. ~armed /\ n \in plan /\ n \in There(place)
      BY <1>3, <2>2
    <3>2. n \in OwnFiles(FALSE) \/ (n = LayerMap /\ mapWasThere)
      <4>1. CASE kind = "file"
        BY <1>2, <3>1, <4>1, PlanFacts DEF OwnFiles
      <4>2. CASE kind = "image"
        BY <1>2, <3>1, <4>2, PlanFacts DEF OwnFiles
      <4>3. CASE kind = "disc"
        BY <1>2, <3>1, <4>3, PlanFacts, InsideFacts DEF OwnFiles
      <4>4. CASE kind = "demux"
        BY <1>2, <3>1, <4>4, PlanFacts, InsideFacts DEF OwnFiles
      <4>5. QED  BY <1>2, <4>1, <4>2, <4>3, <4>4
    <3>3. CASE Fail
      BY <3>2, <3>3, NameFacts DEF Fail
    <3>4. CASE FailCutOff
      <4>1. kind = "image" => n \in OwnFiles(TRUE)
        BY <1>2, <3>1, <3>4, PlanFacts, NameFacts DEF FailCutOff, OwnFiles
      <4>2. kind # "image" => n # LayerMap /\ n # DemuxDir
        BY <1>2, <3>1, <3>4, PlanFacts, NameFacts DEF FailCutOff
      <4>3. kind # "image" => place[n].whole
        BY <3>1, <3>4, <4>2 DEF FailCutOff, AllWhole, Content, Target, Whole
      <4>4. kept' = TRUE /\ queue' = OwnFiles(TRUE) /\ LayerMap \notin plan
        BY <3>4 DEF FailCutOff
      <4>5. QED  BY <3>1, <4>1, <4>2, <4>3, <4>4
    <3>5. QED  BY <3>3, <3>4
  <2>3. LayerMap \in Names
    BY NameFacts
  <2>4. QED  BY <1>1, <2>1, <2>2, <2>3 DEF LeftInv, There
<1>5. ByInv' /\ OwnInv' /\ EmptyInv'
  BY <1>1, ByUnchanged DEF EndInv, OwnInv, EmptyInv, plan
<1>6. QED
  BY <1>1, <1>4, <1>5 DEF EndInv, ByJobInv, FailureLeavesNothing, SuccessInPlace, MadeByOneJob, Ended

LEMMA UndoKeepsEnd ==
  ASSUME IInv, EndInv, NEW n \in Names, Undo(n)
  PROVE  EndInv'
<1> USE DEF Running
<1>1. /\ UNCHANGED <<kind, job, plans, pid, complete, armed, mapWasThere, moved, step, kept, rough>>
      /\ step = "undo" /\ step \notin Ended /\ queue' = queue \ {n} /\ Put(n, Gone)
  BY DEF Undo, jobVars, Ended
<1>2. IF armed THEN temp' = [temp EXCEPT ![pid][n] = Gone] /\ place' = place
               ELSE place' = [place EXCEPT ![n] = Gone] /\ temp' = temp
  BY <1>1 DEF Put
<1>3. /\ place \in [Names -> Entry] /\ temp \in [Pids -> [Names -> Entry]] /\ job \in Nat \ {0}
      /\ pid \in Pids /\ Gone.by = 0 /\ 0 \in 0..job
  BY TypeFacts, KeepOldOutputAssumption DEF IInv, TypeOK, Gone
<1>4. /\ \A m \in Names : place'[m] = place[m] \/ (m = n /\ place'[m] = Gone)
      /\ \A p \in Pids, m \in Names : temp'[p][m] = temp[p][m] \/ temp'[p][m] = Gone
      /\ armed => temp'[pid][n] = Gone
      /\ ~armed => place'[n] = Gone
  BY <1>2, <1>3
<1>5. ByInv' /\ OwnInv'
  BY <1>1, <1>3, <1>4 DEF EndInv, ByInv, OwnInv, plan
<1>6. EmptyInv'
  BY <1>1, <1>2 DEF EndInv, EmptyInv
<1>7. LeftInv'
  <2> SUFFICES ASSUME ~rough PROVE LeftInv'
    BY <1>1 DEF LeftInv
  <2>1. armed => There(temp[pid])' \subseteq queue'
    BY <1>1, <1>2, <1>3, <1>4 DEF EndInv, LeftInv, There
  <2>2. \A m \in Names : place'[m].by = job => place[m] = place'[m] /\ ~armed /\ m # n
    BY <1>1, <1>3, <1>4 DEF EndInv, OwnInv
  <2>3. LayerMap \in Names
    BY NameFacts
  <2>4. QED  BY <1>1, <2>1, <2>2, <2>3 DEF EndInv, LeftInv
<1>8. QED
  BY <1>1, <1>5, <1>6, <1>7 DEF EndInv, ByJobInv, FailureLeavesNothing, SuccessInPlace,
     MadeByOneJob, Ended

LEMMA UndoEndsKeepEnd ==
  ASSUME IInv, EndInv, (\E n \in Names : UndoFails(n)) \/ Undone
  PROVE  EndInv'
<1> USE DEF Running
<1>1. /\ UNCHANGED <<kind, place, temp, job, plans, pid, complete, armed, mapWasThere, moved, kept>>
      /\ step = "undo" /\ step \notin Ended
  BY DEF UndoFails, Undone, disk, jobVars, Ended
<1>2. ByInv'
  BY <1>1, ByUnchanged DEF EndInv
<1>3. CASE \E n \in Names : UndoFails(n)
  <2>1. step' = "undo" /\ rough' = TRUE
    BY <1>1, <1>3 DEF UndoFails
  <2>2. QED
    BY <1>1, <1>2, <2>1 DEF EndInv, OwnInv, EmptyInv, LeftInv, ByJobInv, FailureLeavesNothing,
       SuccessInPlace, MadeByOneJob, Ended, plan
<1>4. CASE Undone
  <2>1. step' = "failed" /\ rough' = rough /\ queue = {}
    BY <1>1, <1>4 DEF Undone
  <2>2. temp \in [Pids -> [Names -> Entry]] /\ pid \in Pids /\ armed \in BOOLEAN
    BY TypeFacts DEF IInv
  <2>3. ~rough => temp[pid] = Empty
    <3>1. ~rough => There(temp[pid]) = {} \/ temp[pid] = Empty
      BY <1>1, <2>1, <2>2 DEF EndInv, LeftInv, EmptyInv
    <3>2. There(temp[pid]) = {} => temp[pid] = Empty
      BY <2>2 DEF There, Empty
    <3>3. QED  BY <3>1, <3>2
  <2>4. FailureLeavesNothing'
    BY <1>1, <2>1, <2>3 DEF EndInv, LeftInv, FailureLeavesNothing
  <2>5. QED
    BY <1>1, <1>2, <2>1, <2>4 DEF EndInv, OwnInv, EmptyInv, LeftInv, ByJobInv,
       SuccessInPlace, MadeByOneJob, Ended
<1>5. QED  BY <1>3, <1>4

LEMMA CrashKeepsEnd ==
  ASSUME IInv, EndInv, Crash \/ MoveFails
  PROVE  EndInv'
<1> USE DEF Running
<1>1. /\ UNCHANGED <<kind, place, temp, job>> /\ step' \in {"crashed", "notMoved"}
  BY DEF Crash, MoveFails, disk, jobVars
<1>2. QED
  BY <1>1, ByUnchanged DEF EndInv, OwnInv, EmptyInv, LeftInv, ByJobInv, FailureLeavesNothing,
     SuccessInPlace, MadeByOneJob, Ended

LEMMA SucceedKeepsEnd ==
  ASSUME IInv, EndInv, Succeed
  PROVE  EndInv'
<1> USE DEF Running
<1>1. /\ UNCHANGED <<kind, place, temp, job, plans, pid, armed, mapWasThere, moved, kept, rough>>
      /\ step = "mux" /\ step \notin Ended /\ AllWhole /\ step' \in {"success", "move", "clear"}
      /\ ~armed => step' = "success"
      /\ step' = "success" => ~armed
      /\ step' = "move" => queue' = There(temp[pid])
      /\ step' = "clear" => queue' = {Bdmv, Certificate}
  BY DEF Succeed, disk, jobVars, Ended
<1>2. moved = {}
  BY <1>1 DEF IInv, PlanInv
<1>3. EmptyInv'
  BY <1>1 DEF EmptyInv, Ended, There
<1>4. SuccessInPlace'
  <2> SUFFICES ASSUME step' = "success" PROVE SuccessInPlace'
    BY DEF SuccessInPlace
  <2>1. ~armed /\ temp[pid] = Empty
    BY <1>1 DEF EndInv, EmptyInv
  <2>2. \A n \in Content(plan) : place[n] = Whole(job)
    BY <1>1, <2>1 DEF AllWhole, Target
  <2>3. QED  BY <1>1, <2>1, <2>2 DEF SuccessInPlace, plan
<1>5. ByJobInv'
  BY <1>1, <1>2, NameFacts DEF ByJobInv
<1>6. QED
  BY <1>1, <1>3, <1>4, <1>5, ByUnchanged DEF EndInv, OwnInv, LeftInv, FailureLeavesNothing, MadeByOneJob

LEMMA MoveKeepsEnd ==
  ASSUME IInv, EndInv, NEW n \in Names, Move(n)
  PROVE  EndInv'
<1> USE DEF Running
<1>1. /\ UNCHANGED <<kind, job, plans, pid, armed, mapWasThere, kept, rough, step, complete>>
      /\ step = "move" /\ step \notin Ended /\ n \in queue
      /\ queue' = queue \ {n} /\ moved' = moved \cup {n}
      /\ place' = [place EXCEPT ![n] = temp[pid][n]]
      /\ temp' = [temp EXCEPT ![pid][n] = Gone]
  BY DEF Move, jobVars, Ended
<1>2. /\ place \in [Names -> Entry] /\ temp \in [Pids -> [Names -> Entry]] /\ job \in Nat \ {0}
      /\ pid \in Pids /\ Gone.by = 0 /\ 0 \in 0..job /\ moved \subseteq Names
  BY TypeFacts, KeepOldOutputAssumption DEF IInv, TypeOK, Gone
<1>3. /\ place'[n] = temp[pid][n] /\ \A m \in Names \ {n} : place'[m] = place[m]
      /\ \A p \in Pids, m \in Names : temp'[p][m] = temp[p][m] \/ temp'[p][m] = Gone
      /\ temp'[pid][n] = Gone
  BY <1>1, <1>2
<1>4. armed /\ temp[pid][n].by = job
  BY <1>1 DEF IInv, MoveInv, TempInv
<1>5. ByInv'
  <2>1. \A m \in Names : place'[m] = place[m] \/ place'[m] = temp[pid][m]
    BY <1>3
  <2>2. QED  BY <1>1, <1>2, <1>3, <2>1 DEF EndInv, ByInv
<1>6. EmptyInv'
  BY <1>1, <1>2, <1>3, <1>4 DEF EndInv, EmptyInv, There
<1>7. ByJobInv'
  BY <1>1, <1>2, <1>3, <1>4 DEF EndInv, ByJobInv
<1>8. QED
  BY <1>1, <1>5, <1>6, <1>7 DEF EndInv, OwnInv, LeftInv, FailureLeavesNothing, SuccessInPlace,
     MadeByOneJob, Ended

LEMMA AllMovedKeepsEnd ==
  ASSUME IInv, EndInv, AllMoved
  PROVE  EndInv'
<1> USE DEF Running
<1>1. /\ UNCHANGED <<kind, place, job, plans, pid, armed, mapWasThere, kept, rough, moved, complete>>
      /\ step = "move" /\ step' = "tidy" /\ queue = {} /\ queue' = Stale
      /\ temp' = temp \/ temp' = [temp EXCEPT ![pid] = Empty]
  BY DEF AllMoved, jobVars
<1>2. /\ temp \in [Pids -> [Names -> Entry]] /\ job \in Nat \ {0}
      /\ pid \in Pids /\ Gone.by = 0 /\ 0 \in 0..job
  BY TypeFacts, KeepOldOutputAssumption DEF IInv, TypeOK, Gone
<1>3. armed /\ kind # "disc" /\ Content(plan) \subseteq moved
  BY <1>1 DEF IInv, MoveInv
<1>4. ByInv'
  <2>1. \A p \in Pids, m \in Names : temp'[p][m] = temp[p][m] \/ temp'[p][m] = Gone
    BY <1>1, <1>2 DEF Empty
  <2>2. QED  BY <1>1, <1>2, <2>1 DEF EndInv, ByInv
<1>5. EmptyInv'
  <2>1. There(temp[pid]) = {} => temp[pid] = Empty
    BY <1>2 DEF There, Empty
  <2>2. temp[pid] = Empty
    BY <1>1, <2>1 DEF EndInv, EmptyInv
  <2>3. temp'[pid] = Empty
    BY <1>1, <1>2, <2>2
  <2>4. QED  BY <1>1, <1>3, <2>3 DEF EmptyInv
<1>6. ByJobInv'
  <2>1. \A n \in moved : place[n].by = job
    BY <1>1 DEF EndInv, ByJobInv
  <2>2. There(place) \cap Companions \subseteq Stale \cup moved
    <3>1. kind = "file" /\ plan \cap Parts # {} => moved \cap Parts # {}
      BY <1>3, NameFacts DEF Content
    <3>2. kind \in {"file", "image", "demux"}
      BY <1>3, KeepOldOutputAssumption DEF IInv, TypeOK
    <3>3. QED  BY <3>1, <3>2 DEF Companions, Stale
  <2>3. Companions' = Companions
    BY <1>1 DEF Companions, plan
  <2>4. QED  BY <1>1, <2>1, <2>2, <2>3 DEF ByJobInv, There
<1>7. QED
  BY <1>1, <1>4, <1>5, <1>6 DEF EndInv, OwnInv, LeftInv, FailureLeavesNothing, SuccessInPlace,
     MadeByOneJob

LEMMA TidyKeepsEnd ==
  ASSUME IInv, EndInv, NEW n \in Names, Tidy(n) \/ TidyFails(n) \/ Tidied
  PROVE  EndInv'
<1> USE DEF Running
<1>1. /\ UNCHANGED <<kind, temp, job, plans, pid, armed, mapWasThere, kept, moved, complete>>
      /\ step = "tidy" /\ step \notin Ended
  BY DEF Tidy, TidyFails, Tidied, disk, jobVars, Ended
<1>2. /\ place \in [Names -> Entry] /\ job \in Nat \ {0} /\ Gone.by = 0 /\ 0 \in 0..job
  BY TypeFacts, KeepOldOutputAssumption DEF IInv, TypeOK, Gone
<1>3. /\ armed /\ kind # "disc" /\ Content(plan) \subseteq moved /\ queue \cap moved = {}
      /\ \A m \in moved : m \in Content(plan) => place[m] = Whole(job)
      /\ temp[pid] = Empty /\ \A m \in moved : place[m].by = job
  BY <1>1 DEF IInv, TidyInv, EndInv, EmptyInv, ByJobInv
<1>4. Companions' = Companions
  BY <1>1 DEF Companions, plan
<1>5. CASE Tidy(n)
  <2>1. /\ step' = "tidy" /\ queue' = queue \ {n} /\ n \in queue /\ rough' = rough
        /\ place' = [place EXCEPT ![n] = Gone]
    BY <1>1, <1>5 DEF Tidy
  <2>2. place'[n] = Gone /\ \A m \in Names \ {n} : place'[m] = place[m]
    BY <1>2, <2>1
  <2>3. ByInv'
    BY <1>1, <1>2, <2>2 DEF EndInv, ByInv
  <2>4. ByJobInv'
    <3>1. moved \subseteq Names
      BY DEF IInv, TypeOK
    <3>2. \A m \in moved : place'[m].by = job
      BY <1>3, <2>1, <2>2, <3>1
    <3>3. ~rough => \A m \in There(place') \cap Companions : m \in queue' \/ place'[m].by = job
      BY <1>1, <2>1, <2>2 DEF EndInv, ByJobInv, There
    <3>4. QED  BY <1>1, <1>4, <2>1, <3>2, <3>3 DEF ByJobInv
  <2>5. QED
    BY <1>1, <1>3, <2>1, <2>3, <2>4 DEF EndInv, OwnInv, EmptyInv, LeftInv, FailureLeavesNothing,
       SuccessInPlace, MadeByOneJob
<1>6. CASE TidyFails(n)
  <2>1. step' = "tidy" /\ place' = place /\ rough' = TRUE
    BY <1>1, <1>6 DEF TidyFails, disk
  <2>2. QED
    BY <1>1, <1>3, <2>1, ByUnchanged DEF EndInv, OwnInv, EmptyInv, LeftInv, ByJobInv,
       FailureLeavesNothing, SuccessInPlace, MadeByOneJob
<1>7. CASE Tidied
  <2>1. step' = "success" /\ place' = place /\ rough' = rough /\ queue = {}
    BY <1>1, <1>7 DEF Tidied, disk
  <2>2. SuccessInPlace'
    BY <1>1, <1>3, <2>1 DEF SuccessInPlace, plan
  <2>3. MadeByOneJob'
    <3>1. ~rough => \A m \in There(place) \cap Companions : place[m].by = job
      BY <1>1, <2>1 DEF EndInv, ByJobInv
    <3>2. QED  BY <1>1, <1>4, <2>1, <3>1 DEF MadeByOneJob, There
  <2>4. QED
    BY <1>1, <2>1, <2>2, <2>3, ByUnchanged DEF EndInv, OwnInv, EmptyInv, LeftInv, ByJobInv,
       FailureLeavesNothing, Ended
<1>8. QED  BY <1>5, <1>6, <1>7

LEMMA ClearKeepsEnd ==
  ASSUME IInv, EndInv, NEW n \in Names, ClearOld(n) \/ Cleared
  PROVE  EndInv'
<1> USE DEF Running
<1>1. /\ UNCHANGED <<kind, temp, job, plans, pid, armed, mapWasThere, kept, rough, moved, queue>>
      /\ step = "clear" /\ step' \in {"clear", "swap"}
      /\ place' = place \/ place' = [place EXCEPT ![n] = Gone]
  BY DEF ClearOld, Cleared, disk, jobVars
<1>2. /\ place \in [Names -> Entry] /\ job \in Nat \ {0} /\ Gone.by = 0 /\ 0 \in 0..job
  BY TypeFacts, KeepOldOutputAssumption DEF IInv, TypeOK, Gone
<1>3. \A m \in Names : place'[m] = place[m] \/ place'[m] = Gone
  BY <1>1, <1>2
<1>4. ByInv'
  BY <1>1, <1>2, <1>3 DEF EndInv, ByInv
<1>5. armed
  BY <1>1 DEF IInv, SwapInv
<1>6. ByJobInv'
  <2>1. Inside(Bdmv)' = Inside(Bdmv)
    OBVIOUS
  <2>2. QED  BY <1>1, <1>3 DEF EndInv, ByJobInv, There
<1>7. QED
  BY <1>1, <1>4, <1>5, <1>6 DEF EndInv, OwnInv, EmptyInv, LeftInv, FailureLeavesNothing,
     SuccessInPlace, MadeByOneJob, Ended

LEMMA SwapKeepsEnd ==
  ASSUME IInv, EndInv, SwapSub
  PROVE  EndInv'
<1> USE DEF Running
<1>1. /\ UNCHANGED <<kind, job, plans, pid, armed, mapWasThere, kept, rough, moved, complete>>
      /\ step = "swap" /\ step \notin Ended /\ queue' = queue \ {Sub}
      /\ place' = [m \in Names |-> IF m \in Inside(Sub) THEN temp[pid][m] ELSE place[m]]
      /\ temp' = [temp EXCEPT ![pid] =
           IF queue = {Certificate} THEN Empty
           ELSE [m \in Names |-> IF m \in Inside(Sub) THEN Gone ELSE temp[pid][m]]]
      /\ step' = IF queue = {Certificate} THEN "success" ELSE "clear"
  BY DEF SwapSub, jobVars, Ended
<1>2. /\ place \in [Names -> Entry] /\ temp \in [Pids -> [Names -> Entry]] /\ job \in Nat \ {0}
      /\ pid \in Pids /\ Gone.by = 0 /\ 0 \in 0..job
      /\ queue \in {{Bdmv, Certificate}, {Certificate}}
  BY <1>1, TypeFacts, KeepOldOutputAssumption DEF IInv, TypeOK, Gone
<1>3. plan \in Plans("disc") /\ armed /\ kind = "disc"
      /\ plan \subseteq {Bdmv, Certificate} \cup Clips
  BY <1>1, RunningPlan, PlanFacts DEF IInv, SwapInv
<1>4. /\ \A m \in Names : place'[m] = IF m \in Inside(Sub) THEN temp[pid][m] ELSE place[m]
      /\ \A p \in Pids, m \in Names : temp'[p][m] = temp[p][m] \/ temp'[p][m] = Gone
  BY <1>1, <1>2 DEF Empty
<1>5. ByInv'
  BY <1>1, <1>2, <1>4 DEF EndInv, ByInv
<1>6. \A m \in Names : temp[pid][m] = Gone \/ temp[pid][m].by = job
  BY <1>1, <1>3 DEF IInv, TempInv
<1>7. CASE queue = {Certificate}
  <2>1. Sub = Certificate /\ Inside(Sub) = {Certificate} /\ step' = "success"
    BY <1>1, <1>7, NameFacts, InsideFacts DEF Sub
  <2>2. temp'[pid] = Empty
    BY <1>1, <1>2, <1>7
  <2>3. \A m \in plan : place'[m] = Whole(job)
    <3>1. \A m \in plan : IF m = Certificate THEN temp[pid][m] = Whole(job)
                                             ELSE place[m] = Whole(job)
      BY <1>1, <1>7, <2>1, InsideFacts DEF IInv, SwapInv
    <3>2. QED  BY <1>3, <1>4, <2>1, <3>1, NameFacts
  <2>4. SuccessInPlace'
    BY <1>1, <2>1, <2>2, <2>3 DEF SuccessInPlace, plan, Content
  <2>5. MadeByOneJob'
    <3>1. \A m \in Inside(Bdmv) : place'[m] = Gone \/ place'[m].by = job
      BY <1>1, <1>4, <1>7, <2>1, NameFacts, InsideFacts DEF EndInv, ByJobInv, There
    <3>2. place'[Certificate] = Gone \/ place'[Certificate].by = job
      BY <1>4, <1>6, <2>1, NameFacts
    <3>3. Companions' = Inside(Bdmv) \cup {Certificate}
      BY <1>1, <1>3, InsideFacts DEF Companions
    <3>4. QED  BY <1>1, <3>1, <3>2, <3>3 DEF MadeByOneJob, There
  <2>6. QED
    BY <1>1, <1>3, <1>5, <2>1, <2>4, <2>5 DEF EndInv, OwnInv, EmptyInv, LeftInv, ByJobInv,
       FailureLeavesNothing, Ended
<1>8. CASE queue = {Bdmv, Certificate}
  <2>1. Sub = Bdmv /\ step' = "clear"
    BY <1>1, <1>8, NameFacts DEF Sub
  <2>2. \A m \in Inside(Bdmv) : place'[m] = Gone \/ place'[m].by = job
    BY <1>4, <1>6, <2>1, InsideFacts, NameFacts
  <2>3. QED
    BY <1>1, <1>3, <1>5, <2>1, <2>2 DEF EndInv, OwnInv, EmptyInv, LeftInv, ByJobInv,
       FailureLeavesNothing, SuccessInPlace, MadeByOneJob, There
<1>9. QED  BY <1>2, <1>7, <1>8

LEMMA InitEnd == ASSUME Init PROVE EndInv
<1> USE DEF Running
<1>1. /\ temp = [p \in Pids |-> Empty] /\ job = 1 /\ step = "success" /\ armed = FALSE
  BY DEF Init
<1>2. ByInv
  <2>1. 1 \in 0..1 /\ 0 \in 0..1
    OBVIOUS
  <2>2. \A n \in Names : place[n] = Whole(1) \/ place[n] = Gone
    BY DEF Init, Empty
  <2>3. QED  BY <1>1, <2>1, <2>2 DEF ByInv, Empty, Whole, Gone
<1>3. QED
  BY <1>1, <1>2 DEF EndInv, OwnInv, EmptyInv, LeftInv, ByJobInv, FailureLeavesNothing,
     SuccessInPlace, MadeByOneJob, Ended

LEMMA StepKeepsEnd ==
  ASSUME IInv, EndInv, ~PidReuse, [Next]_vars
  PROVE  EndInv'
<1>0. Main \in Names
  BY NameFacts
<1>1. ASSUME NEW p \in Pids, NEW names \in Plans(kind), Start(p, names) PROVE EndInv'
  BY <1>1, StartKeepsEnd
<1>2. CASE WriteFile  BY <1>2, WriteKeepsEnd DEF WriteFile
<1>3. CASE Fail \/ FailCutOff  BY <1>3, FailKeepsEnd
<1>4. CASE Undoing  BY <1>4, UndoKeepsEnd, UndoEndsKeepEnd DEF Undoing
<1>5. CASE Succeed  BY <1>5, SucceedKeepsEnd
<1>6. CASE Moving  BY <1>6, MoveKeepsEnd, CrashKeepsEnd, AllMovedKeepsEnd DEF Moving
<1>7. CASE Tidying  BY <1>0, <1>7, TidyKeepsEnd DEF Tidying
<1>8. CASE Swapping  BY <1>0, <1>8, ClearKeepsEnd, SwapKeepsEnd DEF Swapping
<1>9. CASE Crash  BY <1>9, CrashKeepsEnd
<1>10. CASE UNCHANGED vars
  BY <1>10 DEF EndInv, ByInv, OwnInv, EmptyInv, LeftInv, ByJobInv, FailureLeavesNothing,
     SuccessInPlace, MadeByOneJob, Companions, There, plan, vars, disk, jobVars, Running
<1>11. QED
  BY <1>1, <1>2, <1>3, <1>4, <1>5, <1>6, <1>7, <1>8, <1>9, <1>10 DEF Next

(* The invariant about the ends of jobs holds at every moment. *)
THEOREM EndInvariance == ~PidReuse => (Spec => []EndInv)
<1>1. SUFFICES ASSUME ~PidReuse PROVE Spec => []EndInv
  OBVIOUS
<1>2. Spec => []IInv
  BY <1>1, Invariance
<1>3. Init => EndInv
  BY InitEnd
<1>4. IInv /\ EndInv /\ [Next]_vars => EndInv'
  BY <1>1, StepKeepsEnd
<1>5. QED  BY <1>2, <1>3, <1>4, PTL DEF Spec

(* A failed job leaves no temporary file, and in place only the whole files *)
(* of a job whose source was cut off (FailureLeavesNothing).                *)
THEOREM FailureIsClean == ~PidReuse => (Spec => []FailureLeavesNothing)
<1>1. SUFFICES ASSUME ~PidReuse PROVE Spec => []FailureLeavesNothing
  OBVIOUS
<1>2. Spec => []EndInv
  BY <1>1, EndInvariance
<1>3. EndInv => FailureLeavesNothing
  BY DEF EndInv
<1>4. QED  BY <1>2, <1>3, PTL

(* After success the whole output is in its place and nothing temporary is  *)
(* left (SuccessInPlace).                                                   *)
THEOREM SuccessIsInPlace == ~PidReuse => (Spec => []SuccessInPlace)
<1>1. SUFFICES ASSUME ~PidReuse PROVE Spec => []SuccessInPlace
  OBVIOUS
<1>2. Spec => []EndInv
  BY <1>1, EndInvariance
<1>3. EndInv => SuccessInPlace
  BY DEF EndInv
<1>4. QED  BY <1>2, <1>3, PTL

(* An output that replaced another is all of one job (MadeByOneJob), when   *)
(* no process has the number of an earlier one that left files.             *)
THEOREM OneJobsOutput == ~PidReuse => (Spec => []MadeByOneJob)
<1>1. SUFFICES ASSUME ~PidReuse PROVE Spec => []MadeByOneJob
  OBVIOUS
<1>2. Spec => []EndInv
  BY <1>1, EndInvariance
<1>3. EndInv => MadeByOneJob
  BY DEF EndInv
<1>4. QED  BY <1>2, <1>3, PTL
=============================================================================

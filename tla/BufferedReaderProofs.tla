------------------------ MODULE BufferedReaderProofs ------------------------
(***************************************************************************)
(* Proofs about BufferedReader, for every set of readers, every source and *)
(* every size of block and queue.                                          *)
(***************************************************************************)
EXTENDS BufferedReader, FunctionTheorems, FiniteSetTheorems, SequenceTheorems, TLAPS

-----------------------------------------------------------------------------
(* Counting the requests of a reader in the queue *)

(* The occurrences of a value in a queue are finitely many.                *)
LEMMA OccFinite ==
  ASSUME NEW S, NEW q \in Seq(S), NEW r
  PROVE  IsFiniteSet(Occ(q, r)) /\ Cardinality(Occ(q, r)) \in Nat
<1>1. Len(q) \in Nat
  BY LenProperties
<1>2. IsFiniteSet(1..Len(q))
  BY <1>1, FS_Interval
<1>3. Occ(q, r) \in SUBSET (1..Len(q))
  BY DEF Occ
<1>. QED  BY <1>2, <1>3, FS_Subset, FS_CardinalityType

(* Appending a value adds one occurrence of it, and of no other.           *)
LEMMA OccAppend ==
  ASSUME NEW S, NEW q \in Seq(S), NEW x \in S, NEW r
  PROVE  Cardinality(Occ(Append(q, x), r)) = Cardinality(Occ(q, r)) + IF x = r THEN 1 ELSE 0
<1>1. Len(q) \in Nat /\ Len(Append(q, x)) = Len(q) + 1
  BY LenProperties, AppendProperties
<1>2. /\ \A i \in 1..Len(q) : Append(q, x)[i] = q[i]
      /\ Append(q, x)[Len(q) + 1] = x
  BY <1>1, AppendProperties
<1>3. CASE x = r
  <2>1. Occ(Append(q, x), r) = Occ(q, r) \cup {Len(q) + 1}
    BY <1>1, <1>2, <1>3 DEF Occ
  <2>2. Len(q) + 1 \notin Occ(q, r)
    BY <1>1 DEF Occ
  <2>. QED  BY <1>3, <2>1, <2>2, OccFinite, FS_AddElement
<1>4. CASE x # r
  <2>1. Occ(Append(q, x), r) = Occ(q, r)
    BY <1>1, <1>2, <1>4 DEF Occ
  <2>. QED  BY <1>4, <2>1, OccFinite
<1>. QED  BY <1>3, <1>4

(* Taking the head removes one occurrence of it, and of no other.          *)
LEMMA OccTail ==
  ASSUME NEW S, NEW q \in Seq(S), q # <<>>, NEW r
  PROVE  Cardinality(Occ(q, r)) = Cardinality(Occ(Tail(q), r)) + IF Head(q) = r THEN 1 ELSE 0
<1> DEFINE Rest == Occ(q, r) \ {1}
           Shift == [i \in Occ(Tail(q), r) |-> i + 1]
<1>1. /\ Len(q) \in Nat \ {0} /\ Len(Tail(q)) = Len(q) - 1 /\ Head(q) = q[1]
      /\ Tail(q) \in Seq(S)
      /\ \A i \in 1..Len(Tail(q)) : Tail(q)[i] = q[i + 1]
  BY HeadTailProperties, LenProperties, EmptySeq
<1>2. Shift \in Bijection(Occ(Tail(q), r), Rest)
  <2>1. \A i \in Occ(Tail(q), r) : i \in Int /\ i + 1 \in Rest
    BY <1>1 DEF Occ
  <2>2. \A j \in Rest : j - 1 \in Occ(Tail(q), r) /\ (j - 1) + 1 = j
    <3> TAKE j \in Rest
    <3>1. j \in 2..Len(q) /\ q[j] = r
      BY <1>1 DEF Occ
    <3>2. j - 1 \in 1..Len(Tail(q)) /\ (j - 1) + 1 = j
      BY <1>1, <3>1
    <3>. QED  BY <1>1, <3>1, <3>2 DEF Occ
  <2>3. Shift \in [Occ(Tail(q), r) -> Rest]
    BY <2>1
  <2>4. \A i, j \in Occ(Tail(q), r) : Shift[i] = Shift[j] => i = j
    BY <2>1
  <2>5. \A j \in Rest : \E i \in Occ(Tail(q), r) : Shift[i] = j
    BY <2>2
  <2>. QED  BY <2>3, <2>4, <2>5, Fun_IsBij
<1>3. IsFiniteSet(Occ(Tail(q), r)) /\ Cardinality(Rest) = Cardinality(Occ(Tail(q), r))
  <2>1. IsFiniteSet(Occ(Tail(q), r))
    BY <1>1, OccFinite
  <2>2. ExistsBijection(Occ(Tail(q), r), Rest)
    BY <1>2, Fun_ExistsBij
  <2>. HIDE DEF Rest
  <2>. QED  BY <2>1, <2>2, FS_Bijection
<1>4. Cardinality(Rest) = IF 1 \in Occ(q, r) THEN Cardinality(Occ(q, r)) - 1 ELSE Cardinality(Occ(q, r))
  BY OccFinite, FS_RemoveElement
<1>5. 1 \in Occ(q, r) <=> Head(q) = r
  BY <1>1 DEF Occ
<1>. QED  BY <1>3, <1>4, <1>5, OccFinite

-----------------------------------------------------------------------------
(* Type correctness *)

\* What an action leaves alone, and the conditions it decides on
USE DEF lifeVars, askVars, handVars, blockVars, fileVars, threadVars, clientVars

(* The i-th part of a source starts and ends at a position.                *)
LEMMA PartStartType ==
  ASSUME NEW r \in Readers, NEW i \in 1..NParts(r)
  PROVE  PartStart(r, i) \in Int /\ PartEnd[r][i] \in Int
<1>1. PartEnd[r] \in Seq(Nat) /\ Len(PartEnd[r]) \in Nat
  BY BufferedReaderAssumption, LenProperties
<1>2. \A j \in 1..Len(PartEnd[r]) : PartEnd[r][j] \in Nat
  BY <1>1, ElementOfSeq
<1>3. i = 1 \/ i - 1 \in 1..Len(PartEnd[r])
  BY <1>1 DEF NParts
<1>. QED  BY <1>1, <1>2, <1>3 DEF PartStart, NParts

(* A read returns a number of bytes, or a negative number for a failure.   *)
LEMMA ReadResultType ==
  ASSUME NEW r \in Readers, NEW f \in Files, f.part \in 1..NParts(r), NEW max \in Int,
         NEW n \in ReadResults(r, f, max)
  PROVE  n \in Int
<1>1. PartEnd[r][f.part] \in Int
  BY PartStartType
<1>2. PartEnd[r][f.part] - f.pos \in Int
  BY <1>1 DEF Files
<1>. QED  BY <1>2 DEF ReadResults

(* The file a name was opened for, or the one before it when that failed.  *)
LEMMA AtPartType ==
  ASSUME TypeOK, NEW r \in Readers, NEW i \in Nat
  PROVE  AtPart(r, i) \in Files /\ AtPart(r, i).part \in 1..NParts(r)
<1>1. CASE Opens(r, i)
  <2>1. i \in 1..NParts(r)
    BY <1>1 DEF Opens
  <2>. QED  BY <1>1, <2>1, PartStartType DEF AtPart, Files
<1>2. CASE ~Opens(r, i)
  <2>1. file[r] \in Files /\ file[r].part \in 1..NParts(r)
    BY DEF TypeOK
  <2>. QED  BY <1>2, <2>1 DEF AtPart, Files
<1>. QED  BY <1>1, <1>2

(* What SafeQueue::push leaves is a queue.                                 *)
LEMMA PushType ==
  ASSUME NEW x \in Readers \cup {NoReader}, TypeOK, Push(x)
  PROVE  queue' \in Seq(Readers \cup {NoReader})
<1>1. queue \in Seq(Readers \cup {NoReader})
  BY DEF TypeOK
<1>2. Append(queue, x) \in Seq(Readers \cup {NoReader})
  BY <1>1, AppendProperties
<1>. QED  BY <1>1, <1>2 DEF Push

(* A read leaves the file, the blocks and the size read well typed.        *)
LEMMA ReadIntoType ==
  ASSUME TypeOK, tid \in Readers, NEW f \in Files, f.part \in 1..NParts(tid), NEW max \in Int,
         NEW n \in ReadResults(tid, f, max), ReadInto(tid, f, n)
  PROVE  /\ tn' \in Int
         /\ file' \in [Readers -> Files]
         /\ \A r \in Readers : file'[r].part \in 1..NParts(r)
         /\ buf' \in [Readers -> [{0, 1} -> Blocks]]
         /\ failed' \in [Readers -> BOOLEAN]
<1>1. n \in Int
  BY ReadResultType
<1>2. BlockAt(f, n) \in Blocks
  BY <1>1 DEF BlockAt, Blocks, Files
<1>3. [f EXCEPT !.pos = @ + n] \in Files /\ [f EXCEPT !.pos = @ + n].part = f.part
  BY <1>1 DEF Files
<1>4. (n < 0 /\ f.open) \in BOOLEAN
  OBVIOUS
<1>. QED  BY <1>1, <1>2, <1>3, <1>4 DEF ReadInto, TypeOK

(* Every reader starts with its fields as ReaderData's constructor sets them. *)
LEMMA InitTypeOK == Init => TypeOK
<1> SUFFICES ASSUME Init PROVE TypeOK
  OBVIOUS
<1>1. \A r \in Readers : 1 \in 1..NParts(r)
  BY BufferedReaderAssumption, LenProperties DEF NParts
<1>2. size \in [Readers -> 1..BlockSize]
  BY BufferedReaderAssumption DEF Init
<1>3. /\ file \in [Readers -> Files]
      /\ \A r \in Readers : file[r].part \in 1..NParts(r)
  BY <1>1 DEF Init, Closed, Files
<1>4. NoBytes \in Blocks /\ Nothing \in Helds
  BY DEF NoBytes, Nothing, Blocks, Helds
<1>5. /\ buf \in [Readers -> [{0, 1} -> Blocks]]
      /\ held \in [Readers -> Helds]
  BY <1>4 DEF Init
<1>6. /\ queue \in Seq(Readers \cup {NoReader})
      /\ deleted \in [Readers -> BOOLEAN] /\ notified \in [Readers -> BOOLEAN]
      /\ eof \in [Readers -> BOOLEAN] /\ lastBlock \in [Readers -> BOOLEAN]
      /\ firstBlock \in [Readers -> BOOLEAN]
      /\ failed \in [Readers -> BOOLEAN] /\ scanning \in [Readers -> BOOLEAN]
      /\ atQueue \in [Readers -> Int] /\ nextSize \in [Readers -> Int]
      /\ got \in [Readers -> Int] /\ told \in [Readers -> Nat]
      /\ bufIndex \in [Readers -> {0, 1}]
      /\ tidx \in {0, 1} /\ tn \in Int
  BY EmptySeq DEF Init
<1>7. life \in [Readers -> {"none", "live", "freed"}]
  BY DEF Init
<1>8. /\ terminated \in BOOLEAN /\ mtx \in {"free", "thread"}
      /\ tpc \in ThreadSteps /\ tid \in Readers \cup {NoReader}
      /\ (tpc \in InService => tid \in Readers)
      /\ cpc \in {"idle", "wait", "took", "delete", "term", "join", "end"}
      /\ cid \in Readers \cup {NoReader}
      /\ (cpc \in InCall => cid \in Readers)
  BY DEF Init, ThreadSteps, InService, InCall
<1>. QED  BY <1>1, <1>2, <1>3, <1>5, <1>6, <1>7, <1>8 DEF TypeOK

(* What a notification or a request for a block changes is well typed.     *)
LEMMA RequestType ==
  ASSUME TypeOK, NEW r \in Readers, Request(r)
  PROVE  /\ queue' \in Seq(Readers \cup {NoReader})
         /\ atQueue' \in [Readers -> Int]
         /\ notified' \in [Readers -> BOOLEAN]
<1>1. r \in Readers \cup {NoReader} /\ Push(r)
  BY DEF Request
<1>2. queue' \in Seq(Readers \cup {NoReader})
  BY <1>1, PushType
<1>3. atQueue' = [atQueue EXCEPT ![r] = @ + 1] /\ atQueue \in [Readers -> Int]
  BY DEF Request, TypeOK
<1>4. notified' \in [Readers -> BOOLEAN]
  BY DEF Request, TypeOK
<1>5. atQueue' \in [Readers -> Int]
  BY <1>3
<1>. QED  BY <1>2, <1>4, <1>5

(* A file that moves on to another part stays well typed.                  *)
LEMMA FileType ==
  ASSUME TypeOK, NEW r \in Readers, NEW f \in Files, f.part \in 1..NParts(r),
         file' = [file EXCEPT ![r] = f]
  PROVE  /\ file' \in [Readers -> Files]
         /\ \A s \in Readers : file'[s].part \in 1..NParts(s)
  BY DEF TypeOK

(* A seek changes no more of the file than where it is read.               *)
LEMMA SeekType ==
  ASSUME TypeOK, NEW r \in Readers, NEW pos \in Int, SeekDone(r, pos)
  PROVE  /\ file' \in [Readers -> Files]
         /\ \A s \in Readers : file'[s].part \in 1..NParts(s)
<1>1. file[r] \in Files /\ file[r].part \in 1..NParts(r)
  BY DEF TypeOK
<1>2. [file[r] EXCEPT !.pos = pos] \in Files /\ [file[r] EXCEPT !.pos = pos].part \in 1..NParts(r)
  BY <1>1 DEF Files
<1>3. file' = [file EXCEPT ![r] = [file[r] EXCEPT !.pos = pos]]
  BY DEF SeekDone
<1>. QED  BY <1>2, <1>3, FileType

(* The size that aligns the first read of a reader started at an offset is *)
(* that of a block at most.                                                *)
LEMMA AlignedSize ==
  ASSUME NEW pos \in Nat
  PROVE  BlockSize - (pos % BlockSize) \in 1..BlockSize
  BY BufferedReaderAssumption

(* Opening a part and reading from it leaves the types.                    *)
LEMMA OpenAndReadType ==
  ASSUME TypeOK, tid \in Readers, NEW i \in Nat, OpenAndRead(i)
  PROVE  /\ tn' \in Int
         /\ file' \in [Readers -> Files]
         /\ \A r \in Readers : file'[r].part \in 1..NParts(r)
         /\ buf' \in [Readers -> [{0, 1} -> Blocks]]
         /\ failed' \in [Readers -> BOOLEAN]
         /\ lastBlock' \in [Readers -> BOOLEAN]
         /\ tpc' \in {"more", "size"}
<1>1. AtPart(tid, i) \in Files /\ AtPart(tid, i).part \in 1..NParts(tid)
  BY AtPartType
<1>2. BlockSize \in Int
  BY BufferedReaderAssumption
<1>3. PICK n \in ReadResults(tid, AtPart(tid, i), BlockSize) :
        /\ ReadInto(tid, AtPart(tid, i), n)
        /\ lastBlock' = [lastBlock EXCEPT ![tid] = n # 0 /\ n < BlockSize]
        /\ tpc' = IF n = 0 THEN "more" ELSE "size"
  BY DEF OpenAndRead
<1>4. lastBlock' \in [Readers -> BOOLEAN]
  BY <1>3 DEF TypeOK
<1>5. tpc' \in {"more", "size"}
  BY <1>3
<1>. QED  BY <1>1, <1>2, <1>3, <1>4, <1>5, ReadIntoType

(* Every step of the reading thread keeps the types.                       *)
LEMMA ThreadTypeOK == TypeOK /\ Thread => TypeOK'
<1> SUFFICES ASSUME TypeOK, Thread PROVE TypeOK'
  OBVIOUS
<1> USE DEF TypeOK, ThreadSteps, InService, InCall
<1>1. CASE LoopTest
  BY SMTT(30), <1>1 DEF LoopTest, Moving, ThreadAt
<1>2. CASE Pop
  <2>1. Head(queue) \in Readers \cup {NoReader} /\ Tail(queue) \in Seq(Readers \cup {NoReader})
    BY <1>2, HeadTailProperties DEF Pop
  <2>. QED  BY <1>2, <2>1 DEF Pop, Moving, ThreadAt
<1>3. CASE GetReader
  BY SMTT(30), <1>3 DEF GetReader, Moving, ThreadAt
<1>4. CASE ChooseBlock
  BY <1>4 DEF ChooseBlock, Moving, ThreadAt
<1>5. CASE LockProcess
  BY <1>5 DEF LockProcess, Moving, ThreadAt
<1>6. CASE ResetSize
  <2>1. BlockSize \in 1..BlockSize
    BY BufferedReaderAssumption
  <2>. QED  BY SMTT(40), <1>6, <2>1 DEF ResetSize, ThreadAt
<1>7. CASE HandOver
  BY <1>7 DEF HandOver, ThreadAt
<1>8. CASE UnlockProcess
  BY <1>8 DEF UnlockProcess, Moving, ThreadAt
<1>9. CASE Served
  BY SMTT(30), <1>9 DEF Served, ThreadAt
<1>10. CASE Read
  <2>1. file[tid] \in Files /\ file[tid].part \in 1..NParts(tid) /\ size[tid] \in Int /\ tid \in Readers
    BY <1>10 DEF Read, Filling, ThreadAt
  <2>2. PICK n \in ReadResults(tid, file[tid], size[tid]) :
          /\ ReadInto(tid, file[tid], n)
          /\ tpc' = IF EndOfPart(tid, n) THEN "part" ELSE "size"
    BY <1>10 DEF Read
  <2>3. /\ tn' \in Int
        /\ file' \in [Readers -> Files]
        /\ \A r \in Readers : file'[r].part \in 1..NParts(r)
        /\ buf' \in [Readers -> [{0, 1} -> Blocks]]
        /\ failed' \in [Readers -> BOOLEAN]
    BY <2>1, <2>2, ReadIntoType
  <2>4. BeginsPart(tid) \in BOOLEAN
    BY <2>1 DEF BeginsPart
  <2>5. tpc' \in {"part", "size"}
    BY <2>2
  <2>. QED  BY ZenonT(120), <1>10, <2>1, <2>3, <2>4, <2>5 DEF Read, Filling, ThreadAt
<1>11. CASE NoNextPart
  <2>1. tid \in Readers /\ file[tid] \in Files
    BY <1>11 DEF NoNextPart, Filling, ThreadAt
  <2>2. file[tid].itr + 1 \in Nat
    BY SMTT(30), <2>1 DEF Files
  <2>3. AtPart(tid, file[tid].itr + 1) \in Files /\ AtPart(tid, file[tid].itr + 1).part \in 1..NParts(tid)
    BY <2>1, <2>2, AtPartType
  <2>4. \/ UNCHANGED <<file, failed>>
        \/ /\ file' = [file EXCEPT ![tid] = AtPart(tid, file[tid].itr + 1)]
           /\ failed' = [failed EXCEPT ![tid] = @ \/ file[tid].itr + 1 \in Missing[tid]]
    BY <1>11 DEF NoNextPart
  <2>5. file' \in [Readers -> Files] /\ \A r \in Readers : file'[r].part \in 1..NParts(r)
    BY <2>1, <2>3, <2>4, FileType
  <2>6. failed' \in [Readers -> BOOLEAN]
    BY <2>1, <2>4
  <2>. QED  BY <1>11, <2>1, <2>5, <2>6 DEF NoNextPart, Filling, ThreadAt
<1>12. CASE NextPart
  <2>1. tid \in Readers /\ file[tid] \in Files
    BY <1>12 DEF NextPart, Filling, ThreadAt
  <2>2. file[tid].itr + 1 \in Nat
    BY SMTT(30), <2>1 DEF Files
  <2>3. CASE OpenAndRead(file[tid].itr + 1) /\ firstBlock' = [firstBlock EXCEPT ![tid] = TRUE]
    BY ZenonT(120), <1>12, <2>1, <2>2, <2>3, OpenAndReadType DEF NextPart, Filling, ThreadAt
  <2>4. CASE /\ file' = [file EXCEPT ![tid] = AtPart(tid, file[tid].itr + 1)]
             /\ lastBlock' = [lastBlock EXCEPT ![tid] = TRUE]
             /\ tpc' = "size"
             /\ UNCHANGED <<tn, buf, firstBlock, failed>>
    <3>1. file' \in [Readers -> Files] /\ \A r \in Readers : file'[r].part \in 1..NParts(r)
      BY <2>1, <2>2, <2>4, AtPartType, FileType
    <3>. QED  BY <1>12, <2>1, <2>4, <3>1 DEF NextPart, Filling, ThreadAt
  <2>. QED  BY <1>12, <2>3, <2>4 DEF NextPart
<1>13. CASE SkipEmptyPart
  <2>1. tid \in Readers /\ file[tid] \in Files
    BY <1>13 DEF SkipEmptyPart, Filling, ThreadAt
  <2>2. file[tid].itr + 1 \in Nat
    BY SMTT(30), <2>1 DEF Files
  <2>. QED  BY <1>13, <2>1, <2>2, OpenAndReadType DEF SkipEmptyPart, Filling, ThreadAt
<1>14. CASE EmptyToTheEnd
  <2> DEFINE i == file[tid].itr + 1
  <2>1. tid \in Readers /\ file[tid] \in Files /\ file[tid].part \in 1..NParts(tid)
    BY <1>14 DEF EmptyToTheEnd, Filling, ThreadAt
  <2>2. i \in Nat
    BY SMTT(30), <2>1 DEF Files
  <2>3. [file[tid] EXCEPT !.itr = i] \in Files /\ [file[tid] EXCEPT !.itr = i].part \in 1..NParts(tid)
    BY <2>1, <2>2 DEF Files
  <2>4. AtPart(tid, i) \in Files /\ AtPart(tid, i).part \in 1..NParts(tid)
    BY <2>1, <2>2, AtPartType
  <2>5. \/ file' = [file EXCEPT ![tid] = [file[tid] EXCEPT !.itr = i]]
        \/ file' = [file EXCEPT ![tid] = AtPart(tid, i)]
    BY <1>14 DEF EmptyToTheEnd
  <2>6. failed' = [failed EXCEPT ![tid] = @ \/ i \in Missing[tid]]
    BY <1>14 DEF EmptyToTheEnd
  <2> HIDE DEF i
  <2>7. file' \in [Readers -> Files] /\ \A r \in Readers : file'[r].part \in 1..NParts(r)
    BY <2>1, <2>3, <2>4, <2>5, FileType
  <2>8. failed' \in [Readers -> BOOLEAN]
    BY <2>1, <2>6
  <2>. QED  BY <1>14, <2>1, <2>7, <2>8 DEF EmptyToTheEnd, Filling, ThreadAt
<1>. QED  BY <1>1, <1>2, <1>3, <1>4, <1>5, <1>6, <1>7, <1>8, <1>9, <1>10, <1>11, <1>12, <1>13, <1>14
          DEF Thread

(* Every step of the client keeps the types.                               *)
LEMMA ClientTypeOK == TypeOK /\ Client => TypeOK'
<1> SUFFICES ASSUME TypeOK, Client PROVE TypeOK'
  OBVIOUS
<1> USE DEF TypeOK, ThreadSteps, InService, InCall
<1>1. ASSUME NEW r \in Readers, CreateReader(r) PROVE TypeOK'
  BY <1>1 DEF CreateReader
<1>2. ASSUME NEW r \in Readers, OpenStream(r) PROVE TypeOK'
  <2>1. AtPart(r, 1) \in Files /\ AtPart(r, 1).part \in 1..NParts(r)
    BY AtPartType
  <2>2. file' \in [Readers -> Files] /\ \A s \in Readers : file'[s].part \in 1..NParts(s)
    BY <1>2, <2>1, FileType DEF OpenStream
  <2>3. (r \in Rescanned) \in BOOLEAN
    OBVIOUS
  <2>. QED  BY <1>2, <2>2, <2>3 DEF OpenStream, ClientAt
<1>3. ASSUME NEW r \in Readers, ReadRequest(r) PROVE TypeOK'
  <2>1. /\ queue' \in Seq(Readers \cup {NoReader})
        /\ atQueue' \in [Readers -> Int]
        /\ notified' \in [Readers -> BOOLEAN]
    BY <1>3, RequestType DEF ReadRequest
  <2>2. held' \in [Readers -> Helds]
    BY ZenonT(90), <1>3 DEF ReadRequest, Helds
  <2>. QED  BY ZenonT(120), <1>3, <2>1, <2>2 DEF ReadRequest, ClientAt
<1>4. ASSUME NEW r \in Readers, Notify(r) PROVE TypeOK'
  <2>1. /\ queue' \in Seq(Readers \cup {NoReader})
        /\ atQueue' \in [Readers -> Int]
        /\ notified' \in [Readers -> BOOLEAN]
    BY <1>4, RequestType DEF Notify
  <2>. QED  BY ZenonT(120), <1>4, <2>1 DEF Notify, ClientAt
<1>5. ASSUME NEW r \in Readers, IncSeek(r) PROVE TypeOK'
  <2>1. Nothing \in Helds
    BY DEF Nothing, NoBytes, Helds, Blocks
  <2>2. file[r].pos - got[r] \in Int
    BY DEF Files
  <2>3. file' \in [Readers -> Files] /\ \A s \in Readers : file'[s].part \in 1..NParts(s)
    BY <1>5, <2>2, SeekType DEF IncSeek
  <2>. QED  BY <1>5, <2>1, <2>3 DEF IncSeek, SeekDone, ClientAt
<1>6. ASSUME NEW r \in Readers, DeleteCall(r) PROVE TypeOK'
  BY ZenonT(120), <1>6 DEF DeleteCall, ClientAt
<1>7. ASSUME NEW r \in Readers, NEW pos \in GotoTo[r], GotoByte(r, pos) PROVE TypeOK'
  <2>1. pos \in Nat
    BY BufferedReaderAssumption
  <2>2. file' \in [Readers -> Files] /\ \A s \in Readers : file'[s].part \in 1..NParts(s)
    BY SMTT(30), <1>7, <2>1, SeekType DEF GotoByte
  <2>3. size' \in [Readers -> 1..BlockSize]
    BY <1>7, <2>1, AlignedSize DEF GotoByte
  <2>. QED  BY <1>7, <2>1, <2>2, <2>3 DEF GotoByte, SeekDone, ClientAt
<1>8. CASE ReadTake
  <2>1. cid \in Readers
    BY <1>8 DEF ReadTake, ClientAt
  <2>2. bufIndex[cid] \in {0, 1} /\ buf[cid][bufIndex[cid]] \in Blocks
    BY <2>1
  <2>3. TakenSize(cid) \in Nat
    BY <2>1 DEF TakenSize
  <2>4. [idx |-> bufIndex[cid], n |-> TakenSize(cid), first |-> firstBlock[cid],
         blk |-> buf[cid][bufIndex[cid]]] \in Helds
    BY <2>1, <2>2, <2>3 DEF Helds
  <2>5. held' \in [Readers -> Helds]
    BY <1>8, <2>4 DEF ReadTake
  <2>6. got' \in [Readers -> Int]
    BY <1>8, <2>1, <2>2 DEF ReadTake, Blocks
  <2>7. OtherBlock(bufIndex[cid]) \in {0, 1}
    BY <2>2 DEF OtherBlock
  <2>8. bufIndex' \in [Readers -> {0, 1}]
    BY <1>8, <2>7 DEF ReadTake
  <2>9. told' \in [Readers -> Nat]
    BY <1>8, <2>1 DEF ReadTake
  <2>. QED  BY SMTT(40), <1>8, <2>1, <2>5, <2>6, <2>8, <2>9 DEF ReadTake, ClientAt
<1>9. CASE ReadDone
  BY <1>9 DEF ReadDone, ClientAt
<1>10. CASE DeleteReader
  <2>1. Nothing \in Helds
    BY DEF Nothing, NoBytes, Helds, Blocks
  <2>. QED  BY ZenonT(120), <1>10, <2>1 DEF DeleteReader, ClientAt
<1>11. CASE Terminate
  BY ZenonT(120), <1>11 DEF Terminate, Ending, ClientAt
<1>12. CASE PushSentinel
  <2>1. queue' \in Seq(Readers \cup {NoReader})
    BY <1>12, PushType DEF PushSentinel
  <2>. QED  BY SMTT(30), <1>12, <2>1 DEF PushSentinel, Ending, ClientAt
<1>13. CASE Join
  <2>1. Nothing \in Helds
    BY DEF Nothing, NoBytes, Helds, Blocks
  <2>. QED  BY <1>13, <2>1 DEF Join, Ending, ClientAt
<1>. QED  BY <1>1, <1>2, <1>3, <1>4, <1>5, <1>6, <1>7, <1>8, <1>9, <1>10, <1>11, <1>12, <1>13
          DEF Client

(* Every variable keeps its type in every behaviour of the read-ahead.     *)
THEOREM TypeCorrect == Spec => []TypeOK
<1>1. TypeOK /\ [Next]_vars => TypeOK'
  <2>1. ASSUME TypeOK, UNCHANGED vars PROVE TypeOK'
    BY SMTT(30), <2>1 DEF vars, TypeOK
  <2>. QED  BY <2>1, ThreadTypeOK, ClientTypeOK DEF Next, Ended
<1>. QED  BY <1>1, InitTypeOK, PTL DEF Spec

-----------------------------------------------------------------------------
(* The life of a reader *)

(* A queue holds a number of requests of each reader.                      *)
LEMMA WaitingNat ==
  ASSUME NEW r
  PROVE  TypeOK => Waiting(queue, r) \in Nat
  BY OccFinite DEF TypeOK, Waiting

(* A request adds itself to the queue, or nothing when the queue is full,  *)
(* and is counted in either case.                                          *)
LEMMA RequestWaiting ==
  ASSUME TypeOK, NEW r \in Readers, Request(r), NEW s \in Readers
  PROVE  /\ Waiting(queue', s) <= Waiting(queue, s) + IF s = r THEN 1 ELSE 0
         /\ atQueue'[s] = atQueue[s] + IF s = r THEN 1 ELSE 0
<1>1. queue \in Seq(Readers \cup {NoReader}) /\ atQueue \in [Readers -> Int]
  BY DEF TypeOK
<1>2. Waiting(queue, s) \in Nat
  BY WaitingNat
<1>3. queue' = queue \/ queue' = Append(queue, r)
  BY DEF Request, Push
<1>4. Waiting(Append(queue, r), s) = Waiting(queue, s) + IF s = r THEN 1 ELSE 0
  BY <1>1, OccAppend DEF Waiting
<1>5. Waiting(queue', s) <= Waiting(queue, s) + IF s = r THEN 1 ELSE 0
  <2>1. Waiting(queue', s) \in {Waiting(queue, s), Waiting(Append(queue, r), s)}
    BY <1>3, Zenon
  <2>. QED  BY <1>2, <1>4, <2>1
<1>6. atQueue'[s] = atQueue[s] + IF s = r THEN 1 ELSE 0
  BY <1>1 DEF Request
<1>. QED  BY <1>5, <1>6

(* At the start nothing is queued and no reader is in the thread's hand.   *)
LEMMA LifeInit == Init => LifeInv
<1> SUFFICES ASSUME Init PROVE LifeInv
  OBVIOUS
<1>1. \A r \in Readers : Waiting(queue, r) = 0
  <2> TAKE r \in Readers
  <2>1. Occ(queue, r) = {}
    BY EmptySeq DEF Init, Occ
  <2>. QED  BY <2>1, FS_EmptySet DEF Waiting
<1>2. \A r \in Readers : InHand(r) = 0 /\ atQueue[r] = 0
  BY DEF Init, InHand, InService
<1>3. CountInv /\ FreedInv
  BY <1>1, <1>2 DEF CountInv, FreedInv
<1>4. ServiceInv /\ ReadingInv /\ CallInv /\ EndInv
  BY DEF Init, ServiceInv, ReadingInv, CallInv, EndInv, InService, InCall, Locked, Reading
<1>. QED  BY <1>3, <1>4 DEF LifeInv

(* The steps of the thread while it serves a reader, but for the last.     *)
LEMMA ServingLife ==
  ASSUME TypeOK, LifeInv, 
         tpc \in InService, tpc' \in InService,
         tpc' \in Reading => tpc \in Reading \/ ~deleted[tid],
         tpc' \in Locked => mtx' = "thread",
         UNCHANGED <<tid, queue, atQueue, life, deleted, cpc, cid>>
  PROVE  LifeInv'
<1>1. \A r \in Readers : InHand(r)' = InHand(r)
  BY DEF InHand
<1>2. CountInv' /\ FreedInv'
  BY <1>1 DEF LifeInv, CountInv, FreedInv
<1>3. ServiceInv' /\ CallInv'
  BY DEF LifeInv, ServiceInv, CallInv
<1>4. ReadingInv'
  BY DEF LifeInv, ReadingInv
<1>5. EndInv'
  BY DEF LifeInv, EndInv, InService
<1>. QED  BY <1>2, <1>3, <1>4, <1>5 DEF LifeInv

(* Every step of the reading thread keeps the life of the readers.         *)
LEMMA ThreadLife == TypeOK /\ LifeInv /\ Thread => LifeInv'
<1> SUFFICES ASSUME TypeOK, LifeInv, Thread PROVE LifeInv'
  OBVIOUS
<1> USE DEF InService, Locked, Reading
<1>1. CASE LoopTest
  <2>1. /\ tpc = "top" /\ tpc' \in {"done", "pop"}
        /\ UNCHANGED <<tid, queue, atQueue, life, deleted, cpc, cid>>
    BY <1>1 DEF LoopTest, Moving, ThreadAt
  <2>2. \A r \in Readers : InHand(r) = 0 /\ InHand(r)' = 0
    BY <2>1 DEF InHand
  <2>3. CountInv' /\ FreedInv'
    BY <2>1, <2>2 DEF LifeInv, CountInv, FreedInv
  <2>4. ServiceInv' /\ ReadingInv' /\ CallInv' /\ EndInv'
    BY <2>1 DEF LifeInv, ServiceInv, ReadingInv, CallInv, EndInv
  <2>. QED  BY <2>3, <2>4 DEF LifeInv
<1>2. CASE Pop
  <2>1. /\ tpc = "pop" /\ queue # <<>> /\ queue' = Tail(queue)
        /\ tpc' \in {"done", "get"} /\ (tpc' = "get" => tid' = Head(queue))
        /\ UNCHANGED <<atQueue, life, deleted, cpc, cid>>
    BY <1>2 DEF Pop, Moving, ThreadAt
  <2>2. \A r \in Readers : /\ Waiting(queue', r) \in Nat /\ InHand(r)' \in {0, 1}
                           /\ InHand(r) = 0
                           /\ Waiting(queue, r) >= Waiting(queue', r) + InHand(r)'
    <3> TAKE r \in Readers
    <3>1. Waiting(queue, r) = Waiting(queue', r) + IF Head(queue) = r THEN 1 ELSE 0
      BY <2>1, OccTail DEF TypeOK, Waiting
    <3>2. Waiting(queue', r) \in Nat
      BY <2>1, OccFinite, HeadTailProperties DEF TypeOK, Waiting
    <3>3. InHand(r)' \in {0, 1} /\ (InHand(r)' = 1 => Head(queue) = r)
      BY <2>1 DEF InHand
    <3>4. InHand(r) = 0
      BY <2>1 DEF InHand
    <3>. QED  BY <3>1, <3>2, <3>3, <3>4
  <2>3. CountInv'
    <3>1. \A r \in Readers : atQueue[r] \in Int /\ Waiting(queue, r) \in Nat
      BY WaitingNat DEF TypeOK
    <3>2. \A r \in Readers : atQueue[r] >= Waiting(queue, r) + InHand(r)
      BY DEF LifeInv, CountInv
    <3>3. \A r \in Readers : atQueue[r] >= Waiting(queue', r) + InHand(r)'
      BY <2>2, <3>1, <3>2
    <3>. QED  BY <2>1, <3>3 DEF CountInv
  <2>4. FreedInv'
    <3> SUFFICES ASSUME NEW r \in Readers, life[r] # "live", cpc # "end"
                 PROVE  Waiting(queue', r) = 0 /\ InHand(r)' = 0
      BY <2>1 DEF FreedInv
    <3>1. Waiting(queue, r) = 0
      BY DEF LifeInv, FreedInv
    <3>. QED  BY <2>2, <3>1
  <2>5. ServiceInv' /\ ReadingInv' /\ CallInv' /\ EndInv'
    BY <2>1 DEF LifeInv, ServiceInv, ReadingInv, CallInv, EndInv
  <2>. QED  BY <2>3, <2>4, <2>5 DEF LifeInv
<1>3. CASE GetReader
  <2>1. /\ tpc = "get" /\ tpc' \in {"begin", "top"} /\ (tpc' = "begin" => life[tid] = "live")
        /\ (tid \in Readers /\ life[tid] = "live" => tpc' = "begin")
        /\ UNCHANGED <<tid, queue, atQueue, life, deleted, cpc, cid>>
    BY <1>3 DEF GetReader, Moving, ThreadAt
  <2>2. \A r \in Readers : /\ InHand(r)' \in {0, 1} /\ InHand(r) \in {0, 1}
                           /\ InHand(r)' <= InHand(r)
                           /\ Waiting(queue, r) \in Nat /\ atQueue[r] \in Int
    <3> TAKE r \in Readers
    <3>1. InHand(r) = IF r = tid THEN 1 ELSE 0
      BY <2>1 DEF InHand
    <3>2. InHand(r)' = IF r = tid /\ tpc' = "begin" THEN 1 ELSE 0
      BY <2>1 DEF InHand
    <3>3. Waiting(queue, r) \in Nat /\ atQueue[r] \in Int
      BY WaitingNat DEF TypeOK
    <3>. QED  BY <3>1, <3>2, <3>3
  <2>3. CountInv'
    <3>1. \A r \in Readers : atQueue[r] >= Waiting(queue, r) + InHand(r)
      BY DEF LifeInv, CountInv
    <3>2. \A r \in Readers : atQueue[r] >= Waiting(queue, r) + InHand(r)'
      BY <2>2, <3>1
    <3>. QED  BY <2>1, <3>2 DEF CountInv
  <2>4. FreedInv'
    <3> SUFFICES ASSUME NEW r \in Readers, life[r] # "live", cpc # "end"
                 PROVE  Waiting(queue, r) = 0 /\ InHand(r)' = 0
      BY <2>1 DEF FreedInv
    <3>1. Waiting(queue, r) = 0 /\ InHand(r) = 0
      BY DEF LifeInv, FreedInv
    <3>. QED  BY <2>2, <3>1
  <2>5. ServiceInv' /\ ReadingInv' /\ CallInv' /\ EndInv'
    BY <2>1 DEF LifeInv, ServiceInv, ReadingInv, CallInv, EndInv
  <2>. QED  BY <2>3, <2>4, <2>5 DEF LifeInv
<1>4. CASE ChooseBlock
  BY <1>4, ServingLife DEF ChooseBlock, Moving, ThreadAt
<1>5. CASE LockProcess
  BY <1>5, ServingLife DEF LockProcess, Moving, ThreadAt
<1>6. CASE Read
  BY <1>6, ServingLife DEF Read, Filling, ThreadAt, LifeInv, ReadingInv
<1>7. CASE NoNextPart
  BY <1>7, ServingLife DEF NoNextPart, Filling, ThreadAt, LifeInv, ReadingInv
<1>8. CASE NextPart
  BY <1>8, ServingLife DEF NextPart, OpenAndRead, Filling, ThreadAt, LifeInv, ReadingInv
<1>9. CASE SkipEmptyPart
  BY <1>9, ServingLife DEF SkipEmptyPart, OpenAndRead, Filling, ThreadAt, LifeInv, ReadingInv
<1>10. CASE EmptyToTheEnd
  BY <1>10, ServingLife DEF EmptyToTheEnd, Filling, ThreadAt, LifeInv, ReadingInv
<1>11. CASE ResetSize
  BY <1>11, ServingLife DEF ResetSize, ThreadAt, LifeInv, ReadingInv
<1>12. CASE HandOver
  BY <1>12, ServingLife DEF HandOver, ThreadAt, LifeInv, ReadingInv
<1>13. CASE UnlockProcess
  BY <1>13, ServingLife DEF UnlockProcess, Moving, ThreadAt
<1>14. CASE Served
  <2>1. /\ tpc = "fin" /\ tpc' = "top" /\ tid \in Readers
        /\ atQueue' = [atQueue EXCEPT ![tid] = @ - 1]
        /\ life' = IF deleted[tid] /\ LastRequest(tid) THEN [life EXCEPT ![tid] = "freed"] ELSE life
        /\ UNCHANGED <<tid, queue, deleted, cpc, cid>>
    BY <1>14 DEF Served, ThreadAt, TypeOK
  <2>2. \A r \in Readers : /\ InHand(r) = IF r = tid THEN 1 ELSE 0
                           /\ InHand(r)' = 0
                           /\ atQueue'[r] = atQueue[r] - InHand(r)
                           /\ Waiting(queue, r) \in Nat /\ atQueue[r] \in Int
    <3> TAKE r \in Readers
    <3>1. InHand(r) = IF r = tid THEN 1 ELSE 0
      BY <2>1 DEF InHand
    <3>2. InHand(r)' = 0
      BY <2>1 DEF InHand
    <3>3. Waiting(queue, r) \in Nat /\ atQueue \in [Readers -> Int]
      BY WaitingNat DEF TypeOK
    <3>4. atQueue'[r] = atQueue[r] - IF r = tid THEN 1 ELSE 0
      BY <2>1, <3>3
    <3>. QED  BY <3>1, <3>2, <3>3, <3>4
  <2>3. \A r \in Readers : atQueue[r] >= Waiting(queue, r) + InHand(r)
    BY DEF LifeInv, CountInv
  <2>4. CountInv'
    <3>1. \A r \in Readers : atQueue'[r] >= Waiting(queue, r) + InHand(r)'
      BY <2>2, <2>3
    <3>. QED  BY <2>1, <3>1 DEF CountInv
  <2>5. FreedInv'
    <3> SUFFICES ASSUME NEW r \in Readers, life'[r] # "live", cpc # "end"
                 PROVE  Waiting(queue, r) = 0 /\ InHand(r)' = 0
      BY <2>1 DEF FreedInv
    <3>1. CASE life[r] # "live"
      BY <2>2, <3>1 DEF LifeInv, FreedInv
    <3>2. CASE life[r] = "live"
      <4>1. r = tid /\ atQueue[r] = 1
        BY <2>1, <3>2 DEF LastRequest, TypeOK
      <4>. QED  BY <2>2, <2>3, <4>1
    <3>. QED  BY <3>1, <3>2
  <2>6. CallInv'
    <3> SUFFICES ASSUME cpc \in InCall
                 PROVE  life'[cid] = "live" /\ ~deleted[cid]
      BY <2>1 DEF CallInv
    <3>1. life[cid] = "live" /\ ~deleted[cid] /\ cid \in Readers
      BY DEF LifeInv, CallInv, TypeOK
    <3>2. life' # life => cid # tid
      BY <2>1, <3>1
    <3>. QED  BY <2>1, <3>1, <3>2 DEF TypeOK
  <2>7. ServiceInv' /\ ReadingInv' /\ EndInv'
    BY <2>1 DEF LifeInv, ServiceInv, ReadingInv, EndInv
  <2>. QED  BY <2>4, <2>5, <2>6, <2>7 DEF LifeInv
<1>. QED  BY <1>1, <1>2, <1>3, <1>4, <1>5, <1>6, <1>7, <1>8, <1>9, <1>10, <1>11, <1>12, <1>13, <1>14
          DEF Thread

(* The calls that leave the requests and the thread alone, and no reader   *)
(* less alive.                                                             *)
LEMMA QuietLife ==
  ASSUME TypeOK, LifeInv,
         cpc \notin {"end"}, cpc' # "end",
         UNCHANGED <<tpc, tid, mtx, queue, atQueue, life, deleted>>,
         cpc' \in InCall => life[cid'] = "live" /\ ~deleted[cid']
  PROVE  LifeInv'
<1>1. \A r \in Readers : InHand(r)' = InHand(r)
  BY DEF InHand
<1>2. CountInv' /\ FreedInv'
  BY <1>1 DEF LifeInv, CountInv, FreedInv
<1>3. ServiceInv' /\ ReadingInv' /\ CallInv' /\ EndInv'
  BY DEF LifeInv, ServiceInv, ReadingInv, CallInv, EndInv
<1>. QED  BY <1>2, <1>3 DEF LifeInv

(* A request for a block of a reader that is in use keeps the life of all. *)
LEMMA RequestLife ==
  ASSUME TypeOK, LifeInv, NEW r \in Readers, InUse(r), Request(r),
         cpc # "end", cpc' # "end",
         UNCHANGED <<tpc, tid, mtx, life, deleted>>,
         cpc' \in InCall => life[cid'] = "live" /\ ~deleted[cid']
  PROVE  LifeInv'
<1>1. \A s \in Readers : InHand(s)' = InHand(s) /\ InHand(s) \in {0, 1}
  BY DEF InHand
<1>2. \A s \in Readers : atQueue[s] \in Int /\ Waiting(queue, s) \in Nat
  BY WaitingNat DEF TypeOK
<1>3. queue' \in Seq(Readers \cup {NoReader})
  BY RequestType
<1>4. \A s \in Readers : Waiting(queue', s) \in Nat
  BY <1>3, OccFinite DEF Waiting
<1>5. \A s \in Readers : /\ Waiting(queue', s) <= Waiting(queue, s) + IF s = r THEN 1 ELSE 0
                         /\ atQueue'[s] = atQueue[s] + IF s = r THEN 1 ELSE 0
  BY RequestWaiting
<1>6. CountInv'
  <2>1. \A s \in Readers : atQueue[s] >= Waiting(queue, s) + InHand(s)
    BY DEF LifeInv, CountInv
  <2>2. \A s \in Readers : atQueue'[s] >= Waiting(queue', s) + InHand(s)'
    BY <1>1, <1>2, <1>4, <1>5, <2>1
  <2>. QED  BY <2>2 DEF CountInv
<1>7. FreedInv'
  <2> SUFFICES ASSUME NEW s \in Readers, life[s] # "live"
               PROVE  Waiting(queue', s) = 0 /\ InHand(s)' = 0
    BY DEF FreedInv
  <2>1. s # r
    BY DEF InUse
  <2>2. Waiting(queue, s) = 0 /\ InHand(s) = 0
    BY DEF LifeInv, FreedInv
  <2>. QED  BY <1>1, <1>4, <1>5, <2>1, <2>2
<1>8. ServiceInv' /\ ReadingInv' /\ CallInv' /\ EndInv'
  BY DEF LifeInv, ServiceInv, ReadingInv, CallInv, EndInv
<1>. QED  BY <1>6, <1>7, <1>8 DEF LifeInv

(* Every step of the client keeps the life of the readers.                 *)
LEMMA ClientLife == TypeOK /\ LifeInv /\ Client => LifeInv'
<1> SUFFICES ASSUME TypeOK, LifeInv, Client PROVE LifeInv'
  OBVIOUS
<1>1. ASSUME NEW r \in Readers, CreateReader(r) PROVE LifeInv'
  <2>1. /\ life[r] = "none" /\ life' = [life EXCEPT ![r] = "live"] /\ cpc = "idle"
        /\ (tpc' = tpc \/ (tpc = "off" /\ tpc' = "top"))
        /\ UNCHANGED <<tid, mtx, queue, atQueue, deleted, cpc, cid>>
    BY <1>1 DEF CreateReader
  <2>2. \A s \in Readers : InHand(s)' = InHand(s)
    BY <2>1 DEF InHand, InService
  <2>3. \A s \in Readers : life'[s] = IF s = r THEN "live" ELSE life[s]
    BY <2>1 DEF TypeOK
  <2>4. CountInv' /\ FreedInv'
    BY <2>1, <2>2, <2>3 DEF LifeInv, CountInv, FreedInv
  <2>5. ServiceInv' /\ ReadingInv' /\ CallInv' /\ EndInv'
    BY <2>1, <2>3 DEF LifeInv, ServiceInv, ReadingInv, CallInv, EndInv, InCall, InService, Locked, Reading, TypeOK
  <2>. QED  BY <2>4, <2>5 DEF LifeInv
<1>2. ASSUME NEW r \in Readers, OpenStream(r) PROVE LifeInv'
  BY <1>2, QuietLife DEF OpenStream, ClientAt, InCall
<1>3. ASSUME NEW r \in Readers, ReadRequest(r) PROVE LifeInv'
  <2>1. /\ InUse(r) /\ cpc = "idle" /\ cpc' = "wait" /\ cid' = r
        /\ UNCHANGED <<tpc, tid, mtx, life, deleted>>
    BY <1>3 DEF ReadRequest, Readable, ClientAt
  <2>2. CASE UNCHANGED askVars
    BY <2>1, <2>2, QuietLife DEF InUse
  <2>3. CASE Request(r)
    BY <2>1, <2>3, RequestLife DEF InUse
  <2>. QED  BY <1>3, <2>2, <2>3 DEF ReadRequest
<1>4. ASSUME NEW r \in Readers, Notify(r) PROVE LifeInv'
  BY <1>4, RequestLife DEF Notify, Readable, ClientAt, InCall
<1>5. ASSUME NEW r \in Readers, IncSeek(r) PROVE LifeInv'
  BY <1>5, QuietLife DEF IncSeek, ClientAt, InCall
<1>6. ASSUME NEW r \in Readers, DeleteCall(r) PROVE LifeInv'
  BY <1>6, QuietLife DEF DeleteCall, ClientAt, InCall, InUse
<1>7. ASSUME NEW r \in Readers, NEW pos \in GotoTo[r], GotoByte(r, pos) PROVE LifeInv'
  BY <1>7, QuietLife DEF GotoByte, ClientAt, InCall
<1>8. CASE ReadTake
  BY <1>8, QuietLife DEF ReadTake, ClientAt, InCall, LifeInv, CallInv
<1>9. CASE ReadDone
  BY <1>9, QuietLife DEF ReadDone, ClientAt, InCall
<1>10. CASE DeleteReader
  <2>1. /\ cpc = "delete" /\ cpc' = "idle" /\ mtx = "free" /\ cid \in Readers
        /\ \/ /\ Outstanding(cid)
              /\ deleted' = [deleted EXCEPT ![cid] = TRUE] /\ life' = life
           \/ /\ ~Outstanding(cid)
              /\ life' = [life EXCEPT ![cid] = "freed"] /\ deleted' = deleted
        /\ UNCHANGED <<tpc, tid, mtx, queue, atQueue, cid>>
    BY <1>10 DEF DeleteReader, ProcessFree, ClientAt, TypeOK, InCall
  <2>2. tpc \notin Locked
    BY <2>1 DEF LifeInv, ReadingInv
  <2>3. \A r \in Readers : InHand(r)' = InHand(r) /\ InHand(r) \in {0, 1}
    BY <2>1 DEF InHand
  <2>4. ~Outstanding(cid) => Waiting(queue, cid) = 0 /\ InHand(cid) = 0
    <3>1. atQueue[cid] \in Int /\ Waiting(queue, cid) \in Nat
      BY <2>1, WaitingNat DEF TypeOK
    <3>2. atQueue[cid] >= Waiting(queue, cid) + InHand(cid)
      BY <2>1 DEF LifeInv, CountInv
    <3>. QED  BY <2>1, <2>3, <3>1, <3>2 DEF Outstanding
  <2>5. CountInv'
    BY <2>1, <2>3 DEF LifeInv, CountInv
  <2>6. FreedInv'
    <3> SUFFICES ASSUME NEW r \in Readers, life'[r] # "live"
                 PROVE  Waiting(queue, r) = 0 /\ InHand(r) = 0
      BY <2>1, <2>3 DEF FreedInv
    <3>1. CASE life[r] # "live"
      BY <2>1, <3>1 DEF LifeInv, FreedInv
    <3>2. CASE life[r] = "live"
      BY <2>1, <2>4, <3>2 DEF TypeOK
    <3>. QED  BY <3>1, <3>2
  <2>7. ServiceInv'
    <3> SUFFICES ASSUME tpc \in InService
                 PROVE  life'[tid] = "live"
      BY <2>1 DEF ServiceInv
    <3>1. tid \in Readers /\ InHand(tid) = 1 /\ life[tid] = "live"
      BY DEF InHand, LifeInv, ServiceInv, TypeOK
    <3>2. life' = life \/ cid # tid
      BY <2>1, <2>4, <3>1
    <3>. QED  BY <2>1, <3>1, <3>2 DEF TypeOK
  <2>8. ReadingInv' /\ CallInv' /\ EndInv'
    BY <2>1, <2>2 DEF LifeInv, ReadingInv, CallInv, EndInv, Locked, InCall
  <2>. QED  BY <2>5, <2>6, <2>7, <2>8 DEF LifeInv
<1>11. CASE Terminate
  BY <1>11, QuietLife DEF Terminate, Ending, ClientAt, InCall
<1>12. CASE PushSentinel
  <2>1. /\ cpc = "term" /\ cpc' = "join" /\ (queue' = queue \/ queue' = Append(queue, NoReader))
        /\ UNCHANGED <<tpc, tid, mtx, atQueue, life, deleted, cid>>
    BY <1>12 DEF PushSentinel, Push, Ending, ClientAt
  <2>2. \A r \in Readers : Waiting(queue', r) = Waiting(queue, r) /\ InHand(r)' = InHand(r)
    <3> TAKE r \in Readers
    <3>1. NoReader # r /\ NoReader \in Readers \cup {NoReader} /\ queue \in Seq(Readers \cup {NoReader})
      BY BufferedReaderAssumption DEF TypeOK
    <3>2. Waiting(Append(queue, NoReader), r) = Waiting(queue, r) + IF NoReader = r THEN 1 ELSE 0
      BY <3>1, OccAppend DEF Waiting
    <3>3. Waiting(queue, r) \in Nat
      BY WaitingNat
    <3>4. Waiting(Append(queue, NoReader), r) = Waiting(queue, r)
      BY <3>1, <3>2, <3>3
    <3>5. InHand(r)' = InHand(r)
      BY <2>1 DEF InHand
    <3>6. Waiting(queue', r) \in {Waiting(queue, r), Waiting(Append(queue, NoReader), r)}
      BY <2>1, Zenon
    <3>. QED  BY <3>4, <3>5, <3>6
  <2>3. CountInv' /\ FreedInv'
    BY <2>1, <2>2 DEF LifeInv, CountInv, FreedInv
  <2>4. ServiceInv' /\ ReadingInv' /\ CallInv' /\ EndInv'
    BY <2>1 DEF LifeInv, ServiceInv, ReadingInv, CallInv, EndInv, InCall
  <2>. QED  BY <2>3, <2>4 DEF LifeInv
<1>13. CASE Join
  <2>1. /\ cpc' = "end" /\ tpc \in {"off", "done"}
        /\ UNCHANGED <<tpc, tid, mtx, queue, atQueue, deleted>>
    BY <1>13 DEF Join, Ending, ClientAt
  <2>2. \A r \in Readers : InHand(r)' = InHand(r)
    BY <2>1 DEF InHand
  <2>3. CountInv'
    BY <2>1, <2>2 DEF LifeInv, CountInv
  <2>4. FreedInv' /\ ServiceInv' /\ ReadingInv' /\ CallInv' /\ EndInv'
    BY <2>1 DEF FreedInv, ServiceInv, ReadingInv, CallInv, EndInv, InCall, InService, Locked, Reading
  <2>. QED  BY <2>3, <2>4 DEF LifeInv
<1>. QED  BY <1>1, <1>2, <1>3, <1>4, <1>5, <1>6, <1>7, <1>8, <1>9, <1>10, <1>11, <1>12, <1>13
          DEF Client

-----------------------------------------------------------------------------
(* The theorems about a reader's life *)

(* m_atQueue never falls below the requests there are, and with it the     *)
(* other parts of LifeInv hold in every behaviour.                         *)
THEOREM LifeCorrect == Spec => []LifeInv
<1>1. TypeOK /\ LifeInv /\ [Next]_vars => LifeInv'
  <2>1. ASSUME TypeOK, LifeInv, UNCHANGED vars PROVE LifeInv'
    <3>1. /\ UNCHANGED <<tpc, tid, mtx, queue, atQueue, life, deleted, cpc, cid>>
          /\ \A r \in Readers : InHand(r)' = InHand(r)
      BY <2>1 DEF vars, InHand
    <3>. QED  BY <2>1, <3>1 DEF LifeInv, CountInv, FreedInv, ServiceInv, ReadingInv, CallInv, EndInv
  <2>. QED  BY <2>1, ThreadLife, ClientLife DEF Next, Ended
<1>. QED  BY <1>1, LifeInit, TypeCorrect, PTL DEF Spec

(* No step uses a ReaderData after it was deleted: neither the thread that *)
(* got its pointer before deleteReader ran, nor the client in a call, nor a *)
(* request still queued.                                                   *)
THEOREM ReadersNotUsedAfterFree == Spec => []NoUseAfterFree
<1>1. TypeOK /\ LifeInv => NoUseAfterFree
  <2> SUFFICES ASSUME TypeOK, LifeInv PROVE NoUseAfterFree
    OBVIOUS
  <2>1. /\ tpc \in InService => life[tid] = "live"
        /\ cpc \in {"wait", "took"} => life[cid] = "live"
    BY DEF LifeInv, ServiceInv, CallInv, InCall
  <2>2. ASSUME NEW r \in Readers, life[r] = "freed", cpc # "end" PROVE Occ(queue, r) = {}
    <3>1. Waiting(queue, r) = 0
      BY <2>2 DEF LifeInv, FreedInv
    <3>2. IsFiniteSet(Occ(queue, r))
      BY OccFinite DEF TypeOK
    <3>. QED  BY <3>1, <3>2, FS_EmptySet DEF Waiting
  <2>. QED  BY <2>1, <2>2 DEF NoUseAfterFree
<1>. QED  BY <1>1, TypeCorrect, LifeCorrect, PTL

(* While the thread reads and advances the file iterator, the reader is    *)
(* not deleted: the caller may free the iterator after deleteReader.       *)
THEOREM IteratorNotUsedAfterFree == Spec => []IteratorAlive
<1>1. LifeInv => IteratorAlive
  BY DEF LifeInv, ServiceInv, ReadingInv, IteratorAlive, InService, Reading
<1>. QED  BY <1>1, LifeCorrect, PTL
-----------------------------------------------------------------------------
(* The end of a join *)

(* The joins of regular files, read from their start: the sources of short *)
(* reads, of a scan and of an offset are not joined.                       *)
PlainJoins == \A r \in Joined : r \notin Pipes \cup Rescanned /\ GotoTo[r] = {}

(* Where the file f of reader r is: in the part its iterator names, or at  *)
(* the end of the last part when there is no further name; e is m_eof.     *)
Placed(r, f, e) ==
  /\ f.pos <= PartEnd[r][f.part]
  /\ \/ f.open /\ f.itr = f.part
     \/ f.itr > NParts(r) /\ f.part = NParts(r) /\ f.pos = Total(r)
  /\ e => f.itr > NParts(r)

JoinInv(r) ==
  /\ ~scanning[r] /\ size[r] = BlockSize /\ file[r].itr >= 1
  /\ file[r] = Closed => ~eof[r]
  /\ ~failed[r] /\ file[r] # Closed =>
       /\ Placed(r, file[r], eof[r])
       /\ tid = r /\ tpc \in {"part", "more"} => file[r].pos = PartEnd[r][file[r].part]
       /\ tid = r /\ tpc = "size" /\ tn = 0 => file[r].itr > NParts(r)

\* Nothing is asked of a join that was not opened.
AskInv ==
  /\ \A i \in 1..Len(queue) : queue[i] \in Joined => file[queue[i]] # Closed
  /\ tpc \in InService \cup {"get"} /\ tid \in Joined => file[tid] # Closed

EndOfJoin == AskInv /\ \A r \in Joined : JoinInv(r)

(* The parts of a source follow one another.                               *)
LEMMA PartsFollow ==
  ASSUME NEW r \in Readers, NEW i \in 1..NParts(r)
  PROVE  /\ PartStart(r, i) \in Int /\ PartEnd[r][i] \in Int
         /\ PartStart(r, i) <= PartEnd[r][i]
         /\ NParts(r) \in Nat /\ NParts(r) \in 1..NParts(r)
<1>1. PartEnd[r] \in Seq(Nat) /\ Len(PartEnd[r]) \in Nat /\ Len(PartEnd[r]) > 0
  BY BufferedReaderAssumption, LenProperties
<1>2. \A j \in 1..Len(PartEnd[r]) : PartEnd[r][j] \in Nat
  BY <1>1, ElementOfSeq
<1>3. \A j \in 1..Len(PartEnd[r]) - 1 : PartEnd[r][j] <= PartEnd[r][j + 1]
  BY BufferedReaderAssumption
<1>4. i = 1 \/ (i - 1 \in 1..Len(PartEnd[r]) - 1 /\ (i - 1) + 1 = i)
  BY <1>1 DEF NParts
<1>5. PartStart(r, i) <= PartEnd[r][i]
  BY <1>1, <1>2, <1>3, <1>4 DEF PartStart, NParts
<1>. QED  BY <1>1, <1>5, PartStartType DEF NParts

(* A read that fails is recorded; any other leaves the file in its part,   *)
(* and at the end of it when it gave less than a block.                    *)
LEMMA ReadStaysInPart ==
  ASSUME TypeOK, NEW r \in Joined, r \notin Pipes, tid = r,
         NEW f \in Files, f.part \in 1..NParts(r), NEW e, Placed(r, f, e),
         NEW n \in ReadResults(r, f, BlockSize), ReadInto(r, f, n), ~failed'[r]
  PROVE  /\ file'[r] = [f EXCEPT !.pos = file'[r].pos]
         /\ Placed(r, file'[r], e)
         /\ n < BlockSize => file'[r].pos = PartEnd[r][f.part]
<1>1. /\ r \in Readers /\ BlockSize \in Nat \ {0} /\ n \in Int
      /\ PartEnd[r][f.part] \in Int /\ NParts(r) \in Nat /\ f.pos \in Int /\ f.itr \in Nat
  <2>1. r \in Readers /\ BlockSize \in Nat \ {0} /\ BlockSize \in Int
    BY BufferedReaderAssumption
  <2>2. n \in Int
    BY <2>1, ReadResultType
  <2>3. PartEnd[r][f.part] \in Int /\ NParts(r) \in Nat
    BY <2>1, PartsFollow
  <2>4. f.pos \in Int /\ f.itr \in Nat
    BY DEF Files
  <2>. QED  BY <2>1, <2>2, <2>3, <2>4
<1>2. n < 0 => ~f.open
  BY <1>1 DEF ReadInto, TypeOK
<1>3. f.open => n = (IF PartEnd[r][f.part] - f.pos < BlockSize THEN PartEnd[r][f.part] - f.pos ELSE BlockSize)
  BY <1>1, <1>2 DEF ReadResults
<1>4. ~f.open => n = -1
  BY DEF ReadResults
<1>5. file'[r] = IF n > 0 THEN [f EXCEPT !.pos = f.pos + n] ELSE f
  BY <1>1 DEF ReadInto, TypeOK
<1>6. CASE ~f.open
  BY <1>1, <1>4, <1>5, <1>6 DEF Placed, Total, Files
<1>7. CASE f.open
  <2>1. file'[r].pos <= PartEnd[r][f.part] /\ (n < BlockSize => file'[r].pos = PartEnd[r][f.part])
    BY <1>1, <1>3, <1>5, <1>7 DEF Placed, Files
  <2>2. /\ file'[r] = [f EXCEPT !.pos = file'[r].pos]
        /\ file'[r].part = f.part /\ file'[r].itr = f.itr /\ file'[r].open = f.open
    BY <1>5 DEF Files
  <2>3. ASSUME f.pos = Total(r), f.part = NParts(r) PROVE file'[r].pos = Total(r)
    BY <1>1, <1>3, <1>5, <1>7, <2>3 DEF Total
  <2>. QED  BY <2>1, <2>2, <2>3 DEF Placed
<1>. QED  BY <1>6, <1>7

(* Nothing of r moves in a step that leaves its file, and the reading      *)
(* thread away from it or where it was.                                    *)
LEMMA JoinQuiet ==
  ASSUME NEW r \in Joined, JoinInv(r),
         scanning'[r] = scanning[r], size'[r] = size[r], file'[r] = file[r], eof'[r] = eof[r],
         failed'[r] = failed[r],
         (tid' = r /\ tpc' \in {"part", "more", "size"}) => UNCHANGED <<tid, tpc, tn>>
  PROVE  JoinInv(r)' /\ (file[r] # Closed => file'[r] # Closed)
BY DEF JoinInv, Placed, Total, NParts

(* A part that is opened is read from its start, and the name after the    *)
(* last part ends the list: what Placed says of the file AtPart leaves.    *)
LEMMA PlacedAtPart ==
  ASSUME TypeOK, NEW r \in Joined, NEW i \in Nat, Opens(r, i)
  PROVE  /\ AtPart(r, i) \in Files /\ AtPart(r, i).part \in 1..NParts(r)
         /\ AtPart(r, i).itr = i /\ AtPart(r, i).open
         /\ Placed(r, AtPart(r, i), FALSE)
<1>1. r \in Readers /\ i \in 1..NParts(r)
  BY BufferedReaderAssumption DEF Opens
<1>2. AtPart(r, i) = [part |-> i, itr |-> i, pos |-> PartStart(r, i), open |-> TRUE]
  BY DEF AtPart
<1>3. AtPart(r, i).part = i /\ AtPart(r, i).itr = i /\ AtPart(r, i).open
      /\ AtPart(r, i).pos = PartStart(r, i)
  BY <1>2
<1>4. PartStart(r, i) <= PartEnd[r][i]
  BY <1>1, PartsFollow
<1>5. AtPart(r, i) \in Files /\ AtPart(r, i).part \in 1..NParts(r)
  BY <1>1, AtPartType
<1>. QED  BY <1>3, <1>4, <1>5 DEF Placed

(* A part opened and read from at once: the thread is in it, or at the end *)
(* of an empty one.                                                        *)
LEMMA JoinOpens ==
  ASSUME TypeOK, NEW r \in Joined, r \notin Pipes, tid = r, JoinInv(r), file[r] # Closed,
         Opens(r, file[r].itr + 1), OpenAndRead(file[r].itr + 1),
         UNCHANGED <<tid, scanning, size, eof>>
  PROVE  JoinInv(r)' /\ file'[r] # Closed
<1> DEFINE i == file[r].itr + 1
           f == AtPart(r, i)
<1>1. /\ r \in Readers /\ file[r].itr \in Nat /\ i \in Nat /\ i \in 1..NParts(r) /\ NParts(r) \in Nat
      /\ BlockSize \in Nat \ {0}
  BY BufferedReaderAssumption, PartsFollow DEF TypeOK, Files, Opens
<1>2. /\ f \in Files /\ f.part \in 1..NParts(r) /\ f.itr = i /\ f.open /\ Placed(r, f, FALSE)
  BY <1>1, PlacedAtPart
<1>3. PICK n \in ReadResults(r, f, BlockSize) :
        ReadInto(r, f, n) /\ tpc' = IF n = 0 THEN "more" ELSE "size"
  BY DEF OpenAndRead
<1> HIDE DEF f
<1>4. /\ file'[r] = IF n > 0 THEN [f EXCEPT !.pos = f.pos + n] ELSE f
      /\ tn' = n /\ (failed[r] => failed'[r])
  BY <1>1, <1>3 DEF ReadInto, TypeOK
<1>5. file'[r].itr = i /\ file'[r].open /\ file'[r] # Closed
  BY <1>2, <1>4 DEF Files, Closed
<1>6. ASSUME ~failed'[r]
      PROVE  /\ Placed(r, file'[r], eof[r])
             /\ n < BlockSize => file'[r].pos = PartEnd[r][f.part]
             /\ file'[r].part = f.part
  <2>1. ~eof[r]
    BY <1>1, <1>4, <1>6 DEF JoinInv, Placed
  <2>2. Placed(r, f, eof[r])
    BY <1>2, <2>1 DEF Placed
  <2>3. /\ file'[r] = [f EXCEPT !.pos = file'[r].pos]
        /\ Placed(r, file'[r], eof[r])
        /\ n < BlockSize => file'[r].pos = PartEnd[r][f.part]
    BY <1>2, <1>3, <1>6, <2>2, ReadStaysInPart
  <2>. QED  BY <1>2, <2>3 DEF Files
<1>7. /\ ~scanning'[r] /\ size'[r] = BlockSize /\ file'[r].itr >= 1
  BY <1>1, <1>5 DEF JoinInv
<1>8. ~failed'[r] => /\ Placed(r, file'[r], eof'[r])
                     /\ tpc' \in {"part", "more"} => file'[r].pos = PartEnd[r][file'[r].part]
                     /\ tpc' = "size" /\ tn' = 0 => file'[r].itr > NParts(r)
  <2> SUFFICES ASSUME ~failed'[r]
               PROVE  /\ Placed(r, file'[r], eof'[r])
                      /\ tpc' \in {"part", "more"} => file'[r].pos = PartEnd[r][file'[r].part]
                      /\ ~(tpc' = "size" /\ tn' = 0)
    OBVIOUS
  <2>1. Placed(r, file'[r], eof[r]) /\ eof' = eof
    BY <1>6
  <2>2. n = 0 => file'[r].pos = PartEnd[r][file'[r].part]
    BY <1>1, <1>6
  <2>. QED  BY <1>3, <1>4, <2>1, <2>2
<1>. QED  BY <1>5, <1>7, <1>8 DEF JoinInv, Placed, Total, NParts

(* A step of the thread keeps each join where its iterator says, and opens *)
(* none that was not opened.                                               *)
LEMMA ThreadJoins ==
  ASSUME PlainJoins, TypeOK, EndOfJoin, Thread, NEW r \in Joined
  PROVE  JoinInv(r)' /\ (file[r] # Closed => file'[r] # Closed)
<1>1. /\ r \in Readers /\ r \notin Pipes /\ JoinInv(r)
      /\ NParts(r) \in Nat /\ file[r] \in Files /\ file[r].itr \in Nat /\ file[r].part \in 1..NParts(r)
      /\ BlockSize \in Nat \ {0}
  BY BufferedReaderAssumption, PartsFollow DEF PlainJoins, EndOfJoin, TypeOK, Files
<1>2. tpc \in InService /\ tid = r => file[r] # Closed
  BY DEF EndOfJoin, AskInv
<1>3. CASE LoopTest \/ Pop \/ GetReader \/ ChooseBlock \/ LockProcess \/ HandOver \/ UnlockProcess \/ Served
  <2>1. UNCHANGED <<scanning, size, file, eof, failed>>
    BY <1>3 DEF LoopTest, Pop, GetReader, ChooseBlock, LockProcess, HandOver, UnlockProcess, Served,
                Moving, ThreadAt
  <2>2. tpc' \notin {"part", "more", "size"}
    BY <1>3 DEF LoopTest, Pop, GetReader, ChooseBlock, LockProcess, HandOver, UnlockProcess, Served
  <2>. QED  BY <1>1, <2>1, <2>2, JoinQuiet
<1>4. ASSUME Read \/ NoNextPart \/ NextPart \/ SkipEmptyPart \/ EmptyToTheEnd \/ ResetSize
      PROVE  /\ tpc \in InService /\ UNCHANGED <<tid, scanning>>
             /\ ~ResetSize => UNCHANGED size
  BY <1>4 DEF Read, NoNextPart, NextPart, SkipEmptyPart, EmptyToTheEnd, ResetSize, Filling, ThreadAt, InService
<1>5. ASSUME Read \/ NoNextPart \/ NextPart \/ SkipEmptyPart \/ EmptyToTheEnd \/ ResetSize, tid # r
      PROVE  JoinInv(r)' /\ (file[r] # Closed => file'[r] # Closed)
  <2>1. file'[r] = file[r] /\ failed'[r] = failed[r]
    BY <1>1, <1>5 DEF TypeOK, Read, NoNextPart, NextPart, SkipEmptyPart, EmptyToTheEnd, ResetSize,
                      OpenAndRead, ReadInto
  <2>2. eof'[r] = eof[r] /\ size'[r] = size[r]
    BY <1>1, <1>4, <1>5 DEF TypeOK, Read, NoNextPart, NextPart, SkipEmptyPart, EmptyToTheEnd, ResetSize
  <2>. QED  BY <1>1, <1>4, <1>5, <2>1, <2>2, JoinQuiet
<1>6. ASSUME Read, tid = r PROVE JoinInv(r)' /\ file'[r] # Closed
  <2>1. size[r] = BlockSize /\ file[r] # Closed /\ UNCHANGED <<eof, scanning, size, tid>>
    BY <1>1, <1>2, <1>4, <1>6 DEF JoinInv, Read, ResetSize, ThreadAt
  <2>2. PICK n \in ReadResults(r, file[r], BlockSize) :
          ReadInto(r, file[r], n) /\ tpc' = IF EndOfPart(r, n) THEN "part" ELSE "size"
    BY <1>6, <2>1 DEF Read
  <2>3. n \in Int
    BY <1>1, <2>2, ReadResultType
  <2>4. /\ file'[r] = IF n > 0 THEN [file[r] EXCEPT !.pos = file[r].pos + n] ELSE file[r]
        /\ tn' = n /\ (failed[r] => failed'[r])
    BY <1>1, <2>2 DEF ReadInto, TypeOK
  <2>5. EndOfPart(r, n) <=> n < BlockSize
    BY <1>1, <2>1, <2>3 DEF EndOfPart
  <2>6. file'[r].itr = file[r].itr /\ file'[r].open = file[r].open /\ file'[r].part = file[r].part
    BY <1>1, <2>4 DEF Files
  <2>7. file'[r] # Closed
    <3>1. CASE file[r].open
      <4>1. file[r].open = TRUE /\ Closed.open = FALSE
        BY <1>1, <3>1 DEF Closed, Files
      <4>2. file'[r].open # Closed.open
        BY <2>6, <4>1
      <4>. QED  BY <4>2
    <3>2. CASE ~file[r].open
      BY <2>1, <2>2, <2>4, <3>2 DEF ReadResults
    <3>. QED  BY <3>1, <3>2
  <2>8. ASSUME ~failed'[r]
        PROVE  /\ Placed(r, file'[r], eof[r])
               /\ n < BlockSize => file'[r].pos = PartEnd[r][file'[r].part]
    <3>1. Placed(r, file[r], eof[r])
      BY <1>1, <2>1, <2>4, <2>8 DEF JoinInv
    <3>2. /\ Placed(r, file'[r], eof[r])
          /\ n < BlockSize => file'[r].pos = PartEnd[r][file[r].part]
      BY <1>1, <1>6, <2>2, <2>8, <3>1, ReadStaysInPart
    <3>. QED  BY <2>6, <3>2
  <2>9. /\ tpc' \in {"part", "more"} => n < BlockSize
        /\ ~(tpc' = "size" /\ tn' = 0)
    BY <1>1, <2>2, <2>4, <2>5
  <2>10. ~scanning'[r] /\ size'[r] = BlockSize /\ file'[r].itr >= 1
    BY <1>1, <2>1, <2>6 DEF JoinInv
  <2>11. ~failed'[r] => /\ Placed(r, file'[r], eof'[r])
                        /\ tpc' \in {"part", "more"} => file'[r].pos = PartEnd[r][file'[r].part]
                        /\ tpc' = "size" /\ tn' = 0 => file'[r].itr > NParts(r)
    <3>1. eof' = eof
      BY <2>1
    <3>. QED  BY <2>8, <2>9, <3>1
  <2>. QED  BY <2>7, <2>10, <2>11 DEF JoinInv, Placed, Total, NParts
<1>7. ASSUME NoNextPart \/ EmptyToTheEnd, tid = r PROVE JoinInv(r)' /\ file'[r] # Closed
  <2> DEFINE i == file[r].itr + 1
  <2>1. /\ ~Opens(r, i) /\ file[r] # Closed /\ tpc \in {"part", "more"} /\ tpc' = "size"
        /\ UNCHANGED <<scanning, size>>
    BY <1>2, <1>4, <1>7 DEF NoNextPart, EmptyToTheEnd, NoNameLeft, Filling, ThreadAt, InService
  <2>2. /\ \/ file'[r] = AtPart(r, i)
           \/ i > NParts(r) /\ file'[r] = [file[r] EXCEPT !.itr = i]
        /\ failed'[r] = (failed[r] \/ i \in Missing[r])
    BY <1>1, <1>7 DEF TypeOK, NoNextPart, EmptyToTheEnd
  <2>3. AtPart(r, i) = [file[r] EXCEPT !.itr = i, !.open = FALSE]
    BY <2>1 DEF AtPart
  <2>4. file'[r].itr = i /\ file'[r].pos = file[r].pos /\ file'[r].part = file[r].part
    BY <1>1, <2>2, <2>3 DEF Files
  <2>5. i >= 2 /\ file'[r].itr >= 1
    BY <1>1, <2>4 DEF JoinInv
  <2>6. file'[r] # Closed
    BY <2>4, <2>5 DEF Closed
  <2>7. ASSUME ~failed'[r]
        PROVE  i > NParts(r) /\ file[r].part = NParts(r) /\ file[r].pos = Total(r)
    <3>1. i > NParts(r)
      <4>1. i \notin Missing[r]
        BY <2>2, <2>7
      <4>2. i \notin 1..NParts(r)
        BY <2>1, <4>1 DEF Opens
      <4>. QED  BY <1>1, <2>5, <4>2
    <3>2. Placed(r, file[r], eof[r]) /\ file[r].pos = PartEnd[r][file[r].part]
      BY <1>1, <1>7, <2>1, <2>2, <2>7 DEF JoinInv
    <3>3. file[r].part = NParts(r)
      BY <1>1, <3>1, <3>2 DEF Placed
    <3>. QED  BY <3>1, <3>2, <3>3 DEF Total
  <2>8. ~failed'[r] => Placed(r, file'[r], TRUE)
    <3> SUFFICES ASSUME ~failed'[r] PROVE Placed(r, file'[r], TRUE)
      OBVIOUS
    <3>1. PartEnd[r][NParts(r)] \in Int
      BY <1>1, PartsFollow, <2>7
    <3>. QED  BY <2>4, <2>7, <3>1 DEF Placed, Total
  <2>9. ~scanning'[r] /\ size'[r] = BlockSize
    BY <1>1, <2>1 DEF JoinInv
  <2>. QED  BY <2>1, <2>4, <2>5, <2>6, <2>7, <2>8, <2>9 DEF JoinInv, Placed, Total, NParts
<1>8. ASSUME SkipEmptyPart \/ (NextPart /\ OpenAndRead(file[tid].itr + 1)), tid = r
      PROVE  JoinInv(r)' /\ file'[r] # Closed
  <2>1. Opens(r, file[r].itr + 1) /\ OpenAndRead(file[r].itr + 1)
    BY <1>8 DEF SkipEmptyPart, NextPart
  <2>2. file[r] # Closed /\ UNCHANGED <<tid, scanning, size, eof>>
    BY <1>2, <1>8 DEF SkipEmptyPart, NextPart, Filling, ThreadAt, InService
  <2>. QED  BY <1>1, <1>8, <2>1, <2>2, JoinOpens
<1>9. ASSUME NextPart, ~OpenAndRead(file[tid].itr + 1), tid = r
      PROVE  JoinInv(r)' /\ file'[r] # Closed
  <2> DEFINE i == file[r].itr + 1
  <2>1. /\ Opens(r, i) /\ file'[r] = AtPart(r, i) /\ tpc' = "size" /\ tn' # 0
        /\ file[r] # Closed /\ UNCHANGED <<scanning, size, eof, failed>>
    BY <1>1, <1>2, <1>9 DEF NextPart, Filling, ThreadAt, InService, TypeOK
  <2>2. i \in Nat /\ i \in 1..NParts(r)
    BY <1>1, <2>1 DEF Opens
  <2>3. file'[r].itr = i /\ file'[r].open /\ Placed(r, file'[r], FALSE)
    BY <1>1, <2>1, <2>2, PlacedAtPart
  <2>4. file'[r].itr >= 1 /\ file'[r] # Closed /\ ~scanning'[r] /\ size'[r] = BlockSize
    BY <1>1, <2>1, <2>2, <2>3 DEF JoinInv, Closed
  <2>5. ~failed'[r] => Placed(r, file'[r], eof'[r])
    <3>1. ~failed'[r] => ~eof[r] /\ ~eof'[r]
      BY <1>1, <2>1, <2>2 DEF JoinInv, Placed
    <3>. QED  BY <2>3, <3>1 DEF Placed
  <2>. QED  BY <2>1, <2>4, <2>5 DEF JoinInv, Placed, Total, NParts
<1>10. ASSUME ResetSize, tid = r PROVE JoinInv(r)' /\ file'[r] # Closed
  <2>1. /\ size'[r] = BlockSize /\ eof'[r] = (eof[r] \/ tn = 0) /\ tpc = "size" /\ tpc' = "hand"
        /\ file[r] # Closed /\ UNCHANGED <<scanning, file, failed, tid, tn>>
    BY <1>1, <1>2, <1>10 DEF ResetSize, ThreadAt, TypeOK, InService
  <2>2. ~failed'[r] => Placed(r, file'[r], eof'[r])
    BY <1>1, <1>10, <2>1 DEF JoinInv, Placed
  <2>3. file' = file /\ file'[r] # Closed /\ ~scanning'[r] /\ file'[r].itr >= 1
    BY <1>1, <2>1 DEF JoinInv
  <2>. QED  BY <2>1, <2>2, <2>3 DEF JoinInv, Placed, Total, NParts
<1>. QED  BY <1>3, <1>5, <1>6, <1>7, <1>8, <1>9, <1>10 DEF Thread

(* A client's step that touches the file of a join opens it for the first  *)
(* time: joins are neither scanned nor started at an offset.               *)
LEMMA ClientJoins ==
  ASSUME PlainJoins, TypeOK, EndOfJoin, Client, NEW r \in Joined
  PROVE  JoinInv(r)' /\ (file[r] # Closed => file'[r] # Closed)
<1>1. /\ r \in Readers /\ r \notin Rescanned /\ GotoTo[r] = {} /\ JoinInv(r)
      /\ file[r] \in Files /\ NParts(r) \in Nat
  BY BufferedReaderAssumption, PartsFollow DEF PlainJoins, EndOfJoin, TypeOK
<1>2. ASSUME NEW s \in Readers, CreateReader(s) PROVE JoinInv(r)' /\ (file[r] # Closed => file'[r] # Closed)
  <2>1. UNCHANGED <<scanning, size, file, eof, failed, tid, tn>>
    BY <1>2 DEF CreateReader
  <2>2. tpc' \in {"part", "more", "size"} => tpc' = tpc
    BY <1>2 DEF CreateReader
  <2>. QED  BY <1>1, <2>1, <2>2, JoinQuiet
<1>3. CASE \/ ReadTake \/ ReadDone \/ DeleteReader \/ Terminate \/ PushSentinel \/ Join
           \/ \E s \in Readers : ReadRequest(s) \/ Notify(s) \/ DeleteCall(s)
  <2>1. UNCHANGED <<scanning, size, file, eof, failed, tpc, tid, tn>>
    BY <1>3 DEF ReadTake, ReadDone, DeleteReader, Terminate, PushSentinel, Join, Ending,
                ReadRequest, Notify, DeleteCall, ClientAt
  <2>. QED  BY <1>1, <2>1, JoinQuiet
<1>4. ASSUME NEW s \in Readers, \/ IncSeek(s) \/ \E pos \in GotoTo[s] : GotoByte(s, pos)
      PROVE  JoinInv(r)' /\ (file[r] # Closed => file'[r] # Closed)
  <2>1. s # r
    BY <1>1, <1>4 DEF IncSeek, JoinInv
  <2>2. UNCHANGED <<failed, tpc, tid, tn>>
    BY <1>4 DEF IncSeek, GotoByte, ClientAt
  <2>3. scanning'[r] = scanning[r] /\ size'[r] = size[r]
    BY <1>1, <1>4, <2>1 DEF IncSeek, GotoByte, TypeOK
  <2>4. file'[r] = file[r] /\ eof'[r] = eof[r]
    BY <1>1, <1>4, <2>1 DEF IncSeek, GotoByte, SeekDone, TypeOK
  <2>. QED  BY <1>1, <2>2, <2>3, <2>4, JoinQuiet
<1>5. ASSUME NEW s \in Readers, OpenStream(s) PROVE JoinInv(r)' /\ (file[r] # Closed => file'[r] # Closed)
  <2>1. UNCHANGED <<failed, size, eof, tpc, tid, tn>>
    BY <1>5 DEF OpenStream, ClientAt
  <2>2. CASE s # r
    <3>1. scanning'[r] = scanning[r] /\ file'[r] = file[r]
      BY <1>1, <1>5, <2>2 DEF OpenStream, TypeOK
    <3>. QED  BY <1>1, <2>1, <3>1, JoinQuiet
  <2>3. CASE s = r
    <3>1. /\ file[r] = Closed /\ Opens(r, 1) /\ file'[r] = AtPart(r, 1) /\ ~scanning'[r]
      BY <1>1, <1>5, <2>3 DEF OpenStream, TypeOK
    <3>2. ~eof'[r] /\ size'[r] = BlockSize
      BY <1>1, <2>1, <3>1 DEF JoinInv
    <3>3. file'[r].itr = 1 /\ Placed(r, file'[r], FALSE)
      BY <3>1, PlacedAtPart
    <3>4. Placed(r, file'[r], eof'[r])
      BY <3>2, <3>3 DEF Placed
    <3>5. ~(tid' = r /\ tpc' \in {"part", "more", "size"})
      BY <2>1, <3>1 DEF EndOfJoin, AskInv, InService
    <3>. QED  BY <3>1, <3>2, <3>3, <3>4, <3>5 DEF JoinInv, Placed, Total, NParts
  <2>. QED  BY <2>2, <2>3
<1>. QED  BY <1>2, <1>3, <1>4, <1>5 DEF Client

(* What is queued was asked of a reader that is open, or is the sentinel.  *)
LEMMA QueuePushed ==
  ASSUME TypeOK, AskInv, NEW x \in Readers \cup {NoReader}, Push(x), x \in Joined => file[x] # Closed
  PROVE  \A i \in 1..Len(queue') : queue'[i] \in Joined => file[queue'[i]] # Closed
<1>1. \A i \in 1..Len(queue) : queue[i] \in Joined => file[queue[i]] # Closed
  BY DEF AskInv
<1>2. CASE queue' = queue
  BY <1>1, <1>2
<1>3. CASE queue' = Append(queue, x)
  <2>1. /\ Len(queue) \in Nat /\ Len(queue') = Len(queue) + 1
        /\ \A i \in 1..Len(queue) : queue'[i] = queue[i]
        /\ queue'[Len(queue) + 1] = x
    BY <1>3, LenProperties, AppendProperties DEF TypeOK
  <2>. QED  BY <1>1, <2>1
<1>. QED  BY <1>2, <1>3 DEF Push

(* Nothing is asked of a join that was not opened, in any step.            *)
LEMMA AskStep ==
  ASSUME TypeOK, AskInv, Thread \/ Client,
         \A r \in Joined : file[r] # Closed => file'[r] # Closed
  PROVE  AskInv'
<1>1. \A i \in 1..Len(queue) : queue[i] \in Joined => file[queue[i]] # Closed
  BY DEF AskInv
<1>2. CASE Pop
  <2>1. queue \in Seq(Readers \cup {NoReader}) /\ queue # <<>> /\ queue' = Tail(queue)
    BY <1>2 DEF Pop, TypeOK
  <2>2. /\ Len(queue) \in Nat /\ Len(queue) >= 1 /\ Len(queue') = Len(queue) - 1 /\ Head(queue) = queue[1]
        /\ \A i \in 1..Len(queue') : queue'[i] = queue[i + 1]
    BY <2>1, HeadTailProperties, LenProperties, EmptySeq
  <2>3. \A i \in 1..Len(queue') : i + 1 \in 1..Len(queue) /\ queue'[i] = queue[i + 1]
    BY <2>2
  <2>4. 1 \in 1..Len(queue)
    BY <2>2
  <2>5. \A i \in 1..Len(queue') : queue'[i] \in Joined => file'[queue'[i]] # Closed
    BY <1>1, <2>3
  <2>6. tpc' = "done" \/ (tpc' = "get" /\ tid' = queue[1])
    BY <1>2, <2>2 DEF Pop
  <2>7. tpc' \in InService \cup {"get"} /\ tid' \in Joined => file'[tid'] # Closed
    BY <1>1, <2>4, <2>6 DEF InService
  <2>. QED  BY <2>5, <2>7 DEF AskInv
<1>3. ASSUME Thread, ~Pop PROVE AskInv'
  <2>1. UNCHANGED <<queue, tid>>
    BY <1>3 DEF Thread, LoopTest, GetReader, ChooseBlock, LockProcess, Read, NoNextPart, NextPart, SkipEmptyPart,
                EmptyToTheEnd, ResetSize, HandOver, UnlockProcess, Served, Moving, Filling
  <2>2. tpc' \in InService \cup {"get"} => tpc \in InService \cup {"get"}
    BY <1>3 DEF Thread, LoopTest, GetReader, ChooseBlock, LockProcess, Read, NoNextPart, NextPart, SkipEmptyPart,
                EmptyToTheEnd, ResetSize, HandOver, UnlockProcess, Served, Moving, Filling, ThreadAt, InService
  <2>. QED  BY <1>1, <2>1, <2>2 DEF AskInv
<1>4. ASSUME Client PROVE AskInv'
  <2>1. tid' = tid /\ (tpc' \in InService \cup {"get"} => tpc \in InService \cup {"get"})
    BY <1>4 DEF Client, CreateReader, OpenStream, ReadRequest, Notify, IncSeek, DeleteCall, GotoByte,
                ReadTake, ReadDone, DeleteReader, Terminate, PushSentinel, Join, Ending, ClientAt, InService
  <2>2. CASE queue' = queue
    BY <1>1, <2>1, <2>2 DEF AskInv
  <2>3. ASSUME queue' # queue
        PROVE  \A i \in 1..Len(queue') : queue'[i] \in Joined => file[queue'[i]] # Closed
    <3>1. CASE PushSentinel
      <4>1. NoReader \notin Joined
        BY BufferedReaderAssumption
      <4>. QED  BY <3>1, <4>1, QueuePushed DEF PushSentinel
    <3>2. ASSUME NEW r \in Readers, ReadRequest(r) \/ Notify(r)
          PROVE  \A i \in 1..Len(queue') : queue'[i] \in Joined => file[queue'[i]] # Closed
      <4>1. file[r] # Closed /\ Push(r)
        BY <2>3, <3>2 DEF ReadRequest, Notify, Readable, Request
      <4>. QED  BY <4>1, QueuePushed
    <3>3. PushSentinel \/ \E r \in Readers : ReadRequest(r) \/ Notify(r)
      BY <1>4, <2>3 DEF Client, CreateReader, OpenStream, IncSeek, DeleteCall, GotoByte,
                ReadTake, ReadDone, DeleteReader, Terminate, Join, Ending
    <3>. QED  BY <3>1, <3>2, <3>3
  <2>4. queue' # queue => \A i \in 1..Len(queue') : queue'[i] \in Joined => file'[queue'[i]] # Closed
    BY <2>3
  <2>. QED  BY <2>1, <2>2, <2>4 DEF AskInv
<1>. QED  BY <1>2, <1>3, <1>4

(* A join of regular files is where its iterator says: in the part of that *)
(* number, and past the last one before its end is published.              *)
THEOREM JoinsKeepTheirPlace == PlainJoins => (Spec => []EndOfJoin)
<1> SUFFICES ASSUME PlainJoins PROVE Spec => []EndOfJoin
  OBVIOUS
<1>1. Init => EndOfJoin
  <2> SUFFICES ASSUME Init PROVE EndOfJoin
    OBVIOUS
  <2>1. AskInv
    BY EmptySeq DEF Init, AskInv, InService
  <2>2. ASSUME NEW r \in Joined PROVE JoinInv(r)
    <3>1. r \in Readers
      BY BufferedReaderAssumption
    <3>. QED  BY <3>1 DEF Init, JoinInv, Closed
  <2>. QED  BY <2>1, <2>2 DEF EndOfJoin
<1>2. TypeOK /\ EndOfJoin /\ [Next]_vars => EndOfJoin'
  <2> SUFFICES ASSUME TypeOK, EndOfJoin, [Next]_vars PROVE EndOfJoin'
    OBVIOUS
  <2>1. CASE Thread \/ Client
    <3>1. \A r \in Joined : JoinInv(r)' /\ (file[r] # Closed => file'[r] # Closed)
      BY <2>1, ThreadJoins, ClientJoins
    <3>2. AskInv'
      BY <2>1, <3>1, AskStep DEF EndOfJoin
    <3>. QED  BY <3>1, <3>2 DEF EndOfJoin
  <2>2. CASE UNCHANGED vars
    BY <2>2 DEF vars, EndOfJoin, AskInv, JoinInv, Placed, Total, NParts
  <2>. QED  BY <2>1, <2>2 DEF Next, Ended
<1>. QED  BY <1>1, <1>2, TypeCorrect, PTL DEF Spec

(* A join of regular files that could all be opened and read is told to    *)
(* have ended only when the position is the end of its last part: no       *)
(* empty part and none shorter than a block ends it early.                 *)
THEOREM JoinsReadToTheEnd == PlainJoins => (Spec => []EofAfterLastPart)
<1> SUFFICES ASSUME PlainJoins PROVE Spec => []EofAfterLastPart
  OBVIOUS
<1>1. TypeOK /\ EndOfJoin => EofAfterLastPart
  <2> SUFFICES ASSUME TypeOK, EndOfJoin, NEW r \in Joined, eof[r], ~failed[r]
               PROVE  file[r].pos = Total(r)
    BY DEF EofAfterLastPart
  <2>1. r \in Readers /\ file[r].part \in 1..NParts(r) /\ NParts(r) \in Nat /\ file[r].itr \in Nat
    BY BufferedReaderAssumption, PartsFollow DEF TypeOK, Files
  <2>2. Placed(r, file[r], TRUE)
    BY DEF EndOfJoin, JoinInv, Placed
  <2>. QED  BY <2>1, <2>2 DEF Placed
<1>. QED  BY <1>1, JoinsKeepTheirPlace, TypeCorrect, PTL
-----------------------------------------------------------------------------
(* What the client is handed *)

\* The readers that may be told of the end before the block that belongs to it
Early == Joined \cup Rescanned \cup Faulty

(* The readers the client can rely on: a join is plain; a reader that may  *)
(* be told of its end too early is not asked again after it; a failing one *)
(* is not put back to its start; an offset lies in the source.             *)
OneEnd ==
  /\ PlainJoins
  /\ \A r \in Readers : r \in Early => ExtraReads[r] = 0
  /\ Faulty \cap Rescanned = {}
  /\ \A r \in Readers : GotoTo[r] \subseteq 0..Total(r)

\* The thread serves a request of r that is not handed over; without a byte, it will be the end
Serving(r) == tid = r /\ tpc \in {"get", "begin", "lock", "read", "part", "more", "size", "hand"}
Spent(r) == tid = r /\ tpc \in {"size", "hand"} /\ tn = 0
Due(r) == Serving(r) /\ ~Spent(r)
\* It has read bytes that are not handed over
Brings(r) == tid = r /\ tpc \in {"part", "size", "hand"} /\ tn > 0
Flight(r) == IF Brings(r) THEN tn ELSE IF nextSize[r] > 0 THEN nextSize[r] ELSE 0
\* The requests a block is still to come for
Pend(r) == Waiting(queue, r) + IF Due(r) THEN 1 ELSE 0
CallOf(pc, r) == cpc = pc /\ cid = r
Sound(r) == r \in Faulty => ~failed[r]

BeginsFile(r, part, pos) == part > 1 /\ pos = PartStart(r, part)

\* The block the client takes next holds n bytes of one part, the next ones
BytesAre(r, n) ==
  LET blk == buf[r][bufIndex[r]] IN
  /\ blk.to - blk.from = n /\ n <= BlockSize
  /\ blk.part \in 1..NParts(r)
  /\ PartStart(r, blk.part) <= blk.from /\ blk.to <= PartEnd[r][blk.part]
  /\ firstBlock[r] <=> BeginsFile(r, blk.part, blk.from)
  /\ Sound(r) => blk.from = got[r]

\* The file stays in its part, and the mark says whether what is read next begins one
InPart(r) == PartStart(r, file[r].part) <= file[r].pos /\ file[r].pos <= PartEnd[r][file[r].part]
Marked(r) ==
  file[r].open /\ file[r].pos < PartEnd[r][file[r].part] /\ ~(tid = r /\ tpc \in {"part", "more"}) =>
    (lastBlock[r] <=> BeginsFile(r, file[r].part, file[r].pos))
OnePart(r) ==
  r \notin Joined => ~lastBlock[r] /\ file[r].part = 1 /\ (file[r] # Closed => file[r].open)
PartRead(r) ==
  /\ Sound(r) /\ ((tid = r /\ tpc = "part") \/ (file[r] # Closed /\ ~file[r].open)) =>
       file[r].pos = PartEnd[r][file[r].part]
  /\ tid = r /\ tpc = "part" /\ r \notin Joined /\ Sound(r) => tn = 0
  /\ tid = r /\ tpc = "more" => /\ firstBlock[r] /\ tn = 0 /\ r \in Joined
                                /\ file[r].pos = PartEnd[r][file[r].part]
Fails(r) == failed[r] /\ r \notin Faulty => r \in Joined /\ eof[r]
Fresh(r) ==
  file[r] = Closed => /\ ~eof[r] /\ got[r] = 0 /\ told[r] = 0 /\ held[r].n = 0 /\ nextSize[r] = 0
                      /\ ~lastBlock[r] /\ Waiting(queue, r) = 0 /\ ~Serving(r) /\ ~scanning[r]
Tells(r) ==
  /\ scanning[r] => r \in Rescanned
  /\ told[r] > 0 => eof[r]
  /\ CallOf("wait", r) => told[r] <= ExtraReads[r] /\ held[r].n = 0
FileInv(r) ==
  /\ InPart(r) /\ Marked(r) /\ OnePart(r) /\ PartRead(r)
  /\ Fails(r) /\ Fresh(r) /\ Tells(r)

\* One request at a time, and the block for it is the one the client does not work on
Asks(r) ==
  /\ Pend(r) <= 1
  /\ Serving(r) \/ Pend(r) > 0 => nextSize[r] = 0
  /\ Pend(r) > 0 \/ nextSize[r] # 0 =>
       /\ notified[r] /\ ~CallOf("took", r)
       /\ scanning[r] => CallOf("wait", r) /\ ~eof[r]
  /\ scanning[r] /\ eof[r] /\ told[r] = 0 => CallOf("wait", r)
  /\ (scanning[r] \/ r \notin Rescanned) /\ Spent(r) => eof[r]
  /\ Due(r) /\ tpc \notin {"get", "begin"} => tidx = bufIndex[r]
Holds(r) ==
  LET blk == held[r].blk IN
  held[r].n > 0 =>
    /\ held[r].idx = OtherBlock(bufIndex[r])
    /\ buf[r][held[r].idx] = blk
    /\ held[r].n = blk.to - blk.from
    /\ held[r].first <=> BeginsFile(r, blk.part, blk.from)
Flows(r) ==
  /\ nextSize[r] > 0 => BytesAre(r, nextSize[r])
  /\ Brings(r) => BytesAre(r, tn)
  /\ Sound(r) => file[r].pos = got[r] + Flight(r)
JoinEnded(r) ==
  r \in Joined /\ eof[r] =>
    /\ Waiting(queue, r) = 0 /\ (Serving(r) => tpc \in {"size", "hand"})
    /\ told[r] = 0 => notified[r] /\ ~CallOf("took", r)
Orderly(r) == Asks(r) /\ Holds(r) /\ Flows(r) /\ JoinEnded(r)

\* A reader that has nothing more to give, or that the client was told has not
Loose(r) == ~scanning[r] /\ eof[r] /\ held[r].n = 0 /\ (r \in Early => told[r] > 0)

Drained(r) ==
  r \notin Joined \cup Rescanned /\ eof[r] /\ Sound(r) =>
    /\ got[r] = Total(r) /\ file[r].pos = Total(r) /\ nextSize[r] = 0
    /\ tid = r /\ tpc \in {"part", "size", "hand"} => tn = 0

ReaderInv(r) == FileInv(r) /\ (Orderly(r) \/ Loose(r)) /\ Drained(r)
-----------------------------------------------------------------------------
(* What a step leaves of a reader *)

\* What the thread and the client have written of r, its requests, and the calls for it
SameData(r) ==
  /\ nextSize'[r] = nextSize[r] /\ eof'[r] = eof[r] /\ bufIndex'[r] = bufIndex[r] /\ buf'[r] = buf[r]
  /\ firstBlock'[r] = firstBlock[r] /\ lastBlock'[r] = lastBlock[r]
  /\ file'[r] = file[r] /\ failed'[r] = failed[r]
SameClient(r) ==
  /\ notified'[r] = notified[r] /\ held'[r] = held[r] /\ got'[r] = got[r] /\ told'[r] = told[r]
  /\ scanning'[r] = scanning[r]
SameService(r) ==
  /\ Serving(r)' <=> Serving(r)
  /\ Serving(r) => UNCHANGED <<tid, tpc, tidx, tn>>
SameCalls(r) ==
  /\ CallOf("wait", r)' <=> CallOf("wait", r)
  /\ CallOf("took", r)' <=> CallOf("took", r)

(* A step that leaves all of that leaves what is said of the reader.       *)
LEMMA QuietReader ==
  ASSUME NEW r \in Readers, ReaderInv(r), SameData(r), SameClient(r), SameService(r), SameCalls(r),
         Waiting(queue', r) = Waiting(queue, r)
  PROVE  ReaderInv(r)'
<1>1. /\ Spent(r)' <=> Spent(r)
      /\ Brings(r)' <=> Brings(r)
      /\ Due(r)' <=> Due(r)
      /\ Brings(r) => tn' = tn
      /\ \A pc \in {"part", "more", "size", "hand"} : (tid' = r /\ tpc' = pc) <=> (tid = r /\ tpc = pc)
      /\ \A pc \in {"part", "more", "size", "hand"} : tid = r /\ tpc = pc => tn' = tn
      /\ Due(r) => tidx' = tidx /\ tpc' = tpc
      /\ Serving(r) => tpc' = tpc
  BY DEF SameService, Serving, Spent, Brings, Due
<1>2. Pend(r)' = Pend(r) /\ Flight(r)' = Flight(r) /\ (Sound(r)' <=> Sound(r))
  BY <1>1 DEF Pend, Flight, Sound, SameData
<1>3. FileInv(r)'
  <2>1. InPart(r)' /\ Marked(r)' /\ OnePart(r)'
    BY <1>1 DEF ReaderInv, FileInv, InPart, Marked, OnePart, SameData, BeginsFile, PartStart
  <2>2. PartRead(r)'
    BY <1>1, <1>2 DEF ReaderInv, FileInv, PartRead, SameData
  <2>3. Fails(r)' /\ Fresh(r)' /\ Tells(r)'
    BY DEF ReaderInv, FileInv, Fails, Fresh, Tells, SameData, SameClient, SameService, SameCalls
  <2>. QED  BY <2>1, <2>2, <2>3 DEF FileInv
<1>4. ASSUME Orderly(r) PROVE Orderly(r)'
  <2>1. Asks(r)'
    BY <1>1, <1>2, <1>4 DEF Orderly, Asks, SameData, SameClient, SameService, SameCalls
  <2>2. Holds(r)'
    BY <1>4 DEF Orderly, Holds, SameData, SameClient, BeginsFile, PartStart
  <2>3. Flows(r)'
    <3>1. \A n : BytesAre(r, n)' <=> BytesAre(r, n)
      BY <1>2 DEF BytesAre, SameData, SameClient, BeginsFile, PartStart
    <3>. QED  BY <1>1, <1>2, <1>4, <3>1 DEF Orderly, Flows, SameData, SameClient
  <2>4. JoinEnded(r)'
    BY <1>1, <1>4 DEF Orderly, JoinEnded, SameData, SameClient, SameService, SameCalls
  <2>. QED  BY <2>1, <2>2, <2>3, <2>4 DEF Orderly
<1>5. Loose(r) => Loose(r)'
  BY DEF Loose, SameData, SameClient
<1>6. Drained(r)'
  BY <1>1, <1>2 DEF ReaderInv, Drained, SameData, SameClient
<1>. QED  BY <1>3, <1>4, <1>5, <1>6 DEF ReaderInv

(* What the client has written, and the calls, stay in a step of the       *)
(* thread, and so do the data of a reader it does not serve.               *)
LEMMA ThreadOfOther ==
  ASSUME TypeOK, Thread, NEW r \in Readers, ReaderInv(r),
         \/ tid # r /\ ~Pop
         \/ Pop /\ Head(queue) # r
         \/ LoopTest \/ UnlockProcess \/ Served
  PROVE  ReaderInv(r)'
<1>1. SameClient(r) /\ SameCalls(r)
  BY DEF Thread, LoopTest, Pop, GetReader, ChooseBlock, LockProcess, Read, NoNextPart, NextPart, SkipEmptyPart,
         EmptyToTheEnd, ResetSize, HandOver, UnlockProcess, Served, Moving, Filling, ThreadAt, SameClient, SameCalls,
         CallOf
<1>2. CASE LoopTest \/ UnlockProcess \/ Served \/ GetReader \/ ChooseBlock \/ LockProcess
  <2>1. SameData(r) /\ queue' = queue
    BY <1>2 DEF LoopTest, UnlockProcess, Served, GetReader, ChooseBlock, LockProcess, Moving, ThreadAt, SameData
  <2>2. SameService(r)
    BY <1>2 DEF LoopTest, UnlockProcess, Served, GetReader, ChooseBlock, LockProcess, Moving, ThreadAt,
                SameService, Serving, Pop
  <2>. QED  BY <1>1, <2>1, <2>2, QuietReader DEF Waiting, Occ
<1>3. CASE Pop
  <2>1. Head(queue) # r /\ tpc = "pop"
    BY <1>3 DEF Pop, LoopTest, UnlockProcess, Served, Moving, ThreadAt
  <2>2. SameData(r)
    BY <1>3 DEF Pop, Moving, ThreadAt, SameData
  <2>3. SameService(r)
    BY <1>3, <2>1 DEF Pop, SameService, Serving
  <2>4. Waiting(queue', r) = Waiting(queue, r)
    <3>1. queue \in Seq(Readers \cup {NoReader}) /\ queue # <<>> /\ queue' = Tail(queue)
      BY <1>3 DEF Pop, TypeOK
    <3>2. Waiting(queue', r) \in Nat
      BY <3>1, OccFinite, HeadTailProperties DEF Waiting
    <3>. QED  BY <2>1, <3>1, <3>2, OccTail DEF Waiting
  <2>. QED  BY <1>1, <2>2, <2>3, <2>4, QuietReader
<1>4. CASE (\/ Read \/ NoNextPart \/ NextPart \/ SkipEmptyPart \/ EmptyToTheEnd \/ ResetSize \/ HandOver)
  <2>1. tid # r /\ tid' = tid /\ queue' = queue
    BY <1>4 DEF Read, NoNextPart, NextPart, SkipEmptyPart, EmptyToTheEnd, ResetSize, HandOver, Filling, ThreadAt,
                Pop, LoopTest, UnlockProcess, Served, Moving
  <2>2. bufIndex'[r] = bufIndex[r] /\ nextSize'[r] = nextSize[r]
    BY <1>4, <2>1 DEF Read, NoNextPart, NextPart, SkipEmptyPart, EmptyToTheEnd, ResetSize, HandOver, Filling, ThreadAt,
                      TypeOK
  <2>3. eof'[r] = eof[r] /\ firstBlock'[r] = firstBlock[r] /\ lastBlock'[r] = lastBlock[r]
    BY <1>4, <2>1 DEF Read, NoNextPart, NextPart, SkipEmptyPart, EmptyToTheEnd, ResetSize, HandOver, OpenAndRead, TypeOK
  <2>4. buf'[r] = buf[r] /\ file'[r] = file[r] /\ failed'[r] = failed[r]
    BY <1>4, <2>1 DEF Read, NoNextPart, NextPart, SkipEmptyPart, EmptyToTheEnd, ResetSize, HandOver, OpenAndRead,
                      ReadInto, TypeOK
  <2>5. SameData(r) /\ SameService(r)
    BY <2>1, <2>2, <2>3, <2>4 DEF SameData, SameService, Serving
  <2>. QED  BY <1>1, <2>1, <2>5, QuietReader DEF Waiting, Occ
<1>. QED  BY <1>2, <1>3, <1>4 DEF Thread

(* A request adds itself to the queue once, or is lost when it is full.    *)
LEMMA RequestPushed ==
  ASSUME TypeOK, NEW s \in Readers, Request(s), NEW r \in Readers
  PROVE  /\ Waiting(queue, r) \in Nat /\ Waiting(queue', r) \in Nat
         /\ s # r => Waiting(queue', r) = Waiting(queue, r)
         /\ s = r => Waiting(queue', r) <= Waiting(queue, r) + 1
         /\ notified' = [notified EXCEPT ![s] = TRUE]
<1>1. queue \in Seq(Readers \cup {NoReader})
  BY DEF TypeOK
<1>2. Waiting(queue, r) \in Nat
  BY WaitingNat
<1>3. queue' = queue \/ queue' = Append(queue, s)
  BY DEF Request, Push
<1>4. Waiting(Append(queue, s), r) = Waiting(queue, r) + IF s = r THEN 1 ELSE 0
  BY <1>1, OccAppend DEF Waiting
<1>5. Waiting(queue', r) \in {Waiting(queue, r), Waiting(Append(queue, s), r)}
  BY <1>3, Zenon
<1>. QED  BY <1>2, <1>4, <1>5 DEF Request

(* A step of the client for another reader, and the steps for none, leave  *)
(* the reader alone.                                                       *)
LEMMA ClientOfOther ==
  ASSUME TypeOK, NEW r \in Readers, ReaderInv(r),
         \/ \E s \in Readers \ {r} : \/ OpenStream(s) \/ ReadRequest(s) \/ Notify(s) \/ IncSeek(s) \/ DeleteCall(s)
                                     \/ \E pos \in GotoTo[s] : GotoByte(s, pos)
         \/ \E s \in Readers : CreateReader(s)
         \/ cid # r /\ (ReadTake \/ ReadDone \/ DeleteReader)
         \/ Terminate \/ PushSentinel
  PROVE  ReaderInv(r)'
<1>1. ASSUME NEW s \in Readers \ {r},
             \/ OpenStream(s) \/ ReadRequest(s) \/ Notify(s) \/ IncSeek(s) \/ DeleteCall(s)
             \/ \E pos \in GotoTo[s] : GotoByte(s, pos)
      PROVE  ReaderInv(r)'
  <2>1. /\ SameService(r) /\ buf' = buf /\ failed' = failed
        /\ nextSize' = nextSize /\ bufIndex' = bufIndex
    BY <1>1 DEF OpenStream, ReadRequest, Notify, IncSeek, DeleteCall, GotoByte, ClientAt, SameService, Serving
  <2>2. SameCalls(r)
    BY <1>1 DEF OpenStream, ReadRequest, Notify, IncSeek, DeleteCall, GotoByte, ClientAt, SameCalls, CallOf
  <2>3. eof'[r] = eof[r] /\ file'[r] = file[r] /\ firstBlock'[r] = firstBlock[r] /\ lastBlock'[r] = lastBlock[r]
    BY <1>1 DEF OpenStream, ReadRequest, Notify, IncSeek, DeleteCall, GotoByte, SeekDone, TypeOK
  <2>4. held'[r] = held[r] /\ got'[r] = got[r] /\ told'[r] = told[r] /\ scanning'[r] = scanning[r]
    BY <1>1 DEF OpenStream, ReadRequest, Notify, IncSeek, DeleteCall, GotoByte, SeekDone, TypeOK
  <2>5. notified'[r] = notified[r] /\ Waiting(queue', r) = Waiting(queue, r)
    <3>1. CASE Request(s)
      <4>1. notified' = [notified EXCEPT ![s] = TRUE] /\ Waiting(queue', r) = Waiting(queue, r)
        BY <3>1, RequestPushed
      <4>2. notified'[r] = notified[r]
        BY <4>1 DEF TypeOK
      <4>. QED  BY <4>1, <4>2
    <3>2. CASE ~Request(s)
      <4>1. queue' = queue /\ notified'[r] = notified[r]
        BY <1>1, <3>2 DEF OpenStream, ReadRequest, Notify, IncSeek, DeleteCall, GotoByte, SeekDone, TypeOK
      <4>. QED  BY <4>1 DEF Waiting, Occ
    <3>. QED  BY <3>1, <3>2
  <2>. QED  BY <2>1, <2>2, <2>3, <2>4, <2>5, QuietReader DEF SameData, SameClient
<1>2. ASSUME NEW s \in Readers, CreateReader(s) PROVE ReaderInv(r)'
  <2>1. SameData(r) /\ SameClient(r) /\ SameService(r) /\ SameCalls(r) /\ queue' = queue
    BY <1>2 DEF CreateReader, SameData, SameClient, SameService, SameCalls, Serving, CallOf
  <2>. QED  BY <2>1, QuietReader DEF Waiting, Occ
<1>3. CASE cid # r /\ (ReadTake \/ ReadDone \/ DeleteReader)
  <2>1. SameCalls(r) /\ SameService(r) /\ queue' = queue
    BY <1>3 DEF ReadTake, ReadDone, DeleteReader, ClientAt, SameCalls, SameService, CallOf, Serving
  <2>2. SameData(r)
    BY <1>3 DEF ReadTake, ReadDone, DeleteReader, ClientAt, SameData, TypeOK
  <2>3. SameClient(r)
    BY <1>3 DEF ReadTake, ReadDone, DeleteReader, ClientAt, SameClient, TypeOK
  <2>. QED  BY <2>1, <2>2, <2>3, QuietReader DEF Waiting, Occ
<1>4. CASE Terminate \/ PushSentinel
  <2>1. SameData(r) /\ SameClient(r) /\ SameService(r) /\ SameCalls(r)
    BY <1>4 DEF Terminate, PushSentinel, Ending, ClientAt, SameData, SameClient, SameService, SameCalls, Serving, CallOf
  <2>2. Waiting(queue', r) = Waiting(queue, r)
    <3>1. queue' = queue \/ queue' = Append(queue, NoReader)
      BY <1>4 DEF Terminate, PushSentinel, Push
    <3>2. Waiting(Append(queue, NoReader), r) = Waiting(queue, r)
      <4>1. queue \in Seq(Readers \cup {NoReader}) /\ NoReader # r /\ Waiting(queue, r) \in Nat
        BY WaitingNat, BufferedReaderAssumption DEF TypeOK
      <4>. QED  BY <4>1, OccAppend DEF Waiting
    <3>. QED  BY <3>1, <3>2, Zenon
  <2>. QED  BY <2>1, <2>2, QuietReader
<1>. QED  BY <1>1, <1>2, <1>3, <1>4
-----------------------------------------------------------------------------
(* What the client's calls do to their reader *)

(* The types of what is kept of one reader.                                *)
LEMMA ReaderTypes ==
  ASSUME TypeOK, NEW r \in Readers
  PROVE  /\ nextSize[r] \in Int /\ eof[r] \in BOOLEAN /\ bufIndex[r] \in {0, 1}
         /\ buf[r] \in [{0, 1} -> Blocks] /\ firstBlock[r] \in BOOLEAN /\ lastBlock[r] \in BOOLEAN
         /\ file[r] \in Files /\ file[r].part \in 1..NParts(r) /\ failed[r] \in BOOLEAN
         /\ notified[r] \in BOOLEAN /\ scanning[r] \in BOOLEAN /\ held[r] \in Helds
         /\ got[r] \in Int /\ told[r] \in Nat /\ tn \in Int /\ tidx \in {0, 1}
         /\ size[r] \in 1..BlockSize /\ Waiting(queue, r) \in Nat
         /\ file[r].pos \in Int /\ file[r].itr \in Nat /\ file[r].open \in BOOLEAN
         /\ PartStart(r, file[r].part) \in Int /\ PartEnd[r][file[r].part] \in Int
         /\ NParts(r) \in Nat /\ NParts(r) \in 1..NParts(r) /\ Total(r) \in Int
<1>1. file[r] \in Files /\ file[r].part \in 1..NParts(r)
  BY DEF TypeOK
<1>2. Waiting(queue, r) \in Nat
  BY WaitingNat
<1>3. /\ PartStart(r, file[r].part) \in Int /\ PartEnd[r][file[r].part] \in Int
      /\ NParts(r) \in Nat /\ NParts(r) \in 1..NParts(r) /\ Total(r) \in Int
  BY <1>1, PartsFollow DEF Total
<1>4. file[r].pos \in Int /\ file[r].itr \in Nat /\ file[r].open \in BOOLEAN
  BY <1>1 DEF Files
<1>. QED  BY <1>1, <1>2, <1>3, <1>4 DEF TypeOK

(* A block of a reader stays what it was while the reader's data do.       *)
LEMMA BytesSame ==
  ASSUME NEW r \in Readers, SameData(r), got'[r] = got[r], NEW n, BytesAre(r, n)
  PROVE  BytesAre(r, n)'
BY DEF BytesAre, SameData, Sound, BeginsFile, PartStart

(* A file that is opened is at the start of its first part.                *)
LEMMA OpensReader ==
  ASSUME OneEnd, TypeOK, NEW r \in Readers, ReaderInv(r), OpenStream(r)
  PROVE  ReaderInv(r)'
<1>1. /\ ~eof[r] /\ got[r] = 0 /\ told[r] = 0 /\ held[r].n = 0 /\ nextSize[r] = 0 /\ Waiting(queue, r) = 0
      /\ ~Serving(r) /\ cpc = "idle"
  BY DEF OpenStream, ClientAt, ReaderInv, FileInv, Fresh
<1>2. Fails(r) /\ Orderly(r)
  BY <1>1 DEF ReaderInv, FileInv, Loose
<1>3. /\ SameService(r) /\ ~Serving(r)' /\ UNCHANGED <<eof, got, told, held, nextSize, queue, cpc, cid>>
      /\ UNCHANGED <<failed, notified, buf, bufIndex, tid, tpc, tn, tidx>>
  BY <1>1 DEF OpenStream, ClientAt, SameService, Serving
<1>4. lastBlock'[r] = FALSE /\ (scanning'[r] => r \in Rescanned) /\ file'[r] = AtPart(r, 1)
  BY DEF OpenStream, TypeOK
<1>5. file'[r] = [part |-> 1, itr |-> 1, pos |-> 0, open |-> TRUE]
  BY <1>4 DEF OpenStream, AtPart, PartStart
<1>6. file'[r].part = 1 /\ file'[r].pos = 0 /\ file'[r].open /\ file'[r] # Closed
  BY <1>5 DEF Closed
<1>7. 0 <= PartEnd[r][1] /\ PartStart(r, 1) = 0
  <2>1. 1 \in 1..NParts(r)
    BY DEF OpenStream, Opens
  <2>2. PartStart(r, 1) = 0
    BY DEF PartStart
  <2>. QED  BY <2>1, <2>2, PartsFollow
<1>8. ~(tid' = r /\ tpc' \in {"part", "more", "size", "hand"})
  BY <1>3 DEF Serving
<1>9. Waiting(queue', r) = 0 /\ Pend(r)' = 0 /\ Flight(r)' = 0 /\ ~Due(r)' /\ ~Brings(r)' /\ ~Spent(r)'
  <2>1. Waiting(queue', r) = 0
    BY <1>1, <1>3
  <2>2. ~Brings(r)' /\ ~Due(r)' /\ ~Spent(r)'
    BY <1>3, <1>8 DEF Brings, Due, Spent
  <2>3. nextSize'[r] = 0
    BY <1>1, <1>3
  <2>. QED  BY <2>1, <2>2, <2>3 DEF Pend, Flight
<1>10. FileInv(r)'
  <2>1. InPart(r)'
    BY <1>6, <1>7 DEF InPart
  <2>2. Marked(r)' /\ OnePart(r)'
    BY <1>4, <1>6 DEF Marked, OnePart, BeginsFile
  <2>3. PartRead(r)'
    BY <1>6, <1>8 DEF PartRead
  <2>4. Fails(r)'
    BY <1>1, <1>2, <1>3 DEF Fails
  <2>5. Fresh(r)'
    BY <1>6 DEF Fresh
  <2>6. Tells(r)'
    <3>1. ~CallOf("wait", r)' /\ told'[r] = 0
      BY <1>1, <1>3 DEF CallOf
    <3>. QED  BY <1>4, <3>1 DEF Tells
  <2>. QED  BY <2>1, <2>2, <2>3, <2>4, <2>5, <2>6 DEF FileInv
<1>11. Orderly(r)'
  <2>1. Asks(r)'
    BY <1>1, <1>3, <1>9 DEF Asks
  <2>2. Holds(r)'
    BY <1>1, <1>3 DEF Holds
  <2>3. Flows(r)'
    BY <1>1, <1>3, <1>6, <1>9 DEF Flows
  <2>4. JoinEnded(r)'
    BY <1>1, <1>3 DEF JoinEnded
  <2>. QED  BY <2>1, <2>2, <2>3, <2>4 DEF Orderly
<1>12. Drained(r)'
  BY <1>1, <1>3 DEF Drained
<1>. QED  BY <1>10, <1>11, <1>12 DEF ReaderInv

(* A block is asked for when none is there or on its way.                  *)
LEMMA AsksReader ==
  ASSUME OneEnd, TypeOK, NEW r \in Readers, ReaderInv(r), ReadRequest(r) \/ Notify(r)
  PROVE  ReaderInv(r)'
<1>1. /\ SameData(r) /\ SameService(r) /\ got' = got /\ told' = told /\ scanning' = scanning
      /\ UNCHANGED <<tid, tpc, tn, tidx>>
      /\ file[r] # Closed /\ told[r] <= ExtraReads[r] /\ cpc = "idle"
      /\ ~CallOf("took", r)'
  BY DEF ReadRequest, Notify, ClientAt, Readable, SameData, SameService, Serving, CallOf
<1>2. \/ held'[r] = [held[r] EXCEPT !.n = 0] /\ CallOf("wait", r)' /\ held'[r].n = 0
      \/ held'[r] = held[r] /\ ~CallOf("wait", r)' /\ ~scanning[r]
  <2>1. CASE ReadRequest(r)
    <3>1. held'[r] = [held[r] EXCEPT !.n = 0] /\ CallOf("wait", r)'
      BY <2>1 DEF ReadRequest, TypeOK, CallOf
    <3>2. held[r] \in Helds
      BY DEF TypeOK
    <3>3. [held[r] EXCEPT !.n = 0].n = 0
      BY <3>2 DEF Helds
    <3>. QED  BY <3>1, <3>3
  <2>2. CASE Notify(r)
    BY <2>2 DEF Notify, CallOf, ClientAt
  <2>. QED  BY <2>1, <2>2
<1>3. ASSUME Request(r) PROVE ~notified[r]
  <2>1. CASE ReadRequest(r) /\ ~Asked(r)
    BY <2>1 DEF Asked
  <2>2. CASE ReadRequest(r) /\ Asked(r)
    <3>1. atQueue' = atQueue /\ atQueue'[r] = atQueue[r] + 1 /\ atQueue[r] \in Int
      BY <1>3, <2>2 DEF ReadRequest, Request, TypeOK
    <3>. QED  BY <3>1
  <2>3. CASE Notify(r)
    BY <2>3 DEF Notify
  <2>. QED  BY <2>1, <2>2, <2>3
<1>4. ASSUME ~Request(r) PROVE queue' = queue /\ notified' = notified
  BY <1>4 DEF ReadRequest, Notify
<1>5. FileInv(r)'
  <2>1. Spent(r)' = Spent(r) /\ Sound(r)' = Sound(r) /\ Serving(r)' = Serving(r)
    BY <1>1 DEF Spent, Sound, SameData, Serving
  <2>2. InPart(r)' /\ Marked(r)' /\ OnePart(r)' /\ PartRead(r)'
    BY <1>1, <2>1 DEF ReaderInv, FileInv, InPart, Marked, OnePart, PartRead, SameData, BeginsFile, PartStart
  <2>3. Fails(r)' /\ Fresh(r)'
    BY <1>1 DEF ReaderInv, FileInv, Fails, Fresh, SameData
  <2>4. Tells(r)'
    BY <1>1, <1>2 DEF ReaderInv, FileInv, Tells, SameData
  <2>. QED  BY <2>2, <2>3, <2>4 DEF FileInv
<1>6. ASSUME Orderly(r) PROVE Orderly(r)'
  <2>1. /\ Waiting(queue, r) \in Nat /\ Waiting(queue', r) \in Nat /\ told[r] \in Nat /\ nextSize[r] \in Int
    <3>1. CASE Request(r)
      BY <3>1, RequestPushed, ReaderTypes
    <3>2. CASE ~Request(r)
      BY <3>2, <1>4, ReaderTypes
    <3>. QED  BY <3>1, <3>2
  <2>2. /\ Due(r)' = Due(r) /\ Serving(r)' = Serving(r) /\ Brings(r)' = Brings(r) /\ Flight(r)' = Flight(r)
        /\ Sound(r)' = Sound(r) /\ Spent(r)' = Spent(r)
    BY <1>1 DEF Due, Serving, Brings, Spent, Flight, SameData, Sound
  <2>3. scanning[r] => Pend(r) = 0 /\ nextSize[r] = 0 /\ ~eof[r]
    <3>1. ~CallOf("wait", r)
      BY <1>1 DEF CallOf
    <3>2. scanning[r] => r \in Early /\ ExtraReads[r] = 0
      BY DEF ReaderInv, FileInv, Tells, Early, OneEnd
    <3>3. Pend(r) \in Nat
      BY <2>1 DEF Pend
    <3>. QED  BY <1>1, <1>6, <2>1, <3>1, <3>2, <3>3 DEF Orderly, Asks
  <2>4. ASSUME Request(r) PROVE Pend(r) = 0 /\ nextSize[r] = 0 /\ notified'[r] /\ Pend(r)' <= 1 /\ Pend(r)' \in Nat
    <3>1. ~notified[r]
      BY <1>3, <2>4
    <3>2. Pend(r) \in Nat
      BY <2>1 DEF Pend
    <3>3. Pend(r) = 0 /\ nextSize[r] = 0
      BY <1>6, <3>1, <3>2 DEF Orderly, Asks
    <3>4. Pend(r)' <= 1 /\ Pend(r)' \in Nat
      BY <2>1, <2>2, <2>4, <3>3, RequestPushed DEF Pend
    <3>5. notified' = [notified EXCEPT ![r] = TRUE] /\ notified \in [Readers -> BOOLEAN]
      BY <2>4 DEF Request, TypeOK
    <3>. QED  BY <3>3, <3>4, <3>5
  <2>5. ~Request(r) => Pend(r)' = Pend(r) /\ notified'[r] = notified[r] /\ Waiting(queue', r) = Waiting(queue, r)
    BY <1>4, <2>2 DEF Pend
  <2>6. nextSize'[r] = nextSize[r] /\ eof'[r] = eof[r] /\ bufIndex'[r] = bufIndex[r] /\ buf'[r] = buf[r]
        /\ file'[r] = file[r]
    BY <1>1 DEF SameData
  <2>7. Asks(r)'
    <3>1. Pend(r)' <= 1
      BY <1>6, <2>4, <2>5 DEF Orderly, Asks
    <3>2. Serving(r)' \/ Pend(r)' > 0 => nextSize'[r] = 0
      BY <1>6, <2>2, <2>4, <2>5, <2>6 DEF Orderly, Asks
    <3>3. Pend(r)' > 0 \/ nextSize'[r] # 0 => notified'[r]
      BY <1>6, <2>4, <2>5, <2>6 DEF Orderly, Asks
    <3>4. scanning'[r] => CallOf("wait", r)' /\ ~eof'[r]
      BY <1>1, <1>2, <2>3, <2>6
    <3>5. Due(r)' /\ tpc' \notin {"get", "begin"} => tidx' = bufIndex'[r]
      BY <1>1, <1>6, <2>2, <2>6 DEF Orderly, Asks
    <3>6. (scanning'[r] \/ r \notin Rescanned) /\ Spent(r)' => eof'[r]
      BY <1>1, <1>6, <2>2, <2>6 DEF Orderly, Asks
    <3>. QED  BY <1>1, <3>1, <3>2, <3>3, <3>4, <3>5, <3>6 DEF Asks
  <2>8. Holds(r)'
    <3>1. CASE held'[r].n = 0
      BY <3>1 DEF Holds
    <3>2. CASE held'[r] = held[r]
      BY <1>6, <2>6, <3>2 DEF Orderly, Holds, BeginsFile, PartStart
    <3>. QED  BY <1>2, <3>1, <3>2
  <2>9. Flows(r)'
    BY <1>1, <1>6, <2>2, <2>6, BytesSame DEF Orderly, Flows
  <2>10. JoinEnded(r)'
    <3>1. ASSUME r \in Joined, eof[r] PROVE ~Request(r)
      <4>1. r \in Early /\ ExtraReads[r] = 0
        BY <3>1 DEF Early, OneEnd
      <4>2. told[r] = 0
        BY <1>1, <2>1, <4>1
      <4>3. notified[r]
        BY <1>6, <3>1, <4>2 DEF Orderly, JoinEnded
      <4>. QED  BY <1>3, <4>3
    <3>. QED  BY <1>1, <1>6, <2>2, <2>5, <2>6, <3>1 DEF Orderly, JoinEnded
  <2>. QED  BY <2>7, <2>8, <2>9, <2>10 DEF Orderly
<1>7. Loose(r) => Loose(r)'
  BY <1>1, <1>2 DEF Loose, SameData
<1>8. Drained(r)'
  BY <1>1 DEF ReaderInv, Drained, SameData, Sound
<1>. QED  BY <1>5, <1>6, <1>7, <1>8 DEF ReaderInv

(* A client that has taken a block, that lets go of it, or that is about   *)
(* to delete the reader changes nothing of what is on its way.             *)
LEMMA LeavesReader ==
  ASSUME TypeOK, NEW r \in Readers, ReaderInv(r), SameData(r), SameService(r), queue' = queue,
         UNCHANGED <<notified, got, told, scanning>>,
         held'[r] = held[r] \/ held'[r].n = 0,
         SameCalls(r)
  PROVE  ReaderInv(r)'
<1>1. CASE held'[r] = held[r]
  BY <1>1, QuietReader DEF SameClient, Waiting, Occ
<1>2. CASE held'[r].n = 0
  <2>1. /\ Spent(r)' = Spent(r) /\ Serving(r)' = Serving(r) /\ Due(r)' = Due(r) /\ Brings(r)' = Brings(r)
        /\ (Brings(r) => tn' = tn) /\ (Serving(r) => tid' = tid /\ tpc' = tpc /\ tn' = tn /\ tidx' = tidx)
    BY DEF SameService, Serving, Spent, Brings, Due
  <2>2. Waiting(queue', r) = Waiting(queue, r)
    BY DEF Waiting, Occ
  <2>3. Pend(r)' = Pend(r) /\ Flight(r)' = Flight(r) /\ Sound(r)' = Sound(r)
    BY <2>1, <2>2 DEF Pend, Flight, Sound, SameData
  <2>4. FileInv(r)'
    <3>1. \A pc \in {"part", "more"} : (tid' = r /\ tpc' = pc) <=> (tid = r /\ tpc = pc)
      BY <2>1 DEF Serving
    <3>2. InPart(r)' /\ Marked(r)' /\ OnePart(r)'
      BY <3>1 DEF ReaderInv, FileInv, InPart, Marked, OnePart, SameData, BeginsFile, PartStart
    <3>3. PartRead(r)'
      BY <2>1, <2>3, <3>1 DEF ReaderInv, FileInv, PartRead, SameData, Serving
    <3>4. Fails(r)' /\ Fresh(r)' /\ Tells(r)'
      BY <1>2, <2>1, <2>2 DEF ReaderInv, FileInv, Fails, Fresh, Tells, SameData, SameCalls
    <3>. QED  BY <3>2, <3>3, <3>4 DEF FileInv
  <2>5. ASSUME Orderly(r) PROVE Orderly(r)'
    <3>1. Asks(r)'
      BY <2>1, <2>3, <2>5 DEF Orderly, Asks, SameData, SameCalls, Due
    <3>2. Holds(r)'
      BY <1>2 DEF Holds
    <3>3. Flows(r)'
      BY <2>1, <2>3, <2>5, BytesSame DEF Orderly, Flows, SameData
    <3>4. JoinEnded(r)'
      BY <2>1, <2>2, <2>5 DEF Orderly, JoinEnded, SameData, SameCalls
    <3>. QED  BY <3>1, <3>2, <3>3, <3>4 DEF Orderly
  <2>6. Loose(r) => Loose(r)'
    BY <1>2 DEF Loose, SameData
  <2>7. Drained(r)'
    BY <2>1, <2>3 DEF ReaderInv, Drained, SameData, Serving
  <2>. QED  BY <2>4, <2>5, <2>6, <2>7 DEF ReaderInv
<1>. QED  BY <1>1, <1>2

(* The next block may be asked for again when the call returns.            *)
LEMMA ReturnsFromRead ==
  ASSUME TypeOK, NEW r \in Readers, ReaderInv(r), ReadDone, cid = r
  PROVE  ReaderInv(r)'
<1>1. /\ SameData(r) /\ UNCHANGED <<queue, held, got, told, scanning, tid, tpc, tn, tidx>>
      /\ CallOf("took", r) /\ ~CallOf("wait", r) /\ ~CallOf("took", r)' /\ ~CallOf("wait", r)'
  BY DEF ReadDone, ClientAt, SameData, CallOf
<1>2. /\ Spent(r)' = Spent(r) /\ Serving(r)' = Serving(r) /\ Due(r)' = Due(r) /\ Brings(r)' = Brings(r)
      /\ Waiting(queue', r) = Waiting(queue, r) /\ Sound(r)' = Sound(r)
  BY <1>1 DEF Serving, Spent, Brings, Due, Waiting, Occ, SameData, Sound
<1>3. Pend(r)' = Pend(r) /\ Flight(r)' = Flight(r)
  BY <1>1, <1>2 DEF Pend, Flight, SameData
<1>4. FileInv(r)'
  <2>1. InPart(r)' /\ Marked(r)' /\ OnePart(r)'
    BY <1>1 DEF ReaderInv, FileInv, InPart, Marked, OnePart, SameData, BeginsFile, PartStart
  <2>2. PartRead(r)'
    BY <1>1, <1>2 DEF ReaderInv, FileInv, PartRead, SameData
  <2>3. Fails(r)' /\ Fresh(r)' /\ Tells(r)'
    BY <1>1, <1>2 DEF ReaderInv, FileInv, Fails, Fresh, Tells, SameData
  <2>. QED  BY <2>1, <2>2, <2>3 DEF FileInv
<1>5. ASSUME Orderly(r) PROVE Orderly(r)'
  <2>1. Asks(r)'
    BY <1>1, <1>2, <1>3, <1>5 DEF Orderly, Asks, SameData
  <2>2. Holds(r)'
    BY <1>1, <1>5 DEF Orderly, Holds, SameData, BeginsFile, PartStart
  <2>3. Flows(r)'
    BY <1>1, <1>2, <1>3, <1>5, BytesSame DEF Orderly, Flows, SameData
  <2>4. JoinEnded(r)'
    BY <1>1, <1>2, <1>5 DEF Orderly, JoinEnded, SameData
  <2>. QED  BY <2>1, <2>2, <2>3, <2>4 DEF Orderly
<1>6. Loose(r) => Loose(r)'
  BY <1>1 DEF Loose, SameData
<1>7. Drained(r)'
  BY <1>1, <1>2 DEF ReaderInv, Drained, SameData
<1>. QED  BY <1>4, <1>5, <1>6, <1>7 DEF ReaderInv

\* What readBlock hands on of r
Takes(r, n) ==
  /\ held'[r] = [idx |-> bufIndex[r], n |-> n, first |-> firstBlock[r], blk |-> buf[r][bufIndex[r]]]
  /\ got'[r] = IF n > 0 THEN buf[r][bufIndex[r]].to ELSE got[r]
  /\ bufIndex'[r] = OtherBlock(bufIndex[r])
  /\ told'[r] = IF eof[r] THEN told[r] + 1 ELSE 0
  /\ nextSize'[r] = 0

(* The block that is taken is the one that was asked for, or there is none *)
(* and the client is told of the end.                                      *)
LEMMA TakesBlock ==
  ASSUME OneEnd, TypeOK, NEW r \in Readers, ReaderInv(r), ReadTake, cid = r
  PROVE  /\ Takes(r, TakenSize(r))
         /\ nextSize[r] # 0 \/ eof[r]
         /\ held[r].n = 0 /\ told[r] <= ExtraReads[r]
         /\ TakenSize(r) \in Nat
         /\ ~Orderly(r) => r \notin Early /\ nextSize[r] = 0
         /\ TakenSize(r) > 0 => Orderly(r) /\ BytesAre(r, TakenSize(r)) /\ TakenSize(r) = nextSize[r]
<1>1. Takes(r, TakenSize(r)) /\ (nextSize[r] # 0 \/ eof[r])
  BY ReaderTypes DEF ReadTake, ClientAt, Takes, TypeOK, BlockThere
<1>2. held[r].n = 0 /\ told[r] <= ExtraReads[r]
  BY DEF ReadTake, ClientAt, CallOf, ReaderInv, FileInv, Tells
<1>3. TakenSize(r) \in Nat
  BY ReaderTypes DEF TakenSize
<1>4. ASSUME ~Orderly(r) PROVE r \notin Early /\ nextSize[r] = 0
  <2>1. Loose(r) /\ Drained(r)
    BY <1>4 DEF ReaderInv
  <2>2. told[r] \in Nat
    BY ReaderTypes
  <2>3. r \notin Early
    BY <1>2, <2>1, <2>2 DEF Loose, OneEnd
  <2>. QED  BY <2>1, <2>3 DEF Loose, Drained, Early, Sound
<1>5. ASSUME TakenSize(r) > 0 PROVE Orderly(r) /\ BytesAre(r, TakenSize(r)) /\ TakenSize(r) = nextSize[r]
  <2>1. TakenSize(r) = nextSize[r] /\ nextSize[r] > 0
    BY <1>5, ReaderTypes DEF TakenSize
  <2>2. Orderly(r)
    BY <1>4, <2>1
  <2>. QED  BY <2>1, <2>2 DEF Orderly, Flows
<1>. QED  BY <1>1, <1>2, <1>3, <1>4, <1>5

LEMMA TakesFromReader ==
  ASSUME OneEnd, TypeOK, NEW r \in Readers, ReaderInv(r), ReadTake, cid = r
  PROVE  ReaderInv(r)'
<1> DEFINE n == TakenSize(r)
<1>1. /\ UNCHANGED <<queue, notified, eof, buf, file, failed, firstBlock, lastBlock, scanning, tid, tpc, tn, tidx>>
      /\ CallOf("wait", r) /\ ~CallOf("wait", r)' /\ CallOf("took", r)'
  BY DEF ReadTake, ClientAt, CallOf
<1>2. /\ Takes(r, n) /\ (nextSize[r] # 0 \/ eof[r])
      /\ held[r].n = 0 /\ told[r] <= ExtraReads[r] /\ n \in Nat
      /\ ~Orderly(r) => r \notin Early /\ nextSize[r] = 0
      /\ n > 0 => Orderly(r) /\ BytesAre(r, n) /\ n = nextSize[r]
  BY TakesBlock
<1>3. /\ Spent(r)' = Spent(r) /\ Serving(r)' = Serving(r) /\ Due(r)' = Due(r) /\ Brings(r)' = Brings(r)
      /\ Waiting(queue', r) = Waiting(queue, r) /\ Sound(r)' = Sound(r)
  BY <1>1 DEF Serving, Spent, Brings, Due, Waiting, Occ, Sound
<1>4. Pend(r)' = Pend(r) /\ Pend(r) \in Nat /\ told[r] \in Nat /\ nextSize[r] \in Int /\ got[r] \in Int
      /\ (Due(r) => Pend(r) > 0) /\ (Brings(r) => Due(r)) /\ tn \in Int /\ (Pend(r) = 0 => Waiting(queue, r) = 0)
  BY <1>3, ReaderTypes DEF Pend, Brings, Due, Serving, Spent
<1>5. (eof[r] => told'[r] > 0) /\ (~eof[r] => told'[r] = 0) /\ nextSize'[r] = 0 /\ held'[r].n = n
      /\ (nextSize[r] = 0 => n = 0) /\ (n = 0 => nextSize[r] <= 0)
  BY <1>2, <1>4 DEF Takes, TakenSize
<1>6. FileInv(r)'
  <2>1. InPart(r)' /\ Marked(r)' /\ OnePart(r)'
    BY <1>1 DEF ReaderInv, FileInv, InPart, Marked, OnePart, BeginsFile, PartStart
  <2>2. PartRead(r)'
    BY <1>1, <1>3 DEF ReaderInv, FileInv, PartRead
  <2>3. Fails(r)'
    BY <1>1 DEF ReaderInv, FileInv, Fails
  <2>4. Fresh(r)'
    BY <1>1, <1>2 DEF ReaderInv, FileInv, Fresh
  <2>5. Tells(r)'
    BY <1>1, <1>5 DEF ReaderInv, FileInv, Tells
  <2>. QED  BY <2>1, <2>2, <2>3, <2>4, <2>5 DEF FileInv
<1>7. ASSUME Orderly(r), Pend(r) = 0 PROVE Orderly(r)'
  <2>1. ~Due(r) /\ ~Brings(r) /\ Waiting(queue, r) = 0
    BY <1>4, <1>7
  <2>2. Asks(r)'
    BY <1>1, <1>3, <1>4, <1>5, <1>7, <2>1 DEF Orderly, Asks
  <2>3. Holds(r)'
    <3> SUFFICES ASSUME n > 0 PROVE Holds(r)'
      BY <1>2, <1>5 DEF Holds
    <3>1. /\ held'[r].blk = buf[r][bufIndex[r]] /\ held'[r].idx = bufIndex[r] /\ (held'[r].first <=> firstBlock[r])
          /\ held'[r].n = n
      BY <1>2 DEF Takes
    <3>2. bufIndex[r] = OtherBlock(bufIndex'[r])
      BY <1>2, ReaderTypes DEF Takes, OtherBlock
    <3>3. /\ n = buf[r][bufIndex[r]].to - buf[r][bufIndex[r]].from
          /\ firstBlock[r] <=> BeginsFile(r, buf[r][bufIndex[r]].part, buf[r][bufIndex[r]].from)
      BY <1>2 DEF BytesAre
    <3>. QED  BY <1>1, <3>1, <3>2, <3>3 DEF Holds, BeginsFile, PartStart
  <2>4. Flows(r)'
    <3>1. Flight(r)' = 0
      BY <1>3, <1>5, <2>1 DEF Flight
    <3>2. ASSUME Sound(r) PROVE file[r].pos = got'[r]
      <4>1. file[r].pos = got[r] + Flight(r)
        BY <1>7, <3>2 DEF Orderly, Flows
      <4>2. CASE n = 0
        <5>1. Flight(r) = 0 /\ got'[r] = got[r]
          BY <1>2, <1>4, <1>5, <2>1, <4>2 DEF Flight, Takes
        <5>. QED  BY <4>1, <5>1, <1>4
      <4>3. CASE n > 0
        <5>1. Flight(r) = n
          BY <1>2, <1>4, <2>1, <4>3 DEF Flight
        <5>2. got'[r] = buf[r][bufIndex[r]].to /\ buf[r][bufIndex[r]].from = got[r]
              /\ buf[r][bufIndex[r]].to - buf[r][bufIndex[r]].from = n
          BY <1>2, <3>2, <4>3 DEF Takes, BytesAre
        <5>3. buf[r][bufIndex[r]].to \in Int /\ buf[r][bufIndex[r]].from \in Int
          BY ReaderTypes DEF Blocks
        <5>. QED  BY <4>1, <5>1, <5>2, <5>3, <1>4
      <4>. QED  BY <1>2, <4>2, <4>3
    <3>3. got'[r] \in Int
      <4>1. buf[r][bufIndex[r]].to \in Int
        BY ReaderTypes DEF Blocks
      <4>. QED  BY <1>2, <1>4, <4>1 DEF Takes
    <3>. QED  BY <1>1, <1>3, <1>5, <2>1, <3>1, <3>2, <3>3 DEF Flows
  <2>5. JoinEnded(r)'
    BY <1>1, <1>3, <1>5, <1>7 DEF Orderly, JoinEnded
  <2>. QED  BY <2>2, <2>3, <2>4, <2>5 DEF Orderly
<1>8. ASSUME Orderly(r), Pend(r) # 0 PROVE Loose(r)'
  <2>1. nextSize[r] = 0 /\ eof[r] /\ ~scanning[r]
    BY <1>2, <1>4, <1>8 DEF Orderly, Asks
  <2>. QED  BY <1>1, <1>5, <2>1 DEF Loose
<1>9. ASSUME ~Orderly(r) PROVE Loose(r)'
  <2>1. nextSize[r] = 0 /\ r \notin Early /\ Loose(r)
    BY <1>2, <1>9 DEF ReaderInv
  <2>. QED  BY <1>1, <1>5, <2>1 DEF Loose
<1>10. Drained(r)'
  <2> SUFFICES ASSUME r \notin Joined \cup Rescanned, eof[r], Sound(r)
               PROVE  /\ got'[r] = Total(r) /\ file'[r].pos = Total(r) /\ nextSize'[r] = 0
                      /\ tid' = r /\ tpc' \in {"part", "size", "hand"} => tn' = 0
    BY <1>1, <1>3 DEF Drained, Total, NParts
  <2>1. /\ got[r] = Total(r) /\ file[r].pos = Total(r) /\ nextSize[r] = 0
        /\ tid = r /\ tpc \in {"part", "size", "hand"} => tn = 0
    BY DEF ReaderInv, Drained
  <2>2. got'[r] = got[r]
    BY <1>2, <1>5, <2>1 DEF Takes
  <2>. QED  BY <1>1, <1>5, <2>1, <2>2
<1>. QED  BY <1>6, <1>7, <1>8, <1>9, <1>10 DEF ReaderInv

(* A reader that is put somewhere else, while nothing is on its way, is    *)
(* read on from there.                                                     *)
LEMMA SeeksReader ==
  ASSUME TypeOK, NEW r \in Readers, FileInv(r), Orderly(r), NEW pos \in 0..Total(r),
         r \notin Joined, file[r].open, Pend(r) = 0, nextSize[r] = 0, ~CallOf("wait", r), ~CallOf("wait", r)',
         ~CallOf("took", r)',
         SeekDone(r, pos), got'[r] = pos, held'[r] = held[r] \/ held'[r].n = 0,
         scanning'[r] => scanning[r], Spent(r) => r \in Rescanned /\ ~scanning'[r],
         UNCHANGED <<queue, nextSize, bufIndex, buf, firstBlock, lastBlock, failed, tid, tpc, tn, tidx>>
  PROVE  ReaderInv(r)'
<1>1. /\ file'[r] = [file[r] EXCEPT !.pos = pos] /\ ~eof'[r] /\ told'[r] = 0
  BY DEF SeekDone, TypeOK
<1>2. file'[r].pos = pos /\ file'[r].open /\ file'[r].part = 1 /\ file'[r] # Closed /\ file[r].part = 1 /\ ~lastBlock[r]
  <2>1. file'[r].pos = pos /\ file'[r].open = file[r].open /\ file'[r].part = file[r].part
    BY <1>1, ReaderTypes DEF Files
  <2>2. file'[r].open # Closed.open
    BY <2>1, ReaderTypes DEF Closed
  <2>. QED  BY <2>1, <2>2 DEF FileInv, OnePart
<1>3. NParts(r) = 1 /\ PartStart(r, 1) = 0 /\ PartEnd[r][1] = Total(r) /\ Total(r) \in Int
  BY BufferedReaderAssumption, ReaderTypes DEF NParts, PartStart, Total
<1>4. Waiting(queue, r) = 0 /\ ~Due(r) /\ ~Brings(r)
  BY ReaderTypes DEF Pend, Brings, Due, Serving, Spent
<1>5. /\ ~Due(r)' /\ ~Brings(r)' /\ Serving(r)' = Serving(r) /\ Waiting(queue', r) = 0
      /\ ~(tid = r /\ tpc \in {"part", "more"})
  BY <1>4 DEF Due, Brings, Serving, Spent, Waiting, Occ
<1>6. Pend(r)' = 0 /\ Flight(r)' = 0
  BY <1>4, <1>5 DEF Pend, Flight
<1>7. FileInv(r)'
  <2>1. InPart(r)'
    BY <1>2, <1>3 DEF InPart, PartStart
  <2>2. Marked(r)' /\ OnePart(r)'
    BY <1>2 DEF Marked, OnePart, BeginsFile
  <2>3. PartRead(r)'
    BY <1>2, <1>5 DEF PartRead
  <2>4. Fails(r)' /\ Fresh(r)'
    BY <1>2 DEF FileInv, Fails, Fresh
  <2>5. Tells(r)'
    BY <1>1 DEF FileInv, Tells
  <2>. QED  BY <2>1, <2>2, <2>3, <2>4, <2>5 DEF FileInv
<1>8. Orderly(r)'
  <2>1. Asks(r)'
    <3>1. Spent(r)' = Spent(r)
      BY DEF Spent
    <3>. QED  BY <1>1, <1>5, <1>6, <3>1 DEF Orderly, Asks
  <2>2. Holds(r)'
    BY DEF Orderly, Holds, BeginsFile, PartStart
  <2>3. Flows(r)'
    BY <1>2, <1>5, <1>6 DEF Flows
  <2>4. JoinEnded(r)'
    BY DEF JoinEnded
  <2>. QED  BY <2>1, <2>2, <2>3, <2>4 DEF Orderly
<1>9. Drained(r)'
  BY <1>1 DEF Drained
<1>. QED  BY <1>7, <1>8, <1>9 DEF ReaderInv

(* getTrackList puts back all it has read: it waited for every block it    *)
(* asked for, so that this is where the file is.                           *)
LEMMA PutsReaderBack ==
  ASSUME OneEnd, TypeOK, NEW r \in Readers, ReaderInv(r), IncSeek(r)
  PROVE  ReaderInv(r)' /\ got'[r] = 0
<1>1. /\ scanning[r] /\ cpc = "idle" /\ ~scanning'[r] /\ got'[r] = 0 /\ held'[r] = Nothing
      /\ SeekDone(r, file[r].pos - got[r])
      /\ UNCHANGED <<cpc, queue, nextSize, bufIndex, buf, firstBlock, lastBlock, failed, tid, tpc, tn, tidx>>
  BY DEF IncSeek, ClientAt, TypeOK
<1>2. r \in Rescanned /\ r \notin Joined /\ Sound(r)
  BY <1>1 DEF ReaderInv, FileInv, Tells, OneEnd, PlainJoins, Sound
<1>3. FileInv(r) /\ Orderly(r)
  BY <1>1 DEF ReaderInv, Loose
<1>4. ~CallOf("wait", r) /\ ~CallOf("wait", r)' /\ ~CallOf("took", r)'
  BY <1>1 DEF CallOf
<1>5. Pend(r) = 0 /\ nextSize[r] = 0
  <2>1. Pend(r) \in Nat
    BY ReaderTypes DEF Pend
  <2>. QED  BY <1>1, <1>3, <1>4, <2>1 DEF Orderly, Asks
<1>6. file[r].open
  BY <1>1, <1>2, <1>3 DEF FileInv, OnePart, Fresh
<1>7. file[r].pos - got[r] = 0
  <2>1. ~Brings(r)
    BY <1>5, ReaderTypes DEF Pend, Brings, Due, Serving, Spent
  <2>2. file[r].pos = got[r] + 0
    BY <1>2, <1>3, <1>5, <2>1 DEF Orderly, Flows, Flight
  <2>. QED  BY <2>2, ReaderTypes
<1>8. 0 \in 0..Total(r)
  <2>1. file[r].part = 1 /\ 0 <= file[r].pos /\ file[r].pos <= PartEnd[r][1]
    BY <1>2, <1>3 DEF FileInv, OnePart, InPart, PartStart
  <2>2. NParts(r) = 1 /\ PartEnd[r][1] = Total(r) /\ Total(r) \in Int /\ file[r].pos \in Int
    BY <1>2, BufferedReaderAssumption, ReaderTypes DEF NParts, Total
  <2>. QED  BY <2>1, <2>2
<1>9. held'[r].n = 0
  BY <1>1 DEF Nothing
<1>10. SeekDone(r, 0)
  BY <1>1, <1>7
<1>. QED  BY <1>1, <1>2, <1>3, <1>4, <1>5, <1>6, <1>8, <1>9, <1>10, SeeksReader

(* A reader is started at an offset before anything was asked of it.       *)
LEMMA StartsReader ==
  ASSUME OneEnd, TypeOK, LifeInv, NEW r \in Readers, ReaderInv(r), NEW pos \in GotoTo[r], GotoByte(r, pos)
  PROVE  ReaderInv(r)' /\ got'[r] = pos
<1>1. /\ cpc = "idle" /\ file[r].open /\ atQueue[r] = 0 /\ nextSize[r] = 0 /\ ~eof[r] /\ got'[r] = pos
      /\ SeekDone(r, pos)
      /\ UNCHANGED <<cpc, scanning, held, queue, nextSize, bufIndex, buf, firstBlock, lastBlock, failed>>
      /\ UNCHANGED <<tid, tpc, tn, tidx>>
  BY DEF GotoByte, ClientAt, TypeOK
<1>2. r \notin Joined /\ pos \in 0..Total(r)
  BY DEF OneEnd, PlainJoins
<1>3. FileInv(r) /\ Orderly(r)
  BY <1>1 DEF ReaderInv, Loose
<1>4. ~CallOf("wait", r) /\ ~CallOf("wait", r)' /\ ~CallOf("took", r)'
  BY <1>1 DEF CallOf
<1>5. Pend(r) = 0 /\ ~Spent(r)
  <2>1. Waiting(queue, r) + InHand(r) <= 0 /\ Waiting(queue, r) \in Nat /\ InHand(r) \in Nat
    BY <1>1, ReaderTypes DEF LifeInv, CountInv, InHand
  <2>2. Waiting(queue, r) = 0 /\ InHand(r) = 0
    BY <2>1
  <2>3. ~Serving(r)
    BY <2>2 DEF InHand, Serving, InService
  <2>. QED  BY <2>2, <2>3 DEF Pend, Due, Spent, Serving
<1>. QED  BY <1>1, <1>2, <1>3, <1>4, <1>5, SeeksReader
-----------------------------------------------------------------------------
(* What the thread does to the reader it serves *)

(* Whatever the thread does for it, a reader that has nothing more to give *)
(* keeps having nothing.                                                   *)
LEMMA StaysLoose ==
  ASSUME NEW r \in Readers, Loose(r), SameClient(r), eof'[r]
  PROVE  Loose(r)'
BY DEF Loose, SameClient

(* What is on its way to a reader that is being served is that service's.  *)
LEMMA ServiceFacts ==
  ASSUME TypeOK, NEW r \in Readers, Orderly(r), Due(r)
  PROVE  /\ Pend(r) = 1 /\ Waiting(queue, r) = 0 /\ nextSize[r] = 0
         /\ notified[r] /\ ~CallOf("took", r)
         /\ scanning[r] => CallOf("wait", r) /\ ~eof[r]
<1>1. Waiting(queue, r) \in Nat /\ Pend(r) = Waiting(queue, r) + 1
  BY ReaderTypes DEF Pend
<1>2. Waiting(queue, r) = 0 /\ Pend(r) = 1
  BY <1>1 DEF Orderly, Asks
<1>. QED  BY <1>2 DEF Orderly, Asks

(* A request of r is taken out of the queue.                               *)
LEMMA PopsRequest ==
  ASSUME TypeOK, NEW r \in Readers, ReaderInv(r), Pop, Head(queue) = r
  PROVE  ReaderInv(r)'
<1>1. /\ SameData(r) /\ SameClient(r) /\ SameCalls(r) /\ tpc = "pop" /\ tn' = tn
      /\ \/ tpc' = "done" /\ tid' = tid
         \/ tpc' = "get" /\ tid' = r
  BY DEF Pop, Moving, ThreadAt, SameData, SameClient, SameCalls, CallOf
<1>2. Waiting(queue, r) = Waiting(queue', r) + 1 /\ Waiting(queue', r) \in Nat
  <2>1. queue \in Seq(Readers \cup {NoReader}) /\ queue # <<>> /\ queue' = Tail(queue)
    BY DEF Pop, TypeOK
  <2>2. Waiting(queue', r) \in Nat
    BY <2>1, OccFinite, HeadTailProperties DEF Waiting
  <2>. QED  BY <2>1, <2>2, OccTail DEF Waiting
<1>3. /\ ~Serving(r) /\ ~Spent(r) /\ ~Brings(r) /\ ~Due(r) /\ ~Spent(r)' /\ ~Brings(r)'
      /\ (Serving(r)' => tpc' = "get")
      /\ ~(tid = r /\ tpc \in {"part", "more"}) /\ ~(tid' = r /\ tpc' \in {"part", "more", "size", "hand"})
  BY <1>1 DEF Serving, Spent, Brings, Due
<1>4. Pend(r)' <= Pend(r) /\ Pend(r) > 0 /\ Pend(r) \in Nat /\ Pend(r)' \in Nat
  BY <1>2, <1>3 DEF Pend
<1>5. file[r] # Closed
  BY <1>2 DEF ReaderInv, FileInv, Fresh
<1>6. Flight(r)' = Flight(r) /\ Sound(r)' = Sound(r)
  BY <1>1, <1>3 DEF Flight, Sound, SameData
<1>7. FileInv(r)'
  <2>1. InPart(r)' /\ Marked(r)' /\ OnePart(r)'
    BY <1>1, <1>3 DEF ReaderInv, FileInv, InPart, Marked, OnePart, SameData, BeginsFile, PartStart
  <2>2. PartRead(r)'
    BY <1>1, <1>3, <1>6 DEF ReaderInv, FileInv, PartRead, SameData
  <2>3. Fails(r)' /\ Fresh(r)' /\ Tells(r)'
    BY <1>1, <1>5 DEF ReaderInv, FileInv, Fails, Fresh, Tells, SameData, SameClient, SameCalls
  <2>. QED  BY <2>1, <2>2, <2>3 DEF FileInv
<1>8. ASSUME Orderly(r) PROVE Orderly(r)'
  <2>1. Asks(r)'
    <3>1. Pend(r) <= 1 /\ nextSize[r] = 0 /\ notified[r] /\ ~CallOf("took", r)
          /\ (scanning[r] => CallOf("wait", r) /\ ~eof[r])
      BY <1>4, <1>8 DEF Orderly, Asks
    <3>2. Pend(r)' <= 1
      BY <1>4, <3>1
    <3>3. nextSize'[r] = 0 /\ notified'[r] /\ ~CallOf("took", r)'
          /\ (scanning'[r] => CallOf("wait", r)' /\ ~eof'[r])
      BY <1>1, <3>1 DEF SameData, SameClient, SameCalls
    <3>4. Due(r)' => tpc' = "get"
      BY <1>3 DEF Due
    <3>. QED  BY <1>3, <3>2, <3>3, <3>4 DEF Asks
  <2>2. Holds(r)'
    BY <1>1, <1>8 DEF Orderly, Holds, SameData, SameClient, BeginsFile, PartStart
  <2>3. Flows(r)'
    BY <1>1, <1>3, <1>6, <1>8, BytesSame DEF Orderly, Flows, SameData, SameClient
  <2>4. JoinEnded(r)'
    BY <1>1, <1>2, <1>8 DEF Orderly, JoinEnded, SameData
  <2>. QED  BY <2>1, <2>2, <2>3, <2>4 DEF Orderly
<1>9. Loose(r) => Loose(r)'
  BY <1>1, StaysLoose DEF Loose, SameData
<1>10. Drained(r)'
  BY <1>1, <1>3, <1>6 DEF ReaderInv, Drained, SameData, SameClient
<1>. QED  BY <1>7, <1>8, <1>9, <1>10 DEF ReaderInv

(* The steps up to the read choose the block the client does not work on.  *)
LEMMA ReachesRead ==
  ASSUME TypeOK, NEW r \in Readers, ReaderInv(r), tid = r, GetReader \/ ChooseBlock \/ LockProcess
  PROVE  ReaderInv(r)'
<1>1. /\ SameData(r) /\ SameClient(r) /\ SameCalls(r) /\ tn' = tn /\ tid' = r /\ queue' = queue
      /\ tpc \in {"get", "begin", "lock"}
      /\ \/ tpc' \in {"top", "unlock", "begin"}
         \/ tpc = "begin" /\ tidx' = bufIndex[r] /\ tpc' = "lock"
         \/ tpc = "lock" /\ tidx' = tidx /\ tpc' = "read"
  BY DEF GetReader, ChooseBlock, LockProcess, Moving, ThreadAt, SameData, SameClient, SameCalls, CallOf
<1>2. /\ Due(r) /\ Serving(r) /\ ~Spent(r) /\ ~Brings(r) /\ ~Spent(r)' /\ ~Brings(r)' /\ (Due(r)' <=> Serving(r)')
      /\ ~(tid = r /\ tpc \in {"part", "more"}) /\ ~(tid' = r /\ tpc' \in {"part", "more", "size", "hand"})
  BY <1>1 DEF Serving, Spent, Brings, Due
<1>3. Waiting(queue', r) = Waiting(queue, r) /\ Waiting(queue, r) \in Nat
  BY <1>1, ReaderTypes DEF Waiting, Occ
<1>4. Pend(r)' <= Pend(r) /\ Pend(r) > 0 /\ Pend(r) \in Nat /\ Pend(r)' \in Nat
  BY <1>2, <1>3 DEF Pend
<1>5. file[r] # Closed
  BY <1>2 DEF ReaderInv, FileInv, Fresh
<1>6. Flight(r)' = Flight(r) /\ Sound(r)' = Sound(r)
  BY <1>1, <1>2 DEF Flight, Sound, SameData
<1>7. FileInv(r)'
  <2>1. InPart(r)' /\ Marked(r)' /\ OnePart(r)'
    BY <1>1, <1>2 DEF ReaderInv, FileInv, InPart, Marked, OnePart, SameData, BeginsFile, PartStart
  <2>2. PartRead(r)'
    BY <1>1, <1>2, <1>6 DEF ReaderInv, FileInv, PartRead, SameData
  <2>3. Fails(r)' /\ Fresh(r)' /\ Tells(r)'
    BY <1>1, <1>5 DEF ReaderInv, FileInv, Fails, Fresh, Tells, SameData, SameClient, SameCalls
  <2>. QED  BY <2>1, <2>2, <2>3 DEF FileInv
<1>8. ASSUME Orderly(r) PROVE Orderly(r)'
  <2>1. Asks(r)'
    <3>1. Due(r)' /\ tpc' \notin {"get", "begin"} => tidx' = bufIndex'[r]
      BY <1>1, <1>2, <1>8 DEF Orderly, Asks, SameData, Serving
    <3>. QED  BY <1>1, <1>2, <1>4, <1>8, <3>1 DEF Orderly, Asks, SameData, SameClient, SameCalls
  <2>2. Holds(r)'
    BY <1>1, <1>8 DEF Orderly, Holds, SameData, SameClient, BeginsFile, PartStart
  <2>3. Flows(r)'
    BY <1>1, <1>2, <1>6, <1>8, BytesSame DEF Orderly, Flows, SameData, SameClient
  <2>4. JoinEnded(r)'
    BY <1>1, <1>2, <1>8 DEF Orderly, JoinEnded, SameData
  <2>. QED  BY <2>1, <2>2, <2>3, <2>4 DEF Orderly
<1>9. Loose(r) => Loose(r)'
  BY <1>1, StaysLoose DEF Loose, SameData
<1>10. Drained(r)'
  BY <1>1, <1>2, <1>6 DEF ReaderInv, Drained, SameData, SameClient
<1>. QED  BY <1>7, <1>8, <1>9, <1>10 DEF ReaderInv

(* What one read of at most max bytes leaves of the file f and the blocks. *)
LEMMA ReadFacts ==
  ASSUME TypeOK, NEW r \in Readers, tid = r, NEW f \in Files, f.part \in 1..NParts(r),
         PartStart(r, f.part) <= f.pos, f.pos <= PartEnd[r][f.part],
         NEW max \in 1..BlockSize, NEW n \in ReadResults(r, f, max), ReadInto(r, f, n)
  PROVE  /\ n \in Int /\ n <= max /\ tn' = n
         /\ n > 0 => /\ f.open /\ f.pos + n <= PartEnd[r][f.part] /\ file'[r] = [f EXCEPT !.pos = f.pos + n]
                     /\ buf'[r] = [buf[r] EXCEPT ![tidx] = BlockAt(f, n)]
         /\ n <= 0 => buf'[r] = buf[r] /\ file'[r] = f
         /\ n = 0 => f.pos = PartEnd[r][f.part]
         /\ n < 0 /\ f.open => r \in Faulty /\ failed'[r]
         /\ failed'[r] <=> failed[r] \/ (n < 0 /\ f.open)
         /\ r \notin Pipes /\ n > 0 /\ n < max => f.pos + n = PartEnd[r][f.part]
         /\ ~f.open => n = -1
<1>1. f.pos \in Int /\ PartEnd[r][f.part] \in Int /\ BlockSize \in Nat /\ max \in Int /\ max >= 1 /\ n \in Int
  <2>1. BlockSize \in Nat
    BY BufferedReaderAssumption
  <2>. QED  BY <2>1, PartsFollow, ReadResultType DEF Files
<1> DEFINE left == PartEnd[r][f.part] - f.pos
           full == IF left < max THEN left ELSE max
<1>2. left \in Int /\ left >= 0 /\ full \in Int /\ full >= 0 /\ full <= max /\ full <= left /\ (full = 0 => left = 0)
      /\ (full < max => full = left)
  BY <1>1
<1>3. ~f.open => n = -1
  BY DEF ReadResults
<1>4. f.open => n = full \/ (n = -1 /\ r \in Faulty) \/ (r \in Pipes /\ n \in 1..full)
  BY DEF ReadResults
<1>5. /\ tn' = n /\ (n > 0 => buf'[r] = [buf[r] EXCEPT ![tidx] = BlockAt(f, n)]) /\ (n <= 0 => buf'[r] = buf[r])
      /\ (n > 0 => file'[r] = [f EXCEPT !.pos = f.pos + n]) /\ (n <= 0 => file'[r] = f)
  BY <1>1 DEF ReadInto, TypeOK
<1>6. failed'[r] <=> failed[r] \/ (n < 0 /\ f.open)
  BY <1>1 DEF ReadInto, TypeOK
<1> HIDE DEF left, full
<1>7. n <= max /\ (n < 0 /\ f.open => r \in Faulty) /\ (n > 0 => f.open /\ n <= left) /\ (n = 0 => left = 0)
      /\ (r \notin Pipes /\ n > 0 /\ n < max => n = left)
  BY <1>1, <1>2, <1>3, <1>4
<1>8. left = PartEnd[r][f.part] - f.pos
  BY DEF left
<1>. QED  BY <1>1, <1>3, <1>5, <1>6, <1>7, <1>8
-----------------------------------------------------------------------------
(* What the thread does to the reader it reads *)

\* A step of the thread on the block of r, and what it is to leave
Fills(r) ==
  /\ tid = r /\ tpc \in Reading /\ tpc' \in {"part", "more", "size"}
  /\ SameClient(r) /\ SameCalls(r)
  /\ UNCHANGED <<tid, tidx, queue, nextSize, bufIndex>>
  /\ eof[r] => eof'[r]

(* A step on the block keeps the requests in order: what is left to show   *)
(* is where the file is, what the block holds and when the end is set.     *)
LEMMA FillsReader ==
  ASSUME TypeOK, NEW r \in Readers, ReaderInv(r), Fills(r),
         \A i \in {0, 1} : i # tidx => buf'[r][i] = buf[r][i],
         file'[r] # Closed, InPart(r)', Marked(r)', OnePart(r)', PartRead(r)', Fails(r)', Drained(r)',
         Orderly(r) => /\ Brings(r)' => BytesAre(r, tn)'
                       /\ Sound(r)' => file'[r].pos = got[r] + Flight(r)'
                       /\ r \in Joined /\ eof'[r] => tpc' = "size"
                       /\ scanning[r] /\ eof'[r] => Spent(r)',
         Spent(r)' => eof'[r]
  PROVE  ReaderInv(r)'
<1>1. /\ tid = r /\ tid' = r /\ tpc \in Reading /\ tpc' \in {"part", "more", "size"} /\ tidx' = tidx
      /\ SameClient(r) /\ SameCalls(r) /\ queue' = queue
      /\ nextSize' = nextSize /\ bufIndex' = bufIndex /\ (eof[r] => eof'[r])
  BY DEF Fills
<1>2. Due(r) /\ Serving(r) /\ Serving(r)' /\ (Due(r)' <=> ~Spent(r)')
  BY <1>1 DEF Due, Serving, Spent, Reading
<1>3. FileInv(r)'
  <2>1. Fresh(r)'
    BY DEF Fresh
  <2>2. Tells(r)'
    BY <1>1 DEF ReaderInv, FileInv, Tells, SameClient, SameCalls
  <2>. QED  BY <2>1, <2>2 DEF FileInv
<1>4. ASSUME Orderly(r) PROVE Orderly(r)'
  <2>1. /\ Pend(r) = 1 /\ Waiting(queue, r) = 0 /\ nextSize[r] = 0
        /\ notified[r] /\ ~CallOf("took", r)
        /\ scanning[r] => CallOf("wait", r) /\ ~eof[r]
    BY <1>2, <1>4, ServiceFacts
  <2>2. /\ nextSize'[r] = 0 /\ notified'[r] /\ ~CallOf("took", r)' /\ (scanning'[r] => CallOf("wait", r)')
        /\ Waiting(queue', r) = 0
    BY <1>1, <2>1 DEF SameClient, SameCalls
  <2>3. Pend(r)' = IF Due(r)' THEN 1 ELSE 0
    BY <2>2 DEF Pend
  <2>4. Asks(r)'
    <3>1. Due(r)' => tidx' = bufIndex'[r]
      BY <1>1, <1>2, <1>4 DEF Orderly, Asks, Reading
    <3>2. scanning'[r] /\ Due(r)' => ~eof'[r]
      BY <1>1, <1>2, <1>4 DEF SameClient
    <3>. QED  BY <2>2, <2>3, <3>1, <3>2 DEF Asks
  <2>5. Holds(r)'
    <3>1. tidx = bufIndex[r] /\ bufIndex[r] \in {0, 1}
      BY <1>1, <1>2, <1>4, ReaderTypes DEF Orderly, Asks, Reading
    <3>2. buf'[r][OtherBlock(bufIndex[r])] = buf[r][OtherBlock(bufIndex[r])]
      BY <3>1 DEF OtherBlock
    <3>3. held'[r] = held[r]
      BY <1>1 DEF SameClient
    <3>. QED  BY <1>1, <1>4, <3>2, <3>3 DEF Orderly, Holds, BeginsFile, PartStart
  <2>6. Flows(r)'
    BY <1>1, <1>4, <2>2 DEF Flows, SameClient
  <2>7. JoinEnded(r)'
    BY <1>1, <1>4, <2>2 DEF JoinEnded
  <2>. QED  BY <2>4, <2>5, <2>6, <2>7 DEF Orderly
<1>5. Loose(r) => Loose(r)'
  BY <1>1, StaysLoose DEF Loose
<1>. QED  BY <1>3, <1>4, <1>5 DEF ReaderInv

(* What is known of a reader while the thread is on its block: under       *)
(* Orderly a join has not ended, so that its file is in the part the       *)
(* iterator names, and the position tells what the client was given.       *)
LEMMA ReadingFacts ==
  ASSUME OneEnd, TypeOK, EndOfJoin, NEW r \in Readers, ReaderInv(r), tid = r, tpc \in Reading
  PROVE  /\ file[r] # Closed /\ FileInv(r)
         /\ r \in Joined => r \notin Pipes \cup Rescanned /\ ~scanning[r] /\ file[r].itr >= 1
         /\ Orderly(r) => /\ tidx = bufIndex[r] /\ nextSize[r] = 0
                          /\ scanning[r] => ~eof[r]
                          /\ r \in Joined => ~eof[r]
                          /\ Sound(r) => file[r].pos = got[r] + IF Brings(r) THEN tn ELSE 0
                          /\ r \in Joined /\ Sound(r) /\ Opens(r, file[r].itr + 1) => file[r].itr = file[r].part
<1>1. FileInv(r) /\ Due(r) /\ Serving(r) /\ ~Spent(r)
  BY DEF ReaderInv, Due, Serving, Spent, Reading
<1>2. file[r] # Closed
  BY <1>1 DEF FileInv, Fresh
<1>3. r \in Joined => r \notin Pipes \cup Rescanned /\ ~scanning[r] /\ file[r].itr >= 1
  BY DEF OneEnd, PlainJoins, EndOfJoin, JoinInv
<1>4. ASSUME Orderly(r)
      PROVE  /\ tidx = bufIndex[r] /\ nextSize[r] = 0 /\ (scanning[r] => ~eof[r]) /\ (r \in Joined => ~eof[r])
             /\ Sound(r) => file[r].pos = got[r] + IF Brings(r) THEN tn ELSE 0
  <2>1. nextSize[r] = 0 /\ (scanning[r] => ~eof[r])
    BY <1>1, <1>4, ServiceFacts
  <2>2. tidx = bufIndex[r] /\ (r \in Joined => ~eof[r])
    BY <1>1, <1>4 DEF Orderly, Asks, JoinEnded, Reading
  <2>3. Flight(r) = IF Brings(r) THEN tn ELSE 0
    BY <2>1 DEF Flight
  <2>. QED  BY <1>4, <2>1, <2>2, <2>3 DEF Orderly, Flows
<1>5. ASSUME Orderly(r), r \in Joined, Sound(r), Opens(r, file[r].itr + 1) PROVE file[r].itr = file[r].part
  <2>1. ~failed[r]
    BY <1>1, <1>4, <1>5 DEF FileInv, Fails, Sound
  <2>2. Placed(r, file[r], eof[r])
    BY <1>2, <1>5, <2>1 DEF EndOfJoin, JoinInv
  <2>3. file[r].itr \in Nat /\ NParts(r) \in Nat /\ file[r].itr + 1 <= NParts(r)
    BY <1>5, ReaderTypes DEF Opens
  <2>. QED  BY <2>2, <2>3 DEF Placed
<1>. QED  BY <1>1, <1>2, <1>3, <1>4, <1>5

(* A read: the bytes that follow, all of one part, marked as the first of  *)
(* a file exactly when they are.                                           *)
LEMMA ReadsReader ==
  ASSUME OneEnd, TypeOK, EndOfJoin, NEW r \in Readers, ReaderInv(r), tid = r, Read
  PROVE  ReaderInv(r)'
<1> DEFINE f == file[r]
<1>1. PICK n \in ReadResults(r, f, size[r]) :
        ReadInto(r, f, n) /\ tpc' = IF EndOfPart(r, n) THEN "part" ELSE "size"
  BY DEF Read
<1>2. /\ tpc = "read" /\ tpc \in Reading /\ SameClient(r) /\ SameCalls(r)
      /\ UNCHANGED <<tid, tidx, queue, nextSize, bufIndex, eof>>
      /\ firstBlock'[r] = lastBlock[r] /\ lastBlock'[r] = FALSE
  BY DEF Read, Filling, ThreadAt, SameClient, SameCalls, CallOf, Reading, BeginsPart, TypeOK
<1>3. /\ f # Closed /\ FileInv(r)
      /\ r \in Joined => r \notin Pipes \cup Rescanned
      /\ Orderly(r) => /\ tidx = bufIndex[r] /\ nextSize[r] = 0
                       /\ scanning[r] => ~eof[r]
                       /\ r \in Joined => ~eof[r]
                       /\ Sound(r) => f.pos = got[r] + IF Brings(r) THEN tn ELSE 0
  BY <1>2, ReadingFacts
<1>4. /\ f \in Files /\ f.part \in 1..NParts(r) /\ f.pos \in Int /\ size[r] \in 1..BlockSize
      /\ PartStart(r, f.part) \in Int /\ PartEnd[r][f.part] \in Int /\ got[r] \in Int /\ BlockSize \in Nat
  BY ReaderTypes, BufferedReaderAssumption
<1>5. PartStart(r, f.part) <= f.pos /\ f.pos <= PartEnd[r][f.part]
  BY <1>3 DEF FileInv, InPart
<1>6. /\ n \in Int /\ n <= size[r] /\ tn' = n
      /\ n > 0 => /\ f.open /\ f.pos + n <= PartEnd[r][f.part] /\ file'[r] = [f EXCEPT !.pos = f.pos + n]
                  /\ buf'[r] = [buf[r] EXCEPT ![tidx] = BlockAt(f, n)]
      /\ n <= 0 => buf'[r] = buf[r] /\ file'[r] = f
      /\ n = 0 => f.pos = PartEnd[r][f.part]
      /\ n < 0 /\ f.open => r \in Faulty /\ failed'[r]
      /\ failed'[r] <=> failed[r] \/ (n < 0 /\ f.open)
      /\ r \notin Pipes /\ n > 0 /\ n < size[r] => f.pos + n = PartEnd[r][f.part]
  <2> HIDE DEF f
  <2> DEFINE max == size[r]
  <2>1. n \in ReadResults(r, f, max) /\ max \in 1..BlockSize /\ ReadInto(r, f, n)
    BY <1>1, <1>4
  <2> HIDE DEF max
  <2>2. /\ n \in Int /\ n <= max /\ tn' = n
        /\ n > 0 => /\ f.open /\ f.pos + n <= PartEnd[r][f.part] /\ file'[r] = [f EXCEPT !.pos = f.pos + n]
                    /\ buf'[r] = [buf[r] EXCEPT ![tidx] = BlockAt(f, n)]
        /\ n <= 0 => buf'[r] = buf[r] /\ file'[r] = f
        /\ n = 0 => f.pos = PartEnd[r][f.part]
        /\ n < 0 /\ f.open => r \in Faulty /\ failed'[r]
        /\ failed'[r] <=> failed[r] \/ (n < 0 /\ f.open)
        /\ r \notin Pipes /\ n > 0 /\ n < max => f.pos + n = PartEnd[r][f.part]
    BY <1>4, <1>5, <2>1, ReadFacts
  <2>. QED  BY <2>2 DEF max
<1>7. /\ file'[r].part = f.part /\ file'[r].open = f.open
      /\ file'[r].pos = IF n > 0 THEN f.pos + n ELSE f.pos
  BY <1>4, <1>6 DEF Files
<1> HIDE DEF f
<1>8. file'[r] # Closed
  <2>1. CASE n > 0
    BY <1>6, <1>7, <2>1 DEF Closed
  <2>2. CASE n <= 0
    BY <1>3, <1>6, <2>2
  <2>. QED  BY <1>6, <2>1, <2>2
<1>9. Sound(r)' => Sound(r) /\ ~(n < 0 /\ f.open)
  BY <1>6 DEF Sound
<1>10. /\ tpc' \in {"part", "size"} /\ (tpc' = "size" => n > 0)
       /\ tpc' = "part" => n <= 0 \/ (n < size[r] /\ r \in Joined)
  BY <1>1, <1>6 DEF EndOfPart
<1>11. Fills(r)
  BY <1>2, <1>10 DEF Fills
<1>12. ASSUME NEW i \in {0, 1}, i # tidx PROVE buf'[r][i] = buf[r][i]
  BY <1>6, <1>12, ReaderTypes
<1>13. InPart(r)'
  <2>1. PartStart(r, f.part) <= file'[r].pos /\ file'[r].pos <= PartEnd[r][f.part]
    BY <1>4, <1>5, <1>6, <1>7
  <2>. QED  BY <1>7, <2>1 DEF InPart, PartStart
<1>14. Marked(r)'
  <2>1. tpc' = "size" => file'[r].pos # PartStart(r, f.part)
    BY <1>4, <1>5, <1>6, <1>7, <1>10
  <2>. QED  BY <1>2, <1>7, <1>10, <2>1 DEF Marked, BeginsFile, PartStart
<1>15. OnePart(r)'
  BY <1>2, <1>3, <1>7 DEF FileInv, OnePart, f
<1>16. PartRead(r)'
  <2>1. ASSUME Sound(r)', ~f.open PROVE f.pos = PartEnd[r][f.part]
    BY <1>3, <1>9, <2>1 DEF FileInv, PartRead, f
  <2>2. ASSUME Sound(r)', tpc' = "part" PROVE file'[r].pos = PartEnd[r][f.part]
    <3>1. CASE n <= 0
      BY <1>6, <1>7, <1>9, <2>1, <2>2, <3>1
    <3>2. CASE n > 0
      BY <1>3, <1>6, <1>7, <1>10, <2>2, <3>2
    <3>. QED  BY <1>6, <3>1, <3>2
  <2>3. ASSUME Sound(r)', ~f.open PROVE file'[r].pos = PartEnd[r][f.part]
    BY <1>6, <1>7, <2>1, <2>3
  <2>4. ASSUME tpc' = "part", r \notin Joined, Sound(r)' PROVE n = 0
    <3>1. f.open
      BY <1>3, <2>4 DEF FileInv, OnePart, f
    <3>. QED  BY <1>6, <1>9, <1>10, <2>4, <3>1
  <2>. QED  BY <1>6, <1>7, <1>10, <2>2, <2>3, <2>4 DEF PartRead
<1>17. Fails(r)'
  BY <1>2, <1>3, <1>6 DEF FileInv, Fails
<1>18. Drained(r)'
  <2> SUFFICES ASSUME r \notin Joined \cup Rescanned, eof[r], Sound(r)'
               PROVE  got[r] = Total(r) /\ file'[r].pos = Total(r) /\ nextSize[r] = 0 /\ tn' = 0
    BY <1>2 DEF Drained, SameClient, Total, NParts
  <2>1. got[r] = Total(r) /\ f.pos = Total(r) /\ nextSize[r] = 0
    BY <1>9 DEF ReaderInv, Drained, f
  <2>2. f.open /\ f.part = 1 /\ NParts(r) = 1
    BY <1>3, BufferedReaderAssumption DEF FileInv, OnePart, f, NParts
  <2>3. f.pos = PartEnd[r][f.part]
    BY <2>1, <2>2 DEF Total
  <2>4. n = 0
    BY <1>4, <1>6, <1>9, <2>2, <2>3
  <2>. QED  BY <1>6, <1>7, <2>1, <2>4
<1>19. ASSUME Orderly(r)
       PROVE  /\ Brings(r)' => BytesAre(r, tn)'
              /\ Sound(r)' => file'[r].pos = got[r] + Flight(r)'
  <2>1. ~Brings(r)
    BY <1>2 DEF Brings
  <2>2. Sound(r)' => f.pos = got[r]
    BY <1>3, <1>4, <1>9, <1>19, <2>1
  <2>3. (Brings(r)' <=> n > 0) /\ nextSize'[r] = 0
    BY <1>2, <1>3, <1>6, <1>10, <1>19 DEF Brings
  <2>4. ASSUME n > 0 PROVE BytesAre(r, n)'
    <3> DEFINE blk == buf'[r][bufIndex'[r]]
    <3>1. blk = BlockAt(f, n)
      BY <1>2, <1>3, <1>6, <1>19, <2>4, ReaderTypes
    <3>2. blk.part = f.part /\ blk.from = f.pos /\ blk.to = f.pos + n
      BY <3>1 DEF BlockAt
    <3>3. f.open /\ f.pos < PartEnd[r][f.part]
      BY <1>4, <1>6, <2>4
    <3>4. firstBlock'[r] <=> BeginsFile(r, f.part, f.pos)
      BY <1>2, <1>3, <3>3 DEF FileInv, Marked, f
    <3>5. n <= BlockSize /\ (f.pos + n) - f.pos = n /\ f.pos + n <= PartEnd[r][f.part]
      BY <1>4, <1>6, <2>4
    <3>6. got'[r] = got[r]
      BY <1>2 DEF SameClient
    <3> HIDE DEF blk
    <3>7. /\ blk.to - blk.from = n /\ n <= BlockSize /\ blk.part \in 1..NParts(r)
          /\ PartStart(r, blk.part) <= blk.from /\ blk.to <= PartEnd[r][blk.part]
          /\ firstBlock'[r] <=> BeginsFile(r, blk.part, blk.from)
          /\ Sound(r)' => blk.from = got'[r]
      BY <1>4, <1>5, <2>2, <3>2, <3>4, <3>5, <3>6
    <3>. QED  BY <3>7 DEF BytesAre, blk, BeginsFile, PartStart, NParts
  <2>5. Flight(r)' = IF n > 0 THEN n ELSE 0
    BY <1>6, <2>3 DEF Flight
  <2>6. Sound(r)' => file'[r].pos = got[r] + Flight(r)'
    BY <1>4, <1>6, <1>7, <2>2, <2>5
  <2>. QED  BY <1>6, <2>3, <2>4, <2>6
<1>20. ~Spent(r)'
  BY <1>6, <1>10 DEF Spent
<1>. QED  BY <1>2, <1>3, <1>8, <1>11, <1>12, <1>13, <1>14, <1>15, <1>16, <1>17, <1>18, <1>19, <1>20, FillsReader

(* The end of the source: the bytes read before it are still handed over.  *)
LEMMA EndsReader ==
  ASSUME OneEnd, TypeOK, EndOfJoin, NEW r \in Readers, ReaderInv(r), tid = r, NoNextPart
  PROVE  ReaderInv(r)'
<1>1. /\ tpc = "part" /\ tpc \in Reading /\ tpc' = "size" /\ eof'[r] /\ SameClient(r) /\ SameCalls(r)
      /\ UNCHANGED <<tid, tidx, tn, queue, nextSize, bufIndex, buf, firstBlock, lastBlock>>
  BY DEF NoNextPart, Filling, ThreadAt, SameClient, SameCalls, CallOf, Reading, TypeOK
<1>2. /\ file[r] # Closed /\ FileInv(r) /\ file[r] \in Files
      /\ r \in Joined => r \notin Rescanned /\ ~scanning[r] /\ file[r].itr >= 1
      /\ Orderly(r) /\ Sound(r) => file[r].pos = got[r] + IF Brings(r) THEN tn ELSE 0
      /\ Orderly(r) => nextSize[r] = 0
  BY <1>1, ReadingFacts, ReaderTypes
<1>4. /\ r \notin Joined => file'[r] = file[r]
      /\ r \in Joined => file'[r] = [file[r] EXCEPT !.itr = file[r].itr + 1, !.open = FALSE]
      /\ failed[r] => failed'[r]
      /\ r \notin Joined => failed'[r] = failed[r]
  BY DEF NoNextPart, AtPart, TypeOK
<1>5. /\ file'[r].part = file[r].part /\ file'[r].pos = file[r].pos
      /\ r \notin Joined => file'[r].open = file[r].open
      /\ r \in Joined => file'[r].itr # 1 /\ ~file'[r].open
  <2>1. CASE r \notin Joined
    BY <1>4, <2>1
  <2>2. CASE r \in Joined
    <3>1. file[r].itr \in Nat /\ file[r].itr + 1 # 1
      BY <1>2, <2>2, ReaderTypes
    <3>2. /\ file'[r].part = file[r].part /\ file'[r].pos = file[r].pos
          /\ file'[r].itr = file[r].itr + 1 /\ ~file'[r].open
      BY <1>2, <1>4, <2>2 DEF Files
    <3>. QED  BY <2>2, <3>1, <3>2
  <2>. QED  BY <2>1, <2>2
<1>6. file'[r] # Closed
  BY <1>2, <1>4, <1>5 DEF Closed
<1>7. Sound(r)' => Sound(r) /\ file[r].pos = PartEnd[r][file[r].part] /\ (r \notin Joined => tn = 0)
  BY <1>1, <1>2, <1>4 DEF Sound, FileInv, PartRead
<1>8. Fills(r)
  BY <1>1 DEF Fills
<1>9. InPart(r)'
  BY <1>2, <1>5 DEF FileInv, InPart, PartStart
<1>10. Marked(r)' /\ OnePart(r)'
  BY <1>1, <1>2, <1>5 DEF FileInv, Marked, OnePart, BeginsFile
<1>11. PartRead(r)'
  BY <1>1, <1>5, <1>7 DEF PartRead
<1>12. Fails(r)'
  BY <1>1, <1>2, <1>4 DEF FileInv, Fails
<1>13. Brings(r)' = Brings(r)
  BY <1>1 DEF Brings
<1>14. ASSUME Orderly(r)
       PROVE  /\ Brings(r)' => BytesAre(r, tn)'
              /\ Sound(r)' => file'[r].pos = got[r] + Flight(r)'
              /\ scanning[r] => Spent(r)'
  <2>1. Brings(r)' => BytesAre(r, tn)'
    <3>1. Brings(r) => BytesAre(r, tn)
      BY <1>14 DEF Orderly, Flows
    <3>2. BytesAre(r, tn) => BytesAre(r, tn)'
      BY <1>1, <1>7 DEF BytesAre, BeginsFile, PartStart, SameClient
    <3>. QED  BY <1>13, <3>1, <3>2
  <2>2. Flight(r)' = IF Brings(r) THEN tn ELSE 0
    BY <1>1, <1>2, <1>13, <1>14 DEF Flight
  <2>3. scanning[r] => Spent(r)'
    <3> SUFFICES ASSUME scanning[r] PROVE Spent(r)'
      OBVIOUS
    <3>1. r \in Rescanned /\ r \notin Joined
      BY <1>2 DEF FileInv, Tells
    <3>2. Sound(r)'
      BY <3>1 DEF OneEnd, Sound
    <3>. QED  BY <1>1, <1>7, <3>1, <3>2 DEF Spent, ReaderInv
  <2>. QED  BY <1>2, <1>5, <1>7, <1>14, <2>1, <2>2, <2>3
<1>15. Drained(r)'
  <2> SUFFICES ASSUME r \notin Joined \cup Rescanned, Sound(r)'
               PROVE  got[r] = Total(r) /\ file[r].pos = Total(r) /\ nextSize[r] = 0 /\ tn = 0
    BY <1>1, <1>5 DEF Drained, SameClient, Total, NParts
  <2>1. tn = 0 /\ Sound(r)
    BY <1>7
  <2>2. file[r].pos = Total(r)
    <3>1. file[r].part = 1 /\ NParts(r) = 1
      BY <1>2, BufferedReaderAssumption DEF FileInv, OnePart, NParts
    <3>. QED  BY <1>7, <3>1 DEF Total
  <2>3. got[r] = Total(r) /\ nextSize[r] = 0
    <3>1. CASE Orderly(r)
      <4>1. ~Brings(r)
        BY <2>1, <1>2 DEF Brings
      <4>2. file[r].pos = got[r] + 0 /\ nextSize[r] = 0
        BY <1>2, <2>1, <3>1, <4>1
      <4>3. got[r] \in Int
        BY ReaderTypes
      <4>. QED  BY <2>2, <4>2, <4>3
    <3>2. CASE Loose(r)
      BY <2>1, <3>2 DEF Loose, ReaderInv, Drained
    <3>. QED  BY <3>1, <3>2 DEF ReaderInv
  <2>. QED  BY <2>1, <2>2, <2>3
<1>. QED  BY <1>1, <1>6, <1>8, <1>9, <1>10, <1>11, <1>12, <1>14, <1>15, FillsReader

(* A part of a join is opened and read for a block without a byte.         *)
LEMMA OpensPart ==
  ASSUME OneEnd, TypeOK, EndOfJoin, NEW r \in Joined, ReaderInv(r), tid = r, tpc \in {"part", "more"}, tn = 0,
         Opens(r, file[r].itr + 1), OpenAndRead(file[r].itr + 1), firstBlock'[r],
         SameClient(r), SameCalls(r), UNCHANGED <<tid, tidx, queue, nextSize, bufIndex, eof>>
  PROVE  ReaderInv(r)'
<1>0. r \in Readers /\ tpc \in Reading
  BY BufferedReaderAssumption DEF Reading
<1> DEFINE i == file[r].itr + 1
           f == AtPart(r, i)
<1>1. PICK n \in ReadResults(r, f, BlockSize) :
        /\ ReadInto(r, f, n)
        /\ lastBlock' = [lastBlock EXCEPT ![r] = n # 0 /\ n < BlockSize]
        /\ tpc' = IF n = 0 THEN "more" ELSE "size"
  BY DEF OpenAndRead
<1>2. /\ file[r] # Closed /\ FileInv(r)
      /\ r \notin Pipes \cup Rescanned /\ ~scanning[r] /\ file[r].itr >= 1 /\ file[r].itr \in Nat
      /\ Orderly(r) => /\ tidx = bufIndex[r] /\ nextSize[r] = 0 /\ ~eof[r]
                       /\ Sound(r) => file[r].pos = got[r] + IF Brings(r) THEN tn ELSE 0
                       /\ Sound(r) => file[r].itr = file[r].part
  BY <1>0, ReadingFacts, ReaderTypes
<1>3. i \in 1..NParts(r) /\ i > 1 /\ f = [part |-> i, itr |-> i, pos |-> PartStart(r, i), open |-> TRUE]
  BY <1>2 DEF Opens, AtPart
<1>4. /\ f \in Files /\ f.part = i /\ f.pos = PartStart(r, i) /\ f.open /\ f.itr = i
      /\ PartStart(r, i) \in Int /\ PartEnd[r][i] \in Int /\ PartStart(r, i) <= PartEnd[r][i]
      /\ got[r] \in Int /\ BlockSize \in Nat /\ BlockSize \in 1..BlockSize /\ file[r].part \in Int
  <2>1. f.part = i /\ f.pos = PartStart(r, i) /\ f.open /\ f.itr = i
    BY <1>3
  <2>2. f \in Files
    BY <1>0, <1>3, AtPartType
  <2>3. PartStart(r, i) \in Int /\ PartEnd[r][i] \in Int /\ PartStart(r, i) <= PartEnd[r][i]
    BY <1>0, <1>3, PartsFollow
  <2>4. BlockSize \in Nat /\ BlockSize \in 1..BlockSize
    BY BufferedReaderAssumption
  <2>5. got[r] \in Int /\ file[r].part \in 1..NParts(r) /\ NParts(r) \in Nat
    BY <1>0, ReaderTypes
  <2>. QED  BY <2>1, <2>2, <2>3, <2>4, <2>5
<1> HIDE DEF i, f
<1>5. /\ n \in Int /\ n <= BlockSize /\ tn' = n
      /\ n > 0 => /\ f.open /\ f.pos + n <= PartEnd[r][f.part] /\ file'[r] = [f EXCEPT !.pos = f.pos + n]
                  /\ buf'[r] = [buf[r] EXCEPT ![tidx] = BlockAt(f, n)]
      /\ n <= 0 => buf'[r] = buf[r] /\ file'[r] = f
      /\ n = 0 => f.pos = PartEnd[r][f.part]
      /\ n < 0 /\ f.open => r \in Faulty /\ failed'[r]
      /\ failed'[r] <=> failed[r] \/ (n < 0 /\ f.open)
      /\ r \notin Pipes /\ n > 0 /\ n < BlockSize => f.pos + n = PartEnd[r][f.part]
  <2>1. /\ PartStart(r, f.part) <= f.pos /\ f.pos <= PartEnd[r][f.part]
        /\ f \in Files /\ f.part \in 1..NParts(r) /\ BlockSize \in 1..BlockSize
        /\ n \in ReadResults(r, f, BlockSize) /\ ReadInto(r, f, n)
    BY <1>1, <1>3, <1>4
  <2>. QED  BY <1>0, <2>1, ReadFacts
<1>6. /\ file'[r].part = i /\ file'[r].open /\ file'[r].itr = i
      /\ file'[r].pos = IF n > 0 THEN PartStart(r, i) + n ELSE PartStart(r, i)
  BY <1>4, <1>5 DEF Files
<1>7. file'[r] # Closed
  BY <1>6 DEF Closed
<1>8. Sound(r)' => Sound(r) /\ n >= 0
  BY <1>4, <1>5 DEF Sound
<1>9. Fills(r)
  BY <1>0, <1>1 DEF Fills
<1>10. ASSUME NEW j \in {0, 1}, j # tidx PROVE buf'[r][j] = buf[r][j]
  BY <1>0, <1>5, <1>10, ReaderTypes
<1>11. InPart(r)'
  <2>1. PartStart(r, i) <= file'[r].pos /\ file'[r].pos <= PartEnd[r][i]
    BY <1>4, <1>5, <1>6
  <2>. QED  BY <1>6, <2>1 DEF InPart, PartStart
<1>12. Marked(r)'
  <2>1. lastBlock'[r] <=> n # 0 /\ n < BlockSize
    BY <1>0, <1>1 DEF TypeOK
  <2>2. n # 0 /\ file'[r].pos < PartEnd[r][i] => (n # 0 /\ n < BlockSize <=> file'[r].pos = PartStart(r, i))
    BY <1>2, <1>4, <1>5, <1>6
  <2>3. n = 0 => tpc' = "more"
    BY <1>1
  <2>. QED  BY <1>3, <1>6, <2>1, <2>2, <2>3 DEF Marked, BeginsFile, PartStart
<1>13. OnePart(r)'
  BY DEF OnePart
<1>14. PartRead(r)'
  <2>1. tpc' # "part" /\ (tpc' = "more" => n = 0)
    BY <1>1
  <2>. QED  BY <1>4, <1>5, <1>6, <2>1 DEF PartRead
<1>15. Fails(r)'
  BY <1>2, <1>4, <1>5 DEF FileInv, Fails
<1>16. Drained(r)'
  BY DEF Drained
<1>17. ASSUME Orderly(r)
       PROVE  /\ Brings(r)' => BytesAre(r, tn)'
              /\ Sound(r)' => file'[r].pos = got[r] + Flight(r)'
  <2>1. ~Brings(r)
    BY DEF Brings
  <2>2. Sound(r)' => PartStart(r, i) = got[r]
    <3> SUFFICES ASSUME Sound(r)' PROVE PartStart(r, i) = got[r]
      OBVIOUS
    <3>1. Sound(r)
      BY <1>8
    <3>2. file[r].pos = got[r] + 0 /\ file[r].itr = file[r].part
      BY <1>2, <1>17, <2>1, <3>1
    <3>3. file[r].pos = PartEnd[r][file[r].part]
      BY <1>2, <3>1 DEF FileInv, PartRead
    <3>4. file[r].part = i - 1
      BY <1>2, <3>2 DEF i
    <3>5. PartStart(r, i) = PartEnd[r][file[r].part]
      BY <1>3, <3>4 DEF PartStart
    <3>. QED  BY <1>4, <3>2, <3>3, <3>5
  <2>3. (Brings(r)' <=> n > 0) /\ nextSize'[r] = 0
    BY <1>1, <1>2, <1>5, <1>17 DEF Brings
  <2>4. ASSUME n > 0 PROVE BytesAre(r, n)'
    <3> DEFINE blk == buf'[r][bufIndex'[r]]
    <3>1. blk = BlockAt(f, n)
      BY <1>0, <1>2, <1>5, <1>17, <2>4, ReaderTypes
    <3>2. blk.part = i /\ blk.from = PartStart(r, i) /\ blk.to = PartStart(r, i) + n
      BY <1>4, <3>1 DEF BlockAt
    <3>3. firstBlock'[r] <=> BeginsFile(r, i, PartStart(r, i))
      BY <1>3 DEF BeginsFile
    <3>4. (PartStart(r, i) + n) - PartStart(r, i) = n /\ PartStart(r, i) + n <= PartEnd[r][i]
          /\ PartStart(r, i) <= PartStart(r, i)
      BY <1>4, <1>5, <2>4
    <3>5. got'[r] = got[r]
      BY DEF SameClient
    <3> HIDE DEF blk
    <3>6. /\ blk.to - blk.from = n /\ n <= BlockSize /\ blk.part \in 1..NParts(r)
          /\ PartStart(r, blk.part) <= blk.from /\ blk.to <= PartEnd[r][blk.part]
          /\ firstBlock'[r] <=> BeginsFile(r, blk.part, blk.from)
          /\ Sound(r)' => blk.from = got'[r]
      BY <1>3, <1>5, <2>2, <3>2, <3>3, <3>4, <3>5
    <3>. QED  BY <3>6 DEF BytesAre, blk, BeginsFile, PartStart, NParts
  <2>5. Flight(r)' = IF n > 0 THEN n ELSE 0
    BY <1>5, <2>3 DEF Flight
  <2>6. Sound(r)' => file'[r].pos = got[r] + Flight(r)'
    BY <1>4, <1>5, <1>6, <2>2, <2>5
  <2>. QED  BY <1>5, <2>3, <2>4, <2>6
<1>18. ~Spent(r)'
  BY <1>1, <1>5 DEF Spent
<1>19. Orderly(r) => ~(r \in Joined /\ eof'[r]) /\ ~(scanning[r] /\ eof'[r])
  BY <1>2
<1>. QED  BY <1>0, <1>7, <1>9, <1>10, <1>11, <1>12, <1>13, <1>14, <1>15, <1>16, <1>17, <1>18, <1>19, FillsReader

(* The next part is opened for the block after the one that was read.      *)
LEMMA GoesToPart ==
  ASSUME OneEnd, TypeOK, EndOfJoin, NEW r \in Joined, ReaderInv(r), tid = r, NextPart, tn # 0
  PROVE  ReaderInv(r)'
<1> DEFINE i == file[r].itr + 1
<1>0. /\ r \in Readers /\ tpc = "part" /\ tpc \in Reading /\ Opens(r, i) /\ tpc' = "size"
      /\ file'[r] = AtPart(r, i) /\ lastBlock'[r]
      /\ SameClient(r) /\ SameCalls(r)
      /\ UNCHANGED <<tid, tidx, tn, queue, nextSize, bufIndex, eof, buf, firstBlock, failed>>
  BY BufferedReaderAssumption
     DEF NextPart, Filling, ThreadAt, SameClient, SameCalls, CallOf, Reading, TypeOK
<1>1. /\ file[r] # Closed /\ FileInv(r)
      /\ r \notin Rescanned /\ ~scanning[r] /\ file[r].itr >= 1 /\ file[r].itr \in Nat
      /\ Orderly(r) => /\ nextSize[r] = 0 /\ ~eof[r]
                       /\ Sound(r) => file[r].pos = got[r] + IF Brings(r) THEN tn ELSE 0
                       /\ Sound(r) => file[r].itr = file[r].part
  BY <1>0, ReadingFacts, ReaderTypes
<1>2. i \in 1..NParts(r) /\ i > 1
  BY <1>0, <1>1 DEF Opens
<1>3. /\ file'[r].part = i /\ file'[r].pos = PartStart(r, i) /\ file'[r].open /\ file'[r] # Closed
  BY <1>0 DEF AtPart, Closed
<1>4. /\ PartStart(r, i) \in Int /\ PartStart(r, i) <= PartEnd[r][i] /\ got[r] \in Int /\ file[r].part \in Int
  <2>1. file[r].part \in 1..NParts(r) /\ NParts(r) \in Nat
    BY <1>0, ReaderTypes
  <2>. QED  BY <1>0, <1>2, <2>1, PartsFollow, ReaderTypes
<1>5. Fills(r)
  BY <1>0 DEF Fills
<1>6. InPart(r)' /\ Marked(r)' /\ OnePart(r)'
  <2>1. PartStart(r, i) <= PartStart(r, i)
    BY <1>4
  <2>2. InPart(r)'
    BY <1>3, <1>4, <2>1 DEF InPart, PartStart
  <2>3. Marked(r)' /\ OnePart(r)'
    BY <1>0, <1>2, <1>3 DEF Marked, OnePart, BeginsFile, PartStart
  <2>. QED  BY <2>2, <2>3
<1>7. PartRead(r)'
  BY <1>0, <1>3 DEF PartRead
<1>8. Fails(r)' /\ Drained(r)'
  BY <1>0, <1>1 DEF FileInv, Fails, Drained
<1>9. Brings(r)' = Brings(r) /\ Sound(r)' = Sound(r)
  BY <1>0 DEF Brings, Sound
<1>10. ASSUME Orderly(r)
       PROVE  /\ Brings(r)' => BytesAre(r, tn)'
              /\ Sound(r)' => file'[r].pos = got[r] + Flight(r)'
  <2>1. Brings(r)' => BytesAre(r, tn)'
    <3>1. Brings(r) => BytesAre(r, tn)
      BY <1>10 DEF Orderly, Flows
    <3>2. BytesAre(r, tn) => BytesAre(r, tn)'
      BY <1>0, <1>9 DEF BytesAre, BeginsFile, PartStart, SameClient
    <3>. QED  BY <1>9, <3>1, <3>2
  <2>2. Flight(r)' = IF Brings(r) THEN tn ELSE 0
    BY <1>0, <1>1, <1>9, <1>10 DEF Flight
  <2>3. ASSUME Sound(r) PROVE PartStart(r, i) = file[r].pos
    <3>1. file[r].pos = PartEnd[r][file[r].part] /\ file[r].part = file[r].itr
      BY <1>0, <1>1, <1>10, <2>3 DEF FileInv, PartRead
    <3>2. file[r].part = i - 1 /\ i # 1
      BY <1>1, <1>2, <3>1
    <3>. QED  BY <3>1, <3>2 DEF PartStart
  <2>. QED  BY <1>1, <1>3, <1>9, <1>10, <2>1, <2>2, <2>3
<1>11. ~Spent(r)'
  BY <1>0 DEF Spent
<1>12. Orderly(r) => ~(r \in Joined /\ eof'[r]) /\ ~(scanning[r] /\ eof'[r])
  BY <1>0, <1>1
<1>. QED  BY <1>0, <1>3, <1>5, <1>6, <1>7, <1>8, <1>10, <1>11, <1>12, FillsReader

(* The last parts were empty.                                              *)
LEMMA FindsNoPart ==
  ASSUME OneEnd, TypeOK, EndOfJoin, NEW r \in Readers, ReaderInv(r), tid = r, EmptyToTheEnd
  PROVE  ReaderInv(r)'
<1> DEFINE i == file[r].itr + 1
<1>0. /\ tpc = "more" /\ tpc \in Reading /\ tpc' = "size" /\ eof'[r]
      /\ file'[r] = IF i > NParts(r) THEN [file[r] EXCEPT !.itr = i] ELSE AtPart(r, i)
      /\ ~Opens(r, i) /\ (failed[r] => failed'[r])
      /\ SameClient(r) /\ SameCalls(r)
      /\ UNCHANGED <<tid, tidx, tn, queue, nextSize, bufIndex, buf, firstBlock>>
  BY DEF EmptyToTheEnd, Filling, ThreadAt, SameClient, SameCalls, CallOf, Reading, NoNameLeft, TypeOK
<1>1. /\ file[r] # Closed /\ FileInv(r) /\ file[r] \in Files
      /\ Orderly(r) => /\ nextSize[r] = 0
                       /\ Sound(r) => file[r].pos = got[r] + IF Brings(r) THEN tn ELSE 0
  BY <1>0, ReadingFacts, ReaderTypes
<1>2. tn = 0 /\ r \in Joined /\ file[r].pos = PartEnd[r][file[r].part]
  BY <1>0, <1>1 DEF FileInv, PartRead
<1>3. r \notin Rescanned /\ ~scanning[r] /\ file[r].itr >= 1 /\ file[r].itr \in Nat
  BY <1>0, <1>2, ReadingFacts, ReaderTypes
<1>4. /\ file'[r].part = file[r].part /\ file'[r].pos = file[r].pos /\ file'[r] # Closed
  <2>1. i # 1
    BY <1>3
  <2>2. file'[r].part = file[r].part /\ file'[r].pos = file[r].pos /\ file'[r].itr = i
    BY <1>0, <1>1 DEF AtPart, Files
  <2>. QED  BY <2>1, <2>2 DEF Closed
<1>5. Fills(r)
  BY <1>0 DEF Fills
<1>6. InPart(r)'
  BY <1>1, <1>4 DEF FileInv, InPart, PartStart
<1>7. Marked(r)' /\ OnePart(r)' /\ PartRead(r)' /\ Fails(r)' /\ Drained(r)'
  <2>1. ~(file'[r].pos < PartEnd[r][file'[r].part])
    BY <1>2, <1>4, ReaderTypes
  <2>2. Marked(r)' /\ OnePart(r)'
    BY <1>2, <2>1 DEF Marked, OnePart
  <2>3. PartRead(r)'
    BY <1>0, <1>2, <1>4 DEF PartRead
  <2>. QED  BY <1>0, <1>2, <2>2, <2>3 DEF Fails, Drained
<1>8. ~Brings(r) /\ ~Brings(r)' /\ (Sound(r)' => Sound(r))
  BY <1>0, <1>2 DEF Brings, Sound
<1>9. ASSUME Orderly(r), Sound(r)' PROVE file'[r].pos = got[r] + Flight(r)'
  <2>1. Flight(r)' = 0
    BY <1>0, <1>1, <1>8, <1>9 DEF Flight
  <2>. QED  BY <1>1, <1>4, <1>8, <1>9, <2>1
<1>. QED  BY <1>0, <1>3, <1>4, <1>5, <1>6, <1>7, <1>8, <1>9, FillsReader

(* m_eof is set for a block without a byte: it is set already, unless the  *)
(* reader was put back to its start since.                                 *)
LEMMA SizesReader ==
  ASSUME OneEnd, TypeOK, NEW r \in Readers, ReaderInv(r), tid = r, ResetSize
  PROVE  ReaderInv(r)'
<1>1. /\ tpc = "size" /\ tpc' = "hand" /\ eof'[r] = (eof[r] \/ tn = 0)
      /\ SameClient(r) /\ SameCalls(r)
      /\ UNCHANGED <<tid, tidx, tn, queue, nextSize, bufIndex, buf, firstBlock, lastBlock, file, failed>>
  BY DEF ResetSize, ThreadAt, SameClient, SameCalls, CallOf, TypeOK
<1>2. /\ Spent(r)' = Spent(r) /\ Brings(r)' = Brings(r) /\ Due(r)' = Due(r) /\ Serving(r)' = Serving(r)
      /\ Serving(r) /\ (Spent(r) <=> tn = 0) /\ Sound(r)' = Sound(r)
      /\ Waiting(queue', r) = Waiting(queue, r)
  BY <1>1 DEF Spent, Brings, Due, Serving, Sound, Waiting, Occ
<1>3. Pend(r)' = Pend(r) /\ Flight(r)' = Flight(r)
  BY <1>1, <1>2 DEF Pend, Flight
<1>4. FileInv(r)
  BY DEF ReaderInv
<1>5. FileInv(r)'
  <2>1. InPart(r)' /\ Marked(r)' /\ OnePart(r)'
    BY <1>1, <1>4 DEF FileInv, InPart, Marked, OnePart, BeginsFile, PartStart
  <2>2. PartRead(r)'
    BY <1>1, <1>2, <1>4 DEF FileInv, PartRead
  <2>3. Fails(r)' /\ Fresh(r)' /\ Tells(r)'
    BY <1>1, <1>2, <1>4 DEF FileInv, Fails, Fresh, Tells, SameClient, SameCalls
  <2>. QED  BY <2>1, <2>2, <2>3 DEF FileInv
<1>6. ASSUME Orderly(r), scanning[r] \/ r \notin Rescanned PROVE eof'[r] = eof[r]
  <2>1. tn = 0 => eof[r]
    BY <1>2, <1>6 DEF Orderly, Asks
  <2>. QED  BY <1>1, <2>1, ReaderTypes
<1>7. ASSUME Orderly(r) PROVE Orderly(r)'
  <2>1. Asks(r)'
    <3>1. scanning[r] => eof'[r] = eof[r]
      BY <1>6, <1>7
    <3>2. Pend(r)' <= 1 /\ (Due(r)' /\ tpc' \notin {"get", "begin"} => tidx' = bufIndex'[r])
      BY <1>1, <1>2, <1>3, <1>7 DEF Orderly, Asks
    <3>3. Spent(r)' => eof'[r]
      BY <1>1, <1>2
    <3>. QED  BY <1>1, <1>2, <1>3, <1>7, <3>1, <3>2, <3>3 DEF Orderly, Asks, SameClient, SameCalls
  <2>2. Holds(r)'
    BY <1>1, <1>7 DEF Orderly, Holds, BeginsFile, PartStart, SameClient
  <2>3. Flows(r)'
    <3>1. \A n : BytesAre(r, n) => BytesAre(r, n)'
      BY <1>1, <1>2 DEF BytesAre, BeginsFile, PartStart, SameClient
    <3>. QED  BY <1>1, <1>2, <1>3, <1>7, <3>1 DEF Orderly, Flows, SameClient
  <2>4. JoinEnded(r)'
    <3>1. r \in Joined => eof'[r] = eof[r]
      BY <1>6, <1>7 DEF OneEnd, PlainJoins
    <3>. QED  BY <1>1, <1>2, <1>7, <3>1 DEF Orderly, JoinEnded, SameClient, SameCalls
  <2>. QED  BY <2>1, <2>2, <2>3, <2>4 DEF Orderly
<1>8. Loose(r) => Loose(r)'
  BY <1>1, StaysLoose DEF Loose
<1>9. Drained(r)'
  <2> SUFFICES ASSUME r \notin Joined \cup Rescanned, eof'[r], Sound(r)
               PROVE  /\ got[r] = Total(r) /\ file[r].pos = Total(r) /\ nextSize[r] = 0 /\ tn = 0
    BY <1>1, <1>2 DEF Drained, SameClient, Total, NParts
  <2>1. eof[r]
    BY <1>6 DEF ReaderInv, Loose
  <2>. QED  BY <1>1, <2>1 DEF ReaderInv, Drained
<1>. QED  BY <1>5, <1>7, <1>8, <1>9 DEF ReaderInv

(* What the thread has read is what the client will find.                  *)
LEMMA HandsToReader ==
  ASSUME TypeOK, NEW r \in Readers, ReaderInv(r), tid = r, HandOver
  PROVE  ReaderInv(r)'
<1>1. /\ tpc = "hand" /\ tpc' = "unlock" /\ nextSize'[r] = tn
      /\ SameClient(r) /\ SameCalls(r)
      /\ UNCHANGED <<tid, tidx, tn, queue, eof, bufIndex, buf, firstBlock, lastBlock, file, failed>>
  BY DEF HandOver, ThreadAt, SameClient, SameCalls, CallOf, TypeOK
<1>2. /\ ~Spent(r)' /\ ~Brings(r)' /\ ~Due(r)' /\ ~Serving(r)'
      /\ Serving(r) /\ (Spent(r) <=> tn = 0) /\ (Due(r) <=> tn # 0) /\ (Brings(r) <=> tn > 0)
      /\ Sound(r)' = Sound(r) /\ Waiting(queue', r) = Waiting(queue, r)
  BY <1>1 DEF Spent, Brings, Due, Serving, Sound, Waiting, Occ
<1>3. Pend(r)' = Waiting(queue, r) /\ Waiting(queue, r) \in Nat /\ tn \in Int /\ (tn = 0 => Pend(r) = Waiting(queue, r))
  BY <1>2, ReaderTypes DEF Pend
<1>4. FileInv(r) /\ file[r] # Closed
  BY <1>2 DEF ReaderInv, FileInv, Fresh
<1>5. FileInv(r)'
  <2>1. InPart(r)' /\ Marked(r)' /\ OnePart(r)'
    BY <1>1, <1>4 DEF FileInv, InPart, Marked, OnePart, BeginsFile, PartStart
  <2>2. PartRead(r)'
    BY <1>1, <1>2, <1>4 DEF FileInv, PartRead
  <2>3. Fails(r)' /\ Fresh(r)' /\ Tells(r)'
    BY <1>1, <1>4 DEF FileInv, Fails, Fresh, Tells, SameClient, SameCalls
  <2>. QED  BY <2>1, <2>2, <2>3 DEF FileInv
<1>6. ASSUME Orderly(r) PROVE Orderly(r)'
  <2>0. nextSize[r] = 0
    BY <1>2, <1>6 DEF Orderly, Asks
  <2>1. tn # 0 => /\ Waiting(queue, r) = 0 /\ notified[r] /\ ~CallOf("took", r)
                  /\ scanning[r] => CallOf("wait", r) /\ ~eof[r]
    BY <1>2, <1>6, ServiceFacts
  <2>2. Asks(r)'
    <3>1. CASE tn = 0
      BY <1>1, <1>2, <1>3, <1>6, <3>1 DEF Orderly, Asks, SameClient, SameCalls
    <3>2. CASE tn # 0
      <4>1. Pend(r)' = 0 /\ notified'[r] /\ ~CallOf("took", r)' /\ (scanning'[r] => CallOf("wait", r)' /\ ~eof'[r])
        BY <1>1, <1>3, <2>1, <3>2 DEF SameClient, SameCalls
      <4>. QED  BY <1>2, <4>1 DEF Asks
    <3>. QED  BY <3>1, <3>2
  <2>3. Holds(r)'
    BY <1>1, <1>6 DEF Orderly, Holds, BeginsFile, PartStart, SameClient
  <2>4. Flows(r)'
    <3>1. \A n : BytesAre(r, n) => BytesAre(r, n)'
      BY <1>1, <1>2 DEF BytesAre, BeginsFile, PartStart, SameClient
    <3>2. tn > 0 => BytesAre(r, tn)'
      BY <1>1, <1>2, <1>6, <3>1 DEF Orderly, Flows
    <3>3. Flight(r) = IF tn > 0 THEN tn ELSE 0
      BY <1>2, <2>0 DEF Flight
    <3>4. Flight(r)' = IF tn > 0 THEN tn ELSE 0
      BY <1>1, <1>2 DEF Flight
    <3>. QED  BY <1>1, <1>2, <1>6, <3>2, <3>3, <3>4 DEF Orderly, Flows, SameClient
  <2>5. JoinEnded(r)'
    BY <1>1, <1>2, <1>6 DEF Orderly, JoinEnded, SameClient, SameCalls
  <2>. QED  BY <2>2, <2>3, <2>4, <2>5 DEF Orderly
<1>7. Loose(r) => Loose(r)'
  BY <1>1, StaysLoose DEF Loose
<1>8. Drained(r)'
  BY <1>1, <1>2 DEF ReaderInv, Drained, SameClient
<1>. QED  BY <1>5, <1>6, <1>7, <1>8 DEF ReaderInv

(* A step of the thread for the reader it serves.                          *)
LEMMA ServesReader ==
  ASSUME OneEnd, TypeOK, EndOfJoin, Thread, NEW r \in Readers, ReaderInv(r)
  PROVE  ReaderInv(r)'
<1>1. CASE LoopTest \/ UnlockProcess \/ Served \/ (tid # r /\ ~Pop) \/ (Pop /\ Head(queue) # r)
  BY <1>1, ThreadOfOther
<1>2. CASE Pop /\ Head(queue) = r
  BY <1>2, PopsRequest
<1>3. CASE tid = r /\ (GetReader \/ ChooseBlock \/ LockProcess)
  BY <1>3, ReachesRead
<1>4. CASE tid = r /\ Read
  BY <1>4, ReadsReader
<1>5. CASE tid = r /\ NoNextPart
  BY <1>5, EndsReader
<1>6. CASE tid = r /\ (NextPart \/ SkipEmptyPart)
  <2>1. CASE NextPart /\ tn # 0
    <3>1. r \in Joined
      BY <1>6, <2>1 DEF NextPart
    <3>. QED  BY <1>6, <2>1, <3>1, GoesToPart
  <2>2. CASE ~(NextPart /\ tn # 0)
    <3>1. tpc \in {"part", "more"} /\ tpc \in Reading
      BY <1>6 DEF NextPart, SkipEmptyPart, Filling, ThreadAt, Reading
    <3>2. FileInv(r)
      BY DEF ReaderInv
    <3>3. /\ SameClient(r) /\ SameCalls(r) /\ UNCHANGED <<tid, tidx, queue, nextSize, bufIndex, eof>>
          /\ Opens(r, file[r].itr + 1) /\ OpenAndRead(file[r].itr + 1)
      BY <1>6, <2>2 DEF NextPart, SkipEmptyPart, Filling, ThreadAt, SameClient, SameCalls, CallOf
    <3>4. r \in Joined /\ tn = 0 /\ firstBlock'[r]
      <4>1. CASE NextPart
        BY <1>6, <2>2, <4>1 DEF NextPart, TypeOK
      <4>2. CASE SkipEmptyPart
        BY <1>6, <3>2, <4>2 DEF SkipEmptyPart, Filling, ThreadAt, FileInv, PartRead
      <4>. QED  BY <1>6, <4>1, <4>2
    <3>. QED  BY <1>6, <3>1, <3>3, <3>4, OpensPart
  <2>. QED  BY <2>1, <2>2
<1>7. CASE tid = r /\ EmptyToTheEnd
  BY <1>7, FindsNoPart
<1>8. CASE tid = r /\ ResetSize
  BY <1>8, SizesReader
<1>9. CASE tid = r /\ HandOver
  BY <1>9, HandsToReader
<1>. QED  BY <1>1, <1>2, <1>3, <1>4, <1>5, <1>6, <1>7, <1>8, <1>9 DEF Thread
-----------------------------------------------------------------------------
(* The client is given its source *)

(* A call of the client.                                                   *)
LEMMA CallsReader ==
  ASSUME OneEnd, TypeOK, LifeInv, Client, NEW r \in Readers, ReaderInv(r)
  PROVE  ReaderInv(r)'
<1>1. CASE \E s \in Readers \ {r} : \/ OpenStream(s) \/ ReadRequest(s) \/ Notify(s) \/ IncSeek(s) \/ DeleteCall(s)
                                    \/ \E pos \in GotoTo[s] : GotoByte(s, pos)
  BY <1>1, ClientOfOther
<1>2. CASE (\E s \in Readers : CreateReader(s)) \/ Terminate \/ PushSentinel
  BY <1>2, ClientOfOther
<1>3. CASE cid # r /\ (ReadTake \/ ReadDone \/ DeleteReader)
  BY <1>3, ClientOfOther
<1>4. CASE OpenStream(r)
  BY <1>4, OpensReader
<1>5. CASE ReadRequest(r) \/ Notify(r)
  BY <1>5, AsksReader
<1>6. CASE IncSeek(r)
  BY <1>6, PutsReaderBack
<1>7. CASE \E pos \in GotoTo[r] : GotoByte(r, pos)
  BY <1>7, StartsReader
<1>8. CASE cid = r /\ ReadTake
  BY <1>8, TakesFromReader
<1>9. CASE cid = r /\ ReadDone
  BY <1>9, ReturnsFromRead
<1>10. CASE DeleteCall(r) \/ (cid = r /\ DeleteReader) \/ Join
  <2>1. /\ SameData(r) /\ UNCHANGED <<notified, got, told, scanning, tid, tpc, tn, tidx>>
        /\ cpc \in {"idle", "delete", "join"} /\ cpc' \in {"idle", "delete", "end"}
    BY <1>10 DEF DeleteCall, DeleteReader, Join, Ending, ClientAt, SameData
  <2>2. SameService(r) /\ SameCalls(r)
    BY <2>1 DEF SameService, SameCalls, Serving, CallOf
  <2>3. held'[r] = held[r] \/ held'[r].n = 0
    BY <1>10 DEF DeleteCall, DeleteReader, Join, Nothing, TypeOK
  <2>4. queue' = queue
    BY <1>10 DEF DeleteCall, DeleteReader, Join
  <2>. QED  BY <2>1, <2>2, <2>3, <2>4, LeavesReader
<1>. QED  BY <1>1, <1>2, <1>3, <1>4, <1>5, <1>6, <1>7, <1>8, <1>9, <1>10 DEF Client

LEMMA InitReader ==
  ASSUME Init, NEW r \in Readers
  PROVE  ReaderInv(r)
<1>1. /\ file[r] = Closed /\ ~lastBlock[r] /\ ~eof[r] /\ ~failed[r] /\ ~scanning[r] /\ told[r] = 0 /\ got[r] = 0
      /\ nextSize[r] = 0 /\ held[r].n = 0 /\ tpc = "off" /\ cpc = "idle" /\ queue = <<>>
  BY DEF Init, Nothing
<1>2. /\ file[r].part = 1 /\ file[r].pos = 0 /\ ~file[r].open /\ PartStart(r, 1) = 0
  BY <1>1 DEF Closed, PartStart
<1>3. 1 \in 1..NParts(r) /\ PartStart(r, 1) <= PartEnd[r][1] /\ PartStart(r, 1) \in Int
  <2>1. Len(PartEnd[r]) > 0 /\ Len(PartEnd[r]) \in Nat
    BY BufferedReaderAssumption, LenProperties
  <2>2. 1 \in 1..NParts(r)
    BY <2>1 DEF NParts
  <2>. QED  BY <2>2, PartsFollow
<1>4. Waiting(queue, r) = 0
  <2>1. Occ(<<>>, r) = {}
    BY EmptySeq DEF Occ
  <2>. QED  BY <1>1, <2>1, FS_EmptySet DEF Waiting
<1>5. ~Serving(r) /\ ~Spent(r) /\ ~Due(r) /\ ~Brings(r) /\ Pend(r) = 0 /\ Flight(r) = 0
  BY <1>1, <1>4 DEF Serving, Spent, Due, Brings, Pend, Flight
<1>6. FileInv(r)
  <2>1. InPart(r)
    BY <1>2, <1>3 DEF InPart
  <2>. QED  BY <1>1, <1>2, <1>4, <1>5, <2>1 DEF FileInv, Marked, OnePart, PartRead, Fails, Fresh, Tells, CallOf
<1>7. Orderly(r) /\ Drained(r)
  BY <1>1, <1>2, <1>5 DEF Orderly, Asks, Holds, Flows, JoinEnded, Drained
<1>. QED  BY <1>6, <1>7 DEF ReaderInv

ReadersInv == \A r \in Readers : ReaderInv(r)

(* What is said of a reader holds in every state the program is in.        *)
THEOREM ReadersAsDescribed == OneEnd => (Spec => []ReadersInv)
<1> SUFFICES ASSUME OneEnd PROVE Spec => []ReadersInv
  OBVIOUS
<1>1. Init => ReadersInv
  BY InitReader DEF ReadersInv
<1>2. TypeOK /\ LifeInv /\ EndOfJoin /\ ReadersInv /\ [Next]_vars => ReadersInv'
  <2> SUFFICES ASSUME TypeOK, LifeInv, EndOfJoin, ReadersInv, [Next]_vars, NEW r \in Readers
               PROVE  ReaderInv(r)'
    BY DEF ReadersInv
  <2>1. ReaderInv(r)
    BY DEF ReadersInv
  <2>2. CASE Thread
    BY <2>1, <2>2, ServesReader
  <2>3. CASE Client
    BY <2>1, <2>3, CallsReader
  <2>4. CASE UNCHANGED vars
    <3>1. SameData(r) /\ SameClient(r) /\ SameService(r) /\ SameCalls(r) /\ queue' = queue
      BY <2>4 DEF vars, SameData, SameClient, SameService, SameCalls, Serving, CallOf
    <3>. QED  BY <2>1, <3>1, QuietReader DEF Waiting, Occ
  <2>. QED  BY <2>2, <2>3, <2>4 DEF Next, Ended
<1>3. Spec => []EndOfJoin
  BY JoinsKeepTheirPlace DEF OneEnd
<1>. QED  BY <1>1, <1>2, <1>3, TypeCorrect, LifeCorrect, PTL DEF Spec

(* No block is torn: while the client works on one, its bytes, its size    *)
(* and its mark are those it was handed, and the thread fills the other.   *)
THEOREM BlocksAreNotTorn == OneEnd => (Spec => []NoTornBlock)
<1>1. ASSUME TypeOK, ReadersInv PROVE NoTornBlock
  <2> SUFFICES ASSUME NEW r \in Readers, held[r].n > 0
               PROVE  LET blk == held[r].blk IN
                        /\ buf[r][held[r].idx] = blk
                        /\ held[r].n = blk.to - blk.from
                        /\ ~(tpc \in Reading /\ tid = r /\ tidx = held[r].idx)
                        /\ held[r].first <=> blk.part > 1 /\ blk.from = PartStart(r, blk.part)
    BY DEF NoTornBlock
  <2>1. Orderly(r)
    BY <1>1 DEF ReadersInv, ReaderInv, Loose
  <2>2. held[r].idx = OtherBlock(bufIndex[r]) /\ bufIndex[r] \in {0, 1}
    BY <1>1, <2>1, ReaderTypes DEF Orderly, Holds
  <2>3. tpc \in Reading /\ tid = r => tidx = bufIndex[r]
    BY <2>1 DEF Orderly, Asks, Due, Serving, Spent, Reading
  <2>4. ~(tpc \in Reading /\ tid = r /\ tidx = held[r].idx)
    BY <2>2, <2>3 DEF OtherBlock
  <2>. QED  BY <2>1, <2>4 DEF Orderly, Holds, BeginsFile
<1>. QED  BY <1>1, TypeCorrect, ReadersAsDescribed, PTL

(* A client that is told of the end of a single file, which is not scanned *)
(* first, has been given all of it, unless a read of it failed.            *)
OthersAllDelivered ==
  \A r \in Readers \ (Joined \cup Rescanned) : told[r] > 0 /\ ~failed[r] => got[r] = Total(r)

THEOREM EndIsToldAfterTheBytes == OneEnd => (Spec => []OthersAllDelivered)
<1>1. ReadersInv => OthersAllDelivered
  BY DEF ReadersInv, ReaderInv, FileInv, Tells, Drained, Sound, OthersAllDelivered
<1>. QED  BY <1>1, ReadersAsDescribed, PTL

THEOREM EofOfSingleFiles == OneEnd /\ Joined \cup Rescanned = {} => (Spec => []EofMeansAllDelivered)
<1> SUFFICES ASSUME OneEnd, Joined \cup Rescanned = {} PROVE Spec => []EofMeansAllDelivered
  OBVIOUS
<1>1. OthersAllDelivered => EofMeansAllDelivered
  BY DEF OthersAllDelivered, EofMeansAllDelivered
<1>. QED  BY <1>1, EndIsToldAfterTheBytes, PTL

\* Whether the client of each reader was told of the end, as BlockStream sees it
StreamEnds == [s \in Readers |-> told[s] > 0]

LEMMA EndsChange ==
  ASSUME TypeOK, NEW r \in Readers, NEW x \in Nat, told' = [told EXCEPT ![r] = x]
  PROVE  /\ x > 0 => StreamEnds' = [StreamEnds EXCEPT ![r] = TRUE]
         /\ x = 0 => StreamEnds' = [StreamEnds EXCEPT ![r] = FALSE]
         /\ x = 0 /\ told[r] = 0 => StreamEnds' = StreamEnds
<1>1. \A s \in Readers : told'[s] = IF s = r THEN x ELSE told[s]
  BY DEF TypeOK
<1>2. x > 0 <=> x # 0
  OBVIOUS
<1>3. \A s \in Readers : (told'[s] > 0) = IF s = r THEN x # 0 ELSE told[s] > 0
  BY <1>1, <1>2
<1>4. told[r] = 0 => (told[r] > 0) = FALSE
  OBVIOUS
<1>5. CASE x > 0
  BY <1>2, <1>3, <1>5, Zenon DEF StreamEnds
<1>6. CASE x = 0
  <2>1. StreamEnds' = [StreamEnds EXCEPT ![r] = FALSE]
    BY <1>3, <1>6, Zenon DEF StreamEnds
  <2>2. told[r] = 0 => StreamEnds' = StreamEnds
    BY <1>3, <1>4, <1>6, Zenon DEF StreamEnds
  <2>. QED  BY <1>2, <1>6, <2>1, <2>2
<1>. QED  BY <1>2, <1>5, <1>6

(* A block that is taken is the next one of the stream, and the end that   *)
(* is told is the end of the source but for the readers of EarlyEnd.       *)
LEMMA TakesFromStream ==
  ASSUME OneEnd, Faulty = {}, TypeOK, ReadersInv, NEW r \in Readers, cid = r, ReadTake
  PROVE  [Stream!Next]_(Stream!vars)
<1> DEFINE n == TakenSize(r)
           early == Joined \cup Rescanned
<1>1. ReaderInv(r) /\ Sound(r) /\ FileInv(r)
  BY DEF ReadersInv, ReaderInv, Sound
<1>2. /\ Takes(r, n) /\ (nextSize[r] # 0 \/ eof[r]) /\ told[r] <= ExtraReads[r] /\ n \in Nat
      /\ n > 0 => Orderly(r) /\ BytesAre(r, n) /\ n = nextSize[r]
  BY <1>1, TakesBlock
<1>3. /\ got' = IF n > 0 THEN [got EXCEPT ![r] = buf[r][bufIndex[r]].to] ELSE got
      /\ told' = [told EXCEPT ![r] = IF eof[r] THEN told[r] + 1 ELSE 0]
  BY DEF ReadTake
<1>4. told[r] \in Nat /\ (told[r] > 0 => eof[r])
  BY <1>1, ReaderTypes DEF FileInv, Tells
<1>5. eof[r] /\ r \notin early => got[r] = Total(r) /\ nextSize[r] = 0
  BY <1>1 DEF ReaderInv, Drained
<1>6. ~eof[r] => StreamEnds' = StreamEnds
  <2> SUFFICES ASSUME ~eof[r] PROVE StreamEnds' = StreamEnds
    OBVIOUS
  <2>1. told' = [told EXCEPT ![r] = 0] /\ told[r] = 0
    BY <1>3, <1>4
  <2>2. \A x \in Nat : told' = [told EXCEPT ![r] = x] => (x = 0 /\ told[r] = 0 => StreamEnds' = StreamEnds)
    BY EndsChange
  <2>3. 0 \in Nat
    OBVIOUS
  <2>. QED  BY <2>1, <2>2, <2>3, Zenon
<1>7. eof[r] => StreamEnds' = [StreamEnds EXCEPT ![r] = TRUE]
  <2>1. told[r] + 1 \in Nat /\ told[r] + 1 > 0
    BY <1>4
  <2>. QED  BY <1>1, <1>3, <2>1, EndsChange
<1>8. CASE n > 0
  <2> DEFINE blk == buf[r][bufIndex[r]]
  <2>1. /\ blk.to - blk.from = n /\ n <= BlockSize /\ blk.part \in 1..NParts(r) /\ blk.from = got[r]
        /\ PartStart(r, blk.part) <= blk.from /\ blk.to <= PartEnd[r][blk.part]
    BY <1>1, <1>2, <1>8 DEF BytesAre
  <2>2. blk.to \in Int /\ blk.from \in Int /\ BlockSize \in Nat
    BY <1>1, ReaderTypes, BufferedReaderAssumption DEF Blocks
  <2>3. blk.to \in (got[r] + 1)..(got[r] + BlockSize)
    BY <1>2, <1>8, <2>1, <2>2
  <2>4. blk.part \in DOMAIN PartEnd[r]
    <3>1. PartEnd[r] \in Seq(Nat)
      BY <1>1, BufferedReaderAssumption
    <3>2. DOMAIN PartEnd[r] = 1..Len(PartEnd[r])
      BY <3>1, LenProperties
    <3>. QED  BY <2>1, <3>2 DEF NParts
  <2>5. eof[r] => r \in early
    BY <1>2, <1>5, <1>8
  <2>6. ~StreamEnds[r]
    <3>1. told[r] > 0 => ExtraReads[r] = 0
      BY <1>1, <1>4, <2>5 DEF OneEnd, Early
    <3>2. ExtraReads[r] \in Nat
      BY <1>1, BufferedReaderAssumption
    <3>3. ~(told[r] > 0)
      BY <1>2, <1>4, <3>1, <3>2
    <3>. QED  BY <1>1, <3>3, Zenon DEF StreamEnds
  <2>7. got' = [got EXCEPT ![r] = blk.to]
    BY <1>3, <1>8
  <2>8. Stream!PartStart(r, blk.part) <= got[r]
    BY <2>1 DEF Stream!PartStart, PartStart
  <2> HIDE DEF blk, early
  <2>9. \/ StreamEnds' = StreamEnds
        \/ Stream!MayEnd(r) /\ StreamEnds' = [StreamEnds EXCEPT ![r] = TRUE]
    BY <1>6, <1>7, <2>5 DEF Stream!MayEnd, early
  <2>10. Stream!Deliver(r)
    BY <2>1, <2>3, <2>4, <2>6, <2>7, <2>8, <2>9 DEF Stream!Deliver, StreamEnds
  <2>11. Stream!Next
    BY <1>1, <2>10 DEF Stream!Next
  <2>. QED  BY <2>11
<1>9. CASE n = 0
  <2>1. got' = got
    BY <1>3, <1>9
  <2>2. CASE eof[r]
    <3>1. Stream!MayEnd(r)
      BY <1>5, <2>1, <2>2 DEF Stream!MayEnd, Stream!Total, Total, NParts
    <3>2. Stream!End(r)
      BY <1>7, <2>1, <2>2, <3>1 DEF Stream!End, StreamEnds
    <3>3. Stream!Next
      BY <1>1, <3>2 DEF Stream!Next
    <3>. QED  BY <3>3
  <2>3. CASE ~eof[r]
    BY <1>6, <2>1, <2>3 DEF Stream!vars, StreamEnds
  <2>. QED  BY <2>2, <2>3
<1>. QED  BY <1>2, <1>8, <1>9

(* A seek puts the stream where it says.                                   *)
LEMMA SeeksStream ==
  ASSUME OneEnd, TypeOK, LifeInv, ReadersInv, NEW r \in Readers,
         IncSeek(r) \/ \E pos \in GotoTo[r] : GotoByte(r, pos)
  PROVE  Stream!Next
<1>1. told' = [told EXCEPT ![r] = 0]
  BY DEF IncSeek, GotoByte, SeekDone
<1>2. StreamEnds' = [StreamEnds EXCEPT ![r] = FALSE]
  BY <1>1, EndsChange
<1>3. CASE IncSeek(r)
  <2>1. got' = [got EXCEPT ![r] = 0] /\ scanning[r]
    BY <1>3 DEF IncSeek
  <2>2. r \in Rescanned
    BY <2>1 DEF ReadersInv, ReaderInv, FileInv, Tells
  <2>3. Stream!Seek(r, 0)
    BY <1>2, <2>1 DEF Stream!Seek, StreamEnds
  <2>. QED  BY <2>2, <2>3 DEF Stream!Next
<1>4. ASSUME NEW pos \in GotoTo[r], GotoByte(r, pos) PROVE Stream!Next
  <2>1. got' = [got EXCEPT ![r] = pos]
    BY <1>4 DEF GotoByte
  <2>2. Stream!Seek(r, pos)
    BY <1>2, <2>1 DEF Stream!Seek, StreamEnds
  <2>. QED  BY <2>2 DEF Stream!Next
<1>. QED  BY <1>3, <1>4

(* The read-ahead implements the stream its client is promised.            *)
THEOREM ReadAheadIsAStream == OneEnd /\ Faulty = {} => (Spec => StreamSpec)
<1> SUFFICES ASSUME OneEnd, Faulty = {} PROVE Spec => StreamSpec
  OBVIOUS
<1>1. Init => Stream!Init
  <2> SUFFICES ASSUME Init PROVE Stream!Init
    OBVIOUS
  <2>1. \A r \in Readers : told[r] = 0
    BY DEF Init
  <2>2. ~(0 > 0)
    OBVIOUS
  <2>3. \A r \in Readers : (told[r] > 0) = FALSE
    BY <2>1, <2>2
  <2>4. [r \in Readers |-> told[r] > 0] = [r \in Readers |-> FALSE]
    BY <2>3, Zenon
  <2>5. got = [r \in Readers |-> 0]
    BY DEF Init
  <2>. QED  BY <2>4, <2>5 DEF Stream!Init
<1>2. TypeOK /\ LifeInv /\ ReadersInv /\ [Next]_vars => [Stream!Next]_(Stream!vars)
  <2> SUFFICES ASSUME TypeOK, LifeInv, ReadersInv, [Next]_vars PROVE [Stream!Next]_(Stream!vars)
    OBVIOUS
  <2>1. CASE ReadTake
    <3>1. cid \in Readers
      BY <2>1 DEF ReadTake, ClientAt, TypeOK, InCall
    <3>. QED  BY <2>1, <3>1, TakesFromStream
  <2>2. CASE \E r \in Readers : IncSeek(r) \/ \E pos \in GotoTo[r] : GotoByte(r, pos)
    BY <2>2, SeeksStream
  <2>3. CASE UNCHANGED <<got, told>>
    BY <2>3 DEF Stream!vars
  <2>4. CASE Thread
    <3>1. UNCHANGED <<got, told>>
      BY <2>4 DEF Thread, LoopTest, Pop, GetReader, ChooseBlock, LockProcess, Read, NoNextPart, NextPart,
                  SkipEmptyPart, EmptyToTheEnd, ResetSize, HandOver, UnlockProcess, Served, Moving, Filling, ThreadAt
    <3>. QED  BY <2>3, <3>1
  <2>5. CASE \/ \E r \in Readers : CreateReader(r) \/ OpenStream(r) \/ ReadRequest(r) \/ Notify(r) \/ DeleteCall(r)
             \/ ReadDone \/ DeleteReader \/ Terminate \/ PushSentinel \/ Join
    <3>1. UNCHANGED <<got, told>>
      BY <2>5 DEF CreateReader, OpenStream, ReadRequest, Notify, DeleteCall, ReadDone, DeleteReader, Terminate,
                  PushSentinel, Join, Ending
    <3>. QED  BY <2>3, <3>1
  <2>6. CASE UNCHANGED vars
    BY <2>3, <2>6 DEF vars
  <2>. QED  BY <2>1, <2>2, <2>4, <2>5, <2>6 DEF Next, Client, Ended
<1>. QED  BY <1>1, <1>2, TypeCorrect, LifeCorrect, ReadersAsDescribed, PTL DEF Spec, StreamSpec, Stream!Spec
=============================================================================

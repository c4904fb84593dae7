------------------------ MODULE StreamScheduleProofs ------------------------
(***************************************************************************)
(* Proofs about StreamSchedule, for any number of tracks and files, every  *)
(* size of block and buffer and everything the files may hold.             *)
(***************************************************************************)
EXTENDS StreamSchedule, SequenceTheorems, WellFoundedInduction, TLAPS

USE DEF fileVars, trackVars, streamVars, outVars, jobVars, scanVars, ghostVars

-----------------------------------------------------------------------------
(* The inductive invariant *)

Source == IsSource(src)

(* What the demuxer of a file has given of a track is what its calls give. *)
Given(t) == IF at[File(t)] = 0 THEN 0 ELSE src.upto[File(t)][at[File(t)]][t]

(* The buffer holds the block handed on last, and nothing of it is handed  *)
(* on any more while the file is read on.                                  *)
Buffers ==
  /\ \A f \in Files : at[f] <= Steps(src, f)
  /\ \A t \in Tracks : demuxed[t] = Given(t)
  /\ \A t \in Tracks : lastReadCnt[t] <= size[t]
  /\ pc \in {"demux", "demuxed"} => idx \in Tracks /\ lastReadCnt[idx] = 0

IInv == TypeOK /\ Source /\ Buffers /\ NothingLost

-----------------------------------------------------------------------------
(* What a job reads *)

(* The tracks are 1 to N, and a track's file is a file.                    *)
LEMMA TracksFact == Tracks \subseteq Nat /\ N \in Nat /\ \A t \in Tracks : t + 1 \in 1..(N + 1) /\ t \in 0..N
BY ScheduleAssumption DEF Tracks

(* What a job's files hold, by field: the file of each track, how its times *)
(* are moved, and what the demuxer of each file tells.                      *)
LEMMA SourceTypes ==
  ASSUME Source
  PROVE  /\ src.file \in [Tracks -> Files]
         /\ src.sparse \in [Tracks -> BOOLEAN]
         /\ src.keeps \in [Tracks -> BOOLEAN]
         /\ src.shift \in [Tracks -> Int]
         /\ src.clipStart \in [Tracks -> Nat]
         /\ src.long \in [Tracks -> Nat]
         /\ src.tells \in [Files -> BOOLEAN]
BY DEF Source, IsSource

(* The pieces of a track have times, and the joins their gaps.             *)
LEMMA PieceTypes ==
  ASSUME Source, NEW t \in Tracks, NEW n \in Nat, 1 <= n, n <= Len(src.time[t])
  PROVE  src.time[t][n] \in Nat /\ src.dts[t][n] \in Nat /\ src.gap[t][n] \in Nat
<1>1. /\ src.time[t] \in Seq(Nat) /\ src.dts[t] \in Seq(Nat) /\ src.gap[t] \in Seq(Nat)
      /\ Len(src.dts[t]) = Len(src.time[t]) /\ Len(src.gap[t]) = Len(src.time[t])
  BY DEF Source, IsSource
<1>2. n \in 1..Len(src.time[t]) /\ n \in 1..Len(src.dts[t]) /\ n \in 1..Len(src.gap[t])
  BY <1>1
<1>. QED  BY <1>1, <1>2, ElementOfSeq

(* The calls of simpleDemuxBlock give more and more of a track, and no     *)
(* more than it has.                                                       *)
LEMMA UptoTypes ==
  ASSUME Source, NEW t \in Tracks, NEW k \in Nat, 1 <= k, k <= Steps(src, File(t))
  PROVE  /\ src.upto[File(t)][k][t] \in Nat
         /\ src.upto[File(t)][k][t] <= Len(src.time[t])
         /\ k > 1 => src.upto[File(t)][k - 1][t] <= src.upto[File(t)][k][t]
<1>1. File(t) \in Files /\ src.upto[File(t)] \in Seq([Tracks -> Nat])
  BY DEF Source, IsSource, File
<1>2. k \in 1..Len(src.upto[File(t)])
  BY <1>1 DEF Steps
<1>3. k \in DOMAIN src.upto[File(t)] /\ src.upto[File(t)][k] \in [Tracks -> Nat]
  BY <1>1, <1>2
<1>. QED  BY <1>3 DEF Source, IsSource, File

(* The order of the numbers as a relation, for the library's theorems.     *)
LessNat == {ss \in Nat \X Nat : ss[1] < ss[2]}

(* Every set of numbers has a least one: the code looks for the first gap   *)
(* that a track has not passed.                                             *)
LEMMA NatWellFounded == IsWellFoundedOn(LessNat, Nat)
BY NatLessThanWellFounded DEF OpToRel, LessNat

(* A joint whose gap has not passed is the first of those.                 *)
LEMMA FirstGapType ==
  ASSUME Source, NEW t \in Tracks, Gaps(t) # {}
  PROVE  FirstGap(t) \in Gaps(t) /\ FirstGap(t) \in Nat
<1>1. Gaps(t) \subseteq Nat
  <2>1. src.gap[t] \in Seq(Nat)
    BY DEF Source, IsSource
  <2>2. DOMAIN src.gap[t] \subseteq Nat
    BY <2>1
  <2>. QED  BY <2>2 DEF Gaps
<1>2. \E n \in Gaps(t) : \A m \in Gaps(t) : ~ (<<m, n>> \in LessNat)
  BY <1>1, NatWellFounded, WFMin
<1>3. PICK n \in Gaps(t) : \A m \in Gaps(t) : ~ (<<m, n>> \in LessNat)
  BY <1>2
<1>4. \A m \in Gaps(t) : n <= m
  <2> TAKE m \in Gaps(t)
  <2>1. m \in Nat /\ n \in Nat /\ ~ (m < n)
    BY <1>1, <1>3 DEF LessNat
  <2>. QED  BY <2>1
<1>. QED  BY <1>1, <1>4 DEF FirstGap

-----------------------------------------------------------------------------
(* Types of the parts of a step *)

(* What is left in a track's buffer, and the block of it that readBlock     *)
(* hands on, are numbers, and the block is no more than what is left.       *)
LEMMA BlockType ==
  ASSUME TypeOK, NEW t \in Tracks, lastReadCnt[t] <= size[t]
  PROVE  Left(t) \in Nat /\ Block(t) \in Nat /\ Block(t) <= Left(t)
<1>1. size[t] \in Nat /\ lastReadCnt[t] \in Nat
  BY DEF TypeOK
<1>. QED  BY <1>1, ScheduleAssumption DEF Left, Block, Least

(* The search for the next track begins again at the first stream.          *)
LEMMA RescanType ==
  ASSUME Source, Rescan
  PROVE  /\ pc' = "scan" /\ idx' \in 1..(N + 1) /\ best' \in 0..N
         /\ allDelayed' \in BOOLEAN /\ demuxRez' = demuxRez
         /\ stocked' \subseteq Tracks /\ crowded' \subseteq Files
<1>1. \A t \in Tracks : File(t) \in Files
  BY SourceTypes DEF File
<1>2. 1 \in 1..(N + 1) /\ 0 \in 0..N
  BY TracksFact
<1>. QED  BY <1>1, <1>2 DEF Rescan

(* The best track so far is a track, or none.                               *)
LEMMA ConsiderType ==
  ASSUME TypeOK, NEW t \in Tracks, Consider(t)
  PROVE  best' \in 0..N
BY TracksFact DEF TypeOK, Consider

(* Going on to the next stream leaves what the demuxer answered.            *)
LEMMA PassType ==
  ASSUME NEW t \in Tracks, Pass(t)
  PROVE  pc' = "scan" /\ idx' \in 1..(N + 1) /\ demuxRez' = demuxRez
BY TracksFact DEF Pass

(* The tracks that have waited are tracks.                                  *)
LEMMA CatchUpType ==
  ASSUME TypeOK, NEW t \in Tracks, NEW d, CatchUp(t, d)
  PROVE  waited' \subseteq Tracks
BY DEF TypeOK, CatchUp

(* The pieces on their way to the output are pieces that the file has.     *)
LEMMA CountsInRange ==
  ASSUME IInv, NEW t \in Tracks
  PROVE  given[t] + HeldCount(t) + reader[t] <= Len(src.time[t]) /\ Len(src.time[t]) \in Nat
<1>1. Len(src.time[t]) \in Nat
  BY LenProperties DEF IInv, Source, IsSource
<1>2. demuxed[t] <= Len(src.time[t])
  <2>1. File(t) \in Files /\ at[File(t)] \in Nat /\ at[File(t)] <= Steps(src, File(t))
    BY SourceTypes DEF IInv, TypeOK, Buffers, File
  <2>2. demuxed[t] = Given(t)
    BY DEF IInv, Buffers
  <2>3. CASE at[File(t)] = 0
    BY <1>1, <2>2, <2>3 DEF Given
  <2>4. CASE at[File(t)] # 0
    <3>1. 1 <= at[File(t)]
      BY <2>1, <2>4
    <3>. QED  BY <2>1, <2>2, <2>4, <3>1, UptoTypes DEF Given, IInv
  <2>. QED  BY <2>3, <2>4
<1>3. /\ demuxed[t] = given[t] + HeldCount(t) + reader[t] + size[t] - lastReadCnt[t]
      /\ lastReadCnt[t] <= size[t]
  BY DEF IInv, NothingLost, Buffers
<1>4. /\ demuxed[t] \in Nat /\ given[t] \in Nat /\ reader[t] \in Nat /\ size[t] \in Nat
      /\ lastReadCnt[t] \in Nat /\ HeldCount(t) \in Nat
  BY DEF IInv, TypeOK, HeldCount
<1>. QED  BY <1>1, <1>2, <1>3, <1>4

(* A packet that is about to be returned is due at a time.                 *)
LEMMA DueType ==
  ASSUME IInv, NEW t \in Tracks, reader[t] > 0 \/ held[t]
  PROVE  /\ Due(t, given[t] + 1) \in Int
         /\ Duration(t) \in Int
<1>1. given[t] + HeldCount(t) + reader[t] <= Len(src.time[t]) /\ Len(src.time[t]) \in Nat
  BY CountsInRange
<1>2. given[t] \in Nat /\ reader[t] \in Nat /\ timeShift[t] \in Int /\ HeldCount(t) \in {0, 1}
  BY DEF IInv, TypeOK, HeldCount
<1>3. given[t] + 1 \in Nat /\ 1 <= given[t] + 1 /\ given[t] + 1 <= Len(src.time[t])
  BY <1>1, <1>2 DEF HeldCount
<1>4. src.dts[t][given[t] + 1] \in Nat
  BY <1>3, PieceTypes DEF IInv
<1>5. src.long[t] \in Nat
  BY SourceTypes DEF IInv
<1>. QED  BY <1>2, <1>4, <1>5 DEF Due, Duration

(* The time a track's reader has come to is a number, negative at most      *)
(* before its first packet.                                                 *)
LEMMA PositionType ==
  ASSUME IInv, NEW t \in Tracks
  PROVE  Position(t) \in Int
<1>1. given[t] + HeldCount(t) + reader[t] <= Len(src.time[t]) /\ Len(src.time[t]) \in Nat
  BY CountsInRange
<1>2. given[t] \in Nat /\ reader[t] \in Nat /\ timeShift[t] \in Int /\ HeldCount(t) \in {0, 1}
      /\ lastDTS[t] \in Int /\ src.long[t] \in Nat
  BY SourceTypes DEF IInv, TypeOK, HeldCount
<1>3. given[t] # 0 => src.dts[t][given[t]] \in Nat
  <2> HAVE given[t] # 0
  <2>1. 1 <= given[t] /\ given[t] <= Len(src.time[t])
    BY <1>1, <1>2
  <2>. QED  BY <1>2, <2>1, PieceTypes DEF IInv
<1>. QED  BY <1>2, <1>3 DEF Position
-----------------------------------------------------------------------------
(* One lemma per action: the invariant is kept *)

(* What a block, or the end, does to the variables but the buffer's own.   *)
LEMMA DeliverType ==
  ASSUME TypeOK, Source, NEW t \in Tracks, NEW n \in Nat, NEW end \in BOOLEAN, Deliver(t, n, end)
  PROVE  /\ lastReadCnt' \in [Tracks -> Nat] /\ gotData' \in [Tracks -> BOOLEAN]
         /\ avRez' \in [Tracks -> {"ok", "need", "delayed"}]
         /\ rez' \in [Tracks -> {"ok", "delayed", "eof", "eof2"}]
         /\ isEOF' \in [Tracks -> BOOLEAN] /\ reader' \in [Tracks -> Nat]
         /\ known' \in [Tracks -> Nat] /\ started' \in [Tracks -> BOOLEAN]
         /\ timeShift' \in [Tracks -> Int] /\ lastDTS' \in [Tracks -> Int]
         /\ allDelayed' = FALSE /\ best' \in 0..N
         /\ pc' = "scan" /\ idx' \in 1..(N + 1) /\ demuxRez' = demuxRez
         /\ UNCHANGED <<src, fileVars, flushed, held, passed, given, jobVars, ghostVars>>
<1>1. timeShift' \in [Tracks -> Int] /\ lastDTS' \in [Tracks -> Int]
  BY SourceTypes DEF TypeOK, Deliver, Most
<1>2. gotData' \in [Tracks -> BOOLEAN] /\ started' \in [Tracks -> BOOLEAN]
  <2>1. \A x \in BOOLEAN : (x \/ n > 0) \in BOOLEAN
    OBVIOUS
  <2>. QED  BY <2>1 DEF TypeOK, Deliver
<1>3. /\ lastReadCnt' \in [Tracks -> Nat] /\ reader' \in [Tracks -> Nat] /\ known' \in [Tracks -> Nat]
      /\ isEOF' \in [Tracks -> BOOLEAN]
  BY DEF TypeOK, Deliver
<1>4. /\ avRez' \in [Tracks -> {"ok", "need", "delayed"}]
      /\ rez' \in [Tracks -> {"ok", "delayed", "eof", "eof2"}]
  BY DEF TypeOK, Deliver
<1>5. best' \in 0..N
  BY ConsiderType DEF Deliver
<1>6. pc' = "scan" /\ idx' \in 1..(N + 1) /\ demuxRez' = demuxRez
  BY PassType DEF Deliver
<1>7. allDelayed' = FALSE /\ UNCHANGED <<src, fileVars, flushed, held, passed, given, jobVars, ghostVars>>
  BY DEF Deliver
<1>. QED  BY <1>1, <1>2, <1>3, <1>4, <1>5, <1>6, <1>7

(* The places of the pieces stay as they are.                              *)
LEMMA ScanFlushKeeps ==
  ASSUME IInv, NEW t \in Tracks, ScanFlush(t)
  PROVE  IInv'
<1>. TypeOK /\ Source /\ Buffers /\ NothingLost
  BY DEF IInv
<1>a. TypeOK'
  BY PassType, ConsiderType DEF TypeOK, ScanFlush
<1>b. Source'
  BY DEF ScanFlush, Source
<1>c. Buffers'
  BY DEF Buffers, Given, File, TypeOK, ScanFlush, Pass
<1>d. NothingLost'
  BY DEF NothingLost, HeldCount, ScanFlush
<1>. QED  BY <1>a, <1>b, <1>c, <1>d DEF IInv

(* The places of the pieces stay as they are.                              *)
LEMMA ReadNotNeededKeeps ==
  ASSUME IInv, NEW t \in Tracks, ReadNotNeeded(t)
  PROVE  IInv'
<1>. TypeOK /\ Source /\ Buffers /\ NothingLost
  BY DEF IInv
<1>a. TypeOK'
  BY PassType, ConsiderType DEF TypeOK, ReadNotNeeded
<1>b. Source'
  BY DEF ReadNotNeeded, Source
<1>c. Buffers'
  BY DEF Buffers, Given, File, TypeOK, ReadNotNeeded, Pass
<1>d. NothingLost'
  BY DEF NothingLost, HeldCount, ReadNotNeeded
<1>. QED  BY <1>a, <1>b, <1>c, <1>d DEF IInv

(* The places of the pieces stay as they are.                              *)
LEMMA ReadAtEndKeeps ==
  ASSUME IInv, NEW t \in Tracks, ReadAtEnd(t)
  PROVE  IInv'
<1>. TypeOK /\ Source /\ Buffers /\ NothingLost
  BY DEF IInv
<1>a. TypeOK'
  BY PassType, ConsiderType DEF TypeOK, ReadAtEnd
<1>b. Source'
  BY DEF ReadAtEnd, Source
<1>c. Buffers'
  BY DEF Buffers, Given, File, TypeOK, ReadAtEnd, Pass
<1>d. NothingLost'
  BY DEF NothingLost, HeldCount, ReadAtEnd
<1>. QED  BY <1>a, <1>b, <1>c, <1>d DEF IInv

(* The block handed on before leaves the buffer, and the next goes to the reader. *)
LEMMA HandOnAtOnceKeeps ==
  ASSUME IInv, NEW t \in Tracks, HandOnAtOnce(t)
  PROVE  IInv'
<1>. TypeOK /\ Source /\ Buffers /\ NothingLost
  BY DEF IInv
<1>1. lastReadCnt[t] <= size[t]
  BY DEF Buffers
<1>2. Left(t) \in Nat /\ Block(t) \in Nat /\ Block(t) <= Left(t)
  BY <1>1, BlockType
<1>3. /\ size' = [size EXCEPT ![t] = Left(t)] /\ lastReadCnt' = [lastReadCnt EXCEPT ![t] = Block(t)]
      /\ reader' = [reader EXCEPT ![t] = @ + Block(t)]
      /\ UNCHANGED <<src, at, demuxed, held, given>>
      /\ Pass(t)
  BY DEF HandOnAtOnce, Deliver
<1>a. TypeOK'
  <2>1. size' \in [Tracks -> Nat] /\ mark' \in [Tracks -> {"ok", "delayed", "eof"}]
    BY <1>2 DEF TypeOK, HandOnAtOnce
  <2>2. Deliver(t, Block(t), FALSE)
    BY DEF HandOnAtOnce
  <2>. QED  BY <1>2, <2>1, <2>2, DeliverType DEF TypeOK
<1>b. Source'
  BY DEF HandOnAtOnce, Deliver, Source
<1>c. Buffers'
  BY <1>2, <1>3 DEF Buffers, Given, File, TypeOK, Pass
<1>d. NothingLost'
  <2> SUFFICES ASSUME NEW u \in Tracks
              PROVE  demuxed'[u] = given'[u] + HeldCount(u)' + reader'[u] + size'[u] - lastReadCnt'[u]
    BY DEF NothingLost
  <2>1. demuxed[u] = given[u] + HeldCount(u) + reader[u] + size[u] - lastReadCnt[u]
    BY DEF NothingLost
  <2>2. HeldCount(u)' = HeldCount(u) /\ HeldCount(u) \in Nat
    BY <1>3 DEF HeldCount
  <2>. QED  BY <1>2, <1>3, <2>1, <2>2 DEF Left, TypeOK
<1>. QED  BY <1>a, <1>b, <1>c, <1>d DEF IInv

(* The block handed on before leaves the buffer.                           *)
LEMMA StaysDelayedKeeps ==
  ASSUME IInv, NEW t \in Tracks, StaysDelayed(t)
  PROVE  IInv'
<1>. TypeOK /\ Source /\ Buffers /\ NothingLost
  BY DEF IInv
<1>1. lastReadCnt[t] <= size[t]
  BY DEF Buffers
<1>2. Left(t) \in Nat
  BY <1>1, BlockType
<1>a. TypeOK'
  BY <1>2, PassType DEF TypeOK, StaysDelayed, Skip
<1>b. Source'
  BY DEF StaysDelayed, Skip, Source
<1>c. Buffers'
  BY <1>2 DEF Buffers, Given, File, TypeOK, StaysDelayed, Skip, Pass
<1>d. NothingLost'
  <2> SUFFICES ASSUME NEW u \in Tracks
              PROVE  demuxed'[u] = given'[u] + HeldCount(u)' + reader'[u] + size'[u] - lastReadCnt'[u]
    BY DEF NothingLost
  <2>1. demuxed[u] = given[u] + HeldCount(u) + reader[u] + size[u] - lastReadCnt[u]
    BY DEF NothingLost
  <2>2. HeldCount(u)' = HeldCount(u) /\ HeldCount(u) \in Nat
    BY DEF HeldCount, StaysDelayed, Skip
  <2>. QED  BY <2>1, <2>2 DEF Left, TypeOK, StaysDelayed, Skip
<1>. QED  BY <1>a, <1>b, <1>c, <1>d DEF IInv

(* The block handed on before leaves the buffer.                           *)
LEMMA StartDemuxKeeps ==
  ASSUME IInv, NEW t \in Tracks, StartDemux(t)
  PROVE  IInv'
<1>. TypeOK /\ Source /\ Buffers /\ NothingLost
  BY DEF IInv
<1>1. lastReadCnt[t] <= size[t]
  BY DEF Buffers
<1>2. Left(t) \in Nat
  BY <1>1, BlockType
<1>a. TypeOK'
  BY <1>2 DEF TypeOK, StartDemux
<1>b. Source'
  BY DEF StartDemux, Source
<1>c. Buffers'
  BY <1>2 DEF Buffers, Given, File, TypeOK, StartDemux, WantsBlock
<1>d. NothingLost'
  <2> SUFFICES ASSUME NEW u \in Tracks
              PROVE  demuxed'[u] = given'[u] + HeldCount(u)' + reader'[u] + size'[u] - lastReadCnt'[u]
    BY DEF NothingLost
  <2>1. demuxed[u] = given[u] + HeldCount(u) + reader[u] + size[u] - lastReadCnt[u]
    BY DEF NothingLost
  <2>2. HeldCount(u)' = HeldCount(u) /\ HeldCount(u) \in Nat
    BY DEF HeldCount, StartDemux
  <2>. QED  BY <2>1, <2>2 DEF Left, TypeOK, StartDemux
<1>. QED  BY <1>a, <1>b, <1>c, <1>d DEF IInv

(* The places of the pieces stay as they are.                              *)
LEMMA DemuxAgainKeeps ==
  ASSUME IInv, NEW t \in Tracks, DemuxAgain(t)
  PROVE  IInv'
<1>. TypeOK /\ Source /\ Buffers /\ NothingLost
  BY DEF IInv
<1>a. TypeOK'
  BY DEF TypeOK, DemuxAgain
<1>b. Source'
  BY DEF DemuxAgain, Source
<1>c. Buffers'
  BY DEF Buffers, Given, File, TypeOK, DemuxAgain
<1>d. NothingLost'
  BY DEF NothingLost, HeldCount, DemuxAgain
<1>. QED  BY <1>a, <1>b, <1>c, <1>d DEF IInv

(* What the demuxer gives goes to the buffers.                             *)
LEMMA DemuxBlockKeeps ==
  ASSUME IInv, NEW t \in Tracks, DemuxBlock(t)
  PROVE  IInv'
<1>. TypeOK /\ Source /\ Buffers /\ NothingLost
  BY DEF IInv
<1>1. File(t) \in Files /\ \A u \in Tracks : File(u) \in Files
  BY SourceTypes DEF File
<1>2. at' \in [Files -> Nat] /\ \A f \in Files : at'[f] <= Steps(src, f)
  BY <1>1 DEF TypeOK, Buffers, DemuxBlock
<1>3. \A u \in Tracks : /\ demuxed'[u] = Given(u)' /\ demuxed'[u] \in Nat /\ demuxed[u] <= demuxed'[u]
                        /\ demuxed'[u] <= Len(src.time[u]) /\ Len(src.time[u]) \in Nat
  <2> SUFFICES ASSUME NEW u \in Tracks
              PROVE  /\ demuxed'[u] = Given(u)' /\ demuxed'[u] \in Nat /\ demuxed[u] <= demuxed'[u]
                     /\ demuxed'[u] <= Len(src.time[u]) /\ Len(src.time[u]) \in Nat
    OBVIOUS
  <2>0. demuxed[u] = Given(u) /\ demuxed[u] \in Nat
    BY DEF TypeOK, Buffers
  <2>1. at[File(u)] \in Nat /\ at[File(u)] <= Steps(src, File(u)) /\ Steps(src, File(u)) \in Nat
    BY <1>1, LenProperties DEF TypeOK, Buffers, Source, IsSource, Steps
  <2>2. demuxed[u] <= Len(src.time[u]) /\ Len(src.time[u]) \in Nat
    <3>1. /\ given[u] \in Nat /\ reader[u] \in Nat /\ size[u] \in Nat /\ lastReadCnt[u] \in Nat
          /\ HeldCount(u) \in Nat
      BY DEF TypeOK, HeldCount
    <3>2. Len(src.time[u]) \in Nat
      BY CountsInRange
    <3>3. CASE at[File(u)] = 0
      BY <2>0, <3>2, <3>3 DEF Given
    <3>4. CASE at[File(u)] # 0
      BY <2>0, <2>1, <3>4, UptoTypes DEF Given
    <3>. QED  BY <3>2, <3>3, <3>4
  <2>3. File(u)' = File(u) /\ src' = src
    BY DEF DemuxBlock, File
  <2>4. CASE at[File(t)] + 1 <= Steps(src, File(t)) /\ File(u) = File(t)
    <3>1. /\ at'[File(u)] = at[File(u)] + 1
          /\ demuxed'[u] = src.upto[File(u)][at[File(u)] + 1][u]
      BY <1>1, <2>4 DEF DemuxBlock, TypeOK
    <3>2. demuxed'[u] = Given(u)'
      BY <2>1, <2>3, <3>1 DEF Given
    <3>3. /\ demuxed'[u] \in Nat /\ demuxed'[u] <= Len(src.time[u])
          /\ at[File(u)] # 0 => demuxed[u] <= demuxed'[u]
      BY <2>0, <2>1, <2>4, <3>1, UptoTypes DEF Given
    <3>4. at[File(u)] = 0 => demuxed[u] = 0
      BY <2>0 DEF Given
    <3>. QED  BY <2>0, <2>2, <3>2, <3>3, <3>4
  <2>5. CASE ~ (at[File(t)] + 1 <= Steps(src, File(t)) /\ File(u) = File(t))
    <3>1. at'[File(u)] = at[File(u)] /\ demuxed'[u] = demuxed[u]
      BY <1>1, <2>5 DEF DemuxBlock, TypeOK
    <3>. QED  BY <2>0, <2>2, <2>3, <3>1 DEF Given
  <2>. QED  BY <2>4, <2>5
<1>4. /\ \A u \in Tracks : size'[u] = size[u] + demuxed'[u] - demuxed[u]
      /\ DOMAIN size' = Tracks /\ size' = [u \in Tracks |-> size'[u]]
      /\ DOMAIN demuxed' = Tracks /\ demuxed' = [u \in Tracks |-> demuxed'[u]]
      /\ UNCHANGED <<src, lastReadCnt, held, reader, given, idx>>
  BY DEF DemuxBlock
<1>6. \A u \in Tracks : size'[u] \in Nat /\ size[u] <= size'[u]
  <2> SUFFICES ASSUME NEW u \in Tracks PROVE size'[u] \in Nat /\ size[u] <= size'[u]
    OBVIOUS
  <2>1. demuxed'[u] \in Nat /\ demuxed[u] <= demuxed'[u] /\ size'[u] = size[u] + demuxed'[u] - demuxed[u]
    BY <1>3, <1>4
  <2>2. size[u] \in Nat /\ demuxed[u] \in Nat
    BY DEF TypeOK
  <2>. QED  BY <2>1, <2>2
<1>5. reached' \in [Files -> Int]
  <2>1. PICK d \in Times(File(t), demuxed') : reached' = [reached EXCEPT ![File(t)] = d]
    BY DEF DemuxBlock
  <2>2. \A u \in Tracks : demuxed'[u] > 0 => src.time[u][demuxed'[u]] \in Int
    BY <1>3, PieceTypes
  <2>3. d \in Int
    BY <1>1, <2>2 DEF Times, TypeOK
  <2>. QED  BY <2>1, <2>3 DEF TypeOK
<1>a. TypeOK'
  <2>1. ended' \in [Files -> BOOLEAN]
    BY SourceTypes DEF TypeOK, DemuxBlock, Source, IsSource
  <2>2. demuxed' \in [Tracks -> Nat] /\ size' \in [Tracks -> Nat]
    BY <1>3, <1>4, <1>6
  <2>3. pc' \in {"scan", "demux", "demuxed", "done", "failed"} /\ demuxRez' \in {"ok", "eof"}
    BY DEF DemuxBlock
  <2>4. UNCHANGED <<src, lastReadCnt, mark, gotData, streamVars, outVars, jobVars, idx, best, allDelayed, ghostVars>>
    BY DEF DemuxBlock
  <2>. QED  BY <1>2, <1>5, <2>1, <2>2, <2>3, <2>4 DEF TypeOK
<1>b. Source'
  BY DEF DemuxBlock, Source
<1>c. Buffers'
  <2>1. ASSUME NEW u \in Tracks PROVE lastReadCnt'[u] <= size'[u]
    <3>1. size'[u] \in Nat /\ size[u] <= size'[u] /\ lastReadCnt' = lastReadCnt
      BY <1>4, <1>6
    <3>2. lastReadCnt[u] <= size[u] /\ lastReadCnt[u] \in Nat /\ size[u] \in Nat
      BY DEF Buffers, TypeOK
    <3>. QED  BY <3>1, <3>2
  <2>2. lastReadCnt'[idx'] = 0 /\ idx' \in Tracks
    BY <1>4 DEF Buffers, DemuxBlock
  <2>3. \A f \in Files : at'[f] <= Steps(src', f)
    BY <1>2, <1>4
  <2>. QED  BY <1>3, <2>1, <2>2, <2>3 DEF Buffers
<1>d. NothingLost'
  <2> SUFFICES ASSUME NEW u \in Tracks
              PROVE  demuxed'[u] = given'[u] + HeldCount(u)' + reader'[u] + size'[u] - lastReadCnt'[u]
    BY DEF NothingLost
  <2>1. demuxed[u] = given[u] + HeldCount(u) + reader[u] + size[u] - lastReadCnt[u]
    BY DEF NothingLost
  <2>2. HeldCount(u)' = HeldCount(u) /\ HeldCount(u) \in Nat
    BY <1>4 DEF HeldCount
  <2>3. /\ demuxed[u] \in Nat /\ given[u] \in Nat /\ reader[u] \in Nat /\ size[u] \in Nat
        /\ lastReadCnt[u] \in Nat
    BY DEF TypeOK
  <2>4. /\ demuxed'[u] \in Nat /\ size'[u] = size[u] + demuxed'[u] - demuxed[u]
        /\ lastReadCnt' = lastReadCnt /\ reader' = reader /\ given' = given
    BY <1>3, <1>4
  <2>. QED  BY <2>1, <2>2, <2>3, <2>4
<1>. QED  BY <1>a, <1>b, <1>c, <1>d DEF IInv

(* A block of what was read goes to the reader.                            *)
LEMMA HandOnReadKeeps ==
  ASSUME IInv, NEW t \in Tracks, HandOnRead(t)
  PROVE  IInv'
<1>. TypeOK /\ Source /\ Buffers /\ NothingLost
  BY DEF IInv
<1>1. lastReadCnt[t] = 0 /\ lastReadCnt[t] <= size[t]
  BY DEF Buffers, HandOnRead
<1>2. Block(t) \in Nat /\ Block(t) <= size[t]
  BY <1>1, BlockType DEF Left, TypeOK
<1>3. /\ size' = size /\ lastReadCnt' = [lastReadCnt EXCEPT ![t] = Block(t)]
      /\ reader' = [reader EXCEPT ![t] = @ + Block(t)]
      /\ UNCHANGED <<src, at, demuxed, held, given>>
      /\ Pass(t)
  BY DEF HandOnRead, Deliver
<1>a. TypeOK'
  <2>1. ended[File(t)] \in BOOLEAN
    BY SourceTypes DEF TypeOK, File
  <2>2. EndsHere(t) \in BOOLEAN
    BY <2>1 DEF EndsHere
  <2>3. PICK end \in BOOLEAN : Deliver(t, Block(t), end)
    BY <2>2 DEF HandOnRead
  <2>4. mark' \in [Tracks -> {"ok", "delayed", "eof"}]
    BY DEF TypeOK, HandOnRead
  <2>5. size' \in [Tracks -> Nat]
    BY <1>3 DEF TypeOK
  <2>6. /\ lastReadCnt' \in [Tracks -> Nat] /\ gotData' \in [Tracks -> BOOLEAN]
        /\ avRez' \in [Tracks -> {"ok", "need", "delayed"}]
        /\ rez' \in [Tracks -> {"ok", "delayed", "eof", "eof2"}]
        /\ isEOF' \in [Tracks -> BOOLEAN] /\ reader' \in [Tracks -> Nat]
        /\ known' \in [Tracks -> Nat] /\ started' \in [Tracks -> BOOLEAN]
        /\ timeShift' \in [Tracks -> Int] /\ lastDTS' \in [Tracks -> Int]
        /\ allDelayed' = FALSE /\ best' \in 0..N
        /\ pc' = "scan" /\ idx' \in 1..(N + 1) /\ demuxRez' = demuxRez
        /\ UNCHANGED <<src, fileVars, flushed, held, passed, given, jobVars, ghostVars>>
    BY <1>2, <2>3, DeliverType
  <2>. QED  BY <2>4, <2>5, <2>6 DEF TypeOK
<1>b. Source'
  BY DEF HandOnRead, Deliver, Source
<1>c. Buffers'
  BY <1>2, <1>3 DEF Buffers, Given, File, TypeOK, Pass
<1>d. NothingLost'
  <2> SUFFICES ASSUME NEW u \in Tracks
              PROVE  demuxed'[u] = given'[u] + HeldCount(u)' + reader'[u] + size'[u] - lastReadCnt'[u]
    BY DEF NothingLost
  <2>1. demuxed[u] = given[u] + HeldCount(u) + reader[u] + size[u] - lastReadCnt[u]
    BY DEF NothingLost
  <2>2. HeldCount(u)' = HeldCount(u) /\ HeldCount(u) \in Nat
    BY <1>3 DEF HeldCount
  <2>. QED  BY <1>1, <1>2, <1>3, <2>1, <2>2 DEF TypeOK
<1>. QED  BY <1>a, <1>b, <1>c, <1>d DEF IInv

(* The reader is told the end.                                             *)
LEMMA HandOnEndKeeps ==
  ASSUME IInv, NEW t \in Tracks, HandOnEnd(t)
  PROVE  IInv'
<1>. TypeOK /\ Source /\ Buffers /\ NothingLost
  BY DEF IInv
<1>1. lastReadCnt[t] = 0 /\ lastReadCnt[t] <= size[t]
  BY DEF Buffers, HandOnEnd
<1>2. 0 \in Nat /\ 0 <= size[t]
  BY <1>1, BlockType DEF Left, TypeOK
<1>3. /\ size' = size /\ lastReadCnt' = [lastReadCnt EXCEPT ![t] = 0]
      /\ reader' = [reader EXCEPT ![t] = @ + 0]
      /\ UNCHANGED <<src, at, demuxed, held, given>>
      /\ Pass(t)
  BY DEF HandOnEnd, Deliver
<1>a. TypeOK'
  <2>1. ended[File(t)] \in BOOLEAN
    BY SourceTypes DEF TypeOK, File
  <2>2. EndsHere(t) \in BOOLEAN
    BY <2>1 DEF EndsHere
  <2>3. PICK end \in BOOLEAN : Deliver(t, 0, end)
    BY <2>2 DEF HandOnEnd
  <2>4. mark' \in [Tracks -> {"ok", "delayed", "eof"}]
    BY DEF TypeOK, HandOnEnd
  <2>5. size' \in [Tracks -> Nat]
    BY <1>3 DEF TypeOK
  <2>6. /\ lastReadCnt' \in [Tracks -> Nat] /\ gotData' \in [Tracks -> BOOLEAN]
        /\ avRez' \in [Tracks -> {"ok", "need", "delayed"}]
        /\ rez' \in [Tracks -> {"ok", "delayed", "eof", "eof2"}]
        /\ isEOF' \in [Tracks -> BOOLEAN] /\ reader' \in [Tracks -> Nat]
        /\ known' \in [Tracks -> Nat] /\ started' \in [Tracks -> BOOLEAN]
        /\ timeShift' \in [Tracks -> Int] /\ lastDTS' \in [Tracks -> Int]
        /\ allDelayed' = FALSE /\ best' \in 0..N
        /\ pc' = "scan" /\ idx' \in 1..(N + 1) /\ demuxRez' = demuxRez
        /\ UNCHANGED <<src, fileVars, flushed, held, passed, given, jobVars, ghostVars>>
    BY <1>2, <2>3, DeliverType
  <2>. QED  BY <2>4, <2>5, <2>6 DEF TypeOK
<1>b. Source'
  BY DEF HandOnEnd, Deliver, Source
<1>c. Buffers'
  BY <1>2, <1>3 DEF Buffers, Given, File, TypeOK, Pass
<1>d. NothingLost'
  <2> SUFFICES ASSUME NEW u \in Tracks
              PROVE  demuxed'[u] = given'[u] + HeldCount(u)' + reader'[u] + size'[u] - lastReadCnt'[u]
    BY DEF NothingLost
  <2>1. demuxed[u] = given[u] + HeldCount(u) + reader[u] + size[u] - lastReadCnt[u]
    BY DEF NothingLost
  <2>2. HeldCount(u)' = HeldCount(u) /\ HeldCount(u) \in Nat
    BY <1>3 DEF HeldCount
  <2>. QED  BY <1>1, <1>2, <1>3, <2>1, <2>2 DEF TypeOK
<1>. QED  BY <1>a, <1>b, <1>c, <1>d DEF IInv

(* The track is passed over.                                               *)
LEMMA BecomesDelayedKeeps ==
  ASSUME IInv, NEW t \in Tracks, BecomesDelayed(t)
  PROVE  IInv'
<1>. TypeOK /\ Source /\ Buffers /\ NothingLost
  BY DEF IInv
<1>a. TypeOK'
  BY PassType DEF TypeOK, BecomesDelayed, Skip
<1>b. Source'
  BY DEF BecomesDelayed, Skip, Source
<1>c. Buffers'
  BY DEF Buffers, Given, File, TypeOK, BecomesDelayed, Skip, Pass
<1>d. NothingLost'
  BY DEF NothingLost, HeldCount, BecomesDelayed, Skip
<1>. QED  BY <1>a, <1>b, <1>c, <1>d DEF IInv

(* The piece held back is returned.                                        *)
LEMMA GiveHeldKeeps ==
  ASSUME IInv, NEW t \in Tracks, GiveHeld(t)
  PROVE  IInv'
<1>. TypeOK /\ Source /\ Buffers /\ NothingLost
  BY DEF IInv
<1>a. TypeOK'
  <2>1. Due(t, given[t] + 1) \in Int /\ Duration(t) \in Int
    BY DueType DEF GiveHeld
  <2>2. muxPos' \in Int /\ flushMode' = flushMode
    BY DEF GiveHeld, Chosen, TypeOK, Most
  <2>3. waited' \subseteq Tracks
    BY CatchUpType DEF GiveHeld
  <2>. QED  BY <2>1, <2>2, <2>3, RescanType DEF TypeOK, GiveHeld
<1>b. Source'
  BY DEF GiveHeld, Source
<1>c. Buffers'
  <2>1. pc' = "scan" /\ UNCHANGED <<src, at, demuxed, size, lastReadCnt>>
    BY DEF GiveHeld, Rescan
  <2>. QED  BY <2>1 DEF Buffers, Given, File
<1>d. NothingLost'
  <2> SUFFICES ASSUME NEW u \in Tracks
              PROVE  demuxed'[u] = given'[u] + HeldCount(u)' + reader'[u] + size'[u] - lastReadCnt'[u]
    BY DEF NothingLost
  <2>1. demuxed[u] = given[u] + HeldCount(u) + reader[u] + size[u] - lastReadCnt[u]
    BY DEF NothingLost
  <2>. QED  BY <2>1 DEF HeldCount, TypeOK, GiveHeld
<1>. QED  BY <1>a, <1>b, <1>c, <1>d DEF IInv

(* The reader keeps what it has.                                           *)
LEMMA AskForMoreKeeps ==
  ASSUME IInv, NEW t \in Tracks, AskForMore(t)
  PROVE  IInv'
<1>. TypeOK /\ Source /\ Buffers /\ NothingLost
  BY DEF IInv
<1>a. TypeOK'
  <2>1. Position(t) \in Int
    BY PositionType
  <2>2. muxPos' \in Int /\ flushMode' = flushMode
    BY DEF AskForMore, Chosen, TypeOK, Most
  <2>. QED  BY <2>1, <2>2, RescanType DEF TypeOK, AskForMore
<1>b. Source'
  BY DEF AskForMore, Source
<1>c. Buffers'
  <2>1. pc' = "scan" /\ UNCHANGED <<src, at, demuxed, size, lastReadCnt>>
    BY DEF AskForMore, Rescan
  <2>. QED  BY <2>1 DEF Buffers, Given, File
<1>d. NothingLost'
  BY DEF NothingLost, HeldCount, AskForMore
<1>. QED  BY <1>a, <1>b, <1>c, <1>d DEF IInv

(* A piece leaves the reader, for the output or to be held back.           *)
LEMMA ReadPacketKeeps ==
  ASSUME IInv, NEW t \in Tracks, ReadPacket(t)
  PROVE  IInv'
<1>. TypeOK /\ Source /\ Buffers /\ NothingLost
  BY DEF IInv
<1>1. reader[t] > 0 /\ reader[t] \in Nat
  BY SourceTypes DEF TypeOK, ReadPacket
<1>a. TypeOK'
  <2>1. Due(t, given[t] + 1) \in Int /\ Duration(t) \in Int
    BY <1>1, DueType
  <2>2. muxPos' \in Int /\ flushMode' = flushMode
    BY DEF ReadPacket, Chosen, TypeOK, Most
  <2>3. passed' \in [Tracks -> Nat]
    BY FirstGapType DEF ReadPacket, AfterGap, TypeOK
  <2>4. waited' \subseteq Tracks
    BY CatchUpType DEF ReadPacket, TypeOK
  <2>5. lastDTS' \in [Tracks -> Int] /\ given' \in [Tracks -> Nat] /\ held' \in [Tracks -> BOOLEAN]
    <3>1. \/ /\ held' = [held EXCEPT ![t] = TRUE] /\ given' = given
             /\ lastDTS' = [lastDTS EXCEPT ![t] = Due(t, given[t] + 1)]
          \/ /\ held' = held /\ given' = [given EXCEPT ![t] = @ + 1]
             /\ lastDTS' = [lastDTS EXCEPT ![t] = Due(t, given[t] + 1) + Duration(t)]
      BY DEF ReadPacket
    <3>2. lastDTS \in [Tracks -> Int] /\ given \in [Tracks -> Nat] /\ held \in [Tracks -> BOOLEAN]
      BY DEF TypeOK
    <3>3. given[t] + 1 \in Nat /\ Due(t, given[t] + 1) + Duration(t) \in Int
      BY <2>1, <3>2
    <3>4. CASE held' = [held EXCEPT ![t] = TRUE]
      BY <2>1, <3>1, <3>2, <3>3, <3>4
    <3>5. CASE held' = held
      BY <2>1, <3>1, <3>2, <3>3, <3>5
    <3>. QED  BY <3>1, <3>4, <3>5
  <2>6. reader' \in [Tracks -> Nat]
    BY <1>1 DEF ReadPacket, TypeOK
  <2>. QED  BY <2>2, <2>3, <2>4, <2>5, <2>6, RescanType DEF TypeOK, ReadPacket
<1>b. Source'
  BY DEF ReadPacket, Source
<1>c. Buffers'
  <2>1. pc' = "scan" /\ UNCHANGED <<src, at, demuxed, size, lastReadCnt>>
    BY DEF ReadPacket, Rescan
  <2>. QED  BY <2>1 DEF Buffers, Given, File
<1>d. NothingLost'
  <2> SUFFICES ASSUME NEW u \in Tracks
              PROVE  demuxed'[u] = given'[u] + HeldCount(u)' + reader'[u] + size'[u] - lastReadCnt'[u]
    BY DEF NothingLost
  <2>1. demuxed[u] = given[u] + HeldCount(u) + reader[u] + size[u] - lastReadCnt[u]
    BY DEF NothingLost
  <2>2. UNCHANGED <<demuxed, size, lastReadCnt>> /\ reader' = [reader EXCEPT ![t] = @ - 1] /\ ~held[t]
    BY DEF ReadPacket
  <2>3. CASE held' = [held EXCEPT ![t] = TRUE] /\ given' = given
    BY <1>1, <2>1, <2>2, <2>3 DEF HeldCount, TypeOK
  <2>4. CASE held' = held /\ given' = [given EXCEPT ![t] = @ + 1]
    BY <1>1, <2>1, <2>2, <2>4 DEF HeldCount, TypeOK
  <2>. QED  BY <2>3, <2>4 DEF ReadPacket
<1>. QED  BY <1>a, <1>b, <1>c, <1>d DEF IInv

(* The reader gives the piece it kept.                                     *)
LEMMA FlushStreamKeeps ==
  ASSUME IInv, NEW t \in Tracks, FlushStream(t)
  PROVE  IInv'
<1>. TypeOK /\ Source /\ Buffers /\ NothingLost
  BY DEF IInv
<1>a. TypeOK'
  <2>1. muxPos' \in Int /\ flushMode' = flushMode
    BY DEF FlushStream, Chosen, TypeOK, Most
  <2>2. CASE reader[t] = 0
    BY <2>1, <2>2, RescanType DEF TypeOK, FlushStream
  <2>3. CASE reader[t] # 0
    <3>1. reader[t] > 0 /\ reader[t] \in Nat
      BY <2>3 DEF TypeOK
    <3>2. Due(t, given[t] + 1) \in Int /\ Duration(t) \in Int
      BY <3>1, DueType
    <3>3. waited' \subseteq Tracks
      BY <2>3, CatchUpType DEF FlushStream, TypeOK
    <3>4. reader' \in [Tracks -> Nat] /\ given' \in [Tracks -> Nat]
      BY <2>3, <3>1 DEF FlushStream, TypeOK
    <3>5. lastDTS' \in [Tracks -> Int]
      <4>1. \/ lastDTS' = lastDTS
            \/ lastDTS' = [lastDTS EXCEPT ![t] = Due(t, given[t] + 1) + Duration(t)]
        BY <2>3 DEF FlushStream
      <4>2. lastDTS \in [Tracks -> Int] /\ Due(t, given[t] + 1) + Duration(t) \in Int
        BY <3>2 DEF TypeOK
      <4>. QED  BY <4>1, <4>2
    <3>. QED  BY <2>1, <3>3, <3>4, <3>5, RescanType DEF TypeOK, FlushStream
  <2>. QED  BY <2>2, <2>3
<1>b. Source'
  BY DEF FlushStream, Source
<1>c. Buffers'
  <2>1. pc' = "scan" /\ UNCHANGED <<src, at, demuxed, size, lastReadCnt>>
    BY DEF FlushStream, Rescan
  <2>. QED  BY <2>1 DEF Buffers, Given, File
<1>d. NothingLost'
  <2> SUFFICES ASSUME NEW u \in Tracks
              PROVE  demuxed'[u] = given'[u] + HeldCount(u)' + reader'[u] + size'[u] - lastReadCnt'[u]
    BY DEF NothingLost
  <2>1. demuxed[u] = given[u] + HeldCount(u) + reader[u] + size[u] - lastReadCnt[u]
    BY DEF NothingLost
  <2>. QED  BY <2>1 DEF HeldCount, TypeOK, FlushStream
<1>. QED  BY <1>a, <1>b, <1>c, <1>d DEF IInv

(* The steps that are not of one track leave the pieces where they are.       *)
LEMMA WholeJobKeeps ==
  ASSUME IInv, ResetDelayedMarks \/ StartFlush \/ Finish
  PROVE  IInv'
<1>. TypeOK /\ Source /\ Buffers /\ NothingLost
  BY DEF IInv
<1>1. CASE ResetDelayedMarks
  <2>1. TypeOK'
    BY <1>1, RescanType DEF TypeOK, ResetDelayedMarks
  <2>2. Source' /\ Buffers' /\ NothingLost'
    BY <1>1 DEF Source, Buffers, Given, File, NothingLost, HeldCount, ResetDelayedMarks, Rescan
  <2>. QED  BY <2>1, <2>2 DEF IInv
<1>2. CASE StartFlush
  <2>1. TypeOK'
    BY <1>2, RescanType DEF TypeOK, StartFlush
  <2>2. Source' /\ Buffers' /\ NothingLost'
    BY <1>2 DEF Source, Buffers, Given, File, NothingLost, HeldCount, StartFlush, Rescan
  <2>. QED  BY <2>1, <2>2 DEF IInv
<1>3. CASE Finish
  <2>1. TypeOK'
    BY <1>3 DEF TypeOK, Finish
  <2>2. Source' /\ Buffers' /\ NothingLost'
    BY <1>3 DEF Source, Buffers, Given, File, NothingLost, HeldCount, Finish
  <2>. QED  BY <2>1, <2>2 DEF IInv
<1>. QED  BY <1>1, <1>2, <1>3

-----------------------------------------------------------------------------
(* The theorems *)

(* The invariant holds when the job begins, whatever its files hold.        *)
LEMMA InitHolds == Init => IInv
<1> SUFFICES ASSUME Init PROVE IInv
  OBVIOUS
<1>1. Source
  BY ScheduleAssumption DEF Init, Source
<1>2. TypeOK
  <2>1. lastDTS \in [Tracks -> Int] /\ timeShift \in [Tracks -> Int]
    BY <1>1, SourceTypes DEF Init, Most
  <2>2. idx \in 1..(N + 1) /\ best \in 0..N /\ reached \in [Files -> Int]
    BY TracksFact DEF Init
  <2>3. waited \subseteq Tracks /\ stocked \subseteq Tracks /\ crowded \subseteq Files
    BY DEF Init
  <2>4. /\ at \in [Files -> Nat] /\ demuxed \in [Tracks -> Nat] /\ ended \in [Files -> BOOLEAN]
        /\ size \in [Tracks -> Nat] /\ lastReadCnt \in [Tracks -> Nat]
        /\ mark \in [Tracks -> {"ok", "delayed", "eof"}] /\ gotData \in [Tracks -> BOOLEAN]
    BY DEF Init
  <2>5. /\ avRez \in [Tracks -> {"ok", "need", "delayed"}]
        /\ rez \in [Tracks -> {"ok", "delayed", "eof", "eof2"}]
        /\ isEOF \in [Tracks -> BOOLEAN] /\ flushed \in [Tracks -> BOOLEAN]
        /\ held \in [Tracks -> BOOLEAN] /\ started \in [Tracks -> BOOLEAN]
        /\ known \in [Tracks -> Nat] /\ passed \in [Tracks -> Nat]
        /\ reader \in [Tracks -> Nat] /\ given \in [Tracks -> Nat]
    BY DEF Init
  <2>6. flushMode \in BOOLEAN /\ allDelayed \in BOOLEAN
    BY DEF Init
  <2>7. muxPos \in Int /\ pc = "scan" /\ demuxRez \in {"ok", "eof"}
    BY DEF Init
  <2>. QED  BY <2>1, <2>2, <2>3, <2>4, <2>5, <2>6, <2>7 DEF TypeOK
<1>3. Buffers
  <2>1. \A f \in Files : Steps(src, f) \in Nat
    BY <1>1, LenProperties DEF Source, IsSource, Steps
  <2>2. \A t \in Tracks : File(t) \in Files
    BY <1>1, SourceTypes DEF File
  <2>. QED  BY <2>1, <2>2 DEF Init, Buffers, Given
<1>4. NothingLost
  BY DEF Init, NothingLost, HeldCount
<1>. QED  BY <1>1, <1>2, <1>3, <1>4 DEF IInv

(* Every step of readPacket keeps the invariant.                            *)
LEMMA NextKeeps == IInv /\ [Next]_vars => IInv'
<1> SUFFICES ASSUME IInv, [Next]_vars PROVE IInv'
  OBVIOUS
<1>1. ASSUME NEW t \in Tracks, Scan(t) PROVE IInv'
  BY <1>1, ScanFlushKeeps, ReadNotNeededKeeps, ReadAtEndKeeps, HandOnAtOnceKeeps, StaysDelayedKeeps,
     StartDemuxKeeps DEF Scan
<1>2. ASSUME NEW t \in Tracks, Demux(t) PROVE IInv'
  BY <1>2, DemuxBlockKeeps, DemuxAgainKeeps, HandOnReadKeeps, HandOnEndKeeps, BecomesDelayedKeeps DEF Demux
<1>3. ASSUME NEW t \in Tracks, Mux(t) PROVE IInv'
  BY <1>3, GiveHeldKeeps, AskForMoreKeeps, ReadPacketKeeps, FlushStreamKeeps DEF Mux
<1>4. CASE UNCHANGED vars
  BY <1>4 DEF vars, IInv, TypeOK, Source, Buffers, Given, File, NothingLost, HeldCount
<1>. QED  BY <1>1, <1>2, <1>3, <1>4, WholeJobKeeps DEF Next

(* The inductive invariant holds in every state of every job.              *)
THEOREM Invariance == Spec => []IInv
BY InitHolds, NextKeeps, PTL DEF Spec

(* The variables keep their types, whatever the files hold: no buffer and  *)
(* no reader gives more than it has, and every packet has a time.          *)
THEOREM TypeCorrect == Spec => []TypeOK
<1>1. IInv => TypeOK
  BY DEF IInv
<1>. QED  BY <1>1, Invariance, PTL

(* Every piece the demuxers have read is in one place, on its way to the   *)
(* output or there.                                                        *)
THEOREM NothingIsLost == Spec => []NothingLost
<1>1. IInv => NothingLost
  BY DEF IInv
<1>. QED  BY <1>1, Invariance, PTL

-----------------------------------------------------------------------------
(* When all data is returned *)

(* A track that has its file to itself and is not sparse is never passed   *)
(* over as delayed: there is no other track whose buffer could fill.       *)
Alone(s, t) == ~s.sparse[t] /\ \A u \in Tracks : s.file[u] = s.file[t] => u = t
TogetherOrAlone(s) == (\A t, u \in Tracks : s.file[t] = s.file[u]) \/ (\A t \in Tracks : Alone(s, t))

(* The demuxers give all of a file before its end, and hold nothing back   *)
(* for a call behind it.                                                   *)
HoldsNothingBack(s) ==
  /\ \A f \in Files : Steps(s, f) <= s.reads[f]
  /\ \A t \in Tracks : LET k == Steps(s, s.file[t])
                       IN  Len(s.time[t]) = IF k = 0 THEN 0 ELSE s.upto[s.file[t]][k][t]

PlainSource == HoldsNothingBack(src) /\ TogetherOrAlone(src)

Keep(t) == IF src.keeps[t] THEN 1 ELSE 0

(* Nothing of a track is left but what its reader keeps, a piece at most,  *)
(* and what is held back behind a gap.                                     *)
Ended(t) == ended[File(t)]
Over(t) == Ended(t) /\ size[t] = lastReadCnt[t] /\ reader[t] <= 1

(* A file has ended when its demuxer has given all of it, and is read on   *)
(* only for a track whose reader asks for more and has not been told its   *)
(* end.                                                                    *)
FileEnds ==
  /\ \A f \in Files : ended[f] => at[f] = Steps(src, f)
  /\ pc \in {"demux", "demuxed"} => ~flushMode /\ avRez[idx] # "ok" /\ ~isEOF[idx]
  /\ pc = "demuxed" /\ demuxRez = "eof" => Ended(idx)

(* A reader that asks for more has given all but what it keeps; a track    *)
(* has ended when its buffer is empty and its file ended; only a reader of *)
(* such a track, or of a job whose data is over, is flushed.  A track that *)
(* is passed over as delayed shares its file with others, and has its      *)
(* demuxer tell how far it has read if it has had data before.             *)
Reader(t) ==
  /\ avRez[t] # "ok" => reader[t] <= Keep(t)
  /\ isEOF[t] => Ended(t) /\ size[t] = lastReadCnt[t]
  /\ rez[t] = "eof2" => isEOF[t] /\ avRez[t] # "ok"
  /\ flushed[t] => /\ flushMode \/ rez[t] = "eof2"
                   /\ Over(t) /\ reader[t] = 0 /\ ~held[t]
  /\ mark[t] = "delayed" =>
       ~Alone(src, t) /\ (~Sparse(t) /\ gotData[t] => reached[File(t)] >= 0)

(* What holds of the tracks a scan has come by and did not consider.       *)
Scanned ==
  /\ flushMode => \A t \in Tracks : Over(t)
  /\ best = 0 /\ pc = "scan" /\ ~flushMode => \A t \in 1..(idx - 1) : Ended(t) => Over(t)
  /\ best = 0 /\ ~flushMode => \A t \in 1..(idx - 1) : Alone(src, t) => flushed[t]
  /\ best = 0 /\ ~flushMode /\ ~allDelayed => \E t \in 1..(idx - 1) : flushed[t]
  /\ best = 0 /\ flushMode => \A t \in 1..(idx - 1) : flushed[t]
  /\ pc = "done" => flushMode /\ best = 0 /\ idx = N + 1

EndInv == PlainSource /\ FileEnds /\ (\A t \in Tracks : Reader(t)) /\ Scanned

(* What a track has and where its reader stands                            *)
LEMMA TrackNow ==
  ASSUME IInv, NEW t \in Tracks
  PROVE  /\ t \in Nat /\ t > 0 /\ t <= N /\ N \in Nat /\ File(t) \in Files
         /\ size[t] \in Nat /\ lastReadCnt[t] \in Nat /\ reader[t] \in Nat /\ Keep(t) \in {0, 1}
         /\ lastReadCnt[t] <= size[t]
<1>1. t \in Nat /\ t > 0 /\ t <= N /\ N \in Nat
  BY TracksFact DEF Tracks
<1>2. File(t) \in Files
  BY SourceTypes DEF IInv, File
<1>3. size[t] \in Nat /\ lastReadCnt[t] \in Nat /\ reader[t] \in Nat
  BY DEF IInv, TypeOK
<1>4. lastReadCnt[t] <= size[t]
  BY DEF IInv, Buffers
<1>5. Keep(t) \in {0, 1}
  BY DEF Keep
<1>. QED  BY <1>1, <1>2, <1>3, <1>4, <1>5

(* A track of which nothing changes.                                       *)
LEMMA ReaderSame ==
  ASSUME NEW t \in Tracks, Reader(t), src' = src,
         size'[t] = size[t], lastReadCnt'[t] = lastReadCnt[t], reader'[t] = reader[t],
         avRez'[t] = avRez[t], rez'[t] = rez[t], isEOF'[t] = isEOF[t], flushed'[t] = flushed[t],
         held'[t] = held[t], gotData'[t] = gotData[t],
         mark'[t] = mark[t] \/ mark'[t] # "delayed",
         Ended(t) => Ended(t)', reached[File(t)] >= 0 => reached'[File(t)] >= 0, flushMode => flushMode'
  PROVE  Reader(t)'
BY DEF Reader, Over, Keep, File, Sparse

(* No file is read, and none is read on after the step.                    *)
LEMMA FilesSame ==
  ASSUME FileEnds, UNCHANGED <<src, ended, at>>, pc' \notin {"demux", "demuxed"}
  PROVE  FileEnds'
BY DEF FileEnds

(* The job's files are the same.                                           *)
LEMMA SourceSame ==
  ASSUME PlainSource, src' = src
  PROVE  PlainSource'
BY DEF PlainSource

(* The scan begins again.                                                  *)
LEMMA ScanRestarts ==
  ASSUME Rescan, flushMode' => \A t \in Tracks : Over(t)'
  PROVE  Scanned'
<1>1. pc' = "scan" /\ idx' = 1 /\ best' = 0 /\ allDelayed' = TRUE
  BY DEF Rescan
<1>2. 1..(1 - 1) = {}
  OBVIOUS
<1>. QED  BY <1>1, <1>2 DEF Scanned

(* A track that is looked at is one that may be chosen.                    *)
LEMMA Considered ==
  ASSUME IInv, NEW t \in Tracks, Consider(t)
  PROVE  best' # 0
<1>1. t # 0
  BY TrackNow
<1>. QED  BY <1>1 DEF Consider

(* The scan goes on behind track t.                                        *)
LEMMA UpTo ==
  ASSUME IInv, NEW t \in Tracks
  PROVE  \A u \in 1..((t + 1) - 1) : u \in Tracks /\ (u = t \/ u \in 1..(t - 1))
BY TrackNow DEF Tracks

-----------------------------------------------------------------------------

(* A flushed track is passed by.                                           *)
LEMMA EndScanFlush ==
  ASSUME IInv, EndInv, NEW t \in Tracks, ScanFlush(t)
  PROVE  EndInv'
<1>1. /\ UNCHANGED <<src, at, ended, reached, size, lastReadCnt, mark, gotData, avRez, rez, isEOF, flushed,
                     held, reader, flushMode>>
      /\ flushMode /\ idx = t /\ pc = "scan" /\ pc' = "scan" /\ idx' = t + 1
  BY DEF ScanFlush, Pass
<1>2. PlainSource' /\ FileEnds'
  BY <1>1, SourceSame, FilesSame DEF EndInv
<1>3. \A u \in Tracks : Reader(u)'
  BY <1>1, ReaderSame DEF EndInv, Ended, File
<1>4. Scanned'
  <2>1. \A u \in Tracks : Over(u)'
    BY <1>1 DEF EndInv, Scanned, Over, Ended, File
  <2>2. ASSUME best' = 0 PROVE \A u \in 1..(idx' - 1) : flushed'[u]
    <3>1. flushed[t] /\ best = 0
      BY <2>2, Considered DEF ScanFlush
    <3>. QED  BY <1>1, <3>1, UpTo DEF EndInv, Scanned
  <2>. QED  BY <1>1, <2>1, <2>2 DEF Scanned
<1>. QED  BY <1>2, <1>3, <1>4 DEF EndInv

(* A track whose reader does not ask for more is one to choose from.       *)
LEMMA EndReadNotNeeded ==
  ASSUME IInv, EndInv, NEW t \in Tracks, ReadNotNeeded(t)
  PROVE  EndInv'
<1>1. /\ UNCHANGED <<src, at, ended, reached, size, lastReadCnt, mark, gotData, avRez, isEOF, flushed,
                     held, reader, flushMode>>
      /\ ~flushMode /\ avRez[t] = "ok" /\ pc' = "scan" /\ best' # 0
      /\ rez' = [rez EXCEPT ![t] = "ok"]
  BY Considered DEF ReadNotNeeded, Pass
<1>2. PlainSource' /\ FileEnds'
  BY <1>1, SourceSame, FilesSame DEF EndInv
<1>3. ASSUME NEW u \in Tracks PROVE Reader(u)'
  <2>1. Reader(u) /\ rez \in [Tracks -> {"ok", "delayed", "eof", "eof2"}]
    BY DEF EndInv, IInv, TypeOK
  <2>2. CASE u # t
    BY <1>1, <2>1, <2>2, ReaderSame DEF Ended, File
  <2>3. CASE u = t
    BY <1>1, <2>1, <2>3 DEF Reader, Over, Ended, File, Keep, Sparse
  <2>. QED  BY <2>2, <2>3
<1>4. Scanned'
  BY <1>1 DEF Scanned
<1>. QED  BY <1>2, <1>3, <1>4 DEF EndInv

(* A track told its end is over, or is one to choose from.                 *)
LEMMA EndReadAtEnd ==
  ASSUME IInv, EndInv, NEW t \in Tracks, ReadAtEnd(t)
  PROVE  EndInv'
<1>1. /\ UNCHANGED <<src, at, ended, reached, size, lastReadCnt, mark, gotData, avRez, isEOF, flushed,
                     held, reader, flushMode>>
      /\ ~flushMode /\ avRez[t] # "ok" /\ isEOF[t] /\ idx = t /\ pc = "scan" /\ pc' = "scan" /\ idx' = t + 1
      /\ rez' = [rez EXCEPT ![t] = "eof2"]
  BY DEF ReadAtEnd, Pass
<1>2. PlainSource' /\ FileEnds'
  BY <1>1, SourceSame, FilesSame DEF EndInv
<1>3. ASSUME NEW u \in Tracks PROVE Reader(u)'
  <2>1. Reader(u) /\ rez \in [Tracks -> {"ok", "delayed", "eof", "eof2"}]
    BY DEF EndInv, IInv, TypeOK
  <2>2. CASE u # t
    BY <1>1, <2>1, <2>2, ReaderSame DEF Ended, File
  <2>3. CASE u = t
    BY <1>1, <2>1, <2>3 DEF Reader, Over, Ended, File, Keep, Sparse
  <2>. QED  BY <2>2, <2>3
<1>4. Scanned'
  <2> SUFFICES ASSUME best' = 0 PROVE Scanned'
    BY <1>1 DEF Scanned
  <2>1. flushed[t] /\ best = 0
    BY Considered DEF ReadAtEnd
  <2>2. Over(t) /\ \A u \in Tracks : Over(u) => Over(u)'
    BY <1>1, <2>1 DEF EndInv, Reader, Over, Ended, File
  <2>3. \A u \in 1..(idx' - 1) : Ended(u)' => Over(u)'
    BY <1>1, <2>1, <2>2, UpTo DEF EndInv, Scanned, Ended, File
  <2>4. \A u \in 1..(idx' - 1) : Alone(src, u)' => flushed'[u]
    BY <1>1, <2>1, UpTo DEF EndInv, Scanned
  <2>5. t \in 1..(idx' - 1) /\ flushed'[t]
    BY <1>1, <2>1, TrackNow
  <2>. QED  BY <1>1, <2>3, <2>4, <2>5 DEF Scanned
<1>. QED  BY <1>2, <1>3, <1>4 DEF EndInv

(* The reader of a track gets a block, the last one with the end.          *)
LEMMA EndDeliver ==
  ASSUME IInv, EndInv, NEW t \in Tracks, NEW n \in Nat, NEW end \in BOOLEAN, Deliver(t, n, end),
         ~flushMode, ~isEOF[t], mark'[t] # "delayed", end => Ended(t) /\ size'[t] = n,
         \A u \in Tracks : u # t => mark'[u] = mark[u] /\ size'[u] = size[u]
  PROVE  EndInv'
<1>1. /\ UNCHANGED <<src, at, ended, reached, flushed, held, flushMode>>
      /\ pc' = "scan" /\ best' # 0
      /\ lastReadCnt' = [lastReadCnt EXCEPT ![t] = n]
      /\ gotData' = [gotData EXCEPT ![t] = @ \/ n > 0]
      /\ avRez' = [avRez EXCEPT ![t] = "ok"]
      /\ rez' = [rez EXCEPT ![t] = IF end THEN "eof" ELSE "ok"]
      /\ isEOF' = [isEOF EXCEPT ![t] = end]
      /\ reader' = [reader EXCEPT ![t] = @ + n]
  BY Considered DEF Deliver, Pass
<1>2. PlainSource' /\ FileEnds'
  BY <1>1, SourceSame, FilesSame DEF EndInv
<1>3. /\ rez \in [Tracks -> {"ok", "delayed", "eof", "eof2"}] /\ isEOF \in [Tracks -> BOOLEAN]
      /\ avRez \in [Tracks -> {"ok", "need", "delayed"}] /\ reader \in [Tracks -> Nat]
      /\ lastReadCnt \in [Tracks -> Nat] /\ gotData \in [Tracks -> BOOLEAN]
  BY DEF IInv, TypeOK
<1>4. ASSUME NEW u \in Tracks PROVE Reader(u)'
  <2>1. Reader(u)
    BY DEF EndInv
  <2>2. CASE u # t
    BY <1>1, <1>3, <2>1, <2>2, ReaderSame DEF Ended, File
  <2>3. CASE u = t
    <3>1. ~flushed'[t]
      BY <1>1, <2>1, <2>3 DEF Reader
    <3>2. avRez'[t] = "ok" /\ rez'[t] # "eof2" /\ lastReadCnt'[t] = n /\ isEOF'[t] = end
      BY <1>1, <1>3
    <3>3. Ended(t)' = Ended(t)
      BY <1>1 DEF Ended, File
    <3>. QED  BY <2>3, <3>1, <3>2, <3>3 DEF Reader
  <2>. QED  BY <2>2, <2>3
<1>5. Scanned'
  BY <1>1 DEF Scanned
<1>. QED  BY <1>2, <1>4, <1>5 DEF EndInv

(* A block in the buffer goes to the reader.                               *)
LEMMA EndHandOnAtOnce ==
  ASSUME IInv, EndInv, NEW t \in Tracks, HandOnAtOnce(t)
  PROVE  EndInv'
<1>1. Block(t) \in Nat
  BY BlockType DEF IInv, Buffers
<1>2. Deliver(t, Block(t), FALSE) /\ ~flushMode /\ ~isEOF[t]
  BY DEF HandOnAtOnce, WantsBlock
<1>3. mark'[t] # "delayed" /\ \A u \in Tracks : u # t => mark'[u] = mark[u] /\ size'[u] = size[u]
  BY DEF HandOnAtOnce, IInv, TypeOK
<1>. QED  BY <1>1, <1>2, <1>3, EndDeliver

(* A block that was read goes to the reader: the last of the track is told *)
(* as its last only when nothing is left behind it.                        *)
LEMMA EndHandOnRead ==
  ASSUME IInv, EndInv, NEW t \in Tracks, HandOnRead(t)
  PROVE  EndInv'
<1>1. Block(t) \in Nat
  BY BlockType DEF IInv, Buffers
<1>2. ~flushMode /\ ~isEOF[t]
  BY DEF HandOnRead, EndInv, FileEnds
<1>3. mark'[t] # "delayed" /\ \A u \in Tracks : u # t => mark'[u] = mark[u] /\ size'[u] = size[u]
  BY DEF HandOnRead, IInv, TypeOK
<1>4. EndsHere(t) => Ended(t) /\ size'[t] = Block(t)
  <2> HAVE EndsHere(t)
  <2>1. size[t] <= FileBlock /\ Ended(t) /\ lastReadCnt[t] = 0 /\ size'[t] = size[t] /\ size[t] \in Nat
    BY TrackNow DEF EndsHere, Ended, HandOnRead, IInv, Buffers
  <2>2. FileBlock \in Nat
    BY ScheduleAssumption
  <2>. QED  BY <2>1, <2>2 DEF Block, Left, Least
<1>5. EndsHere(t) \in BOOLEAN
  <2>1. ended[File(t)] \in BOOLEAN
    BY TrackNow DEF IInv, TypeOK
  <2>. QED  BY <2>1 DEF EndsHere
<1>6. Deliver(t, Block(t), EndsHere(t))
  BY DEF HandOnRead
<1>. QED  BY <1>1, <1>2, <1>3, <1>4, <1>5, <1>6, EndDeliver

(* The end goes to the reader when nothing is left.                        *)
LEMMA EndHandOnEnd ==
  ASSUME IInv, EndInv, NEW t \in Tracks, HandOnEnd(t)
  PROVE  EndInv'
<1>1. ~flushMode /\ ~isEOF[t]
  BY DEF HandOnEnd, EndInv, FileEnds
<1>2. mark'[t] # "delayed" /\ \A u \in Tracks : u # t => mark'[u] = mark[u] /\ size'[u] = size[u]
  BY DEF HandOnEnd, IInv, TypeOK
<1>3. Ended(t) /\ size'[t] = 0
  BY DEF HandOnEnd, Ended
<1>4. Deliver(t, 0, TRUE)
  BY DEF HandOnEnd
<1>5. 0 \in Nat /\ TRUE \in BOOLEAN
  OBVIOUS
<1>. QED  BY <1>1, <1>2, <1>3, <1>4, <1>5, EndDeliver, Zenon

(* A track is passed over: one of those that share a file.                 *)
LEMMA EndSkip ==
  ASSUME IInv, EndInv, NEW t \in Tracks, Skip(t), idx = t,
         ~flushMode, ~isEOF[t], avRez[t] # "ok", ~Alone(src, t),
         ~Sparse(t) /\ gotData[t] => reached[File(t)] >= 0,
         Ended(t) => size'[t] = lastReadCnt'[t],
         best = 0 => \A u \in 1..(t - 1) : Ended(u) => Over(u),
         \A u \in Tracks : u # t => mark'[u] = mark[u] /\ size'[u] = size[u] /\ lastReadCnt'[u] = lastReadCnt[u]
  PROVE  EndInv'
<1>1. /\ UNCHANGED <<src, at, ended, reached, gotData, isEOF, flushed, held, reader, flushMode, best, allDelayed>>
      /\ pc' = "scan" /\ idx' = t + 1
      /\ avRez' = [avRez EXCEPT ![t] = "delayed"]
      /\ rez' = [rez EXCEPT ![t] = "delayed"]
  BY DEF Skip, Pass
<1>2. PlainSource' /\ FileEnds'
  BY <1>1, SourceSame, FilesSame DEF EndInv
<1>3. /\ rez \in [Tracks -> {"ok", "delayed", "eof", "eof2"}]
      /\ avRez \in [Tracks -> {"ok", "need", "delayed"}]
  BY DEF IInv, TypeOK
<1>4. ASSUME NEW u \in Tracks PROVE Reader(u)'
  <2>1. Reader(u)
    BY DEF EndInv
  <2>2. CASE u # t
    BY <1>1, <1>3, <2>1, <2>2, ReaderSame DEF Ended, File
  <2>3. CASE u = t
    <3>1. ~flushed'[t] /\ ~isEOF'[t]
      BY <1>1, <2>1, <2>3 DEF Reader
    <3>2. rez'[t] # "eof2" /\ reader'[t] <= Keep(t)'
      BY <1>1, <1>3, <2>1, <2>3 DEF Reader, Keep
    <3>3. ~Alone(src', t) /\ (~Sparse(t)' /\ gotData'[t] => reached'[File(t)'] >= 0)
      BY <1>1 DEF Sparse, File
    <3>. QED  BY <2>3, <3>1, <3>2, <3>3 DEF Reader
  <2>. QED  BY <2>2, <2>3
<1>5. Scanned'
  <2>1. ASSUME best' = 0, NEW u \in 1..(idx' - 1), Ended(u)' PROVE Over(u)'
    <3>1. u \in Tracks /\ (u = t \/ u \in 1..(t - 1)) /\ t \notin 1..(t - 1)
      BY <1>1, UpTo, TrackNow
    <3>2. CASE u = t
      <4>1. Ended(t) /\ size'[t] = lastReadCnt'[t]
        BY <1>1, <2>1, <3>2 DEF Ended, File
      <4>2. reader[t] \in Nat /\ reader[t] <= 1
        BY TrackNow DEF EndInv, Reader
      <4>. QED  BY <1>1, <2>1, <3>2, <4>1, <4>2 DEF Over
    <3>3. CASE u \in 1..(t - 1)
      <4>1. Over(u) /\ u # t
        BY <1>1, <2>1, <3>1, <3>3 DEF Ended, File
      <4>. QED  BY <1>1, <3>1, <4>1 DEF Over, Ended, File
    <3>. QED  BY <3>1, <3>2, <3>3
  <2>2. ASSUME best' = 0 PROVE \A u \in 1..(idx' - 1) : Alone(src', u) => flushed'[u]
    BY <1>1, <2>2, UpTo DEF EndInv, Scanned
  <2>3. ASSUME best' = 0, ~allDelayed' PROVE \E u \in 1..(idx' - 1) : flushed'[u]
    <3>1. PICK u \in 1..(t - 1) : flushed[u]
      BY <1>1, <2>3 DEF EndInv, Scanned
    <3>2. u \in 1..(idx' - 1)
      BY <1>1, TrackNow
    <3>. QED  BY <1>1, <3>1, <3>2
  <2>. QED  BY <1>1, <2>1, <2>2, <2>3 DEF Scanned
<1>. QED  BY <1>2, <1>4, <1>5 DEF EndInv

(* A delayed track has nothing in its buffer: what it had was handed on.    *)
LEMMA EndStaysDelayed ==
  ASSUME IInv, EndInv, NEW t \in Tracks, StaysDelayed(t)
  PROVE  EndInv'
<1>1. /\ idx = t /\ pc = "scan" /\ ~flushMode /\ ~isEOF[t] /\ avRez[t] # "ok" /\ Skip(t)
      /\ ~HasBlock(t) /\ ~MayDemux(t) /\ mark[t] = "delayed" /\ mark' = mark
      /\ size' = [size EXCEPT ![t] = Left(t)] /\ lastReadCnt' = [lastReadCnt EXCEPT ![t] = 0]
  BY DEF StaysDelayed, WantsBlock, MayDemux
<1>2. ~Alone(src, t) /\ (~Sparse(t) /\ gotData[t] => reached[File(t)] >= 0)
  BY <1>1 DEF EndInv, Reader
<1>3. Left(t) = 0
  <2>1. Left(t) \in Nat /\ Block(t) \in Nat
    BY BlockType DEF IInv, Buffers
  <2>2. FileBlock \in Nat /\ FileBlock >= 1
    BY ScheduleAssumption
  <2>3. Block(t) > 0 => Sparse(t)
    BY <1>1, <1>2 DEF MayDemux, WaitsForStart, WaitsInGap
  <2>4. ~(Block(t) > 0 /\ Sparse(t))
    BY <1>1 DEF HasBlock
  <2>5. ~(Block(t) > 0)
    BY <2>3, <2>4
  <2>. QED  BY <2>1, <2>2, <2>5 DEF Block, Least
<1>4. size'[t] = 0 /\ lastReadCnt'[t] = 0
  BY <1>1, <1>3 DEF IInv, TypeOK
<1>5. \A u \in Tracks : u # t => mark'[u] = mark[u] /\ size'[u] = size[u] /\ lastReadCnt'[u] = lastReadCnt[u]
  BY <1>1 DEF IInv, TypeOK
<1>6. best = 0 => \A u \in 1..(t - 1) : Ended(u) => Over(u)
  BY <1>1 DEF EndInv, Scanned
<1>. QED  BY <1>1, <1>2, <1>4, <1>5, <1>6, EndSkip

(* Of tracks in one file that has not ended none has ended.                *)
LEMMA EndBecomesDelayed ==
  ASSUME IInv, EndInv, NEW t \in Tracks, BecomesDelayed(t)
  PROVE  EndInv'
<1>1. /\ idx = t /\ pc = "demuxed" /\ ~flushMode /\ ~isEOF[t] /\ avRez[t] # "ok" /\ Skip(t)
      /\ ~ReadsOn(t) /\ size[t] = 0 /\ ~Ended(t)
      /\ mark' = [mark EXCEPT ![t] = "delayed"] /\ size' = size /\ lastReadCnt' = lastReadCnt
  BY DEF BecomesDelayed, EndInv, FileEnds, Ended
<1>2. demuxRez = "ok"
  BY <1>1 DEF EndInv, FileEnds, IInv, TypeOK
<1>3. Sparse(t) \/ OthersHeld(t)
  <2>1. MinBlock \in Nat /\ MinBlock >= 1
    BY ScheduleAssumption
  <2>2. size[t] < MinBlock
    BY <1>1, <2>1
  <2>. QED  BY <1>1, <1>2, <2>2 DEF ReadsOn
<1>4. ~Sparse(t) /\ gotData[t] => reached[File(t)] >= 0
  <2>1. MinBlock \in Nat /\ MinBlock >= 1
    BY ScheduleAssumption
  <2>2. size[t] < MinBlock
    BY <1>1, <2>1
  <2>. QED  BY <1>1, <1>2, <2>2 DEF ReadsOn, WaitsForStart, WaitsInGap
<1>5. ~Alone(src, t)
  BY <1>3 DEF OthersHeld, Mates, File, Sparse, Alone
<1>6. \A u \in 1..(t - 1) : Ended(u) => Over(u)
  <2>1. \A u \in Tracks : File(u) = File(t)
    BY <1>5 DEF EndInv, PlainSource, TogetherOrAlone, File
  <2>2. \A u \in 1..(t - 1) : u \in Tracks
    BY TrackNow DEF Tracks
  <2>. QED  BY <1>1, <2>1, <2>2 DEF Ended
<1>7. \A u \in Tracks : u # t => mark'[u] = mark[u] /\ size'[u] = size[u] /\ lastReadCnt'[u] = lastReadCnt[u]
  BY <1>1 DEF IInv, TypeOK
<1>. QED  BY <1>1, <1>4, <1>5, <1>6, <1>7, EndSkip

(* The file is read on for a track that has not ended.                     *)
LEMMA EndStartDemux ==
  ASSUME IInv, EndInv, NEW t \in Tracks, StartDemux(t)
  PROVE  EndInv'
<1>1. /\ UNCHANGED <<src, at, ended, reached, mark, gotData, avRez, rez, isEOF, flushed, held, reader, flushMode>>
      /\ UNCHANGED <<idx, best, allDelayed>>
      /\ idx = t /\ ~flushMode /\ avRez[t] # "ok" /\ ~isEOF[t] /\ pc' = "demux"
      /\ size' = [size EXCEPT ![t] = Left(t)] /\ lastReadCnt' = [lastReadCnt EXCEPT ![t] = 0]
  BY DEF StartDemux, WantsBlock
<1>2. PlainSource' /\ FileEnds'
  BY <1>1, SourceSame DEF EndInv, FileEnds
<1>3. ASSUME NEW u \in Tracks PROVE Reader(u)'
  <2>1. Reader(u) /\ size \in [Tracks -> Nat] /\ lastReadCnt \in [Tracks -> Nat]
    BY DEF EndInv, IInv, TypeOK
  <2>2. CASE u # t
    BY <1>1, <2>1, <2>2, ReaderSame DEF Ended, File
  <2>3. CASE u = t
    BY <1>1, <2>1, <2>3 DEF Reader, File, Keep, Sparse
  <2>. QED  BY <2>2, <2>3
<1>4. Scanned'
  BY <1>1 DEF EndInv, Scanned
<1>. QED  BY <1>2, <1>3, <1>4 DEF EndInv

(* The loop of readBlock goes round.                                       *)
LEMMA EndDemuxAgain ==
  ASSUME IInv, EndInv, NEW t \in Tracks, DemuxAgain(t)
  PROVE  EndInv'
<1>1. /\ UNCHANGED <<src, at, ended, reached, size, lastReadCnt, mark, gotData, avRez, rez, isEOF, flushed,
                     held, reader, flushMode>>
      /\ UNCHANGED <<idx, best, allDelayed>>
      /\ pc = "demuxed" /\ pc' = "demux" /\ ~flushMode
  BY DEF DemuxAgain, EndInv, FileEnds
<1>2. PlainSource' /\ FileEnds'
  BY <1>1, SourceSame DEF EndInv, FileEnds
<1>3. \A u \in Tracks : Reader(u)'
  BY <1>1, ReaderSame DEF EndInv, Ended, File
<1>4. Scanned'
  BY <1>1 DEF EndInv, Scanned
<1>. QED  BY <1>2, <1>3, <1>4 DEF EndInv

(* The end of a file that holds nothing back comes when all is given, and   *)
(* a file that has ended gives nothing more.                               *)
LEMMA EndDemuxBlock ==
  ASSUME IInv, EndInv, NEW t \in Tracks, DemuxBlock(t)
  PROVE  EndInv'
<1> DEFINE f == File(t)
<1> DEFINE more == at[f] + 1 <= Steps(src, f)
<1>1. /\ UNCHANGED <<src, lastReadCnt, mark, gotData, avRez, rez, isEOF, flushed, held, reader, flushMode>>
      /\ UNCHANGED <<idx, best, allDelayed>>
      /\ pc = "demux" /\ idx = t /\ pc' \in {"failed", "demuxed"}
      /\ demuxRez' = IF more THEN "ok" ELSE "eof"
      /\ at' = [at EXCEPT ![f] = IF more THEN at[f] + 1 ELSE @]
      /\ ended' = [ended EXCEPT ![f] = ~more \/ at[f] + 1 > src.reads[f]
                                       \/ (at[f] + 1 = src.reads[f] /\ src.endsWithLast[f])]
      /\ demuxed' = [u \in Tracks |-> IF more /\ File(u) = f THEN src.upto[f][at[f] + 1][u] ELSE demuxed[u]]
      /\ size' = [u \in Tracks |-> size[u] + demuxed'[u] - demuxed[u]]
  BY DEF DemuxBlock
<1>2. f \in Files /\ at[f] \in Nat /\ at[f] <= Steps(src, f) /\ Steps(src, f) \in Nat /\ src.reads[f] \in Nat
      /\ Steps(src, f) <= src.reads[f] /\ at \in [Files -> Nat] /\ ended \in [Files -> BOOLEAN]
  <2>1. f \in Files /\ at[f] <= Steps(src, f) /\ at \in [Files -> Nat] /\ ended \in [Files -> BOOLEAN]
    BY TrackNow DEF IInv, TypeOK, Buffers
  <2>2. Steps(src, f) \in Nat /\ src.reads[f] \in Nat
    BY <2>1, LenProperties DEF IInv, Source, IsSource, Steps
  <2>3. Steps(src, f) <= src.reads[f]
    BY <2>1 DEF EndInv, PlainSource, HoldsNothingBack
  <2>. QED  BY <2>1, <2>2, <2>3
<1>3. PlainSource'
  BY <1>1, SourceSame DEF EndInv
<1>4. FileEnds'
  <2>1. ASSUME NEW g \in Files, ended'[g] PROVE at'[g] = Steps(src', g)
    <3>1. CASE g # f
      BY <1>1, <1>2, <2>1, <3>1 DEF EndInv, FileEnds
    <3>2. CASE g = f /\ more
      <4>1. at'[f] = at[f] + 1
        BY <1>1, <1>2, <3>2
      <4>2. at[f] + 1 > src.reads[f] \/ at[f] + 1 = src.reads[f]
        BY <1>1, <1>2, <2>1, <3>2
      <4>. QED  BY <1>1, <1>2, <3>2, <4>1, <4>2
    <3>3. CASE g = f /\ ~more
      <4>1. at'[f] = at[f]
        BY <1>1, <1>2, <3>3
      <4>. QED  BY <1>1, <1>2, <3>3, <4>1
    <3>. QED  BY <3>1, <3>2, <3>3
  <2>2. ~flushMode' /\ avRez'[idx'] # "ok" /\ ~isEOF'[idx']
    BY <1>1 DEF EndInv, FileEnds
  <2>3. ASSUME demuxRez' = "eof" PROVE Ended(idx)'
    BY <1>1, <1>2, <2>3 DEF Ended, File
  <2>. QED  BY <2>1, <2>2, <2>3 DEF FileEnds
<1>5. ASSUME NEW u \in Tracks, reached[File(u)] >= 0 PROVE reached'[File(u)] >= 0
  <2>1. PICK d \in Times(f, demuxed') : (\A e \in Times(f, demuxed') : e <= d) /\ reached' = [reached EXCEPT ![f] = d]
    BY DEF DemuxBlock
  <2>2. reached[f] \in Times(f, demuxed') /\ reached \in [Files -> Int]
    BY DEF Times, IInv, TypeOK
  <2>3. File(u) \in Files
    BY TrackNow
  <2>4. CASE File(u) # f
    BY <1>5, <2>1, <2>2, <2>3, <2>4
  <2>5. CASE File(u) = f
    <3>1. reached'[File(u)] = d /\ reached[File(u)] <= d /\ d \in Int
      <4>1. reached' \in [Files -> Int]
        BY DemuxBlockKeeps DEF IInv, TypeOK
      <4>. QED  BY <2>1, <2>2, <2>3, <2>5, <4>1
    <3>. QED  BY <1>5, <2>2, <2>3, <3>1
  <2>. QED  BY <2>4, <2>5
<1>6. ASSUME NEW u \in Tracks PROVE Reader(u)'
  <2>1. Reader(u) /\ ~flushMode
    BY <1>1 DEF EndInv, FileEnds
  <2>2. CASE Ended(u)
    <3>1. File(u) = f => ~more
      BY <1>2, <2>2 DEF EndInv, FileEnds, Ended
    <3>2. size'[u] = size[u] /\ Ended(u)'
      <4>1. size[u] \in Nat /\ demuxed[u] \in Nat /\ demuxed'[u] = demuxed[u]
        BY <1>1, <3>1 DEF IInv, TypeOK
      <4>2. Ended(u)'
        BY <1>1, <1>2, <2>2, <3>1 DEF Ended, File
      <4>. QED  BY <1>1, <4>1, <4>2
    <3>. QED  BY <1>1, <1>5, <2>1, <3>2, ReaderSame
  <2>3. CASE ~Ended(u)
    <3>1. ~isEOF[u] /\ rez[u] # "eof2" /\ ~flushed[u]
      BY <2>1, <2>3 DEF Reader
    <3>2. mark'[u] = "delayed" => ~Alone(src', u) /\ (~Sparse(u)' /\ gotData'[u] => reached'[File(u)'] >= 0)
      BY <1>1, <1>5, <2>1 DEF Reader, Sparse, File
    <3>3. avRez'[u] # "ok" => reader'[u] <= Keep(u)'
      BY <1>1, <2>1 DEF Reader, Keep
    <3>. QED  BY <1>1, <3>1, <3>2, <3>3 DEF Reader
  <2>. QED  BY <2>2, <2>3
<1>7. Scanned'
  BY <1>1 DEF EndInv, Scanned, FileEnds
<1>. QED  BY <1>3, <1>4, <1>6, <1>7 DEF EndInv

(* A track whose reader is flushed has nothing held back.                  *)
LEMMA EndGiveHeld ==
  ASSUME IInv, EndInv, NEW t \in Tracks, GiveHeld(t)
  PROVE  EndInv'
<1>1. /\ UNCHANGED <<src, at, ended, reached, size, lastReadCnt, mark, gotData, avRez, rez, isEOF, flushed,
                     reader, flushMode>>
      /\ held[t] /\ held' = [held EXCEPT ![t] = FALSE] /\ Rescan /\ pc' = "scan"
  BY DEF GiveHeld, Chosen, Rescan
<1>2. PlainSource' /\ FileEnds'
  BY <1>1, SourceSame, FilesSame DEF EndInv
<1>3. ASSUME NEW u \in Tracks PROVE Reader(u)'
  <2>1. Reader(u) /\ held \in [Tracks -> BOOLEAN]
    BY DEF EndInv, IInv, TypeOK
  <2>2. CASE u # t
    BY <1>1, <2>1, <2>2, ReaderSame DEF Ended, File
  <2>3. CASE u = t
    BY <1>1, <2>1, <2>3 DEF Reader, Over, Ended, File, Keep, Sparse
  <2>. QED  BY <2>2, <2>3
<1>4. flushMode' => \A u \in Tracks : Over(u)'
  BY <1>1 DEF EndInv, Scanned, Over, Ended, File
<1>. QED  BY <1>1, <1>2, <1>3, <1>4, ScanRestarts DEF EndInv

(* A reader asks for more when all but what it keeps is given.             *)
LEMMA EndAskForMore ==
  ASSUME IInv, EndInv, NEW t \in Tracks, AskForMore(t)
  PROVE  EndInv'
<1>1. /\ UNCHANGED <<src, at, ended, reached, size, lastReadCnt, mark, gotData, rez, isEOF, flushed, held,
                     reader, flushMode>>
      /\ ~flushMode /\ rez[t] # "eof2" /\ reader[t] <= Keep(t)
      /\ avRez' = [avRez EXCEPT ![t] = "need"] /\ Rescan /\ pc' = "scan"
  BY DEF AskForMore, Chosen, Rescan, Keep
<1>2. PlainSource' /\ FileEnds'
  BY <1>1, SourceSame, FilesSame DEF EndInv
<1>3. ASSUME NEW u \in Tracks PROVE Reader(u)'
  <2>1. Reader(u) /\ avRez \in [Tracks -> {"ok", "need", "delayed"}]
    BY DEF EndInv, IInv, TypeOK
  <2>2. CASE u # t
    BY <1>1, <2>1, <2>2, ReaderSame DEF Ended, File
  <2>3. CASE u = t
    BY <1>1, <2>1, <2>3 DEF Reader, Over, Ended, File, Keep, Sparse
  <2>. QED  BY <2>2, <2>3
<1>4. flushMode' => \A u \in Tracks : Over(u)'
  BY <1>1
<1>. QED  BY <1>1, <1>2, <1>3, <1>4, ScanRestarts DEF EndInv

(* A reader that gives a packet is not flushed.                            *)
LEMMA EndReadPacket ==
  ASSUME IInv, EndInv, NEW t \in Tracks, ReadPacket(t)
  PROVE  EndInv'
<1>1. /\ UNCHANGED <<src, at, ended, reached, size, lastReadCnt, mark, gotData, rez, isEOF, flushed, flushMode>>
      /\ ~flushMode /\ rez[t] # "eof2"
      /\ avRez' = [avRez EXCEPT ![t] = "ok"] /\ reader' = [reader EXCEPT ![t] = @ - 1]
      /\ \A u \in Tracks : u # t => held'[u] = held[u]
      /\ Rescan /\ pc' = "scan"
  BY DEF ReadPacket, Chosen, Rescan, IInv, TypeOK
<1>2. PlainSource' /\ FileEnds'
  BY <1>1, SourceSame, FilesSame DEF EndInv
<1>3. ASSUME NEW u \in Tracks PROVE Reader(u)'
  <2>1. Reader(u) /\ avRez \in [Tracks -> {"ok", "need", "delayed"}] /\ reader \in [Tracks -> Nat]
    BY DEF EndInv, IInv, TypeOK
  <2>2. CASE u # t
    BY <1>1, <2>1, <2>2, ReaderSame DEF Ended, File
  <2>3. CASE u = t
    BY <1>1, <2>1, <2>3 DEF Reader, Over, Ended, File, Keep, Sparse
  <2>. QED  BY <2>2, <2>3
<1>4. flushMode' => \A u \in Tracks : Over(u)'
  BY <1>1
<1>. QED  BY <1>1, <1>2, <1>3, <1>4, ScanRestarts DEF EndInv

(* The reader that is flushed has given all but the piece it kept.         *)
LEMMA EndFlushStream ==
  ASSUME IInv, EndInv, NEW t \in Tracks, FlushStream(t)
  PROVE  EndInv'
<1>1. /\ UNCHANGED <<src, at, ended, reached, size, lastReadCnt, mark, gotData, avRez, rez, isEOF, held, flushMode>>
      /\ ~held[t] /\ (flushMode \/ rez[t] = "eof2")
      /\ flushed' = [flushed EXCEPT ![t] = TRUE]
      /\ reader' = IF reader[t] = 0 THEN reader ELSE [reader EXCEPT ![t] = @ - 1]
      /\ Rescan /\ pc' = "scan"
  BY DEF FlushStream, Chosen, Rescan
<1>2. PlainSource' /\ FileEnds'
  BY <1>1, SourceSame, FilesSame DEF EndInv
<1>3. Over(t)
  <2>1. rez[t] = "eof2" => Ended(t) /\ size[t] = lastReadCnt[t] /\ reader[t] <= Keep(t)
    BY DEF EndInv, Reader
  <2>2. reader[t] \in Nat /\ Keep(t) \in {0, 1}
    BY TrackNow
  <2>. QED  BY <1>1, <2>1, <2>2 DEF EndInv, Scanned, Over
<1>4. reader'[t] = 0 /\ flushed \in [Tracks -> BOOLEAN] /\ \A u \in Tracks : u # t => reader'[u] = reader[u]
  BY <1>1, <1>3 DEF Over, IInv, TypeOK
<1>5. \A u \in Tracks : Over(u) => Over(u)'
  BY <1>1, <1>4 DEF Over, Ended, File
<1>6. ASSUME NEW u \in Tracks PROVE Reader(u)'
  <2>1. Reader(u)
    BY DEF EndInv
  <2>2. CASE u # t
    BY <1>1, <1>4, <2>1, <2>2, ReaderSame DEF Ended, File
  <2>3. CASE u = t
    <3>1. 0 <= Keep(t)'
      BY <1>1 DEF Keep
    <3>. QED  BY <1>1, <1>3, <1>4, <1>5, <2>1, <2>3, <3>1 DEF Reader, Ended, File, Sparse
  <2>. QED  BY <2>2, <2>3
<1>7. flushMode' => \A u \in Tracks : Over(u)'
  BY <1>1, <1>5 DEF EndInv, Scanned
<1>. QED  BY <1>1, <1>2, <1>6, <1>7, ScanRestarts DEF EndInv

(* The marks are taken off.                                                *)
LEMMA EndResetDelayedMarks ==
  ASSUME IInv, EndInv, ResetDelayedMarks
  PROVE  EndInv'
<1>1. /\ UNCHANGED <<src, at, ended, reached, size, lastReadCnt, gotData, avRez, rez, isEOF, flushed, held,
                     reader, flushMode>>
      /\ mark' = [t \in Tracks |-> IF mark[t] = "delayed" THEN "ok" ELSE mark[t]]
      /\ Rescan /\ pc' = "scan"
  BY DEF ResetDelayedMarks, Rescan
<1>2. PlainSource' /\ FileEnds'
  BY <1>1, SourceSame, FilesSame DEF EndInv
<1>3. ASSUME NEW u \in Tracks PROVE Reader(u)'
  <2>1. mark'[u] # "delayed"
    BY <1>1
  <2>. QED  BY <1>1, <2>1, ReaderSame DEF EndInv, Ended, File
<1>4. flushMode' => \A u \in Tracks : Over(u)'
  BY <1>1 DEF EndInv, Scanned, Over, Ended, File
<1>. QED  BY <1>1, <1>2, <1>3, <1>4, ScanRestarts DEF EndInv

(* A scan in which no track could be muxed, and not all of them waited:    *)
(* there is one that has ended, and with it the file of all, or all have    *)
(* ended.                                                                  *)
LEMMA EndStartFlush ==
  ASSUME IInv, EndInv, StartFlush
  PROVE  EndInv'
<1>1. /\ UNCHANGED <<src, at, ended, reached, size, lastReadCnt, mark, gotData, avRez, rez, isEOF, flushed, held,
                     reader>>
      /\ pc = "scan" /\ idx = N + 1 /\ ~allDelayed /\ best = 0 /\ ~flushMode
      /\ Rescan /\ pc' = "scan"
  BY DEF StartFlush, ScanEnd, Rescan
<1>2. PlainSource' /\ FileEnds'
  BY <1>1, SourceSame, FilesSame DEF EndInv
<1>3. \A u \in Tracks : Reader(u)'
  BY <1>1, ReaderSame DEF EndInv, Ended, File
<1>4. 1..(idx - 1) = Tracks
  BY <1>1, ScheduleAssumption DEF Tracks
<1>5. \A u \in Tracks : Over(u)
  <2>1. \A u \in Tracks : flushed[u] => Over(u)
    BY DEF EndInv, Reader
  <2>2. CASE \A t, u \in Tracks : src.file[t] = src.file[u]
    <3>1. PICK t \in Tracks : flushed[t]
      BY <1>1, <1>4 DEF EndInv, Scanned
    <3>2. Ended(t)
      BY <2>1, <3>1 DEF Over
    <3>3. \A u \in Tracks : Ended(u)
      BY <2>2, <3>2 DEF Ended, File
    <3>. QED  BY <1>1, <1>4, <3>3 DEF EndInv, Scanned
  <2>3. CASE \A t \in Tracks : Alone(src, t)
    BY <1>1, <1>4, <2>1, <2>3 DEF EndInv, Scanned
  <2>. QED  BY <2>2, <2>3 DEF EndInv, PlainSource, TogetherOrAlone
<1>6. \A u \in Tracks : Over(u)'
  BY <1>1, <1>5 DEF Over, Ended, File
<1>. QED  BY <1>1, <1>2, <1>3, <1>6, ScanRestarts DEF EndInv

(* A scan of flushed tracks alone is the end of the job.                   *)
LEMMA EndFinish ==
  ASSUME IInv, EndInv, Finish
  PROVE  EndInv'
<1>1. /\ UNCHANGED <<src, at, ended, reached, size, lastReadCnt, mark, gotData, avRez, rez, isEOF, flushed,
                     held, reader, flushMode>>
      /\ UNCHANGED <<idx, best, allDelayed>>
      /\ pc' = "done" /\ flushMode /\ best = 0 /\ idx = N + 1
  BY DEF Finish, ScanEnd
<1>2. PlainSource' /\ FileEnds'
  BY <1>1, SourceSame, FilesSame DEF EndInv
<1>3. \A u \in Tracks : Reader(u)'
  BY <1>1, ReaderSame DEF EndInv, Ended, File
<1>4. Scanned'
  <2>1. \A u \in Tracks : Over(u)'
    BY <1>1 DEF EndInv, Scanned, Over, Ended, File
  <2>. QED  BY <1>1, <2>1 DEF EndInv, Scanned
<1>. QED  BY <1>2, <1>3, <1>4 DEF EndInv

(* When the job begins nothing is read, ended or flushed.                  *)
LEMMA EndInit == Init /\ PlainSource => EndInv
<1> SUFFICES ASSUME Init, PlainSource PROVE EndInv
  OBVIOUS
<1>2. FileEnds
  BY DEF FileEnds, Init
<1>3. ASSUME NEW t \in Tracks PROVE Reader(t)
  <2>1. /\ reader[t] = 0 /\ ~isEOF[t] /\ rez[t] = "ok" /\ ~flushed[t] /\ mark[t] = "ok"
    BY DEF Init
  <2>2. 0 <= Keep(t)
    BY DEF Keep
  <2>. QED  BY <2>1, <2>2 DEF Reader
<1>4. Scanned
  <2>1. idx = 1 /\ 1..(1 - 1) = {} /\ ~flushMode /\ allDelayed /\ pc = "scan"
    BY DEF Init
  <2>. QED  BY <2>1 DEF Scanned
<1>. QED  BY <1>2, <1>3, <1>4 DEF EndInv

(* Every step of readPacket keeps it.                                      *)
LEMMA EndNext == IInv /\ EndInv /\ [Next]_vars => EndInv'
<1> SUFFICES ASSUME IInv, EndInv, [Next]_vars PROVE EndInv'
  OBVIOUS
<1>1. ASSUME NEW t \in Tracks, Scan(t) PROVE EndInv'
  BY <1>1, EndScanFlush, EndReadNotNeeded, EndReadAtEnd, EndHandOnAtOnce, EndStaysDelayed, EndStartDemux DEF Scan
<1>2. ASSUME NEW t \in Tracks, Demux(t) PROVE EndInv'
  BY <1>2, EndDemuxBlock, EndDemuxAgain, EndHandOnRead, EndHandOnEnd, EndBecomesDelayed DEF Demux
<1>3. ASSUME NEW t \in Tracks, Mux(t) PROVE EndInv'
  BY <1>3, EndGiveHeld, EndAskForMore, EndReadPacket, EndFlushStream DEF Mux
<1>4. CASE UNCHANGED vars
  <2>1. /\ UNCHANGED <<src, at, ended, reached, size, lastReadCnt, mark, gotData, avRez, rez, isEOF, flushed,
                       held, reader, flushMode>>
        /\ UNCHANGED <<pc, idx, best, allDelayed, demuxRez>>
    BY <1>4 DEF vars
  <2>2. PlainSource' /\ FileEnds'
    BY <2>1, SourceSame DEF EndInv, FileEnds, Ended, File
  <2>3. \A u \in Tracks : Reader(u)'
    BY <2>1, ReaderSame DEF EndInv, Ended, File
  <2>4. Scanned'
    BY <2>1 DEF EndInv, Scanned, Over, Ended, File
  <2>. QED  BY <2>2, <2>3, <2>4 DEF EndInv
<1>. QED  BY <1>1, <1>2, <1>3, <1>4, EndResetDelayedMarks, EndStartFlush, EndFinish DEF Next

(* At the end every place a piece can be is empty but the output.          *)
LEMMA EndMeansDelivered == IInv /\ EndInv => AllDelivered
<1> SUFFICES ASSUME IInv, EndInv, pc = "done", NEW t \in Tracks
            PROVE  given[t] = Len(src.time[t]) /\ flushed[t]
  BY DEF AllDelivered
<1>1. flushed[t]
  <2>1. 1..((N + 1) - 1) = Tracks
    BY ScheduleAssumption DEF Tracks
  <2>. QED  BY <2>1 DEF EndInv, Scanned
<1>2. Ended(t) /\ size[t] = lastReadCnt[t] /\ reader[t] = 0 /\ ~held[t]
  BY <1>1 DEF EndInv, Reader, Over
<1>3. File(t) \in Files /\ at[File(t)] = Steps(src, File(t))
  BY <1>2, TrackNow DEF EndInv, FileEnds, Ended
<1>4. demuxed[t] = Len(src.time[t])
  BY <1>3 DEF IInv, Buffers, Given, EndInv, PlainSource, HoldsNothingBack, File
<1>5. demuxed[t] = given[t] + HeldCount(t) + reader[t] + size[t] - lastReadCnt[t] /\ HeldCount(t) = 0
  BY <1>2 DEF IInv, NothingLost, HeldCount
<1>6. given[t] \in Nat /\ size[t] \in Nat
  BY DEF IInv, TypeOK
<1>. QED  BY <1>1, <1>2, <1>4, <1>5, <1>6

(* A job reads the same files from its beginning to its end.               *)
LEMMA JobStays == [Next]_vars => src' = src
BY DEF Next, Scan, Demux, Mux, vars, ScanFlush, ReadNotNeeded, ReadAtEnd, HandOnAtOnce, StaysDelayed, StartDemux,
       DemuxBlock, DemuxAgain, HandOnRead, HandOnEnd, BecomesDelayed, Deliver, Skip, GiveHeld, AskForMore,
       ReadPacket, FlushStream, ResetDelayedMarks, StartFlush, Finish

(* When METADemuxer::readPacket says that the data has ended, every piece  *)
(* of every track has been returned and every reader flushed, in every job *)
(* whose tracks are in one file, or are dense and each in a file of its    *)
(* own, where the demuxers hold nothing back behind the end of their file. *)
THEOREM EverythingIsDelivered == Spec => [](PlainSource => AllDelivered)
<1>1. Init => IInv /\ (PlainSource => EndInv)
  BY InitHolds, EndInit
<1>2. IInv /\ (PlainSource => EndInv) /\ [Next]_vars => (IInv /\ (PlainSource => EndInv))'
  <2> SUFFICES ASSUME IInv, PlainSource => EndInv, [Next]_vars PROVE IInv' /\ (PlainSource' => EndInv')
    OBVIOUS
  <2>1. PlainSource' => PlainSource
    BY JobStays DEF PlainSource
  <2>. QED  BY <2>1, NextKeeps, EndNext
<1>3. IInv /\ (PlainSource => EndInv) => (PlainSource => AllDelivered)
  BY EndMeansDelivered
<1>. QED  BY <1>1, <1>2, <1>3, PTL DEF Spec
=============================================================================

---------------------------- MODULE StreamSchedule ----------------------------
(***************************************************************************)
(* The demux scheduler: METADemuxer::readPacket chooses, packet by packet, *)
(* which track of the job is muxed next; StreamInfo::read asks for a       *)
(* track's next block; ContainerToReaderWrapper::readBlock takes the block *)
(* out of what the container's demuxer has read, and reads the file on     *)
(* where there is too little.  All tracks of one container file share the  *)
(* reading, so one track's request fills the buffers of the others.        *)
(*                                                                         *)
(* Everything runs in one thread: the module has no interleaving, and a    *)
(* behaviour is fixed by the source chosen in Init.  What is hard is the   *)
(* long sequence of legal calls: tracks that start late, stop for a while, *)
(* are sparse, are shifted in time, end early or are joined with a gap.    *)
(*                                                                         *)
(* Data is counted in pieces: one frame, picture or subtitle each.  The    *)
(* pieces of a track are numbered 1, 2, ..., and queues hand them on in    *)
(* order, so a queue is its length.  A codec reader turns a piece into a   *)
(* packet whose time src.dts[t][n] is the piece's own.                     *)
(***************************************************************************)
EXTENDS Integers, Sequences, FiniteSets

CONSTANTS
  N,           \* the number of tracks; track t is m_codecInfo[t - 1]
  Files,       \* the container files
  Sources,     \* the contents the files may have (IsSource)
  MinBlock,    \* MIN_READED_BLOCK
  FileBlock,   \* getFileBlockSize()
  Quarter,     \* MAX_DEMUX_BUFFER_SIZE / 4
  Margin       \* the 10 s of setReadAhead

Tracks == 1..N

MaxHeld == 4 * Quarter     \* MAX_DEMUX_BUFFER_SIZE

Steps(src, f) == Len(src.upto[f])

\* What a job reads.  The n-th piece of t is stored at the file's time time[t][n] and
\* its reader times it dts[t][n]; gap[t][n] > 0 where a join put a gap before it.  The
\* first k calls of simpleDemuxBlock for f give upto[f][k][t] pieces of t; the first
\* reads[f] calls read the file, and what the others give comes when it is called again
\* after the file's last block has been read.
IsSource(src) ==
  /\ src.file \in [Tracks -> Files]
  /\ src.sparse \in [Tracks -> BOOLEAN]
  /\ src.keeps \in [Tracks -> BOOLEAN]
  /\ src.shift \in [Tracks -> Int]
  /\ src.clipStart \in [Tracks -> Nat]
  /\ src.long \in [Tracks -> Nat]
  /\ src.upto \in [Files -> Seq([Tracks -> Nat])]
  /\ src.reads \in [Files -> Nat]
  /\ src.endsWithLast \in [Files -> BOOLEAN]
  /\ src.tells \in [Files -> BOOLEAN]
  /\ src.limited \in [Files -> BOOLEAN]
  /\ src.time \in [Tracks -> Seq(Nat)]
  /\ src.dts \in [Tracks -> Seq(Nat)]
  /\ src.gap \in [Tracks -> Seq(Nat)]
  /\ \A t \in Tracks : Len(src.dts[t]) = Len(src.time[t]) /\ Len(src.gap[t]) = Len(src.time[t])
  /\ \A t \in Tracks : \A k \in DOMAIN src.upto[src.file[t]] :
       /\ src.upto[src.file[t]][k][t] <= Len(src.time[t])
       /\ k > 1 => src.upto[src.file[t]][k - 1][t] <= src.upto[src.file[t]][k][t]

ASSUME ScheduleAssumption ==
  /\ N \in Nat \ {0}
  /\ MinBlock \in Nat /\ FileBlock \in Nat /\ Quarter \in Nat /\ Margin \in Nat
  /\ 1 <= MinBlock /\ MinBlock <= FileBlock /\ FileBlock < Quarter
  /\ \A src \in Sources : IsSource(src)

VARIABLES
  src,         \* what this job reads
  \* the demuxer of each file
  at,          \* simpleDemuxBlock calls that gave data
  demuxed,     \* pieces of each track they gave
  ended,       \* getLastReadRez() is DATA_EOF
  reached,     \* getDemuxedTime(), -1 where it is not told
  \* DemuxerData and ReaderInfo, for each track
  size,        \* demuxedData: pieces in the buffer
  lastReadCnt, \* of those, the pieces handed on by the last readBlock
  mark,        \* lastReadRez: "ok", "delayed" or "eof"
  gotData,     \* m_gotData
  \* StreamInfo, for each track
  avRez,       \* m_lastAVRez: "ok", "need" (more data) or "delayed"
  rez,         \* lastReadRez: "ok", "delayed", "eof" or "eof2"
  isEOF, flushed, held, lastDTS, timeShift,
  started,     \* m_clipStartTaken
  known,       \* pieces the demuxer had read when takeTimeGaps was last called
  passed,      \* the piece after the last gap taken off m_joinGaps
  reader,      \* pieces in the codec reader
  given,       \* packets with data returned by METADemuxer::readPacket
  \* METADemuxer
  flushMode, muxPos,
  pc,          \* "scan", "demux", "demuxed", "done" or "failed"
  idx,         \* the track the loop has come to; N + 1 behind the last
  best,        \* minDtsIndex, 0 for none
  allDelayed,
  demuxRez,    \* what the last simpleDemuxBlock returned: "ok" or "eof"
  \* history, for the properties
  waited,      \* tracks passed over as delayed and not caught up since
  stocked,     \* tracks with data in their buffer when the scan began
  crowded      \* files of which a track then held more than a quarter of the limit

fileVars   == <<at, demuxed, ended, reached>>
trackVars  == <<size, lastReadCnt, mark, gotData>>
streamVars == <<avRez, rez, isEOF, flushed, held, lastDTS, timeShift, started, known, passed>>
outVars    == <<reader, given>>
jobVars    == <<flushMode, muxPos>>
scanVars   == <<pc, idx, best, allDelayed, demuxRez>>
ghostVars  == <<waited, stocked, crowded>>
vars == <<src, fileVars, trackVars, streamVars, outVars, jobVars, scanVars, ghostVars>>
-------------------------------------------------------------------------------
Least(a, b) == IF a <= b THEN a ELSE b
Most(a, b) == IF a >= b THEN a ELSE b

File(t) == src.file[t]
Sparse(t) == src.sparse[t]                        \* drpFragmented
Mates(t) == {u \in Tracks : File(u) = File(t)}    \* the tracks of its file
AllFragmented(t) == \A u \in Mates(t) : Sparse(u)

\* Packets are due at the reader's time plus the timeshift.
Due(t, n) == src.dts[t][n] + timeShift[t]

\* The time packet n is returned with now: the flush of all streams adds no timeshift.
Stamp(t, n) == IF flushMode THEN src.dts[t][n] ELSE Due(t, n)

\* A dense track lasts as long as its packets, a subtitle is timed by its start.
Duration(t) == IF Sparse(t) THEN 0 ELSE src.long[t]

\* Where the reader of a track stands when it asks for more data.
Position(t) == IF Sparse(t) THEN lastDTS[t]
               ELSE timeShift[t] + (IF given[t] = 0 THEN 0
                                    ELSE src.dts[t][given[t]] + src.long[t])

OthersHeld(t) == \E u \in Mates(t) \ {t} : size[u] > Quarter
WaitsForStart(t) == ~gotData[t] /\ ~Sparse(t)
WaitsInGapNever(t) == FALSE
WaitsInGap(t) == gotData[t] /\ ~Sparse(t) /\ reached[File(t)] >= 0

\* readAhead() of readBlock with the time setReadAhead was given in this scan
ReadAheadNever(t) == FALSE
ReadAhead(t) ==
  /\ timeShift[t] < 0 /\ Sparse(t)
  /\ 0 <= reached[File(t)] /\ reached[File(t)] < muxPos - timeShift[t] + Margin
  /\ \A u \in Mates(t) : size[u] <= Quarter

\* What is left of the buffer once the block handed on before is taken out
LeftKept(t) == size[t]
LeftWhole(t) == IF lastReadCnt[t] > 0 THEN size[t] - FileBlock ELSE size[t]
Left(t) == size[t] - lastReadCnt[t]
Block(t) == Least(Left(t), FileBlock)

\* readBlock hands on what it has, without reading the file on
HasBlock(t) ==
  \/ Block(t) > 0 /\ (Sparse(t) \/ mark[t] = "eof")
  \/ Block(t) >= MinBlock

MayDemux(t) ==
  \/ mark[t] # "delayed"
  \/ AllFragmented(t)
  \/ ReadAhead(t)
  \/ (WaitsForStart(t) \/ WaitsInGap(t)) /\ Block(t) > 0

\* the condition of the do-while loop around simpleDemuxBlock
ReadsOn(t) ==
  /\ demuxRez = "ok"
  /\ \/ /\ size[t] < MinBlock
        /\ ~Sparse(t)
        /\ ~(WaitsForStart(t) /\ size[t] = 0 /\ OthersHeld(t))
        /\ ~(WaitsInGap(t) /\ OthersHeld(t))
     \/ size[t] = 0 /\ ReadAhead(t)

\* the joints of a track that its StreamInfo knows of and whose gap has not passed
Gaps(t) == {n \in DOMAIN src.gap[t] : src.gap[t][n] > 0 /\ passed[t] < n /\ n <= known[t]}
FirstGap(t) == CHOOSE n \in Gaps(t) : \A m \in Gaps(t) : n <= m
-------------------------------------------------------------------------------
Init ==
  /\ src \in Sources
  /\ at = [f \in Files |-> 0]
  /\ demuxed = [t \in Tracks |-> 0]
  /\ ended = [f \in Files |-> FALSE]
  /\ reached = [f \in Files |-> -1]
  /\ size = [t \in Tracks |-> 0]
  /\ lastReadCnt = [t \in Tracks |-> 0]
  /\ mark = [t \in Tracks |-> "ok"]
  /\ gotData = [t \in Tracks |-> FALSE]
  /\ avRez = [t \in Tracks |-> "need"]
  /\ rez = [t \in Tracks |-> "ok"]
  /\ isEOF = [t \in Tracks |-> FALSE]
  /\ flushed = [t \in Tracks |-> FALSE]
  /\ held = [t \in Tracks |-> FALSE]
  /\ timeShift = src.shift
  /\ lastDTS = [t \in Tracks |-> Most(0, src.shift[t])]
  /\ started = [t \in Tracks |-> FALSE]
  /\ known = [t \in Tracks |-> 0]
  /\ passed = [t \in Tracks |-> 0]
  /\ reader = [t \in Tracks |-> 0]
  /\ given = [t \in Tracks |-> 0]
  /\ flushMode = FALSE /\ muxPos = 0
  /\ pc = "scan" /\ idx = 1 /\ best = 0 /\ allDelayed = TRUE /\ demuxRez = "ok"
  /\ waited = {} /\ stocked = {} /\ crowded = {}

\* The scan starts over: the next call of readPacket, or another round of the same.
Rescan ==
  /\ pc' = "scan" /\ idx' = 1 /\ best' = 0 /\ allDelayed' = TRUE
  /\ stocked' = {t \in Tracks : Left(t) > 0}
  /\ crowded' = {File(t) : t \in {u \in Tracks : size[u] > Quarter}}
  /\ UNCHANGED demuxRez

\* Track t is looked at as the next to be muxed, with the time it now has.
Consider(t) ==
  best' = IF best = 0 \/ lastDTS'[t] < lastDTS[best] THEN t ELSE best

Pass(t) ==
  /\ pc' = "scan" /\ idx' = t + 1
  /\ UNCHANGED demuxRez

\* At the end of all data every stream is flushed, without reading.
ScanFlush(t) ==
  /\ pc = "scan" /\ idx = t /\ flushMode
  /\ allDelayed' = FALSE
  /\ UNCHANGED lastDTS
  /\ IF flushed[t] THEN UNCHANGED best ELSE Consider(t)
  /\ Pass(t)
  /\ UNCHANGED <<src, fileVars, trackVars, avRez, rez, isEOF, flushed, held, timeShift,
                 started, known, passed, outVars, jobVars, ghostVars>>

\* StreamInfo::read: the reader has not asked for more.
ReadNotNeeded(t) ==
  /\ pc = "scan" /\ idx = t /\ ~flushMode
  /\ avRez[t] = "ok"
  /\ rez' = [rez EXCEPT ![t] = "ok"]
  /\ allDelayed' = FALSE
  /\ UNCHANGED lastDTS
  /\ Consider(t)
  /\ Pass(t)
  /\ UNCHANGED <<src, fileVars, trackVars, avRez, isEOF, flushed, held, timeShift,
                 started, known, passed, outVars, jobVars, ghostVars>>

\* StreamInfo::read: the reader asks for more and its track has ended (DATA_EOF2).
ReadAtEnd(t) ==
  /\ pc = "scan" /\ idx = t /\ ~flushMode
  /\ avRez[t] # "ok" /\ isEOF[t]
  /\ rez' = [rez EXCEPT ![t] = "eof2"]
  /\ allDelayed' = FALSE
  /\ UNCHANGED lastDTS
  /\ IF flushed[t] THEN UNCHANGED best ELSE Consider(t)
  /\ Pass(t)
  /\ UNCHANGED <<src, fileVars, trackVars, avRez, isEOF, flushed, held, timeShift,
                 started, known, passed, outVars, jobVars, ghostVars>>

\* StreamInfo::read gives the reader the block of n pieces that readBlock handed on;
\* with end, the track has ended.  The clip the track begins in moves its times.
Deliver(t, n, end) ==
  /\ lastReadCnt' = [lastReadCnt EXCEPT ![t] = n]
  /\ gotData' = [gotData EXCEPT ![t] = @ \/ n > 0]
  /\ avRez' = [avRez EXCEPT ![t] = "ok"]
  /\ rez' = [rez EXCEPT ![t] = IF end THEN "eof" ELSE "ok"]
  /\ isEOF' = [isEOF EXCEPT ![t] = end]
  /\ reader' = [reader EXCEPT ![t] = @ + n]
  /\ known' = [known EXCEPT ![t] = demuxed[t]]
  /\ started' = [started EXCEPT ![t] = @ \/ n > 0]
  /\ IF ~started[t] /\ n > 0 /\ src.clipStart[t] > 0
     THEN /\ timeShift' = [timeShift EXCEPT ![t] = @ + src.clipStart[t]]
          /\ lastDTS' = [lastDTS EXCEPT ![t] = Most(@, timeShift[t] + src.clipStart[t])]
     ELSE UNCHANGED <<timeShift, lastDTS>>
  /\ allDelayed' = FALSE
  /\ Consider(t)
  /\ Pass(t)
  /\ UNCHANGED <<src, fileVars, flushed, held, passed, given, jobVars, ghostVars>>

\* readBlock: DATA_DELAYED.  The track is passed over in this scan.
Skip(t) ==
  /\ avRez' = [avRez EXCEPT ![t] = "delayed"]
  /\ rez' = [rez EXCEPT ![t] = "delayed"]
  /\ waited' = IF Sparse(t) THEN waited ELSE waited \cup {t}
  /\ Pass(t)
  /\ UNCHANGED <<src, fileVars, gotData, isEOF, flushed, held, lastDTS, timeShift,
                 started, known, passed, outVars, jobVars, best, allDelayed, stocked, crowded>>

WantsBlock(t) ==
  /\ pc = "scan" /\ idx = t /\ ~flushMode
  /\ avRez[t] # "ok" /\ ~isEOF[t]

\* readBlock: there is a block in the buffer.
HandOnAtOnce(t) ==
  /\ WantsBlock(t)
  /\ HasBlock(t)
  /\ size' = [size EXCEPT ![t] = Left(t)]
  /\ mark' = [mark EXCEPT ![t] = "ok"]
  /\ Deliver(t, Block(t), FALSE)

\* readBlock: nothing to hand on, and the file is not read on for this track.
StaysDelayed(t) ==
  /\ WantsBlock(t)
  /\ ~HasBlock(t) /\ ~MayDemux(t)
  /\ size' = [size EXCEPT ![t] = Left(t)]
  /\ lastReadCnt' = [lastReadCnt EXCEPT ![t] = 0]
  /\ UNCHANGED mark
  /\ Skip(t)

\* readBlock: the file is read on.
StartDemux(t) ==
  /\ WantsBlock(t)
  /\ ~HasBlock(t) /\ MayDemux(t)
  /\ size' = [size EXCEPT ![t] = Left(t)]
  /\ lastReadCnt' = [lastReadCnt EXCEPT ![t] = 0]
  /\ pc' = "demux"
  /\ UNCHANGED <<src, fileVars, mark, gotData, streamVars, outVars, jobVars,
                 idx, best, allDelayed, demuxRez, ghostVars>>

\* The time of the latest piece that the file has given, where its demuxer tells it
Times(f, count) ==
  {reached[f]} \cup {src.time[t][count[t]] : t \in {u \in Tracks : src.tells[f] /\ File(u) = f /\ count[u] > 0}}

\* simpleDemuxBlock gives the next pieces of the file, or finds its end.  The last
\* block of the file carries the end with it, or the end comes in a read of its own.
DemuxBlock(t) ==
  LET f == File(t)
      k == at[f] + 1
      more == k <= Steps(src, f)
  IN
  /\ pc = "demux" /\ idx = t
  /\ demuxRez' = IF more THEN "ok" ELSE "eof"
  /\ at' = [at EXCEPT ![f] = IF more THEN k ELSE @]
  /\ ended' = [ended EXCEPT ![f] = ~more \/ k > src.reads[f] \/ (k = src.reads[f] /\ src.endsWithLast[f])]
  /\ demuxed' = [u \in Tracks |-> IF more /\ File(u) = f THEN src.upto[f][k][u] ELSE demuxed[u]]
  /\ size' = [u \in Tracks |-> size[u] + demuxed'[u] - demuxed[u]]
  /\ \E d \in Times(f, demuxed') :
       /\ \A e \in Times(f, demuxed') : e <= d
       /\ reached' = [reached EXCEPT ![f] = d]
  /\ pc' = IF src.limited[f] /\ \E u \in Mates(t) : size'[u] > MaxHeld
           THEN "failed" ELSE "demuxed"
  /\ UNCHANGED <<src, lastReadCnt, mark, gotData, streamVars, outVars, jobVars,
                 idx, best, allDelayed, ghostVars>>

\* The loop goes on.
DemuxAgain(t) ==
  /\ pc = "demuxed" /\ idx = t
  /\ ReadsOn(t)
  /\ pc' = "demux"
  /\ UNCHANGED <<src, fileVars, trackVars, streamVars, outVars, jobVars,
                 idx, best, allDelayed, demuxRez, ghostVars>>

\* The end comes with the last block, not with one before it.
EndsAnyway(t) == ended[File(t)]
EndsHere(t) == ended[File(t)] /\ size[t] <= FileBlock

\* A block is there; the end comes with it only when it is the last one.
HandOnRead(t) ==
  /\ pc = "demuxed" /\ idx = t
  /\ ~ReadsOn(t)
  /\ size[t] > 0
  /\ mark' = [mark EXCEPT ![t] = IF EndsHere(t) THEN "eof" ELSE "ok"]
  /\ Deliver(t, Block(t), EndsHere(t))
  /\ UNCHANGED size

\* Nothing is there, and nothing more comes.
HandOnEnd(t) ==
  /\ pc = "demuxed" /\ idx = t
  /\ ~ReadsOn(t)
  /\ size[t] = 0 /\ ended[File(t)]
  /\ mark' = [mark EXCEPT ![t] = "eof"]
  /\ Deliver(t, 0, TRUE)
  /\ UNCHANGED size

\* Nothing is there yet: a sparse track, or one that starts late or has stopped.
BecomesDelayed(t) ==
  /\ pc = "demuxed" /\ idx = t
  /\ ~ReadsOn(t)
  /\ size[t] = 0 /\ ~ended[File(t)]
  /\ mark' = [mark EXCEPT ![t] = "delayed"]
  /\ UNCHANGED <<size, lastReadCnt>>
  /\ Skip(t)
-------------------------------------------------------------------------------
ScanEnd == pc = "scan" /\ idx = N + 1

\* All tracks wait: their marks are taken off and they are read again.
ResetDelayedMarks ==
  /\ ScanEnd /\ allDelayed
  /\ mark' = [t \in Tracks |-> IF mark[t] = "delayed" THEN "ok" ELSE mark[t]]
  /\ Rescan
  /\ UNCHANGED <<src, fileVars, size, lastReadCnt, gotData, streamVars, outVars, jobVars, waited>>

Chosen(t) ==
  /\ ScanEnd /\ ~allDelayed /\ best = t
  /\ muxPos' = Most(muxPos, lastDTS[t])
  /\ UNCHANGED flushMode

\* The dense tracks that were never passed over, or have caught up
InStep == {u \in Tracks \ waited : ~Sparse(u) /\ given[u] > 0}

\* A packet of t with data, due at d, is returned.
CatchUp(t, d) ==
  waited' = IF \A u \in InStep : Due(u, given[u]) <= d THEN waited \ {t} ELSE waited

\* The packet held back is returned.
GiveHeld(t) ==
  /\ Chosen(t)
  /\ held[t]
  /\ held' = [held EXCEPT ![t] = FALSE]
  /\ given' = [given EXCEPT ![t] = @ + 1]
  /\ lastDTS' = [lastDTS EXCEPT ![t] = Due(t, given[t] + 1) + Duration(t)]
  /\ CatchUp(t, Due(t, given[t] + 1))
  /\ Rescan
  /\ UNCHANGED <<src, fileVars, trackVars, avRez, rez, isEOF, flushed, timeShift,
                 started, known, passed, reader>>

\* The reader has no whole packet left: a packet without data, at its position.
AskForMore(t) ==
  /\ Chosen(t)
  /\ ~held[t] /\ ~flushMode /\ rez[t] # "eof2"
  /\ reader[t] <= (IF src.keeps[t] THEN 1 ELSE 0)
  /\ avRez' = [avRez EXCEPT ![t] = "need"]
  /\ lastDTS' = [lastDTS EXCEPT ![t] = Position(t)]
  /\ Rescan
  /\ UNCHANGED <<src, fileVars, trackVars, rez, isEOF, flushed, held, timeShift,
                 started, known, passed, outVars, waited>>

\* The packet comes after a gap of a join and other tracks are still before it.
AfterGap(t, d) ==
  Gaps(t) # {} /\ 2 * (d - lastDTS[t]) >= src.gap[t][FirstGap(t)]
OthersBehindNever(t, d) == FALSE
OthersBehind(t, d) ==
  \E u \in Tracks \ {t} : ~flushed[u] /\ rez[u] # "eof2" /\ lastDTS[u] < d

\* The reader's next packet is returned, or held back behind a gap.
ReadPacket(t) ==
  LET d == Due(t, given[t] + 1) IN
  /\ Chosen(t)
  /\ ~held[t] /\ ~flushMode /\ rez[t] # "eof2"
  /\ reader[t] > (IF src.keeps[t] THEN 1 ELSE 0)
  /\ avRez' = [avRez EXCEPT ![t] = "ok"]
  /\ reader' = [reader EXCEPT ![t] = @ - 1]
  /\ passed' = IF AfterGap(t, d) THEN [passed EXCEPT ![t] = FirstGap(t)] ELSE passed
  /\ \/ /\ AfterGap(t, d) /\ OthersBehind(t, d)
        /\ held' = [held EXCEPT ![t] = TRUE]
        /\ lastDTS' = [lastDTS EXCEPT ![t] = d]
        /\ UNCHANGED <<given, waited>>
     \/ /\ ~(AfterGap(t, d) /\ OthersBehind(t, d))
        /\ given' = [given EXCEPT ![t] = @ + 1]
        /\ lastDTS' = [lastDTS EXCEPT ![t] = d + Duration(t)]
        /\ CatchUp(t, d)
        /\ UNCHANGED held
  /\ Rescan
  /\ UNCHANGED <<src, fileVars, trackVars, rez, isEOF, flushed, timeShift, started, known>>

\* The track has ended, or all have: its reader gives the piece it kept, if any.  In the
\* flush of all streams nothing is done about its time.
FlushStream(t) ==
  /\ Chosen(t)
  /\ ~held[t]
  /\ flushMode \/ rez[t] = "eof2"
  /\ flushed' = [flushed EXCEPT ![t] = TRUE]
  /\ IF reader[t] = 0
     THEN UNCHANGED <<outVars, lastDTS, waited>>
     ELSE /\ reader' = [reader EXCEPT ![t] = @ - 1]
          /\ given' = [given EXCEPT ![t] = @ + 1]
          /\ IF flushMode
             THEN UNCHANGED <<lastDTS, waited>>
             ELSE /\ lastDTS' = [lastDTS EXCEPT ![t] = Due(t, given[t] + 1) + Duration(t)]
                  /\ CatchUp(t, Due(t, given[t] + 1))
  /\ Rescan
  /\ UNCHANGED <<src, fileVars, trackVars, avRez, rez, isEOF, held, timeShift,
                 started, known, passed>>

StartFlushAgain ==
  /\ ScanEnd /\ ~allDelayed /\ best = 0 /\ ~flushMode
  /\ Rescan
  /\ UNCHANGED <<src, fileVars, trackVars, streamVars, outVars, jobVars, waited>>

\* No track can be muxed: the first time, all are flushed.
StartFlush ==
  /\ ScanEnd /\ ~allDelayed /\ best = 0 /\ ~flushMode
  /\ flushMode' = TRUE
  /\ Rescan
  /\ UNCHANGED <<src, fileVars, trackVars, streamVars, outVars, muxPos, waited>>

\* The second time, the job's data has ended (DATA_EOF).
Finish ==
  /\ ScanEnd /\ ~allDelayed /\ best = 0 /\ flushMode
  /\ pc' = "done"
  /\ UNCHANGED <<src, fileVars, trackVars, streamVars, outVars, jobVars,
                 idx, best, allDelayed, demuxRez, ghostVars>>

Scan(t) == \/ ScanFlush(t) \/ ReadNotNeeded(t) \/ ReadAtEnd(t)
           \/ HandOnAtOnce(t) \/ StaysDelayed(t) \/ StartDemux(t)

Demux(t) == \/ DemuxBlock(t) \/ DemuxAgain(t)
            \/ HandOnRead(t) \/ HandOnEnd(t) \/ BecomesDelayed(t)

Mux(t) == GiveHeld(t) \/ AskForMore(t) \/ ReadPacket(t) \/ FlushStream(t)

Next ==
  \/ \E t \in Tracks : Scan(t) \/ Demux(t) \/ Mux(t)
  \/ ResetDelayedMarks \/ StartFlush \/ Finish

Spec == Init /\ [][Next]_vars

\* The mux loop calls readPacket until the data ends, and the thread runs.
FairSpec == Spec /\ WF_vars(Next)
-------------------------------------------------------------------------------
TypeOK ==
  /\ at \in [Files -> Nat] /\ demuxed \in [Tracks -> Nat]
  /\ ended \in [Files -> BOOLEAN] /\ reached \in [Files -> Int]
  /\ size \in [Tracks -> Nat] /\ lastReadCnt \in [Tracks -> Nat]
  /\ mark \in [Tracks -> {"ok", "delayed", "eof"}]
  /\ gotData \in [Tracks -> BOOLEAN]
  /\ avRez \in [Tracks -> {"ok", "need", "delayed"}]
  /\ rez \in [Tracks -> {"ok", "delayed", "eof", "eof2"}]
  /\ isEOF \in [Tracks -> BOOLEAN] /\ flushed \in [Tracks -> BOOLEAN]
  /\ held \in [Tracks -> BOOLEAN] /\ started \in [Tracks -> BOOLEAN]
  /\ lastDTS \in [Tracks -> Int] /\ timeShift \in [Tracks -> Int]
  /\ known \in [Tracks -> Nat] /\ passed \in [Tracks -> Nat]
  /\ reader \in [Tracks -> Nat] /\ given \in [Tracks -> Nat]
  /\ flushMode \in BOOLEAN /\ muxPos \in Int
  /\ pc \in {"scan", "demux", "demuxed", "done", "failed"}
  /\ idx \in 1..(N + 1) /\ best \in 0..N
  /\ allDelayed \in BOOLEAN /\ demuxRez \in {"ok", "eof"}
  /\ waited \subseteq Tracks /\ stocked \subseteq Tracks /\ crowded \subseteq Files

HeldCount(t) == IF held[t] THEN 1 ELSE 0

\* Every piece that the demuxer has read is in one place: returned, held back, in the
\* reader, or in the buffer and not handed on.  The bytes of a block are taken out of
\* the buffer only by the next request (lastReadCnt), when the reader has them.
NothingLost ==
  \A t \in Tracks :
    demuxed[t] = given[t] + HeldCount(t) + reader[t] + size[t] - lastReadCnt[t]

\* When readPacket says that the data has ended, every piece of every track has been
\* returned, and every reader has been flushed.
AllDelivered ==
  pc = "done" => \A t \in Tracks : given[t] = Len(src.time[t]) /\ flushed[t]

\* A track that starts late or stops does not make the other tracks overflow, where the
\* demuxer tells how far it has read.
NoOverflow == pc = "failed" => \E f \in Files : src.limited[f] /\ ~src.tells[f]

\* The packets of the tracks that are not sparse are returned in the order of their
\* times, gaps included; but one that had to wait for data comes as soon as it can.
InTimeOrder ==
  [][\A t \in Tracks :
       given'[t] # given[t] /\ ~Sparse(t) /\ t \notin waited
         => \A u \in InStep : Due(u, given[u]) <= Stamp(t, given'[t])]_vars

\* No subtitle is late: when a dense track goes on from the time d, every subtitle due
\* before d that the file had given, or that reading ahead for a negative timeshift
\* reaches, has been returned.
NotLate ==
  [][\A t \in Tracks :
       given'[t] # given[t] /\ ~Sparse(t)
         => \A s \in Tracks :
              /\ Sparse(s) /\ given[s] < Len(src.time[s]) /\ ~flushMode
              /\ \/ s \in stocked
                 \/ /\ timeShift[s] < 0 /\ src.tells[File(s)] /\ File(s) \notin crowded
                    /\ \A u \in Mates(s) : size[u] <= Quarter
              => lastDTS[t] <= lastDTS[s] \/ lastDTS[t] <= Due(s, given[s] + 1)]_vars

\* The job's data comes to its end.
Finishes == <>(pc \in {"done", "failed"})
===============================================================================

# A verification project for tsMuxer

TLA+ models of the parts of tsMuxer in which threads, queues and the order of
calls decide whether the output is right, model-checked with TLC on small
instances, and theorems about them checked by TLAPS for every value of the
constants. Paths are relative to the repository; `tsMuxer/` stands for
`src/tsMuxer/`.

## 1. The system

tsMuxer reads elementary streams or containers named in a meta file and writes
one transport stream, M2TS, Blu-ray folder, ISO image or Matroska file, or
demuxes into one file per track. A job is one loop, `MuxerManager::doMux`, in
one *mux thread*; around it stand one *reading thread* per `BufferedReader` and
one *writing thread*, `BufferedFileWriter`.

```
 files -> BufferedFileReader    METADemuxer::readPacket     TSMuxer::muxPacket
          (reading thread)  ->  demuxer, stream reader  ->  MuxerManager::async*  ->  BufferedFileWriter -> File / ISOFile
          two blocks a reader   (mux thread)                (mux thread)              (writing thread)
```

| Component | State | Operations | Talks to |
|---|---|---|---|
| Read-ahead: `bufferedReader.*`, `bufferedFileReader.*` | a `ReaderData` per stream (two blocks, size ready, end of stream, requests queued, deleted), request queue, `m_processMtx`, `m_readMtx`, `m_readersMtx` | createReader, openStream, readBlock, notify, incSeek, gotoByte, deleteReader, terminate; `thread_main` | demuxers (calls), files, `FileNameIterator` (callback) |
| `BufferedReaderManager` | a few `BufferedReader`s | getReader (the one with fewest streams) | METADemuxer, demuxers |
| Queue and thread: `libmediation/containers/safequeue.h`, `system/terminatablethread.*` | bounded queue, condition variable | push (drops when full), peek, pop, join | reader, writer |
| `METADemuxer` (`metaDemuxer.cpp`) | the streams, their times and end, delayed packets, shared container reads | readPacket, StreamInfo::read, ContainerToReaderWrapper::readBlock, discoverStreams | read-ahead, stream readers |
| Demuxers: TS, PS, Matroska, MOV, 3D pair | position, track maps, partial packets | simpleDemuxBlock, getTrackList | read-ahead |
| Stream readers and codecs | bit stream state, clock | readPacket, checkStream | METADemuxer |
| `MuxerManager` | the one or two muxers, blocks held back, which view has ended its unit, cuts | doMux, asyncWriteBuffer, muxBlockFinished, waitForWriting | muxers (both ways), writer |
| `TSMuxer` | output buffer, blocks without arrival times, size of unit and part, PCR, tables | muxPacket, finishFileBlock, gotoNextFile, doFlush, close | MuxerManager, the other view, file |
| `tsPacket.*` | none | serialise PSI, MPLS, CLPI | TSMuxer, blurayHelper |
| `SingleFileMuxer`, `MatroskaMuxer` | a buffer, a file and its part per track; clusters, cues | muxPacket, doFlush, close | MuxerManager |
| `BufferedFileWriter` | queue, first error, terminated | addWriterData, `thread_main`, terminate, destructor | muxers' files |
| `IsoWriter`, `blurayHelper`, `bdSsifImport` | extents of each file, layer break, metadata | open/write/close of `ISOFile`, createInterleavedFile | TSMuxer, main |
| `main.cpp` | the old output kept aside (`KeepOldOutput`), the stop signal | forFile, commit, destructor; handlers | MuxerManager |
| Subtitles, GUI | rendered pictures; widgets | - | METADemuxer; the program's command line |

What is hard here, and what makes it right:

* **Read-ahead.** Two threads share a reader without one lock over it. A reader
  may be deleted while its requests are queued, sought while it is being read,
  joined from files that are empty or shorter than a block. Right means: no use
  after free, no block written while it is read, every byte once and in order,
  the end told only after the last byte, and no call that waits for ever.
* **Write path.** The mux thread closes a file, appends to it or begins the next
  part while blocks for it may be queued, waiting for their arrival times, or
  held back for the second view of 3D video; a write fails long after the call
  that queued it. Right means: each part whole and in order when it is closed,
  the units of the two views alternating, no failure reported as success, and no
  thread left waiting for the other.
* **Scheduling of streams.** One thread, but long sequences of legal calls:
  tracks that share one file's reads, start late, stop for a while, are sparse or
  shifted in time, and are joined with gaps. Right means: every piece of every
  track muxed once, in the order of the times, no subtitle late, no buffer
  overflowing because of a track that is silent, and an end.
* **Replacing an old output.** A failure or a kill between the steps that put a
  new output in the place of the old. Right means: at any moment a complete
  output is on the disk once there was one, a job that fails leaves nothing
  behind, and an output is never mixed from two jobs.
* **Where the data of an image goes.** Zones around the layer breaks stay empty,
  the second copy of the file system goes between, two views are cut alike, and
  data is moved back when the writer looked ahead in vain. Right means: every file
  reads back from its extents, the views of a 3D title can be named as one file,
  no data in a zone, and no image larger than its disc once it was called a fit.
* **Files of a demux.** A buffer per file that takes frames larger than itself,
  writes that must be whole units, a WAV that is ended and begun again by the mux
  thread beside the writer. Right means: no buffer overrun, every byte in its file
  once, every part of a WAV a WAV, and a job that ends as complete, or names what it
  could not finish, only when the rest is whole.
* **Cuts and PCR.** Planned (section 2).

`PROJECT.json` lists every component with its state of modelling, and the
hazards with their lines.

## 2. Plan

1. `BlockStream`, `BufferedReader`, `BufferedReaderProofs` - the read-ahead. *Done,
   with every invariant and the refinement of `BlockStream` proved.*
2. `MuxWriter`, `MuxWriterProofs`, `MuxPlanProofs`, `MuxOrderProofs` - the write path.
   *Done, with the queue, closed files, the order and completeness of the parts and
   the order of the two views' units proved.* Left: an abstract specification (per part,
   an append-only file that is closed whole) and the refinement to it.
3. `StreamSchedule`, `StreamScheduleProofs` - `METADemuxer::readPacket`,
   `StreamInfo::read` and `ContainerToReaderWrapper::readBlock`. *Done, with the
   conservation of pieces and the completeness of the output proved.* Its demuxer takes from a file what
   `BlockStream` promises: the data in order, then the end.
4. `KeepOldOutput`, `KeepOldOutputProofs` - the replacement of an existing
   output with a crash between any two steps. *Done, every property proved.*
5. `MuxCuts` - `doMux`'s `--cut-start`/`--cut-end` with the layers of the main video.
6. `IsoExtents`, `IsoExtentsProofs` - allocation of extents with the pieces of two
   views, the layer breaks and the mirror. *Done, with the types, the readability of
   every file and the emptiness of the zones proved.* It takes from `MuxWriter` that the
   units of the two views alternate (`UnitsAlternate`) and that nothing is written
   to a closed file. Left: that the two views are cut alike (`SsifInOrder`), as a theorem.
7. `DemuxFiles`, `DemuxFilesProofs` - the demux mode's files.
   *Done, every invariant proved.*
8. `PtsClock` - the 33 bit clock's wrap and the conversions around it, as
   operators against a reference.

Theorems worth proving next: the order of times of `StreamSchedule` for one track (3),
`SsifInOrder` of `IsoExtents` (6).

## 3. BufferedReader: the read-ahead

`BufferedReader.tla` models `bufferedReader.cpp` and `bufferedFileReader.cpp`
with both threads. The grain is that of the locks: a critical section of
`m_readersMtx` or `m_readMtx` is one step, `m_processMtx` is a variable held
over several steps, and a field written outside a lock has a step of its own.

| Variable | Code |
|---|---|
| `queue`, `atQueue`, `notified` | `m_readQueue`, `ReaderData::m_atQueue`, `m_notified` |
| `nextSize`, `eof`, `bufIndex` | `m_nextBlockSize`, `m_eof`, `m_bufferIndex` |
| `buf`, `firstBlock`, `lastBlock`, `size`, `file` | the two blocks, the marks, `m_blockSize`, the file and its iterator |
| `life`, `deleted`, `mtx`, `terminated` | the entry of `m_readers`, `m_deleted`, `m_processMtx`, `m_terminated` |
| `tpc tid tidx tn`, `cpc cid scanning` | where the reading thread and the client are |
| `held`, `got`, `told`, `failed` | what the client was given (history) |

The thread's actions follow `thread_main` in order: `LoopTest`, `Pop`,
`GetReader`, `ChooseBlock`, `LockProcess`, `Read`, `NextPart` / `SkipEmptyPart` /
`EmptyToTheEnd` / `NoNextPart`, `ResetSize`, `HandOver`, `UnlockProcess`,
`Served`. The client's are the public operations; a call that can block is two
or three steps. The bytes of a block are the stretch of the source they come
from, so order, loss, repetition and the boundary of a file can be told apart
without data.

`BlockStream.tla` is what a client is promised: the bytes of its source in
order, each once, in blocks that lie in one file, then the end. `BufferedReader`
implements it under the mapping `got <- got, ended <- told # 0`.

| Run | Instance | Shows |
|---|---|---|
| `read_ahead_join` | a join of six files of which some are empty, some short, beside a source that is not joined, scanned and sought back, or started at an offset; deletion and end at any time | `NoUseAfterFree`, `NoTornBlock`, `EofAfterLastPart`, the refinement of `BlockStream` (`StreamSpec`) |
| `read_ahead_faults` | a file of a join missing, reads that fail, short reads, a reader asked again after its end; weak fairness | `TypeOK`, `IteratorAlive`, `EofMeansAllDelivered`; `CallsReturn` |
| `read_ahead_end` | a join that ends in a short block, beside a source scanned to its end and sought back | **violated** `EofMeansAllDelivered` |

Bounds: blocks of two units and sources of up to seven, because every case of
the code turns on "none", "less than a block", "a block exactly", "more"; two
readers, because readers meet only in the queue and the mutex; the queue is
longer than the requests there can be in TLC's instances (as 4096 is in the
program) and of any length in the proofs.

Fairness: weak for the reading thread (the system schedules it, reads return)
and for the calls the client is in (the mutexes and the condition variable are
released in a bounded number of steps); none for the client's next call, which
it need not make.

`read_ahead_end` shows one defect, which the code has at two places: the end of
the stream is set outside `m_readMtx`, before the block that belongs to it is handed over,
against what `bufferedReader.h:68-70` says. At the end of a join
(`bufferedReader.cpp:308`) a client that looks in between loses the last short
block. After a scan (`:313`, then `:320`) the second setting undoes the seek
that came between them, and the source reads as empty (the run fails by this
one when `Readers` is `{b}` and `Joined` empty). The first window also reaches a client
that asks again, for another track of the container
or because the transport stream demuxer still holds part of a packet
(`tsDemuxer.cpp:839`): `readBlock` changed `m_bufferIndex` for the end it told, so the
size of the last block, handed over after that, is returned with the other buffer, whose
bytes were delivered before (TLC finds `NoTornBlock` violated when `read_ahead_end` is
given `Readers = {a}`, `Rescanned = {}`, `ExtraReads <- Once` and that invariant). The passing runs keep these windows apart: `EarlyEnd` in the refinement, and the readers of
`read_ahead_faults` (its joined reader always misses a file, and its other reader
is not sought back).

## 4. MuxWriter: the write path

`MuxWriter.tla` models the mux thread from `TSMuxer::muxPacket` to the queue,
the writer's thread, and the end of a job with the writer's destructor.

| Variable | Code |
|---|---|
| `given`, `made`, `sent`, `stamped` | packets taken by muxPacket; packets in and out of `m_outBuf`; `m_prevM2TSPCROffset` |
| `delayBlk`, `processed`, `unit`, `firstOf` | `m_m2tsDelayBlocks`, `m_processedBlockSize`, the interleaving unit, where each part began |
| `held`, `finished` | `MuxerManager::m_delayedData`, `m_mainBlockFinished` / `m_subBlockFinished` |
| `open`, `disk`, `lost` | the open files, the blocks written, the blocks given to a closed file |
| `todo`, `ending`, `closedOk`, `result` | where the mux thread is, and how the job ended |
| `queue`, `wpc`, `failed`, `td`, `term` | `m_writeQueue`, the writer's thread, `m_lastErrorCode`, the destructor, `m_terminated` |

A call of the mux thread goes through several functions, some of them twice (the
other view's `finishFileBlock`), and can wait or throw in the middle. It is
unfolded into `todo`, a sequence of the steps still to take; each step is an
action (`AddPacket`, `Stamp`, `FlushRest`, `PutBlock`, `FinishFileBlock`,
`MuxBlockFinished`, `FlushTSBuffer`, `GotoNextFile`, ...), and an exception
(`Throw`) empties it. A packet is its number in its view, so a block is a
stretch of numbers with its view, part and unit. PAT, PMT, SIT and the PCR
behind them are one packet: where in them a block fills makes no difference to
the order of blocks.

When a unit is full is computed as in the code (`BlockFull`); when a part ends
depends on times and sizes that are left out, so `SplitPoint` may be taken at
any packet of the switching view but its first. A write may fail in the writer,
an open, a tail or a close in the mux thread.

| Run | Instance | Shows |
|---|---|---|
| `mux_image` | two views, interleaved, split, base view switches | `TypeOK`, `PartsInOrder`, `ClosedPartIsWhole`, `UnitsAlternate` |
| `mux_ts` | one view, TS (tails appended by the mux thread), up to three parts, failures, a stop at any packet; weak fairness | `SuccessIsComplete`, `NothingToClosedFile`; `JobEnds` |

Bounds: a block of two packets (a full one, and one with a rest), units of three
and four, up to four packets a view and three parts: enough for a unit to be
full in either view, for a block to wait for its arrival times, to be held back
over a unit and over a part. The queue's two limits are 1 and 3, so that the
mux thread does wait; the program's are 128 and 200. Packets and parts
(`MaxPackets`, `MaxParts`) are bounded by the guards of `MuxPacket` and
`SplitPoint`.

Fairness: weak for the mux thread's steps inside a call, for the writer and for
the destructor, which only run or sleep; none for the sources, whose packets
and end need not come.

Left out of the runs: a unit or a part that ends before the other view has
had a packet (`LateSub`, `Begun`). `NothingToClosedFile` is then false, since the second
view's `finishFileBlock` has nothing to finish (`m_processedBlockSize == 0`) and does not
release the base view's block. Units and parts are far longer than the distance of the
views' first packets, so a job does not come to it.

## 5. StreamSchedule: which track is muxed next

`StreamSchedule.tla` models the three loops a packet comes through. It has one
thread and so no interleaving: a behaviour is fixed by the source chosen in
`Init`. What it searches is sources.

A source is counted in *pieces*, one frame, picture or subtitle each. It says of
every track its file, whether it is sparse (`drpFragmented`), whether its reader
keeps one piece back until it knows the next, its timeshift and the start of its
clip, and of every piece the time it is stored at, the time its reader gives it
and the gap a join put before it; of every file what each call of
`simpleDemuxBlock` gives (`upto`), how many of the calls read the file
(`reads`; what the others give the demuxer held back), whether the end comes with
the last block, whether the demuxer tells its time and has a limit.

| Variable | Code |
|---|---|
| `at`, `demuxed`, `ended`, `reached` | the demuxer of a file: its calls, what they gave, `getLastReadRez`, `getDemuxedTime` |
| `size`, `lastReadCnt`, `mark`, `gotData` | `demuxedData`, `ReaderInfo::m_readCnt`, its `lastReadRez`, `m_gotData` |
| `avRez`, `rez`, `isEOF`, `flushed`, `held`, `lastDTS`, `timeShift`, `started`, `known`, `passed` | `StreamInfo` |
| `reader`, `given` | pieces in the codec reader; packets returned |
| `flushMode`, `muxPos`, `idx`, `best`, `allDelayed`, `pc` | `METADemuxer::readPacket` |
| `waited`, `stocked`, `crowded` | history: tracks passed over, with data, over the quarter of the limit |

The actions follow one scan: `ScanFlush`, `ReadNotNeeded`, `ReadAtEnd`, or
`readBlock` in its steps `HandOnAtOnce`, `StaysDelayed`, `StartDemux`,
`DemuxBlock`, `DemuxAgain`, `HandOnRead`, `HandOnEnd`, `BecomesDelayed`; then
`ResetDelayedMarks`, or the chosen track's `GiveHeld`, `AskForMore`, `ReadPacket`
or `FlushStream`; then `StartFlush` and `Finish`. The flush of all streams returns a packet without its
timeshift and leaves `m_lastDTS` (`metaDemuxer.cpp:734-738`), so `InTimeOrder` measures
what it returns by `Stamp`.

| Run | Instance | Shows |
|---|---|---|
| `schedule` | about 1300 jobs: a picture, a sound that pauses shortly or long, starts late, ends early or is missing, and a subtitle; one file or two, both orders of the tracks, no timeshift or a negative one, transport stream, program stream, MP4; and jobs of subtitles alone | `TypeOK`, `NothingLost`, `AllDelivered`, `NoOverflow`, `InTimeOrder`, `NotLate`, `Finishes` |
| `schedule_short_start` | a sound whose first data is less than a block | **violated** `NoOverflow` |
| `schedule_held_back` | a piece the transport stream's demuxer gives only after the end of its file | **violated** `AllDelivered` |

Bounds: a block handed on is two pieces at least and three at most, the quarter
of the limit four, so that a buffer can hold nothing, less than a block, a block,
more than the quarter and more than the limit of sixteen; a picture of 20 pieces
outgrows the limit while another track is silent. Three tracks: one read for,
one that overflows because of it, and one whose turn is decided between them.

Fairness: weak for `Next`, the one thread that calls `readPacket` until the data
ends. `CHECK_DEADLOCK FALSE`, since a job is over when its data is.

`schedule_short_start`: a track that gave less than a block and stops then is
neither waited for at its start (there is something in its buffer) nor in a gap
(nothing was handed on yet), so the file is read on for it until another track
overflows. `schedule_held_back`: a track marked delayed does not call the
demuxer again; when the others ended with their last block, nobody does, and
what the demuxer held back is lost. Sources of these two kinds are kept out of
the run `schedule`.

A third kind is kept out too, and for `AllDelivered` it is why the theorem of section
9 is about jobs of one file, or of one track to a file. Take three tracks: a dense one in a
file of its own that ends early, and in a second file a dense track with a long pause and a
sparse one that comes before it in the scan. With `order = <<3, 2, 1>>`, `apart = 3`, a
picture of 3 pieces, the sound `Sound(0, 4, 16)`, a subtitle `<<6, ..., 12>>`, `"ts"` and
`withLast = FALSE`, TLC finds `AllDelivered` violated. The first file's track has ended and
been flushed; in one scan the sparse track is passed over as delayed, and then the dense
one, in its gap, because the sparse one now holds more than a quarter of the limit. The
track that has ended answers `DATA_EOF2`, which clears `allDataDelayed`
(`metaDemuxer.cpp:617`), so the marks are not taken off; no track can be chosen, and
`readPacket` goes to flush mode with data left in the second file.

## 6. KeepOldOutput: a new output in the place of an old one

`KeepOldOutput.tla` models the class of that name in `main.cpp` over a directory
that outlives the process. Jobs run one after the other, each a process that may
be killed between any two steps; what it leaves is what the next one finds.

| Variable | Code |
|---|---|
| `kind` | which of `forFile`, `forDiscFolder`, `forDemuxFolder` the job uses, and whether it is an image |
| `place`, `temp` | the files under their names, and under the temporary names of each process: which job wrote them, and whether they are whole |
| `armed`, `kept`, `mapWasThere` | `m_armed`, `m_keepNew`, `UnfinishedImage::sideFileExisted` |
| `step`, `queue`, `moved` | where the job is, the names it has still to move or to remove, `written` |
| `job`, `plans`, `pid`, `complete`, `rough` | the jobs, what each writes, the number of the process; jobs whose output was complete, a removal that failed (history) |

`Start` is the three constructors' functions, `OpenFile` and `CloseFile` what the
muxers do, `Succeed` to `SwapSub` `commit`, `Fail` to `Undone` the destructors,
`Crash` the end of the process. `remove_all` and the loops over files are one
step a file. A rename fails or is done; a removal fails or is done.

| Run | Instance | Shows |
|---|---|---|
| `keep_output` | the four kinds, an old output or none, processes with numbers that left no files | `TypeOK`, `OutputKept`, `NotMovedIsWhole`, `FailureLeavesNothing`, `SuccessInPlace`, `MadeByOneJob`, `OldUntouched` |
| `keep_reuse` | a process with the number of one that was killed | **violated** `MadeByOneJob` |

Bounds: two parts, clips or tracks, so that one can be moved and one not, and a
new output can have fewer than the old; four jobs with the one before the model
begins: an output, one that is killed, one that finds what it left, and one after
that; two process numbers, exchangeable (`SYMMETRY`). `CHECK_DEADLOCK FALSE`,
since the number of jobs is bounded.

`keep_reuse`: `commit` moves whatever has the temporary prefix, which holds only
the process number. A split job that is killed leaves parts; a later one of the
same number with fewer parts puts the old ones in place with its own, and
`removeStaleParts` takes them for new.

## 7. IsoExtents: where the data of an image goes

`IsoExtents.tla` models the part of `IsoWriter` that decides which sector holds
what, over an image that is a sequence of sectors, each naming the file and the
sector of it that it holds. It is sequential: what is searched is discs, jobs and
the sizes of the pieces of a mux.

| Variable | Code |
|---|---|
| `layout` | what `BlurayHelper::open` sets: the breaks, the zone around each, the break that gets the mirror, the capacity |
| `job` | a 3D mux and which view begins new parts; the files copied or written after it; layer-fit |
| `iso` | `IsoWriter` (its fields are named beside `Empty`) and, in `iso.ent`, each `FileEntryInfo` |
| `phase`, `at` | where the job is: the view in turn and what of its piece is written, the parts, the item and its piece |

The operators of the middle part are the functions of `iso_writer.cpp` under their
names, from one state of the writer to the next; the actions are their callers.
`WriteDep`, `WriteBase` and the switches of parts are a 3D mux as `MuxWriter` shows
its order: unit by unit, the second view first, a part closed in one view at a
time (`BaseSwitches`; `DepSwitches` then `BaseFollows`). `StartItem`, `CopyWrite` and
`EndItem` are the copy loop of `buildGuardedIso` with `writeSsifGroup`, and the
navigation files after a mux; `EndOfItems` makes the `.ssif` of each part, `Close` is
`IsoWriter::close` up to the mirror and the last anchor.

| Run | Instance | Shows |
|---|---|---|
| `iso_extents` | a mux of one or two parts split by either view; 490 copies of two titles (streams, 3D groups) and two small files or `BACKUP` copies, with and without layer-fit; six discs: two layers without a zone, with one (twice, of two capacities), a zone that is not of whole blocks, a break in front of which the mirror has no room, three layers | `TypeOK`, `ReadsBack`, `SsifInOrder`, `ZonesFree`, `CopiesInPlace`, `FitsDisc` |

Bounds: a block of two sectors and an extent of five, so that a file passes the
end of an extent inside a block; pieces of one sector and two, a look ahead of two
pairs as in the code; a copy buffer of three, so that a chunk is more than one
buffer or less; layers of 5 to 14 sectors, so that a zone or the mirror's place
falls on every sector of a piece. Copies of two sectors can be held back, and jobs
have more and fewer. `Margin` and `UdfMargin` are the code's reserves in the same
proportion, one to two. With `DepMax = 2` (2.3 million states) the same holds.
`CHECK_DEADLOCK FALSE`, since a job is over when its image is.

`FitsDisc` says what the estimate before the copy is for: an image it lets through
without a warning is not larger than its disc once it is written. It holds when
the two chunks of each 3D pair are together not larger than the copy buffer
(`PairsInBuffer`). The guard goes in front of a whole pair, so a larger one leaves
more of the layer empty than the "one whole copy buffer" of `main.cpp:2630-2633`;
pairs of a disc have up to 27.5 MB and the buffer has 16. The reserve for the volume
structures hides the difference unless the disc is nearly full.

`ZonesFree` has a condition. `checkLayerBreakPoint` fills one zone and returns ("at most
one break per write (breaks are far apart)", `iso_writer.cpp:2041`), and the write that
made it do so is not looked at again. When the next zone begins less than that write
behind the first, data goes into it, against what the comment at `:1974` says of any
layer break; the views of a 3D title can be cut unlike there, too, and the job
be refused. Nothing sees to the distance: `parseLayerBreakList` (`vod_common.cpp:556`)
takes the breaks of `--layer-break-lbn` at any distance and in any order. TLC shows it
when `iso_extents` is given `Layouts <- CloseLayouts` and the invariant `AnyZoneFree`. The
layers of a real disc are gigabytes apart, so this is about breaks given wrongly.
`BreaksApart` says what the code relies on, that no write reaches two zones; the discs of
`iso_extents` are so. `ReadsBack` needs no such condition, and is proved without it
(section 9). `IsLayout` asks of a disc what `BlurayHelper::open` sees to: when there are
breaks, the mirror's is the first of them.

Read beside it, and not checked: layer-fit moves a file that crosses a *zone*
(`iso_writer.cpp:2078`). One that ends between the mirror's place and the zone does
not, is written where it stands, is cut by the mirror, and then by the zone too when
the rest no longer fits in front of it. It reads back whole.

## 8. DemuxFiles: a file per track

`DemuxFiles.tla` models `SingleFileMuxer` with the writer's thread, or without it.
The bytes of an output are numbered as they are put into its buffer, so what is in
a file is a stretch of numbers, and a byte lost, repeated or out of order breaks it.

| Variable | Code |
|---|---|
| `bufLen`, `total` | `StreamInfo::m_bufLen`, `m_totalWrited` |
| `made`, `heads` | bytes put into the buffer, and where headers were (history) |
| `first` | `LPCMStreamReader::m_firstFrame` |
| `open`, `work`, `parts` | `m_file`, what is in it, the parts that have their final name (`m_part`) |
| `todo`, `ending`, `result` | where the mux thread is, and how the job ended |
| `unfinished` | the outputs `close` has named by `reportUnfinished` |
| `unseen` | the outputs that lost something at a split where no result is looked at (history) |
| `queue`, `wpc`, `failed` | `m_writeQueue`, the writer's thread, `m_lastErrorCode` |

`MuxPacket` and `PassOver` are `muxPacket`'s choice of the outputs; `Frame`,
`WriteOutBuffer`, `MakeRoom`, `CopyPart` are `muxPacketTo` and `writeOutBuffer`, which
a frame larger than the buffer goes through again and again; `WaitForWriting` and
`SplitWav` the end of a part; `EndOfSources`, `FlushOutput`, `CloseOutput`, `Verdict`
the end of `doMux`. What a codec puts in front of a frame (`Additions`) may be of any size:
`writeAdditionData` is told where the buffer ends (`dstEnd`, here `Room`), and `muxPacketTo`
gives up when it finds no room. Between any two of them the writer may take a step.

| Run | Instance | Shows |
|---|---|---|
| `demux_async` | a WAV and a TrueHD track of frames larger than the buffer, half of whose packets go to two files, with the thread; opens, writes, closes and renames may fail | `TypeOK`, `NoOverflow`, `UnitsOnly`, `PartsValid`, `FinishedIsWhole` |

Bounds: a unit of four bytes, a block of two units, a buffer of eleven, packets of two
bytes and of thirteen, so that a frame finds an empty buffer, fits, does not fit or
is larger than the buffer, and a block ends inside it; a WAV is due for its split
after two blocks, and outputs of 19 bytes (`MaxMade`) reach it, with a part
behind it. The TrueHD track's codec may put nine bytes in front of a frame, more than a
block, which fit into an empty buffer and not into one with three bytes in it. The queue may hold one block (`WaitAbove`) before the mux thread waits.
The module has the mode without the thread too (`Async = FALSE`); the theorems of
section 9 are about both, the run about the thread.

`FinishedIsWhole` has two halves. `SuccessIsWhole`: a demux reported as complete has every
byte of every output in its parts. `OthersFinished`: when `close` comes to its end with
outputs it could not finish, every other is whole, which the loop did not do before (the
comment at `singleFileMuxer.cpp:488-490`; the mutant brings that back).

Three things are left out of the properties, and should be known.

* At a split `writeOutBuffer` looks at none of the results of `close`
  (`singleFileMuxer.cpp:335`, `338`, `341`), `open` (`336`, `339`) and
  `beforeFileCloseEvent` (`340`), where `SingleFileMuxer::close` looks at all of them. When
  one fails, the part may lack its rest, its sizes or bytes in its middle (`Lacking`); it
  gets its final name, and the job may end as complete. The model does the same, puts the
  output into `unseen`, and the properties are about the others. A write or a rename
  that fails there is an exception, and so is the next part that does not open.
* `OthersFinished` is about a `close` that comes to its end. `File::write` does not return
  a failure but throws it (`file_unix.cpp:143-150`, `file_win32.cpp:176-181`), so
  a failed write of the rest of a file (`513`), a failed write of its sizes (`514`) and a failed
  rename (`530`) leave the loop: the outputs behind it are neither finished nor named,
  which is not what the comment at `488-490` says ("Every track is finished, also after
  one of them failed"). The job ends as failed, so `SuccessIsWhole` is not touched. `CloseOutput`
  has both: the failure that is reported, after which the next output comes
  (`NextClose`), and the exception.
* The next part is opened at the split, while its header comes with the next packet: a
  WAV that ends at its split gets a last part of sizes without a header. `PartsValid` says
  nothing of a part without data.

## 9. Proofs

`BufferedReaderProofs.tla` (TLAPS 1.4.5 with Z3, Zenon and LS4) proves for
every set of readers, every source and every size of block and queue, from
`BufferedReaderAssumption` alone:

* `TypeCorrect`: `Spec => []TypeOK`, one lemma per thread, one step per action.
* `LifeCorrect`: `Spec => []LifeInv`. `NoUseAfterFree` is not inductive: that
  the thread may work on a reader depends on `m_atQueue`, which depends on what
  is queued. `LifeInv` adds that `m_atQueue` is never below the requests queued
  and in the thread's hand (`CountInv`; not equal, since a full queue drops a
  push that was counted), that a freed reader has none (`FreedInv`), and that
  `m_processMtx` is held from the read to the handing over, which keeps
  `deleteReader` out (`ReadingInv`). The lemmas `OccFinite`, `OccAppend` and
  `OccTail` count occurrences in a queue.
* `ReadersNotUsedAfterFree` and `IteratorNotUsedAfterFree`:
  `Spec => []NoUseAfterFree`, `Spec => []IteratorAlive`, from `LifeInv`.
* `JoinsReadToTheEnd`: `PlainJoins => (Spec => []EofAfterLastPart)`. `PlainJoins`
  says that a join is of regular files read from their start, as the callers make
  them: the sources that are scanned and sought back, started at an offset or read
  from a pipe are not joined, in every run. Parts may be missing, empty or fail to
  be read. The inductive invariant `EndOfJoin` says where a file is (`Placed`: in
  the part its iterator names, or past the last name at the end of the last part),
  that a short or empty read left it at the end of its part (`JoinInv`), and that
  only opened joins are asked for (`AskInv`): `FileReaderData` that was never opened
  has an iterator at its first name, from which the thread would open the second.

* `BlocksAreNotTorn`, `EndIsToldAfterTheBytes`, `EofOfSingleFiles` and
  `ReadAheadIsAStream`: what the client is given. `Spec => []NoTornBlock`;
  `EofMeansAllDelivered` when there is no join and no scan, and its statement for every
  other reader when there is; `Spec => StreamSpec` while no read fails. All four under
  `OneEnd`, whose parts are what the code needs for it and no more:
  * `PlainJoins`, as above, and an offset to start at lies in the source (`GotoTo`);
  * a reader that may be told of its end too early (`Early`: a join, a scanned reader,
    one whose reads fail) is not asked again after it (`ExtraReads`). Without it
    `NoTornBlock` is false for joins (section 3); a container with
    several tracks in a join does not meet it;
  * a reader whose reads fail is not one that is put back to its start (after a failed
    read `incSeek` would go by bytes the client never got).

  A reader that is neither joined, nor scanned, nor failing may be asked again any
  number of times, `read_ahead_join` and `read_ahead_faults` are instances of `OneEnd`, and the
  inductive invariant `ReadersInv` was checked on both before it was proved.

  `ReaderInv` says of each reader on its own: where its file is and whether the next
  read begins a part (`FileInv`); that it is `Orderly` or `Loose`; and that a single file at its
  end has been taken (`Drained`). `Orderly` is the normal course: at most one request is
  between the client and the thread, and none while a block waits (`Asks`); the block
  held is in the buffer the thread does not fill (`Holds`); the file's position is what
  was taken plus what is read and not yet handed over or taken (`Flows`, `Flight`).
  A late hand-over after the end was told breaks it: the reader is then `Loose`, at its
  end, without a block in the client's hand, and for an `Early` reader no call can follow.
  That is the strengthening the early `m_eof` forces: without `Loose` the invariant is
  not inductive, and with extra reads it is false. A step of the thread or client for one reader leaves
  the others (`ThreadOfOther`, `ClientOfOther`); `FillsReader` is what the five
  steps on a block share, `SeeksReader` what the two seeks do.

`MuxWriterProofs.tla` proves of the write path, for every size of block, unit
and queue and any number of packets and parts, one or two views, with or without
failures, from `MuxWriterAssumption`:

* `MuxTypeCorrect`: `Spec => []TypeOK`. Its deep part is the write queue, which
  stays below the limit at which `SafeQueue::push` drops a block.
* `WriterCorrect`: `Spec => []WriterInv`. `IdleMeansIdle`, an empty queue means
  that the writer has nothing in its hand, is what lets `waitForWriting` look at
  the queue alone before a file is closed.

Neither is inductive without the other. `TypeOK` needs `QueueBound` (room for one
block more whenever `asyncWriteBlock` found room, and for the sentinel of
`terminate`) and `IdleMeansIdle` (the head of the queue is a block when the writer
executes it). `IdleMeansIdle` needs that nothing but the writer pops while the
thread runs (`DrainAfterThread`), and the bound that nothing is queued once the
job is over (`JobOver`, `TearDownAfterJob`). `MuxInductive` proves the
conjunction, one lemma per action; `NoQueueing` and `TodoOnly` serve the many
actions that leave the queue, or all but the list of steps, as they were.

`MuxPlanProofs.tla` proves `WritesGoToOpenFiles`: `~LateSub => (Spec =>
[]NothingToClosedFile)`, for any sizes and numbers, one or two views, whichever
switches, with failures and after them. Whether a block finds its file open is decided
far ahead, by the order of the steps in `todo`; the invariant is therefore about that
list. A *rule*, `Rule(D, E, N, now)`, says that between a step of `D` and a later one
of `N` stands one of `E`, and that `now` holds when a step of `N` comes before any of
`E`: steps of `D` end the condition, steps of `E` restore it, steps of `N` need it.
`PlanInv` is ten such rules. Between a packet and the arrival times' writing comes a
stamp (`StampRule`); a part begins only when all of its view has left the muxer
(`CleanRule`) and, when the first view's blocks are held back, after the second view
ended its unit (`HeldRule`, `BothRule`); a unit is ended where there is something to
end (`ServedRule`, `FinishRule`: here `~LateSub` is needed); blocks on their way stand
in front of every other step (`PutsFirst`); a file is closed only behind a wait
(`IdleRule`), and everything but the closing finds its file open (`OpenRule`).
`PlaceInv` says where blocks are: every block delayed, held back, queued or on its way
to the queue is of the part its view writes now, and that file is open until the
writer has it. `PlanThen` and `KeepRule` reduce what a step does to a rule to the few
steps it puts in front; `FinishChain` and `EndChain` do that for the two long lists,
of `finishFileBlock` and of the end of `doMux`, one optional step at a time.

`MuxOrderProofs.tla` goes on from there, under the same assumption: `PartsAreInOrder`,
`ClosedPartsAreWhole` and `SuccessMeansComplete` prove `PartsInOrder`,
`ClosedPartIsWhole` and `SuccessIsComplete`. What they say of the disk follows from
where the blocks are before they reach it, and `LineInv` says that: from the disk back
to the muxer, `Line` has six stages (on the disk, in the queue, released to the queue,
held back, put out, delayed for their arrival times), and for each view no block of a
later stage comes before one of an earlier stage (`InLine`), nor one within a stage
before the one in front of it (`EachRises`); every block lies within its part (`Spots`)
and, unless it is still delayed, has its arrival times (`InTime`); and, as long as
nothing failed, every packet that left the muxer is in a block of some stage (`Covered`).
An action then either leaves the line as it is (`LineSame`), moves blocks to an earlier
stage (`LineMove`), adds a block at the back (`LineNew`), or loses some and fails
(`LineLess`); there is a lemma for each action that says which. What makes the moves
sound is not in the line: a step that writes behind the queue's back (`flushTSBuffer`,
`close`) needs that the queue and every stage behind it are empty, which are rules of
`PlanInv` and, for the end of `doMux`, of `LastInv`: both views are shut and flushed
before either is closed, what is held back goes to the queue before the first wait,
the queue is empty at the verdict, and only the late steps are left. `WholeInv` (the
parts before the last are on the disk) and `EndInv` (behind a success nothing is on its
way, and the destructor changes nothing) follow from the line where the code says so:
at `gotoNextFile`, and at the verdict.

The same module proves `UnitsOfViewsAlternate`: on a 3D disc the units of the two views
reach the disk in turn, the second view's blocks of a unit before the base view's, for
any number of units, parts and packets, whichever view switches (`~LateSub`). The
second view's blocks go to the queue as they are put out, the base view's are held back
until both views have ended the unit, and the view that switches ends its unit first. So
it is decided by the order of the steps in `todo` again, between the two ends. The
invariant `AlternateInv` adds three parts to the one above.
`WindowInv`: where the switching view ends a unit, the other one ends it soon, and
in between the switching view ends nothing, begins no part, flushes nothing and makes one
packet at most (the tables of its next unit), which stays in its buffer; and a view ends a
unit only with nothing left in that buffer or behind a flush. `TurnInv`: the two views are
at the same unit but in this window, whatever is delayed, held back or put
out is of the unit that is written, and what is delayed or put out is of a view that has
not ended it. `UnitInv`: the disk, the queue and what is to be queued alternate in this
order, and as long as blocks of the base view
are held back all of that is of earlier units or of the second view. The last is what a
release needs, and it is the first two that give it: without `WindowInv` a block of
the next unit could be put out before the release and pass the blocks that are held. The plan that
`finishFileBlock` unfolds into is put together of several lists, some of them optional;
`JoinsTo` and the lemmas behind it say what they make together. TLC checked
the three parts as invariants of `mux_image` before they were proved.

`KeepOldOutputProofs.tla` proves every property of `keep_output`, for any set of
processes and any number of files and jobs, from `KeepOldOutputAssumption`. The
theorems have the form `~PidReuse => (Spec => ...)`: with numbers used again
`MadeByOneJob` is false, as `keep_reuse` shows. The inductive invariant `IInv` has
a part for each thing the steps hand to one another: the names of a job's plan
(`PlanInv`); that under the process's number lies only what this job wrote
(`TempInv`); that a job that writes in place found nothing there (`FreshInv`); that
a file lies in its folder and that an old output is never quite gone (`FolderInv`,
`ExistsInv`, which keep the next job from writing over it); and how far each
phase has come (`UndoInv`, `MoveInv`, `TidyInv`, `SwapInv`). `EndInv`, on top of
it, is about jobs that have ended. `OutputKept` needs all of them: while it is
moved, the new output is whole only under two sets of names together, and
`MoveInv` and `SwapInv` say which names are in which place.

`StreamScheduleProofs.tla` proves `TypeCorrect`, `NothingIsLost` and
`EverythingIsDelivered`, for any
number of tracks and files and every source that `ScheduleAssumption` admits. The
invariant is `TypeOK`, `Source` (the source is one the assumption admits, still),
`Buffers` (what a demuxer gave is what the source says of the calls it made; a
track's `lastReadCnt` is within its buffer, and 0 while the file is read on for
it) and `NothingLost`. None is inductive alone: that `size - lastReadCnt` is a
number needs `Buffers`; that a buffer only grows while the file is read on needs
that the source's counts do; and the sum of `NothingLost` needs that what
`readBlock` takes out of the buffer is what it handed on before.

`EverythingIsDelivered` is `Spec => [](PlainSource => AllDelivered)`. `PlainSource` is
about the job: its tracks are in one file, or are dense and each in a file of its own
(`TogetherOrAlone`), and no demuxer holds pieces back for a call behind the end of its file
(`HoldsNothingBack`). Without the first TLC finds the loss described in section 5, without
the second that of `schedule_held_back`; of the jobs of `schedule` 444 are plain. The
invariant `EndInv` says, from the disk to the output, when a track is over. A file has
ended only when its demuxer has given everything (`FileEnds`). A reader that asks for more
holds at most the piece it keeps; a track is told its end only when its buffer is empty; a
reader is flushed only when its track was told, or the whole job is over (`Reader`). And
what the flush mode means is decided by one scan (`Scanned`): a track that was passed by
without being considered was flushed before or is delayed. A delayed track shares its file
with others and had its buffer emptied, so it has not ended, or nothing of it is left
(`EndStaysDelayed`, `EndBecomesDelayed`). If not all were delayed, then one was flushed and
its file has ended; that is everybody's file, or all tracks have one of their own and all
were flushed (`EndStartFlush`). Either way no buffer and no reader holds more than the
piece it keeps, and the flush returns that. With `NothingLost` the output then has all.
TLC checked the parts of `EndInv` as invariants on the plain jobs before they were proved.

`DemuxFilesProofs.tla` proves `DemuxTypeCorrect`, `BuffersNotOverrun` and
`WholeUnitsWritten`, for any number of outputs and all sizes that
`DemuxFilesAssumption` admits (a block of whole units; a packet of a WAV and its header
smaller than a unit; at least one track, as `main.cpp:4715` sees to). Its invariant
adds that a buffer holds less than a block but while the step that takes the block
out is next (`BlockGoes`), and that nothing is in a buffer that was not put there
(`WithinMade`). Of what a codec puts in front of a frame nothing is assumed but that it is a
number of bytes: it is held against the room there is. The assumption speaks of a WAV,
whose packets and header are small. `LeaveKeeps` is the step all writes share; `LessLeft` and `PlanKeeps`
serve the actions that only empty buffers or leave them.

The same module proves `DemuxIsWhole` (`FinishedIsWhole`) on top of that, whether anything
fails or not; it says nothing of the outputs in `unseen` (section 8), for which the
invariant keeps nothing either. It has two parts. `PlanInv` is about the steps the mux thread still has to do: a part is split,
and a file closed, only behind a wait for the writer (`WaitsToSplit`, `WaitsToClose`),
no flush comes after a close, nothing after the verdict (`ClosesLast`), and no file is
closed while a write is queued (`OpenInv`), so that no queued write finds its file
closed. `DataInv` is about the bytes: the writes queued for an output go on where its
file ends, each where the one before ends, up to what is still in the buffer
(`ChainInv`; `Goes` is stated for any set of places in the queue, so that appending,
taking the first and shifting are lemmas of their own); the parts that are finished
are whole (`PartsGood`); and when the end is on its way every output is closed, is
still to be closed or was named as unfinished (`ClosedInv`). A wait leaves an empty queue, the chain then says the
file holds all but the buffer, and the split or the close appends just that.

And it proves `PartsAreValid`, for the same outputs. That a part of a WAV
has one header, at its beginning, and never outgrows its 32 bit sizes is decided by the
order of four steps: the header goes in front of the first frame, the frame may first
push a block out, the count of what left the buffer may then make the split due, and the
frame itself is copied into the new part or the old. `WavPlan` says that nothing comes in
between: a packet of a WAV that is to be copied finds its header given, its count below the
split and its buffer below a block (`Ready`, from which it fits without room being made);
a split that is due is the next step, behind its wait (`StepsOfWav`, `SplitInTime`).
`WavInv` is about the bytes: the part that is being written holds what was counted and
what is in the buffer, less than `RiffMax`, and a header at its first byte and nowhere
else (`PartGrows`); the parts that are ended keep that when the next one gets its own
(`PartsStay`, since a header is put behind every byte there is). It holds until the end
of the sources as a count and from there on as a bound (`ending`): the flush counts
nothing. Both were checked with TLC on the run's instance, with the thread and without.

`IsoExtentsProofs.tla` proves `ImageTyped`, `FilesReadBack` and `ZonesStayFree`, for every
disc that is an `IsLayout`, every job that is an `IsJob`, and all sizes that
`IsoAssumption` admits: a metadata area of whole blocks, and no single write (a piece of
either view, a copy buffer, all that was held back) larger than an extent, as 256 MB and
less are against 1 GB. That is what lets `writeImpl` split a write over two extents
at most. The inductive invariant `IInv` has four parts. `Placing` is where the job is.
`Tails` and `HeldTails` say which file may lack its last, partial sector: only the item
whose last piece was just written, or a copy that is held back. `StoredWell` is about the
image, `Sound` until it is closed and `Ended` from there on:

* every file reads back, but for the sector it lacks (`AllRead`), with `ReadsFrom` as
  the meaning: running sums of the extents' lengths, and in each extent the file's next
  sectors;
* the file written last ends where the next write goes (`LastEnds`), since
  `writeImpl` lets it go on in its extent without asking; one that lacks a sector
  was written last, and the place of the sector is in no zone (`TailEnds`), since `close`
  writes it there, without asking either;
* the place kept for the mirror is empty (`MirrorClear`), since `close` overwrites it;
  the gaps the look ahead left are empty and one behind the other (`GapsClear`), since
  `moveBackLookAhead` writes over them and takes the last first;
* no data lies in a zone (`DataFree`; of discs whose breaks are far apart);
* what is counted as held back is what the copies hold (`HeldCounted`).

None of these can be left out. A step that only leaves sectors empty is `Padded`, which
keeps all of it (`PaddedSound`); a write of sectors that reach no zone is `Wrote`
(`WroteSound`), and `WriteCutSound`, `ReleaseSound`, `WriteSound` put the calls of
`FileEntryInfo::write` together from the two. The move back is shown gap by gap:
`Shifted` says that, with the last gaps closed, every file still reads back and the
gaps in front are as they were (`MovedCell`, `ReadsMoved`, `ShiftedMore`). TLC checked the
parts of `IInv` that it can evaluate as invariants of `iso_extents` before they were proved.

What an operator that folds over a sequence gives (`writeDeferredFiles`, the gaps, the
parts of a mux, `Lbns` in `ReadsBack`) is proved by induction over the places of
the sequence. The library's induction theorems take an operator; `Induct` is the same
fact for a set of numbers, from `NatLessThanWellFounded` and `WFMin`, which take none.
`FoldOfPlaces` and `FlatSome` first show that a function with the recursive definition's
equation exists, and `FoldValues` and `LbnsListed` then what its values are.

Only model-checked: liveness; `NoOverflow`, `InTimeOrder` and `NotLate` of
`StreamSchedule`, and `AllDelivered` for jobs of several files with several tracks in
one; `SsifInOrder`, `CopiesInPlace` and `FitsDisc` of `IsoExtents`. `NoOverflow`,
`InTimeOrder` and `NotLate` need assumptions on the sources that are as long as the runs'
definitions of them: how the tracks of a file are interleaved, how long they pause.
`SsifInOrder` holds because the look ahead is two pairs long and the pieces of the views
come in pairs, `CopiesInPlace` because of what the look ahead and the pads have in front
of the mirror's place at every moment, and `FitsDisc` is a bound on sums over all items:
all three need an accounting of positions that `IInv` does not have.

`LifeInv`, `ReadersInv`, `WriterInv`, `PlanInv`, `PlaceInv`, `LastInv`, `LineInv`, `WholeInv`, `EndInv`,
`WindowInv`, `TurnInv`, `UnitInv`, `WavPlan`, `WavInv`, the `EndInv` of
`StreamScheduleProofs` and the `IInv` of `IsoExtentsProofs` are the inductive invariants
behind these theorems; being proved for every instance they are not among the invariants
of a run.

## 10. Not modelled

* Read-ahead: exceptions in the reading thread's loop (they end it), and what
  `File` itself does below read, write, open and close.
* Write path: the sync mode of `TSMuxer` (`--no-asyncio`), sending ahead under `--maxbitrate`
  (`m_sendAhead`, one view only), and the refusal of a 1000th part of a disc. A
  `.ssif` written directly, where the second view writes through the first one's
  file: the order of blocks is the one checked for an image; it cannot be split.
  The result of closing a finished part, which the code does not look at.
* Scheduling: `DATA_NOT_READY` and the stop signal (the read is tried again),
  merging AC-3 into TrueHD, the sub stream of an MVC file, tracks that are files
  of their own, more than one gap before a piece. A sparse track in a file of its
  own whose blocks can be without data loses its end the way
  `schedule_held_back` shows.
* Replacing an output: two jobs at once, a directory that cannot be listed, a
  temporary disc folder without `BDMV` or `CERTIFICATE`, loss of power (what the
  system has written is taken to stay), `--inner-only`'s folder.
* Demux: the names of the files, the refusal to write over a source, Wave64 (as any
  track that is not split), and the codecs' conversions of a packet
  (`prepareDemuxPacket`), of which only the size counts. A stop signal, and the
  destruction of the muxer after an error.
* Image: the descriptors and directories, the metadata's length and its growth
  (`setMetaPartitionSize`), `--inner-only`'s widened zones, several writes within
  one sector (a write is whole sectors but the last of a file), the order of the
  copies in `BACKUP`, and a write the disk refuses.
* Cuts and the 33 bit clock: planned (section 2).
* Bit streams, tables, subtitle rendering, the GUI: functions of data without
  interacting state, or generated interfaces.

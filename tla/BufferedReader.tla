--------------------------- MODULE BufferedReader ---------------------------
(***************************************************************************)
(* The read-ahead of the muxer (tsMuxer/bufferedReader.cpp,                *)
(* bufferedFileReader.cpp): one reading thread fills the two blocks of     *)
(* every reader, one client thread (the demuxers, run by the mux loop)     *)
(* asks for blocks, takes them and deletes readers.                        *)
(*                                                                         *)
(* Shared state is changed at the granularity of the locks: a critical     *)
(* section of m_readersMtx or m_readMtx is one step, m_processMtx is held  *)
(* over several steps, and a field written outside a lock is written in a  *)
(* step of its own.  The bytes of a block are the stretch of the source    *)
(* they come from: positions run through all the parts of a reader.        *)
(***************************************************************************)
EXTENDS Integers, Sequences, FiniteSets

CONSTANTS
  Readers,     \* the reader IDs that may be given out (never reused)
  NoReader,    \* the 0 that the destructor queues, the ID of no reader
  BlockSize,   \* m_blockSize of the BufferedReader, in units of source bytes
  QueueMax,    \* QUEUE_MAX_SIZE of the request queue
  PartEnd,     \* PartEnd[r][i]: where part i of r ends, counted from its first part
  Joined,      \* readers with a FileNameIterator ("a.ts"+"b.ts")
  Missing,     \* Missing[r]: the parts of r that cannot be opened
  Rescanned,   \* readers scanned first, then put back to the start (TSDemuxer::getTrackList)
  ExtraReads,  \* ExtraReads[r]: how often r is read again after its end (each other track
               \* of a container asks once more: ContainerToReaderWrapper::readBlock)
  Faulty,      \* readers whose file may fail to be read
  Pipes,       \* readers whose source may return less than was asked for
  GotoTo       \* GotoTo[r]: the offsets MovDemuxer::seekOnFreshReader may start r at

ASSUME BufferedReaderAssumption ==
  /\ NoReader \notin Readers
  /\ IsFiniteSet(Readers)
  /\ BlockSize \in Nat \ {0}
  /\ QueueMax \in Nat \ {0}
  /\ Joined \subseteq Readers
  /\ PartEnd \in [Readers -> Seq(Nat)]
  /\ \A r \in Readers :
       /\ Len(PartEnd[r]) > 0
       /\ \A i \in 1..Len(PartEnd[r]) - 1 : PartEnd[r][i] <= PartEnd[r][i + 1]
       /\ r \notin Joined => Len(PartEnd[r]) = 1
  /\ Missing \in [Readers -> SUBSET Nat]
  /\ GotoTo \in [Readers -> SUBSET Nat]
  /\ ExtraReads \in [Readers -> Nat]

VARIABLES
  terminated,  \* m_terminated
  queue,       \* m_readQueue
  mtx,         \* m_processMtx: "free" or the thread that holds it
  life,        \* an entry of m_readers: not there yet, there, or deleted and erased
  deleted,     \* ReaderData::m_deleted
  atQueue,     \* ReaderData::m_atQueue
  notified,    \* ReaderData::m_notified
  nextSize,    \* ReaderData::m_nextBlockSize
  eof,         \* ReaderData::m_eof
  bufIndex,    \* ReaderData::m_bufferIndex
  buf,         \* ReaderData::m_nextBlock: the stretch of the source in each block
  firstBlock,  \* ReaderData::m_firstBlock
  lastBlock,   \* ReaderData::m_lastBlock
  size,        \* ReaderData::m_blockSize
  file,        \* FileReaderData: the part being read, the read position, m_file open
  tpc, tid, tidx, tn,   \* the thread's step, and its readerID, buffer and bytesReaded
  cpc, cid,    \* the client's step and the reader it is in a call for
  scanning,    \* the client is in getTrackList with r: it reads and does not notify
  held,        \* the block the client works on: what its last readBlock returned
  got,         \* end of the source bytes taken by the client
  told,        \* how often the client was given DATA_EOF since it last sought
  failed       \* a read or an open of r failed

lifeVars   == <<terminated, life, deleted>>
askVars    == <<queue, atQueue, notified>>
handVars   == <<nextSize, eof, bufIndex>>
blockVars  == <<buf, firstBlock, lastBlock, size, file, failed>>
fileVars   == <<firstBlock, lastBlock, size, file>>
threadVars == <<tpc, tid, tidx, tn>>
clientVars == <<cpc, cid, scanning, held, got, told>>
vars == <<lifeVars, askVars, handVars, blockVars, threadVars, clientVars, mtx>>

-----------------------------------------------------------------------------
NParts(r) == Len(PartEnd[r])
PartStart(r, i) == IF i = 1 THEN 0 ELSE PartEnd[r][i - 1]
NoBytes == [part |-> 0, from |-> 0, to |-> 0]
Nothing == [idx |-> 0, n |-> 0, first |-> FALSE, blk |-> NoBytes]
Closed == [part |-> 1, itr |-> 1, pos |-> 0, open |-> FALSE]
BlockAt(f, n) == [part |-> f.part, from |-> f.pos, to |-> f.pos + n]

\* openStream of the file FileNameIterator::getNextName names as the i-th
Opens(r, i) == i \in 1..NParts(r) /\ i \notin Missing[r]
AtPart(r, i) ==
  IF Opens(r, i) THEN [part |-> i, itr |-> i, pos |-> PartStart(r, i), open |-> TRUE]
                 ELSE [file[r] EXCEPT !.itr = i, !.open = FALSE]

\* What one FileReaderData::readBlock of at most max bytes can return in f
ReadResults(r, f, max) ==
  LET left == PartEnd[r][f.part] - f.pos
      full == IF left < max THEN left ELSE max
  IN  IF ~f.open THEN {-1}
      ELSE {full} \cup (IF r \in Faulty THEN {-1} ELSE {})
                  \cup (IF r \in Pipes THEN 1..full ELSE {})

\* The read of n bytes in f: the file moves on, the bytes are in the thread's block
ReadInto(r, f, n) ==
  /\ tn' = n
  /\ file' = [file EXCEPT ![r] = IF n > 0 THEN [f EXCEPT !.pos = @ + n] ELSE f]
  /\ buf' = IF n > 0 THEN [buf EXCEPT ![r][tidx] = BlockAt(f, n)] ELSE buf
  /\ failed' = [failed EXCEPT ![r] = @ \/ (n < 0 /\ f.open)]

\* SafeQueue::push: a full queue drops the value, and no caller looks at the result
Push(x) == queue' = IF Len(queue) >= QueueMax THEN queue ELSE Append(queue, x)

Request(r) ==
  /\ notified' = [notified EXCEPT ![r] = TRUE]
  /\ atQueue' = [atQueue EXCEPT ![r] = @ + 1]
  /\ Push(r)

\* The conditions the two threads decide on, each after a form with a defect
\* that a run is shown to detect
EndOfPartShort(r, n) == n < size[r]
EndOfPart(r, n) == n <= 0 \/ (n < size[r] /\ r \in Joined)

NoNameLeftEarly(r) == TRUE
NoNameLeft(r) == ~Opens(r, file[r].itr + 1)

BeginsPart(r) == lastBlock[r]

ProcessFreeAlways == TRUE
ProcessFree == mtx = "free"

LastRequest(r) == atQueue[r] = 1

OutstandingIgnored(r) == FALSE
Outstanding(r) == atQueue[r] > 0

AskedOnlyReady(r) == nextSize[r] # 0
Asked(r) == nextSize[r] # 0 \/ notified[r]

BlockThereNoEof(r) == nextSize[r] # 0
BlockThere(r) == nextSize[r] # 0 \/ eof[r]

TakenSizeRaw(r) == nextSize[r]
TakenSize(r) == IF nextSize[r] >= 0 THEN nextSize[r] ELSE 0

OtherBlockSame(i) == i
OtherBlock(i) == 1 - i

-----------------------------------------------------------------------------
Init ==
  /\ terminated = FALSE /\ queue = <<>> /\ mtx = "free"
  /\ life = [r \in Readers |-> "none"]
  /\ atQueue = [r \in Readers |-> 0] /\ nextSize = atQueue /\ bufIndex = atQueue
  /\ notified = [r \in Readers |-> FALSE] /\ eof = notified /\ deleted = notified
  /\ buf = [r \in Readers |-> [i \in {0, 1} |-> NoBytes]]
  /\ firstBlock = [r \in Readers |-> TRUE] /\ lastBlock = notified
  /\ size = [r \in Readers |-> BlockSize]
  /\ file = [r \in Readers |-> Closed] /\ failed = notified
  /\ tpc = "off" /\ tid = NoReader /\ tidx = 0 /\ tn = 0
  /\ cpc = "idle" /\ cid = NoReader
  /\ scanning = notified /\ held = [r \in Readers |-> Nothing]
  /\ got = atQueue /\ told = atQueue

-----------------------------------------------------------------------------
(* The reading thread: BufferedReader::thread_main *)

\* What the thread never changes; a step that only moves it; a step on the block
ThreadAt(pc) ==
  tpc = pc /\ UNCHANGED <<clientVars, terminated, deleted, notified, bufIndex>>
Moving(pc) == ThreadAt(pc) /\ UNCHANGED <<tn, atQueue, nextSize, eof, blockVars>>
Filling(pc) ==
  ThreadAt(pc) /\ UNCHANGED <<tid, tidx, life, queue, mtx, atQueue, nextSize, size>>

\* while (!m_terminated)
LoopTest ==
  /\ Moving("top")
  /\ tpc' = IF terminated THEN "done" ELSE "pop"
  /\ UNCHANGED <<tid, tidx, life, queue, mtx>>

\* m_readQueue.pop() waits for a request; the destructor's ends the thread
Pop ==
  /\ Moving("pop")
  /\ queue # <<>>
  /\ queue' = Tail(queue)
  /\ IF terminated THEN tpc' = "done" /\ UNCHANGED tid
                   ELSE tpc' = "get" /\ tid' = Head(queue)
  /\ UNCHANGED <<tidx, life, mtx>>

\* getReader: the thread goes on with the pointer
GetReader ==
  /\ Moving("get")
  /\ tpc' = IF tid \in Readers /\ life[tid] = "live" THEN "begin" ELSE "top"
  /\ UNCHANGED <<tid, tidx, life, queue, mtx>>

\* Under m_readMtx: the block to fill
ChooseBlock ==
  /\ Moving("begin")
  /\ tidx' = bufIndex[tid]
  /\ tpc' = "lock"
  /\ UNCHANGED <<tid, life, queue, mtx>>

\* unique_lock busy(m_processMtx), and whether the reader was deleted meanwhile
LockProcess ==
  /\ Moving("lock")
  /\ ProcessFree
  /\ mtx' = "thread"
  /\ tpc' = IF deleted[tid] THEN "unlock" ELSE "read"
  /\ UNCHANGED <<tid, tidx, life, queue>>

\* data->readBlock, and the flags of a block that begins a later part
Read ==
  /\ Filling("read")
  /\ \E n \in ReadResults(tid, file[tid], size[tid]) :
       /\ ReadInto(tid, file[tid], n)
       /\ tpc' = IF EndOfPart(tid, n) THEN "part" ELSE "size"
  /\ firstBlock' = [firstBlock EXCEPT ![tid] = BeginsPart(tid)]
  /\ lastBlock' = [lastBlock EXCEPT ![tid] = FALSE]
  /\ UNCHANGED eof

\* No next part, or it cannot be opened: m_eof, outside m_readMtx
NoNextPart ==
  /\ Filling("part")
  /\ \/ tid \notin Joined /\ UNCHANGED <<file, failed>>
     \/ /\ tid \in Joined /\ ~Opens(tid, file[tid].itr + 1)
        /\ file' = [file EXCEPT ![tid] = AtPart(tid, @.itr + 1)]
        /\ failed' = [failed EXCEPT ![tid] = @ \/ file[tid].itr + 1 \in Missing[tid]]
  /\ eof' = [eof EXCEPT ![tid] = TRUE]
  /\ tpc' = "size"
  /\ UNCHANGED <<tn, buf, firstBlock, lastBlock>>

\* The next part is opened, and read at once when the block has no byte yet; while it
\* gives none (bytesReaded == 0 && data->itr) the one after it is tried
OpenAndRead(i) ==
  \E n \in ReadResults(tid, AtPart(tid, i), BlockSize) :
    /\ ReadInto(tid, AtPart(tid, i), n)
    /\ lastBlock' = [lastBlock EXCEPT ![tid] = n # 0 /\ n < BlockSize]
    /\ tpc' = IF n = 0 THEN "more" ELSE "size"

NextPart ==
  /\ Filling("part")
  /\ tid \in Joined /\ Opens(tid, file[tid].itr + 1)
  /\ \/ /\ tn = 0
        /\ OpenAndRead(file[tid].itr + 1)
        /\ firstBlock' = [firstBlock EXCEPT ![tid] = TRUE]
     \/ /\ tn # 0
        /\ file' = [file EXCEPT ![tid] = AtPart(tid, @.itr + 1)]
        /\ lastBlock' = [lastBlock EXCEPT ![tid] = TRUE]
        /\ tpc' = "size"
        /\ UNCHANGED <<tn, buf, firstBlock, failed>>
  /\ UNCHANGED eof

SkipEmptyPart ==
  /\ Filling("more")
  /\ Opens(tid, file[tid].itr + 1)
  /\ OpenAndRead(file[tid].itr + 1)
  /\ UNCHANGED <<eof, firstBlock>>

\* Only empty parts were left: the list has ended, the last file still open
EmptyToTheEnd ==
  /\ Filling("more")
  /\ NoNameLeft(tid)
  /\ LET i == file[tid].itr + 1
     IN  /\ file' = [file EXCEPT ![tid] = IF i > NParts(tid) THEN [@ EXCEPT !.itr = i] ELSE AtPart(tid, i)]
         /\ failed' = [failed EXCEPT ![tid] = @ \/ i \in Missing[tid]]
  /\ eof' = [eof EXCEPT ![tid] = TRUE]
  /\ lastBlock' = [lastBlock EXCEPT ![tid] = TRUE]
  /\ tpc' = "size"
  /\ UNCHANGED <<tn, buf, firstBlock>>

\* data->m_blockSize = m_blockSize; if (bytesReaded == 0) m_eof = true, outside m_readMtx
ResetSize ==
  /\ ThreadAt("size")
  /\ size' = [size EXCEPT ![tid] = BlockSize]
  /\ eof' = [eof EXCEPT ![tid] = @ \/ tn = 0]
  /\ tpc' = "hand"
  /\ UNCHANGED <<tid, tidx, tn, life, queue, mtx, atQueue, nextSize,
                 buf, firstBlock, lastBlock, file, failed>>

\* Under m_readMtx: the size of the block, and the client is woken
HandOver ==
  /\ ThreadAt("hand")
  /\ nextSize' = [nextSize EXCEPT ![tid] = tn]
  /\ tpc' = "unlock"
  /\ UNCHANGED <<tid, tidx, tn, life, queue, mtx, atQueue, eof, blockVars>>

\* busy.unlock()
UnlockProcess ==
  /\ Moving("unlock")
  /\ mtx' = "free"
  /\ tpc' = "fin"
  /\ UNCHANGED <<tid, tidx, life, queue>>

\* Under m_readersMtx: the request is served; a reader deleted meanwhile is freed
Served ==
  /\ ThreadAt("fin")
  /\ atQueue' = [atQueue EXCEPT ![tid] = @ - 1]
  /\ life' = IF deleted[tid] /\ LastRequest(tid) THEN [life EXCEPT ![tid] = "freed"] ELSE life
  /\ tpc' = "top"
  /\ UNCHANGED <<tid, tidx, tn, queue, mtx, nextSize, eof, blockVars>>

Thread == \/ LoopTest \/ Pop \/ GetReader \/ ChooseBlock \/ LockProcess \/ Read
          \/ NoNextPart \/ NextPart \/ SkipEmptyPart \/ EmptyToTheEnd
          \/ ResetSize \/ HandOver \/ UnlockProcess \/ Served

-----------------------------------------------------------------------------
(* The client: the calls the demuxers and the mux loop make *)

\* What the client never changes but for the first createReader
ClientAt(pc) == cpc = pc /\ UNCHANGED <<threadVars, mtx, buf, failed>>
InUse(r) == life[r] = "live" /\ ~deleted[r]

\* createReader; the first one runs the reading thread
CreateReader(r) ==
  /\ cpc = "idle" /\ life[r] = "none"
  /\ life' = [life EXCEPT ![r] = "live"]
  /\ tpc' = IF tpc = "off" THEN "top" ELSE tpc
  /\ UNCHANGED <<tid, tidx, tn, terminated, deleted, mtx, askVars, handVars, blockVars, clientVars>>

\* BufferedFileReader::openStream; a name that cannot be opened leaves the reader closed
OpenStream(r) ==
  /\ ClientAt("idle")
  /\ InUse(r) /\ file[r] = Closed /\ Opens(r, 1)
  /\ file' = [file EXCEPT ![r] = AtPart(r, 1)]
  /\ firstBlock' = [firstBlock EXCEPT ![r] = TRUE]
  /\ lastBlock' = [lastBlock EXCEPT ![r] = FALSE]
  /\ scanning' = [scanning EXCEPT ![r] = r \in Rescanned]
  /\ UNCHANGED <<lifeVars, askVars, handVars, size, cpc, cid, held, got, told>>

\* A reader whose stream was opened and in which the client has more to read
Readable(r) == InUse(r) /\ file[r] # Closed /\ told[r] <= ExtraReads[r]

\* readBlock, under m_readersMtx: the block is asked for unless it is there or on its way
ReadRequest(r) ==
  /\ ClientAt("idle")
  /\ Readable(r)
  /\ IF Asked(r) THEN UNCHANGED askVars ELSE Request(r)
  /\ held' = [held EXCEPT ![r].n = 0]
  /\ cpc' = "wait" /\ cid' = r
  /\ UNCHANGED <<lifeVars, handVars, fileVars, scanning, got, told>>

\* readBlock, under m_readMtx: waits for a block or the end, and takes what is there
ReadTake ==
  /\ ClientAt("wait")
  /\ BlockThere(cid)
  /\ LET idx == bufIndex[cid]
         blk == buf[cid][idx]
         n == TakenSize(cid)
     IN  /\ held' = [held EXCEPT ![cid] = [idx |-> idx, n |-> n, first |-> firstBlock[cid], blk |-> blk]]
         /\ got' = IF n > 0 THEN [got EXCEPT ![cid] = blk.to] ELSE got
  /\ bufIndex' = [bufIndex EXCEPT ![cid] = OtherBlock(@)]
  /\ told' = [told EXCEPT ![cid] = IF eof[cid] THEN @ + 1 ELSE 0]
  /\ nextSize' = [nextSize EXCEPT ![cid] = 0]
  /\ cpc' = "took"
  /\ UNCHANGED <<lifeVars, askVars, eof, fileVars, cid, scanning>>

\* data->m_notified = false, after the lock
ReadDone ==
  /\ ClientAt("took")
  /\ notified' = [notified EXCEPT ![cid] = FALSE]
  /\ cpc' = "idle"
  /\ UNCHANGED <<lifeVars, queue, atQueue, handVars, fileVars, cid, scanning, held, got, told>>

\* notify, once enough of the block was used: the next one is read ahead
Notify(r) ==
  /\ ClientAt("idle")
  /\ Readable(r) /\ ~scanning[r]
  /\ told[r] = 0 \/ held[r].n > 0
  /\ ~notified[r]
  /\ Request(r)
  /\ UNCHANGED <<lifeVars, handVars, fileVars, clientVars>>

SeekDone(r, pos) ==
  /\ file' = [file EXCEPT ![r].pos = pos]
  /\ eof' = [eof EXCEPT ![r] = FALSE]
  /\ notified' = [notified EXCEPT ![r] = FALSE]
  /\ told' = [told EXCEPT ![r] = 0]

\* incSeek(-totalReadedBytes): TSDemuxer::getTrackList puts back all it has read
IncSeek(r) ==
  /\ ClientAt("idle")
  /\ InUse(r) /\ scanning[r]
  /\ SeekDone(r, file[r].pos - got[r])
  /\ got' = [got EXCEPT ![r] = 0]
  /\ held' = [held EXCEPT ![r] = Nothing]
  /\ scanning' = [scanning EXCEPT ![r] = FALSE]
  /\ UNCHANGED <<lifeVars, queue, atQueue, nextSize, bufIndex, firstBlock, lastBlock, size, cpc, cid>>

\* gotoByte on a reader that was asked for nothing yet (MovDemuxer::seekOnFreshReader)
GotoByte(r, pos) ==
  /\ ClientAt("idle")
  /\ InUse(r) /\ file[r].open /\ file[r].pos = 0 /\ got[r] = 0
  /\ atQueue[r] = 0 /\ nextSize[r] = 0 /\ ~eof[r]
  /\ size' = [size EXCEPT ![r] = BlockSize - (pos % BlockSize)]
  /\ SeekDone(r, pos)
  /\ got' = [got EXCEPT ![r] = pos]
  /\ UNCHANGED <<lifeVars, queue, atQueue, nextSize, bufIndex, firstBlock, lastBlock,
                 cpc, cid, scanning, held>>

\* deleteReader is called, and waits for m_processMtx
DeleteCall(r) ==
  /\ ClientAt("idle")
  /\ InUse(r)
  /\ cpc' = "delete" /\ cid' = r
  /\ UNCHANGED <<lifeVars, askVars, handVars, fileVars, scanning, held, got, told>>

\* Under m_processMtx and m_readersMtx: freed now, or by the thread when the last request is served
DeleteReader ==
  /\ ClientAt("delete")
  /\ ProcessFree
  /\ IF Outstanding(cid)
     THEN deleted' = [deleted EXCEPT ![cid] = TRUE] /\ UNCHANGED life
     ELSE life' = [life EXCEPT ![cid] = "freed"] /\ UNCHANGED deleted
  /\ cpc' = "idle"
  /\ held' = [held EXCEPT ![cid] = Nothing]
  /\ UNCHANGED <<terminated, askVars, handVars, fileVars, cid, scanning, got, told>>

\* ~BufferedReader: terminate(); m_readQueue.push(0); join(); the readers left are freed
Ending(pc, next) ==
  ClientAt(pc) /\ cpc' = next
  /\ UNCHANGED <<deleted, atQueue, notified, handVars, fileVars, cid, scanning, got, told>>

Terminate == Ending("idle", "term") /\ terminated' = TRUE /\ UNCHANGED <<life, queue, held>>

PushSentinel == Ending("term", "join") /\ Push(NoReader) /\ UNCHANGED <<terminated, life, held>>

Join ==
  /\ Ending("join", "end")
  /\ tpc \in {"off", "done"}
  /\ life' = [r \in Readers |-> IF life[r] = "live" THEN "freed" ELSE life[r]]
  /\ held' = [r \in Readers |-> Nothing]
  /\ UNCHANGED <<terminated, queue>>

Client ==
  \/ \E r \in Readers : \/ CreateReader(r) \/ OpenStream(r) \/ ReadRequest(r) \/ Notify(r)
                        \/ IncSeek(r) \/ DeleteCall(r)
                        \/ \E pos \in GotoTo[r] : GotoByte(r, pos)
  \/ ReadTake \/ ReadDone \/ DeleteReader \/ Terminate \/ PushSentinel \/ Join

\* The process has ended; every other state without a step is a hang
Ended == cpc = "end" /\ UNCHANGED vars

Next == Thread \/ Client \/ Ended

\* The thread is scheduled; the client finishes the calls it makes, and need not make any
Fairness == /\ WF_vars(Thread)
            /\ WF_vars(ReadTake) /\ WF_vars(ReadDone) /\ WF_vars(DeleteReader)
            /\ WF_vars(PushSentinel) /\ WF_vars(Join)

Spec == Init /\ [][Next]_vars
FairSpec == Spec /\ Fairness

-----------------------------------------------------------------------------
(* Properties *)

ThreadSteps == {"off", "top", "pop", "get", "begin", "lock", "read", "part", "more",
                "size", "hand", "unlock", "fin", "done"}
\* The thread holds a ReaderData pointer; it may use the reader's file iterator
InService == {"begin", "lock", "read", "part", "more", "size", "hand", "unlock", "fin"}
Reading == {"read", "part", "more"}
InCall == {"wait", "took", "delete"}
Locked == Reading \cup {"size", "hand", "unlock"}

Blocks == [part : Nat, from : Int, to : Int]
Helds == [idx : {0, 1}, n : Nat, first : BOOLEAN, blk : Blocks]
Files == [part : Nat, itr : Nat, pos : Int, open : BOOLEAN]

TypeOK ==
  /\ terminated \in BOOLEAN
  /\ queue \in Seq(Readers \cup {NoReader})
  /\ mtx \in {"free", "thread"}
  /\ life \in [Readers -> {"none", "live", "freed"}]
  /\ deleted \in [Readers -> BOOLEAN]
  /\ atQueue \in [Readers -> Int]
  /\ notified \in [Readers -> BOOLEAN]
  /\ nextSize \in [Readers -> Int]
  /\ eof \in [Readers -> BOOLEAN]
  /\ bufIndex \in [Readers -> {0, 1}]
  /\ buf \in [Readers -> [{0, 1} -> Blocks]]
  /\ firstBlock \in [Readers -> BOOLEAN]
  /\ lastBlock \in [Readers -> BOOLEAN]
  /\ size \in [Readers -> 1..BlockSize]
  /\ file \in [Readers -> Files]
  /\ \A r \in Readers : file[r].part \in 1..NParts(r)
  /\ tpc \in ThreadSteps
  /\ tid \in Readers \cup {NoReader} /\ (tpc \in InService => tid \in Readers)
  /\ tidx \in {0, 1}
  /\ tn \in Int
  /\ cpc \in {"idle", "wait", "took", "delete", "term", "join", "end"}
  /\ cid \in Readers \cup {NoReader} /\ (cpc \in InCall => cid \in Readers)
  /\ scanning \in [Readers -> BOOLEAN]
  /\ held \in [Readers -> Helds]
  /\ got \in [Readers -> Int]
  /\ told \in [Readers -> Nat]
  /\ failed \in [Readers -> BOOLEAN]

\* Where r is in the queue q
Occ(q, r) == {i \in 1..Len(q) : q[i] = r}
Waiting(q, r) == Cardinality(Occ(q, r))
InHand(r) == IF tid = r /\ tpc \in InService \cup {"get"} THEN 1 ELSE 0

(* A ReaderData is never used after it was deleted: not by the thread that *)
(* took its pointer before deleteReader ran, nor by the client in a call.  *)
NoUseAfterFree ==
  /\ tpc \in InService => life[tid] = "live"
  /\ cpc \in {"wait", "took"} => life[cid] = "live"
  /\ \A r \in Readers : life[r] = "freed" /\ cpc # "end" => Occ(queue, r) = {}

(* The file iterator, which the caller frees once deleteReader returns, is *)
(* not used by the thread after that (deleteReader waits for m_processMtx).*)
IteratorAlive == tpc \in Reading => ~deleted[tid] /\ life[tid] = "live"

(* The block a client works on is not written: its bytes, and the size it  *)
(* was told, stay those it was handed, and the thread is filling the other *)
(* one.  It is marked as the first of a file of a join exactly when it     *)
(* begins a part other than the first (StreamInfo::read and the demuxers   *)
(* end one file and begin the next on it).                                 *)
NoTornBlock == \A r \in Readers : held[r].n > 0 =>
  LET blk == held[r].blk IN
    /\ buf[r][held[r].idx] = blk
    /\ held[r].n = blk.to - blk.from
    /\ ~(tpc \in Reading /\ tid = r /\ tidx = held[r].idx)
    /\ held[r].first <=> blk.part > 1 /\ blk.from = PartStart(r, blk.part)

(* Why a reader is not used after it was freed, as an inductive invariant: *)
(* m_atQueue counts at least the requests there are, even when a full      *)
(* queue drops one, so that a reader is only freed when there are none;    *)
(* and m_processMtx keeps deleteReader out while the thread is reading.    *)
CountInv == \A r \in Readers : atQueue[r] >= Waiting(queue, r) + InHand(r)
FreedInv == \A r \in Readers :
  life[r] # "live" /\ cpc # "end" => Waiting(queue, r) = 0 /\ InHand(r) = 0
ServiceInv == tpc \in InService => life[tid] = "live"
ReadingInv == /\ tpc \in Locked => mtx = "thread"
              /\ tpc \in Reading => ~deleted[tid]
CallInv == cpc \in InCall => life[cid] = "live" /\ ~deleted[cid]
EndInv == cpc = "end" => tpc \in {"off", "done"}
LifeInv == CountInv /\ FreedInv /\ ServiceInv /\ ReadingInv /\ CallInv /\ EndInv

Total(r) == PartEnd[r][NParts(r)]

(* A client that is told of the end of the stream has been given all of    *)
(* the source, unless a file of it could not be opened or read.            *)
EofMeansAllDelivered == \A r \in Readers : told[r] > 0 /\ ~failed[r] => got[r] = Total(r)

(* The thread ends the stream of a join only after its last part: an empty *)
(* part, or one shorter than a block, does not end it.                     *)
EofAfterLastPart == \A r \in Joined : eof[r] /\ ~failed[r] => file[r].pos = Total(r)

(* The read-ahead keeps the promise of BlockStream; EarlyEnd names the     *)
(* readers for which it does not (see EofMeansAllDelivered).               *)
Stream == INSTANCE BlockStream
  WITH ended <- [r \in Readers |-> told[r] > 0], Rewindable <- Rescanned, EarlyEnd <- Joined \cup Rescanned
StreamSpec == Stream!Spec

(* A call returns.  readBlock: the block asked for comes, or the end of    *)
(* the stream.  deleteReader gets the mutex the thread holds over a        *)
(* service.  The destructor joins the thread, also one that waits for a    *)
(* request.  A reader deleted with requests outstanding is freed by the    *)
(* last of them.                                                           *)
CallsReturn ==
  /\ cpc = "wait" ~> cpc # "wait"
  /\ cpc = "delete" ~> cpc # "delete"
  /\ cpc = "term" ~> cpc = "end"
  /\ \A r \in Readers : deleted[r] ~> life[r] = "freed"
=============================================================================

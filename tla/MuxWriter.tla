------------------------------ MODULE MuxWriter ------------------------------
(***************************************************************************)
(* The way out of the muxer: the mux thread (MuxerManager::doMux, TSMuxer) *)
(* makes transport stream packets, collects them in blocks and queues the  *)
(* blocks; the thread of BufferedFileWriter writes them to the parts of    *)
(* the output.  With 3D video there are two views, each a TSMuxer; in an   *)
(* image or a .ssif the blocks of the first view ("main") are held back    *)
(* until the second view ("sub") has ended its block (Interleave).         *)
(*                                                                         *)
(* A packet is its number in its view, the tables (PAT, PMT, SIT) and the  *)
(* PCR behind them are one packet.  A call of the mux thread is unfolded   *)
(* into "todo", the steps it still has to take; a step that waits for the  *)
(* writer or may throw is a step of its own.                               *)
(***************************************************************************)
EXTENDS Integers, Sequences, FiniteSets

CONSTANTS
  HasSub,      \* there is a second view (m_subMuxer)
  Interleave,  \* MuxerManager::m_interleave
  M2ts,        \* TSMuxer::m_m2tsMode: arrival times are written at the next PCR
  Switcher,    \* the view with m_canSwithBlock (mvcTrackFirst)
  LateSub,     \* a view may end a unit or a part before the other has a packet
  BlockLimit,  \* m_writeBlockSize, in packets
  UnitLimit,   \* UnitLimit[v]: m_interliaveBlockSize of view v, in packets; 0 is none
  MaxPackets,  \* bound: packets given to the muxer of a view
  MaxParts,    \* bound: parts of the output; 1 is no split
  WaitAbove,   \* nMaxWriteQueueSize of asyncWriteBlock
  QueueMax,    \* WRITE_QUEUE_MAX_SIZE
  Faulty       \* a write, an open or a close may fail

Views == IF HasSub THEN {"main", "sub"} ELSE {"main"}
Other(v) == IF v = "main" THEN "sub" ELSE "main"

ASSUME MuxWriterAssumption ==
  /\ {HasSub, Interleave, M2ts, LateSub, Faulty} \subseteq BOOLEAN
  /\ Switcher \in Views
  /\ Interleave => HasSub
  /\ HasSub => M2ts          \* 3D video is muxed for a Blu-ray disc only
  /\ UnitLimit \in [Views -> Nat]
  /\ {BlockLimit, MaxPackets, MaxParts, WaitAbove, QueueMax} \subseteq Nat \ {0}
  /\ BlockLimit > 1          \* a block holds more than the tables
  /\ WaitAbove + 1 < QueueMax

VARIABLES
  given,      \* packets given to muxPacket of each view
  made,       \* transport stream packets each view has made
  sent,       \* the last packet of each view that left m_outBuf
  stamped,    \* the last packet of each view with its arrival time
  delayBlk,   \* m_m2tsDelayBlocks: blocks that wait for their arrival times
  processed,  \* m_processedBlockSize, in packets
  unit,       \* the number of the unit (interleaving block) of each view
  firstOf,    \* firstOf[v][p]: the first packet of part p of v
  open,       \* the files that are open, as <<view, part>>
  held,       \* MuxerManager::m_delayedData
  finished,   \* the views whose m_mainBlockFinished / m_subBlockFinished is set
  todo,       \* what the mux thread does before the next packet
  ending,     \* the sources are at their end: the last calls of doMux
  closedOk,   \* what close() reported
  result,     \* how doMux ended
  queue,      \* BufferedFileWriter::m_writeQueue
  wpc,        \* the writer thread's step
  failed,     \* BufferedFileWriter::m_lastErrorCode is set
  td, term,   \* the step of ~BufferedFileWriter, and its m_terminated
  disk,       \* the blocks written, in the order they were written
  lost        \* the blocks "written" to a file that was not open

viewVars  == <<given, made, sent, stamped, delayBlk, processed>>
partVars  == <<unit, firstOf, open>>
holdVars  == <<held, finished>>
endVars   == <<ending, closedOk, result>>
writeVars == <<wpc, failed, td, term>>
diskVars  == <<disk, lost>>
vars == <<viewVars, partVars, holdVars, todo, endVars, queue, writeVars, diskVars>>

-----------------------------------------------------------------------------
(* The steps of the mux thread, as records in todo *)
Step(op, v) == [op |-> op, view |-> v]
Finish(v, change, recursive) ==
  [op |-> "finish", view |-> v, change |-> change, recursive |-> recursive]
PutStep(op, b) == [op |-> op, view |-> b.view, blk |-> b]
PutAll(op, blocks) == [i \in 1..Len(blocks) |-> PutStep(op, blocks[i])]

Part(v) == Len(firstOf[v])
File(v) == <<v, Part(v)>>
Block(v, to) ==
  [view |-> v, part |-> Part(v), unit |-> unit[v], first |-> sent[v] + 1, last |-> to]
Sentinel == [view |-> "none", part |-> 0, unit |-> 0, first |-> 0, last |-> 0]
IfAny(c, steps) == IF c THEN steps ELSE <<>>

\* writePATPMT and writePCR: a packet, and the arrival times of all up to it
Tables(v) == <<Step("packet", v)>> \o IfAny(M2ts, <<Step("stamp", v)>>)
\* TSMuxer::doFlush
Flush(v) == IfAny(M2ts, <<Step("stamp", v)>>) \o <<Step("rest", v)>>

\* Conditions of the code, some after a form with a defect that a run detects
WriterIdleAlways == TRUE
WriterIdle == queue = <<>>                    \* waitForWriting
RoomInQueueAlways == TRUE
RoomInQueue == Len(queue) <= WaitAbove        \* the loop of asyncWriteBlock
HasErrorNever == FALSE
HasError == failed                            \* BufferedFileWriter::hasError
BlockFull(v) == processed[v] >= UnitLimit[v]
OtherFirstNever(v, change, recursive) == FALSE
OtherFirst(v, change, recursive) == change /\ recursive /\ v = "main" /\ HasSub
MayGoOut(v, to) == ~M2ts \/ (to <= stamped[v] /\ delayBlk[v] = <<>>)
HeldBackNever(v) == FALSE
HeldBack(v) == Interleave /\ v = "main"
BothFinishedEither(done) == done # {}
BothFinished(done) == done = {"main", "sub"}
AfterReleaseKept == held
AfterRelease == <<>>                          \* m_delayedData.clear()

-----------------------------------------------------------------------------
(* The mux thread *)
At(op) == todo # <<>> /\ Head(todo).op = op
Then(steps) == todo' = steps \o Tail(todo)
Throw == todo' = <<>> /\ result' = "failed"

\* A write: File and ISOFile report a closed file by a result nobody looks at
Write(b) ==
  IF <<b.view, b.part>> \in open THEN disk' = Append(disk, b) /\ UNCHANGED lost
                                 ELSE lost' = lost \cup {b} /\ UNCHANGED disk

Init ==
  /\ given = [v \in Views |-> 0] /\ made = given /\ sent = given /\ stamped = given
  /\ delayBlk = [v \in Views |-> <<>>] /\ processed = given
  /\ unit = [v \in Views |-> 1] /\ firstOf = [v \in Views |-> <<1>>]
  /\ open = {<<v, 1>> : v \in Views}
  /\ held = <<>> /\ finished = {}
  /\ todo = <<>> /\ ending = FALSE /\ closedOk = TRUE /\ result = "running"
  /\ queue = <<>> /\ wpc = "test" /\ failed = FALSE /\ td = "no" /\ term = FALSE
  /\ disk = <<>> /\ lost = {}

\* The loop of doMux: a packet that begins a PES goes to the muxer of its view
MuxPacket(v) ==
  /\ todo = <<>> /\ result = "running" /\ ~ending
  /\ given[v] < MaxPackets
  /\ given' = [given EXCEPT ![v] = @ + 1]
  /\ todo' = IfAny(given[v] = 0, Tables(v)) \o <<Step("switch", v), Step("packet", v)>>
  /\ UNCHANGED <<made, sent, stamped, delayBlk, processed, partVars, holdVars,
                 endVars, queue, writeVars, diskVars>>

\* The loop of doMux ends by an exception: a signal, a source that cannot be read
Stop ==
  /\ todo = <<>> /\ result = "running" /\ ~ending
  /\ result' = "failed"
  /\ UNCHANGED <<viewVars, partVars, holdVars, todo, ending, closedOk, queue,
                 writeVars, diskVars>>

\* What doMux does after its loop
EndOfSources ==
  /\ todo = <<>> /\ result = "running" /\ ~ending
  /\ ending' = TRUE
  /\ todo' = IfAny(HasSub, Flush("sub")) \o Flush("main")
             \o <<Step("heldOut", "main"), Step("wait", "main"), Step("close", "main")>>
             \o IfAny(HasSub, <<Step("close", "sub")>>)
             \o <<Step("wait", "main"), Step("verdict", "main")>>
  /\ UNCHANGED <<viewVars, partVars, holdVars, closedOk, result, queue, writeVars, diskVars>>

\* TSMuxer::muxPacket: a new part, a new unit, or the tables when a PCR is due
Begun == LateSub \/ \A w \in Views : given[w] > 0
UnitIsFull(v) == Begun /\ \E w \in Views : UnitLimit[v] > 0 /\ BlockFull(w)
SplitPoint(v) == v = Switcher /\ given[v] > 1 /\ Part(v) < MaxParts /\ Begun
SwitchBlock ==
  /\ At("switch")
  /\ LET v == Head(todo).view IN
       \/ SplitPoint(v) /\ Then(<<Finish(v, TRUE, TRUE)>>)
       \/ v = Switcher /\ UnitIsFull(v) /\ Then(<<Finish(v, FALSE, TRUE)>>)
       \/ ~(v = Switcher /\ UnitIsFull(v)) /\ (Then(Tables(v)) \/ Then(<<>>))
  /\ UNCHANGED <<viewVars, partVars, holdVars, endVars, queue, writeVars, diskVars>>

\* A packet is put into m_outBuf; a full block leaves it (writeOutBuffer)
AddPacket ==
  /\ At("packet")
  /\ LET v == Head(todo).view
         n == made[v] + 1
         b == Block(v, n)
         full == n - sent[v] = BlockLimit
     IN  /\ made' = [made EXCEPT ![v] = n]
         /\ processed' = [processed EXCEPT ![v] = @ + 1]
         /\ sent' = IF full THEN [sent EXCEPT ![v] = n] ELSE sent
         /\ delayBlk' = IF full /\ ~MayGoOut(v, n)
                         THEN [delayBlk EXCEPT ![v] = Append(@, b)] ELSE delayBlk
         /\ Then(IfAny(full /\ MayGoOut(v, n), <<PutStep("put", b)>>))
  /\ UNCHANGED <<given, stamped, partVars, holdVars, endVars, queue, writeVars, diskVars>>

\* processM2TSPCR: the arrival times are written, the blocks that waited go out
Stamp ==
  /\ At("stamp")
  /\ LET v == Head(todo).view
     IN  /\ stamped' = [stamped EXCEPT ![v] = made[v]]
         /\ delayBlk' = [delayBlk EXCEPT ![v] = <<>>]
         /\ Then(PutAll("put", delayBlk[v]))
  /\ UNCHANGED <<given, made, sent, processed, partVars, holdVars, endVars, queue,
                 writeVars, diskVars>>

\* The end of doFlush: what is in m_outBuf goes out; in a TS, down to a sector
FlushRest ==
  /\ At("rest")
  /\ LET v == Head(todo).view
     IN  \E to \in IF M2ts THEN {made[v]} ELSE sent[v]..made[v] :
           /\ sent' = [sent EXCEPT ![v] = to]
           /\ Then(<<PutStep("put", Block(v, to))>>)
  /\ UNCHANGED <<given, made, stamped, delayBlk, processed, partVars, holdVars, endVars,
                 queue, writeVars, diskVars>>

\* MuxerManager::asyncWriteBlock, BufferedFileWriter::addWriterData
AsyncWriteBlock(b) ==
  /\ RoomInQueue
  /\ IF HasError THEN Throw /\ UNCHANGED queue
     ELSE /\ Then(<<>>) /\ UNCHANGED result
          /\ queue' = IF Len(queue) >= QueueMax THEN queue ELSE Append(queue, b)
  /\ UNCHANGED held
\* MuxerManager::asyncWriteBuffer
AsyncWriteBuffer(b) ==
  IF HeldBack(b.view)
  THEN held' = Append(held, b) /\ Then(<<>>) /\ UNCHANGED <<queue, result>>
  ELSE AsyncWriteBlock(b)
PutBlock ==
  /\ \/ At("put") /\ AsyncWriteBuffer(Head(todo).blk)
     \/ At("queue") /\ AsyncWriteBlock(Head(todo).blk)
  /\ UNCHANGED <<viewVars, partVars, finished, ending, closedOk, writeVars, diskVars>>

\* TSMuxer::finishFileBlock
FinishFileBlock ==
  /\ At("finish")
  /\ LET f == Head(todo)
         v == f.view
         before == OtherFirst(v, f.change, f.recursive)
         other == <<Finish(Other(v), f.change, FALSE)>>
     IN  Then(IfAny(processed[v] > 0, Flush(v) \o <<Step("blockDone", v)>>
                                      \o IfAny(~M2ts, <<Step("tail", v)>>))
              \o IfAny(before, other)
              \o IfAny(f.change, <<Step("next", v)>>)
              \o Tables(v)
              \o IfAny(HasSub /\ f.recursive /\ ~before, other))
  /\ UNCHANGED <<viewVars, partVars, holdVars, endVars, queue, writeVars, diskVars>>

\* The unit is over: MuxerManager::muxBlockFinished
MuxBlockFinished ==
  /\ At("blockDone")
  /\ LET v == Head(todo).view
         done == finished \cup {v}
     IN  /\ processed' = [processed EXCEPT ![v] = 0]
         /\ unit' = [unit EXCEPT ![v] = @ + 1]
         /\ IF BothFinished(done)
            THEN finished' = {} /\ held' = AfterRelease /\ Then(PutAll("queue", held))
            ELSE finished' = done /\ Then(<<>>) /\ UNCHANGED held
  /\ UNCHANGED <<given, made, sent, stamped, delayBlk, firstOf, open, endVars, queue,
                 writeVars, diskVars>>

\* TSMuxer::flushTSBuffer: what doFlush left is appended by the mux thread itself
FlushTSBuffer ==
  /\ At("tail") /\ WriterIdle
  /\ LET v == Head(todo).view
     IN  \/ /\ Write(Block(v, made[v]))
            /\ sent' = [sent EXCEPT ![v] = made[v]]
            /\ Then(<<>>) /\ UNCHANGED <<open, result>>
         \/ /\ Faulty /\ Throw
            /\ open' \in {open, open \ {File(v)}}
            /\ UNCHANGED <<sent, diskVars>>
  /\ UNCHANGED <<given, made, stamped, delayBlk, processed, unit, firstOf, holdVars,
                 ending, closedOk, queue, writeVars>>

\* TSMuxer::gotoNextFile
GotoNextFile ==
  /\ At("next") /\ WriterIdle
  /\ LET v == Head(todo).view
     IN  \/ /\ open' = (open \ {File(v)}) \cup {<<v, Part(v) + 1>>}
            /\ firstOf' = [firstOf EXCEPT ![v] = Append(@, made[v] + 1)]
            /\ Then(<<>>) /\ UNCHANGED result
         \/ /\ Faulty /\ Throw
            /\ open' = open \ {File(v)} /\ UNCHANGED firstOf
  /\ UNCHANGED <<viewVars, unit, holdVars, ending, closedOk, queue, writeVars, diskVars>>

HeldOut ==
  /\ At("heldOut") /\ Then(PutAll("queue", held))
  /\ UNCHANGED <<viewVars, partVars, holdVars, endVars, queue, writeVars, diskVars>>

WaitForWriting ==
  /\ At("wait") /\ WriterIdle /\ Then(<<>>)
  /\ UNCHANGED <<viewVars, partVars, holdVars, endVars, queue, writeVars, diskVars>>

\* TSMuxer::close: what a TS still holds is appended to the file opened again
CloseMuxer ==
  /\ At("close")
  /\ LET v == Head(todo).view
         tail == sent[v] < made[v]
     IN  \/ /\ IF tail THEN Write(Block(v, made[v])) ELSE UNCHANGED diskVars
            /\ sent' = [sent EXCEPT ![v] = made[v]]
            /\ Then(<<>>) /\ UNCHANGED <<closedOk, result>>
         \/ /\ Faulty /\ closedOk' = FALSE /\ Then(<<>>)
            /\ UNCHANGED <<sent, diskVars, result>>
         \/ /\ Faulty /\ tail /\ Throw
            /\ UNCHANGED <<sent, diskVars, closedOk>>
     /\ open' = open \ {File(v)}
  /\ UNCHANGED <<given, made, stamped, delayBlk, processed, unit, firstOf, holdVars,
                 ending, queue, writeVars>>

\* doMux ends: a failed write or close is an error
Verdict ==
  /\ At("verdict") /\ todo' = <<>>
  /\ result' = IF HasError \/ ~closedOk THEN "failed" ELSE "ok"
  /\ UNCHANGED <<viewVars, partVars, holdVars, ending, closedOk, queue, writeVars, diskVars>>

MuxStep ==
  \/ SwitchBlock \/ AddPacket \/ Stamp \/ FlushRest \/ PutBlock \/ FinishFileBlock
  \/ MuxBlockFinished \/ FlushTSBuffer \/ GotoNextFile \/ HeldOut \/ WaitForWriting
  \/ CloseMuxer \/ Verdict

-----------------------------------------------------------------------------
(* BufferedFileWriter: its thread, then its destructor *)
muxVars == <<viewVars, partVars, holdVars, todo, endVars>>

\* WriterData::execute
Execute(b) ==
  IF b = Sentinel THEN UNCHANGED diskVars ELSE Write(b)

WriterTest ==
  /\ wpc = "test" /\ wpc' = IF term THEN "done" ELSE "peek"
  /\ UNCHANGED <<muxVars, queue, failed, td, term, diskVars>>
WriterPeek ==
  /\ wpc = "peek" /\ queue # <<>> /\ wpc' = "exec"
  /\ UNCHANGED <<muxVars, queue, failed, td, term, diskVars>>
AfterExecute == "pop"
WriterExecute ==
  /\ wpc = "exec"
  /\ \/ ~failed /\ Execute(Head(queue)) /\ UNCHANGED failed
     \/ Faulty /\ Head(queue) # Sentinel /\ failed' = TRUE /\ UNCHANGED diskVars
     \/ failed /\ UNCHANGED <<failed, diskVars>>
  /\ wpc' = AfterExecute
  /\ UNCHANGED <<muxVars, queue, td, term>>
WriterPop ==
  /\ wpc = "pop" /\ wpc' = "test" /\ queue' = Tail(queue)
  /\ UNCHANGED <<muxVars, failed, td, term, diskVars>>
WriterThread == WriterTest \/ WriterPeek \/ WriterExecute \/ WriterPop

\* The destructor: BufferedFileWriter::terminate, then what is left is written
Terminate ==
  /\ td = "no" /\ result # "running"
  /\ term' = TRUE /\ td' = "push"
  /\ UNCHANGED <<muxVars, queue, wpc, failed, diskVars>>
PushSentinelNone ==
  td = "push" /\ td' = "join" /\ UNCHANGED <<muxVars, queue, wpc, failed, term, diskVars>>
PushSentinel ==
  /\ td = "push" /\ td' = "join"
  /\ queue' = IF Len(queue) >= QueueMax THEN queue ELSE Append(queue, Sentinel)
  /\ UNCHANGED <<muxVars, wpc, failed, term, diskVars>>
Join ==
  /\ td = "join" /\ wpc = "done" /\ td' = "drain"
  /\ UNCHANGED <<muxVars, queue, wpc, failed, term, diskVars>>
Drain ==
  /\ td = "drain" /\ queue # <<>> /\ queue' = Tail(queue)
  /\ Execute(Head(queue)) \/ (Faulty /\ UNCHANGED diskVars)
  /\ UNCHANGED <<muxVars, wpc, failed, td, term>>
\* The writer is gone, now the muxers and with them their files
DestroyMuxers ==
  /\ td = "drain" /\ queue = <<>> /\ td' = "gone" /\ open' = {}
  /\ UNCHANGED <<viewVars, unit, firstOf, holdVars, todo, endVars, queue, wpc, failed,
                 term, diskVars>>
TearDown == Terminate \/ PushSentinel \/ Join \/ Drain \/ DestroyMuxers

AllDone == td = "gone" /\ UNCHANGED vars

Next ==
  \/ \E v \in Views : MuxPacket(v)
  \/ Stop \/ EndOfSources \/ MuxStep \/ WriterThread \/ TearDown \/ AllDone

Spec == Init /\ [][Next]_vars
\* The threads run; how long the sources last is not the muxer's to say
FairSpec ==
  Spec /\ WF_vars(MuxStep) /\ WF_vars(WriterThread) /\ WF_vars(TearDown)

-----------------------------------------------------------------------------
(* Type correctness: every variable holds a value of its kind, blocks are   *)
(* stretches of packets already made, and the write queue stays below its   *)
(* limit, where a push would silently drop what it is given.                *)
Blocks == [view : Views, part : Nat, unit : Nat, first : Nat, last : Nat]
Steps ==
  [op : {"packet", "stamp", "rest", "switch", "blockDone", "tail", "next", "heldOut",
         "wait", "close", "verdict"}, view : Views]
  \cup [op : {"finish"}, view : Views, change : BOOLEAN, recursive : BOOLEAN]
  \cup [op : {"put", "queue"}, view : Views, blk : Blocks]
TypeOK ==
  /\ given \in [Views -> Nat] /\ made \in [Views -> Nat]
  /\ sent \in [Views -> Nat] /\ stamped \in [Views -> Nat]
  /\ \A v \in Views : sent[v] <= made[v] /\ stamped[v] <= made[v]
  /\ delayBlk \in [Views -> Seq(Blocks)]
  /\ processed \in [Views -> Nat]
  /\ unit \in [Views -> Nat]
  /\ firstOf \in [Views -> Seq(Nat)]
  /\ open \subseteq Views \X Nat
  /\ held \in Seq(Blocks)
  /\ finished \subseteq Views
  /\ todo \in Seq(Steps)
  /\ ending \in BOOLEAN /\ closedOk \in BOOLEAN
  /\ result \in {"running", "ok", "failed"}
  /\ queue \in Seq(Blocks \cup {Sentinel})
  /\ td \in {"no", "push"} => Len(queue) < QueueMax
  /\ wpc \in {"test", "peek", "exec", "pop", "done"}
  /\ failed \in BOOLEAN /\ term \in BOOLEAN
  /\ td \in {"no", "push", "join", "drain", "gone"}
  /\ disk \in Seq(Blocks)
  /\ lost \subseteq Blocks

(* When the mux thread has found the queue empty, the writer has no block   *)
(* in its hand either: it takes a block out only after it is written        *)
(* (thread_main peeks, executes, pops), so a file may then be closed.       *)
IdleMeansIdle == queue = <<>> => wpc \notin {"exec", "pop"}

\* With TypeOK, why the queue is bounded and IdleMeansIdle holds: nothing is
\* queued once the job is over, and nothing popped while the thread runs
JobOver == result # "running" => todo = <<>>
TearDownAfterJob == td # "no" => result # "running"
QueueBound == td \in {"no", "push"} => Len(queue) <= WaitAbove + 1
DrainAfterThread == td \in {"drain", "gone"} => wpc = "done"
WriterInv == JobOver /\ TearDownAfterJob /\ QueueBound /\ DrainAfterThread /\ IdleMeansIdle

OnDisk(v, p) == {i \in 1..Len(disk) : disk[i].view = v /\ disk[i].part = p}
Written(v) ==
  UNION {disk[i].first..disk[i].last : i \in {j \in 1..Len(disk) : disk[j].view = v}}
PacketsOf(v, p) ==
  firstOf[v][p]..(IF p = Part(v) THEN made[v] ELSE firstOf[v][p + 1] - 1)

EachPartInOrder ==
  \A v \in Views : \A p \in 1..Part(v) : \A i \in OnDisk(v, p) :
    LET before == {j \in OnDisk(v, p) : j < i} IN
      /\ disk[i].first..disk[i].last \subseteq PacketsOf(v, p)
      /\ \A j \in before : disk[j].last < disk[i].first
      /\ ~failed /\ result # "failed" =>
           \/ before = {} /\ disk[i].first = firstOf[v][p]
           \/ \E j \in before : disk[i].first = disk[j].last + 1

(* Every part of the output holds packets of that part only, in the order   *)
(* they were made, and without a gap or a repetition as long as no write    *)
(* failed: whether they went by m_outBuf, waited for their arrival times    *)
(* (m_m2tsDelayBlocks), were held back for the second view or were appended *)
(* by the mux thread (flushTSBuffer, close).  A block of an M2TS has left   *)
(* the muxer only when every packet of it had its arrival time, which is    *)
(* not known before the next PCR (writeOutBuffer, processM2TSPCR).          *)
PartsInOrder ==
  /\ M2ts => \A i \in 1..Len(disk) : disk[i].last <= stamped[disk[i].view]
  /\ EachPartInOrder

(* A job that ends without an error has written every packet it made: a     *)
(* write that failed in the writer's thread, a tail that could not be       *)
(* written or a file that could not be closed is never reported as success  *)
(* (MuxerManager::doMux).                                                   *)
SuccessIsComplete ==
  result = "ok" => \A v \in Views : Written(v) = 1..made[v]

(* A part is whole when its file is closed: a view never begins a new part  *)
(* while blocks of the old one are still held back or queued (gotoNextFile, *)
(* finishFileBlock).                                                        *)
ClosedPartIsWhole ==
  ~failed /\ result = "running" =>
    \A v \in Views : \A p \in 1..Part(v) - 1 :
      PacketsOf(v, p) \subseteq Written(v)

(* No block is written to a file that was closed, before which neither File *)
(* nor ISOFile raises an error: its bytes would be missing from the output  *)
(* of a job that ends well (WriterData::execute).                           *)
NothingToClosedFile == lost = {}

(* On a 3D disc the units of the two views alternate: the second view's     *)
(* blocks of a unit come first, then the first view's, then the next unit   *)
(* (MuxerManager::asyncWriteBuffer, muxBlockFinished).                      *)
UnitsAlternate ==
  Interleave =>
    \A i, j \in 1..Len(disk) : i < j =>
      \/ disk[i].unit < disk[j].unit
      \/ /\ disk[i].unit = disk[j].unit
         /\ disk[i].view = "main" => disk[j].view = "main"

(* A call of the mux thread ends: it waits for the writer in                *)
(* asyncWriteBlock and waitForWriting, and the writer goes on emptying the  *)
(* queue after a write failed.  A job that is over, well or not, gets past  *)
(* the writer's destructor: the thread is told to end and does, and what is *)
(* left in the queue is taken.                                              *)
JobEnds ==
  /\ todo # <<>> ~> todo = <<>>
  /\ result # "running" ~> td = "gone"
=============================================================================

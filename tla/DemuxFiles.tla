------------------------------ MODULE DemuxFiles ------------------------------
(***************************************************************************)
(* The demux mode (singleFileMuxer.cpp): every track goes to a file of its *)
(* own, or to up to three (a TrueHD track with its AC-3 core), through one *)
(* buffer per file.  Whole units of 64 KiB leave the buffers, by the       *)
(* thread of BufferedFileWriter in async mode; the rest is appended when a *)
(* file is closed.  A WAV is broken before it outgrows its 32 bit sizes.   *)
(*                                                                         *)
(* The bytes of an output are numbered in the order they are put into its  *)
(* buffer; a stretch of them is the pair of its ends.                      *)
(***************************************************************************)
EXTENDS Integers, Sequences

CONSTANTS
  Outputs,     \* the outputs of m_streamInfo in order: [track, takes, wav]
  Async,       \* MuxerManager::isAsyncMode
  Unit,        \* the 64 KiB the file system takes an unbuffered write in
  BlockSize,   \* DEFAULT_FILE_BLOCK_SIZE
  MaxPacket,   \* MAX_AV_PACKET_SIZE
  AddData,     \* ADD_DATA_SIZE
  RiffMax,     \* 2^32: the sizes of a RIFF header are 32 bit
  HeaderSize,  \* of a WAV
  Sizes,       \* the sizes of packets given
  AddSizes,    \* what writeAdditionData may put in front of a frame of no WAV
  MaxMade,     \* bound: bytes of an output with the packets it takes
  WaitAbove,   \* nMaxWriteQueueSize of asyncWriteBlock
  Faulty       \* an open, a write, a close or a rename may fail

Kinds == {"core", "rest"}
Outs == 1..Len(Outputs)

ASSUME DemuxFilesAssumption ==
  /\ Outputs \in Seq([track : Nat, takes : SUBSET Kinds, wav : BOOLEAN])
  /\ Len(Outputs) > 0                 \* main.cpp:4715
  /\ {Async, Faulty} \subseteq BOOLEAN
  /\ {Unit, BlockSize, MaxPacket, AddData, RiffMax, HeaderSize} \subseteq Nat \ {0}
  /\ BlockSize % Unit = 0
  /\ MaxPacket + AddData < Unit       \* 32 KiB + 2 KiB < 64 KiB
  /\ HeaderSize <= AddData
  /\ RiffMax > Unit + 2 * BlockSize
  /\ Sizes \subseteq Nat \ {0}
  /\ AddSizes \subseteq Nat
  /\ {MaxMade, WaitAbove} \subseteq Nat

Capacity == BlockSize + MaxPacket + AddData

VARIABLES
  made,      \* bytes put into the buffer of each output
  bufLen,    \* m_bufLen
  total,     \* m_totalWrited
  first,     \* LPCMStreamReader::m_firstFrame: the next frame gets a header
  heads,     \* where headers were put
  open,      \* the outputs whose m_file is open
  work,      \* what is in the file under the output's working name
  parts,     \* the parts that were finished and have their final name
  todo,      \* what the mux thread does before the next packet
  ending,      \* doMux is behind its loop
  unfinished,  \* the outputs whose end close could not write (reportUnfinished)
  result,      \* how doMux ended
  queue,     \* BufferedFileWriter::m_writeQueue
  wpc,       \* the writer's step: "exec" or "pop"
  failed,      \* BufferedFileWriter::m_lastErrorCode is set
  unseen       \* history: the outputs that lost something at a split nobody looked at

bufVars   == <<made, bufLen, total, first, heads>>
fileVars  == <<open, work, parts>>
endVars   == <<ending, unfinished, result>>
writeVars == <<queue, wpc, failed>>
vars == <<bufVars, fileVars, todo, endVars, writeVars, unseen>>

-----------------------------------------------------------------------------
EmptyAt(at) == [from |-> at, to |-> at, whole |-> TRUE, sized |-> FALSE]
Put(c, from, to) ==
  IF from = to THEN c
  ELSE IF c.from = c.to THEN [c EXCEPT !.from = from, !.to = to]
  ELSE [c EXCEPT !.to = to, !.whole = @ /\ c.to = from]
Sized(c, wrote) == [c EXCEPT !.sized = wrote]

Step(op, o) == [op |-> op, out |-> o, size |-> 0]
Sizing(op, o, n) == [op |-> op, out |-> o, size |-> n]
IfAny(c, steps) == IF c THEN steps ELSE <<>>
ForAll(op) == [o \in Outs |-> Step(op, o)]
Takers(t, kind) == {o \in Outs : Outputs[o].track = t /\ kind \in Outputs[o].takes}

At(op) == todo # <<>> /\ Head(todo).op = op
Then(steps) == todo' = steps \o Tail(todo)
Throw == todo' = <<>> /\ result' = "failed"      \* an exception leaves doMux
Out == Head(todo).out

\* The conditions and sizes of the code, some after a form with a defect that a run detects
SplitAt == RiffMax - Unit - BlockSize         \* 0xffff0000ul - blockSize
SplitDue(o, n) == Outputs[o].wav /\ total[o] + n >= SplitAt
WriterIdleAlways == TRUE
WriterIdle == queue = <<>>                    \* waitForWriting
RoomFor(o, n) == bufLen[o] + n <= Capacity \/ bufLen[o] = 0
WholeUnitsUp(n) == n + Unit - (n % Unit)
WholeUnits(n) == n - (n % Unit)                 \* & 0x7fff0000
FlushedAll(o) == bufLen[o]
Flushed(o) == IF Async THEN WholeUnits(bufLen[o]) ELSE bufLen[o]
BlockDue(o) == bufLen[o] >= BlockSize
PartThatFitsAll(o, n) == n
PartThatFits(o, n) == IF n < Capacity - bufLen[o] THEN n ELSE Capacity - bufLen[o]
\* A packet of a WAV has a time of its own or FORCE_NEW_FRAME (lpcmStreamReader.cpp:1313)
NewFrame(o) == IF Outputs[o].wav THEN {TRUE} ELSE BOOLEAN
\* dstEnd: the room writeAdditionData is told of
Room(o) == Capacity - bufLen[o]
\* What a codec may put in front of a frame: a WAV its header, another what it has, or
\* nothing, also where it leaves out what finds no room
Additions(o) ==
  IF ~Outputs[o].wav THEN {0} \cup AddSizes
  ELSE IF first[o] THEN {HeaderSize} ELSE {0}
HasError == failed
\* After an output could not be finished: return, or the next one
EndsLoop == <<Step("wait", 1), Step("verdict", 1)>>
NextClose == Tail(todo)

Init ==
  /\ made = [o \in Outs |-> 0] /\ bufLen = made /\ total = made
  /\ first = [o \in Outs |-> TRUE] /\ heads = [o \in Outs |-> {}]
  /\ open = Outs /\ work = [o \in Outs |-> EmptyAt(0)] /\ parts = [o \in Outs |-> <<>>]
  /\ todo = <<>> /\ ending = FALSE /\ unfinished = {} /\ result = "running"
  /\ queue = <<>> /\ wpc = "exec" /\ failed = FALSE /\ unseen = {}

-----------------------------------------------------------------------------
(* The mux thread *)

\* SingleFileMuxer::muxPacket: the packet goes to every output of its track that takes it
MuxPacket(t, kind, n) ==
  /\ todo = <<>> /\ result = "running" /\ ~ending
  /\ Takers(t, kind) # {}
  /\ \A o \in Takers(t, kind) :
       /\ made[o] + n <= MaxMade
       /\ Outputs[o].wav => n <= MaxPacket     \* LPCMStreamReader::readPacket throws else
  /\ todo' = [o \in Outs |-> Sizing("frame", o, IF o \in Takers(t, kind) THEN n ELSE 0)]
  /\ UNCHANGED <<bufVars, fileVars, endVars, writeVars, unseen>>
PassOver ==
  /\ At("frame") /\ Head(todo).size = 0 /\ Then(<<>>)
  /\ UNCHANGED <<bufVars, fileVars, endVars, writeVars, unseen>>

\* muxPacketTo: what the codec puts in front of a new frame, then the packet
Frame ==
  /\ At("frame") /\ Head(todo).size > 0
  /\ LET o == Out
         n == Head(todo).size
     IN  \E new \in NewFrame(o) : \E a \in IF new THEN Additions(o) ELSE {0} :
           \/ /\ a <= Room(o)
              /\ made' = [made EXCEPT ![o] = @ + a]
              /\ bufLen' = [bufLen EXCEPT ![o] = @ + a]
              /\ heads' = IF new /\ first[o] /\ Outputs[o].wav THEN [heads EXCEPT ![o] = @ \cup {made[o]}] ELSE heads
              /\ first' = IF new THEN [first EXCEPT ![o] = FALSE] ELSE first
              /\ Then(IfAny(new, <<Step("out", o)>>) \o <<Sizing("room", o, n), Sizing("copy", o, n)>>)
              /\ UNCHANGED result
           \/ /\ a > Room(o) /\ Throw             \* "Not enough buffer for write headers"
              /\ UNCHANGED <<made, bufLen, heads, first>>
  /\ UNCHANGED <<total, fileVars, ending, unfinished, writeVars, unseen>>

\* The n bytes at the front of the buffer of o are handed to the writer, or written at once
Leave(o, n, steps) ==
  /\ Async => Len(queue) <= WaitAbove
  /\ \/ /\ ~(Async /\ failed)
        /\ LET at == made[o] - bufLen[o] IN
             IF Async THEN queue' = Append(queue, [out |-> o, from |-> at, to |-> at + n]) /\ UNCHANGED work
                      ELSE work' = [work EXCEPT ![o] = Put(@, at, at + n)] /\ UNCHANGED queue
        /\ bufLen' = [bufLen EXCEPT ![o] = @ - n]
        /\ Then(steps) /\ UNCHANGED result
     \/ /\ IF Async THEN failed ELSE Faulty
        /\ Throw /\ UNCHANGED <<bufLen, work, queue>>

\* writeOutBuffer: a full block leaves; a WAV may then be due for its next part
WriteOutBuffer ==
  /\ At("out")
  /\ LET o == Out
         n == IF BlockDue(o) THEN BlockSize ELSE 0
         steps == IfAny(SplitDue(o, n), IfAny(Async, <<Step("wait", o)>>) \o <<Step("split", o)>>)
     IN  /\ IF n > 0 THEN Leave(o, n, steps) ELSE Then(steps) /\ UNCHANGED <<bufLen, work, queue, result>>
         /\ total' = [total EXCEPT ![o] = @ + n]
  /\ UNCHANGED <<made, first, heads, open, parts, ending, unfinished, wpc, failed, unseen>>

\* A frame that does not fit: what is in the buffer leaves first
MakeRoom ==
  /\ At("room")
  /\ LET o == Out
         n == IF RoomFor(o, Head(todo).size) THEN 0 ELSE Flushed(o)
     IN  /\ IF n > 0 THEN Leave(o, n, <<>>) ELSE Then(<<>>) /\ UNCHANGED <<bufLen, work, queue, result>>
         /\ total' = [total EXCEPT ![o] = @ + n]
  /\ UNCHANGED <<made, first, heads, open, parts, ending, unfinished, wpc, failed, unseen>>

\* The frame goes in by parts, and the whole blocks each part completes leave
CopyPart ==
  /\ At("copy")
  /\ LET o == Out
         n == PartThatFits(o, Head(todo).size)
         left == Head(todo).size - n
     IN  /\ made' = [made EXCEPT ![o] = @ + n]
         /\ bufLen' = [bufLen EXCEPT ![o] = @ + n]
         /\ Then(<<Step("out", o)>> \o IfAny(left > 0, <<Sizing("copy", o, left)>>))
  /\ UNCHANGED <<total, first, heads, fileVars, endVars, writeVars, unseen>>

\* What a part may be when a close, an open or a seek failed at its end: without its rest,
\* without its sizes, or with bytes lost that a close had still to write
Lacking(o, tail) == {Sized(tail, FALSE), Sized(work[o], TRUE), Sized(work[o], FALSE), [tail EXCEPT !.whole = FALSE]}

\* writeOutBuffer: the part of a WAV is ended, its rest appended by the mux thread itself,
\* its sizes written and the file renamed.  A write or the rename that fails is an
\* exception; what close, open and beforeFileCloseEvent return is not looked at, up to
\* the open of the next part, which is an exception again.
SplitWav ==
  /\ At("split")
  /\ LET o == Out
         tail == Put(work[o], made[o] - bufLen[o], made[o])
         all == Sized(tail, TRUE)
     IN  \/ /\ \E c \in {all} \cup (IF Faulty THEN Lacking(o, tail) ELSE {}) :
                 /\ parts' = [parts EXCEPT ![o] = Append(@, c)]
                 /\ unseen' = IF c = all THEN unseen ELSE unseen \cup {o}
            /\ work' = [work EXCEPT ![o] = EmptyAt(made[o])]
            /\ bufLen' = [bufLen EXCEPT ![o] = 0]
            /\ \/ /\ total' = [total EXCEPT ![o] = 0]
                  /\ first' = [first EXCEPT ![o] = TRUE]     \* setFirstFrame(true)
                  /\ Then(<<>>) /\ UNCHANGED <<open, result>>
               \/ /\ Faulty /\ Throw
                  /\ open' = open \ {o} /\ UNCHANGED <<total, first>>
         \/ /\ Faulty /\ Throw
            /\ open' \in {open, open \ {o}} /\ UNCHANGED <<bufLen, total, first, work, parts, unseen>>
  /\ UNCHANGED <<made, heads, ending, unfinished, writeVars>>

WaitForWriting ==
  /\ At("wait") /\ (Async => WriterIdle) /\ Then(<<>>)
  /\ UNCHANGED <<bufVars, fileVars, endVars, writeVars, unseen>>

\* What doMux does after its loop
EndOfSources ==
  /\ todo = <<>> /\ result = "running" /\ ~ending
  /\ ending' = TRUE
  /\ todo' = ForAll("flush") \o <<Step("wait", 1)>> \o ForAll("close")
             \o <<Step("wait", 1), Step("verdict", 1)>>
  /\ UNCHANGED <<bufVars, fileVars, unfinished, result, writeVars, unseen>>

\* doFlush: the whole units of every buffer leave
FlushOutput ==
  /\ At("flush") /\ Leave(Out, WholeUnits(bufLen[Out]), <<>>)
  /\ UNCHANGED <<made, total, first, heads, open, parts, ending, unfinished, wpc, failed, unseen>>

\* close: the rest is appended, the sizes are written and the last part of a split file gets
\* its name.  A close, an open or a seek that fails is noted and the next output comes; a
\* write or the rename that fails is an exception, and leaves the outputs behind it as they are.
CloseOutput ==
  /\ At("close")
  /\ LET o == Out
         tail == Put(work[o], made[o] - bufLen[o], made[o])
     IN  \/ /\ parts' = [parts EXCEPT ![o] = Append(@, Sized(tail, Outputs[o].wav))]
            /\ work' = [work EXCEPT ![o] = EmptyAt(made[o])]
            /\ bufLen' = [bufLen EXCEPT ![o] = 0]
            /\ open' = open \ {o}
            /\ Then(<<>>) /\ UNCHANGED <<unfinished, result>>
         \/ /\ Faulty /\ unfinished' = unfinished \cup {o}
            /\ todo' = NextClose /\ open' = open \ {o}
            /\ UNCHANGED <<bufLen, work, parts, result>>
         \/ /\ Faulty /\ Throw
            /\ open' \in {open, open \ {o}} /\ UNCHANGED <<bufLen, work, parts, unfinished>>
  /\ UNCHANGED <<made, total, first, heads, ending, writeVars, unseen>>

\* doMux ends: a failed write, then an output whose end could not be written, is an error
Verdict ==
  /\ At("verdict") /\ Then(<<>>)
  /\ result' = IF HasError THEN "failed" ELSE IF unfinished # {} THEN "unfinished" ELSE "ok"
  /\ UNCHANGED <<bufVars, fileVars, ending, unfinished, writeVars, unseen>>

MuxStep ==
  \/ PassOver \/ Frame \/ WriteOutBuffer \/ MakeRoom \/ CopyPart \/ SplitWav \/ WaitForWriting
  \/ FlushOutput \/ CloseOutput \/ Verdict

-----------------------------------------------------------------------------
(* The writer's thread: BufferedFileWriter::thread_main *)
writerLeaves == <<bufVars, open, parts, todo, endVars, unseen>>

\* A write to a file that is not open gives a result nobody looks at
WriterExecute ==
  /\ queue # <<>> /\ wpc = "exec" /\ wpc' = "pop"
  /\ LET w == Head(queue)
     IN  \/ /\ ~failed /\ UNCHANGED failed
            /\ work' = IF w.out \in open THEN [work EXCEPT ![w.out] = Put(@, w.from, w.to)] ELSE work
         \/ Faulty /\ ~failed /\ failed' = TRUE /\ UNCHANGED work
         \/ failed /\ UNCHANGED <<work, failed>>
  /\ UNCHANGED <<writerLeaves, queue>>
WriterPop ==
  /\ queue # <<>> /\ wpc = "pop" /\ wpc' = "exec" /\ queue' = Tail(queue)
  /\ UNCHANGED <<writerLeaves, work, failed>>
Writer == WriterExecute \/ WriterPop

Tracks == {Outputs[o].track : o \in Outs}
Done == result # "running" /\ queue = <<>> /\ UNCHANGED vars
Next ==
  \/ \E t \in Tracks, kind \in Kinds, n \in Sizes : MuxPacket(t, kind, n)
  \/ EndOfSources \/ MuxStep \/ Writer \/ Done

Spec == Init /\ [][Next]_vars

-----------------------------------------------------------------------------
(* Properties *)

Stretches == [from : Nat, to : Nat, whole : BOOLEAN, sized : BOOLEAN]
Steps == [op : {"frame", "out", "room", "copy", "wait", "split", "flush", "close", "verdict"},
          out : Outs, size : Nat]
Writes == [out : Outs, from : Nat, to : Nat]
TypeOK ==
  /\ made \in [Outs -> Nat] /\ bufLen \in [Outs -> Nat] /\ total \in [Outs -> Nat]
  /\ first \in [Outs -> BOOLEAN] /\ heads \in [Outs -> SUBSET Nat]
  /\ open \subseteq Outs
  /\ work \in [Outs -> Stretches] /\ parts \in [Outs -> Seq(Stretches)]
  /\ todo \in Seq(Steps)
  /\ ending \in BOOLEAN /\ failed \in BOOLEAN
  /\ unfinished \subseteq Outs /\ unseen \subseteq Outs
  /\ result \in {"running", "ok", "unfinished", "failed"}
  /\ queue \in Seq(Writes) /\ wpc \in {"exec", "pop"}

(* The buffer of an output is never overrun: not by what a codec puts in   *)
(* front of a frame, however much that is, nor by a frame larger than the  *)
(* buffer, nor by one that finds the rest of an earlier block in it.       *)
NoOverflow == \A o \in Outs : bufLen[o] <= Capacity

(* A file of the async mode is written unbuffered: every write handed to   *)
(* the thread is of whole units, whatever made it leave (Windows refuses   *)
(* any other).                                                             *)
UnitsOnly ==
  Async => \A i \in 1..Len(queue) : (queue[i].to - queue[i].from) % Unit = 0

\* The p-th finished part of o begins where the one before it ended
Begins(o, p) == IF p = 1 THEN 0 ELSE parts[o][p - 1].to

(* The parts of a file are valid and nothing is lost between them: each    *)
(* goes on where the one before ended, and a part of a WAV begins with its *)
(* one header, has its sizes written and is smaller than they can say.     *)
(* An output is left out for which a close, an open or a seek failed at a  *)
(* split: the code does not look at these.                                 *)
PartsValid ==
  ~failed => \A o \in Outs \ unseen : \A p \in 1..Len(parts[o]) :
    LET c == parts[o][p] IN
      /\ c.whole /\ c.from = Begins(o, p)
      /\ Outputs[o].wav =>
           /\ c.sized /\ c.to - c.from < RiffMax
           /\ c.to > c.from => heads[o] \cap c.from..(c.to - 1) = {c.from}

\* Every byte of the output is in its parts, and the sizes of a WAV are written
Whole(o) ==
  /\ parts[o] # <<>> /\ parts[o][Len(parts[o])].to = made[o]
  /\ \A p \in 1..Len(parts[o]) :
       LET c == parts[o][p] IN
         c.whole /\ c.from = Begins(o, p) /\ (Outputs[o].wav => c.sized)

\* A demux that is reported as complete has written every byte of every output.
SuccessIsWhole == result = "ok" => \A o \in Outs \ unseen : Whole(o)

\* When close comes to its end, an output it did not name as unfinished is whole.
OthersFinished == result = "unfinished" => \A o \in Outs \ (unseen \cup unfinished) : Whole(o)

(* What close says is true: a demux reported as complete has written every *)
(* byte of every output, so no failed write or rename is passed over and   *)
(* nothing that fails when the files are closed; and one output that could *)
(* not be finished keeps none of the others from being finished, unless an *)
(* exception ends the job.  Left out are the outputs for which a close, an *)
(* open or a seek failed at a split, as the code does not look at these.   *)
FinishedIsWhole == SuccessIsWhole /\ OthersFinished
=============================================================================

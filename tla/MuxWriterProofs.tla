--------------------------- MODULE MuxWriterProofs ---------------------------
(***************************************************************************)
(* Proofs about MuxWriter, for every size of block, unit, part and queue.  *)
(***************************************************************************)
EXTENDS MuxWriter, SequenceTheorems, TLAPS

USE DEF viewVars, partVars, holdVars, endVars, writeVars, diskVars, muxVars

-----------------------------------------------------------------------------
(* The steps the mux thread unfolds a call into *)

(* A view has another when there are two.                                  *)
LEMMA ViewsFact ==
  /\ "main" \in Views /\ (HasSub => "sub" \in Views)
  /\ Switcher \in Views
  /\ \A v \in Views : HasSub => Other(v) \in Views
BY MuxWriterAssumption DEF Views, Other

(* The first step of a list of steps is a step, the rest is a list.        *)
LEMMA HeadOfTodo ==
  ASSUME TypeOK, todo # <<>>
  PROVE  Head(todo) \in Steps /\ Tail(todo) \in Seq(Steps) /\ Head(todo).view \in Views
<1>1. Head(todo) \in Steps /\ Tail(todo) \in Seq(Steps)
  BY HeadTailProperties DEF TypeOK
<1>. QED  BY <1>1 DEF Steps

(* What a step is replaced with leaves a list of steps.                    *)
LEMMA ThenType ==
  ASSUME TypeOK, todo # <<>>, NEW steps \in Seq(Steps), Then(steps)
  PROVE  todo' \in Seq(Steps)
BY HeadOfTodo, ConcatProperties DEF Then

(* A list of blocks to be put out is a list of steps.                      *)
LEMMA PutAllType ==
  ASSUME NEW op \in {"put", "queue"}, NEW blocks \in Seq(Blocks)
  PROVE  PutAll(op, blocks) \in Seq(Steps)
<1>1. Len(blocks) \in Nat
  BY LenProperties
<1>2. \A i \in 1..Len(blocks) : PutStep(op, blocks[i]) \in Steps
  <2> TAKE i \in 1..Len(blocks)
  <2>1. blocks[i] \in Blocks
    BY ElementOfSeq
  <2>. QED  BY <2>1 DEF PutStep, Blocks, Steps
<1>3. PutAll(op, blocks) \in [1..Len(blocks) -> Steps]
  BY <1>2 DEF PutAll
<1>. QED  BY <1>1, <1>3

(* A packet, a stamp and a flush of a view are steps.                      *)
LEMMA TablesType ==
  ASSUME NEW v \in Views
  PROVE  Tables(v) \in Seq(Steps) /\ Flush(v) \in Seq(Steps)
<1>1. Step("packet", v) \in Steps /\ Step("stamp", v) \in Steps /\ Step("rest", v) \in Steps
  BY DEF Step, Steps
<1>2. /\ <<Step("packet", v)>> \in Seq(Steps)
      /\ <<Step("rest", v)>> \in Seq(Steps)
      /\ IfAny(M2ts, <<Step("stamp", v)>>) \in Seq(Steps)
  BY <1>1 DEF IfAny
<1>. QED  BY <1>2, ConcatProperties DEF Tables, Flush

(* A stretch of a view's packets is a block.                               *)
LEMMA BlockType ==
  ASSUME TypeOK, NEW v \in Views, NEW to \in Nat
  PROVE  Block(v, to) \in Blocks
<1>1. Len(firstOf[v]) \in Nat
  BY LenProperties DEF TypeOK
<1>. QED  BY <1>1 DEF Block, Blocks, Part, TypeOK

(* A write keeps the types of what is on the disk.                         *)
LEMMA WriteType ==
  ASSUME TypeOK, NEW b \in Blocks, Write(b)
  PROVE  disk' \in Seq(Blocks) /\ lost' \subseteq Blocks
<1>1. disk \in Seq(Blocks) /\ lost \subseteq Blocks
  BY DEF TypeOK
<1>2. Append(disk, b) \in Seq(Blocks)
  BY <1>1, AppendProperties
<1>. QED  BY <1>1, <1>2 DEF Write

-----------------------------------------------------------------------------
(* Type correctness *)

(* Most steps change little but the list of steps.                         *)
LEMMA TodoOnly ==
  ASSUME TypeOK, todo' \in Seq(Steps), ending' \in BOOLEAN, held' \in Seq(Blocks),
         given' \in [Views -> Nat],
         UNCHANGED <<made, sent, stamped, delayBlk, processed, partVars, finished, closedOk,
                     result, queue, writeVars, diskVars>>
  PROVE  TypeOK'
BY ZenonT(120) DEF TypeOK

(* At the start nothing is made and every view has its first file open.    *)
LEMMA InitTypeOK == Init => TypeOK
<1> SUFFICES ASSUME Init PROVE TypeOK
  OBVIOUS
<1>1. /\ given \in [Views -> Nat] /\ made = given /\ sent = given /\ stamped = given
      /\ processed = given
      /\ unit \in [Views -> Nat]
      /\ \A v \in Views : given[v] = 0
  BY DEF Init
<1>2. <<1>> \in Seq(Nat)
  OBVIOUS
<1>3. delayBlk \in [Views -> Seq(Blocks)] /\ firstOf \in [Views -> Seq(Nat)]
  BY <1>2, EmptySeq DEF Init
<1>4. open \subseteq Views \X Nat
  BY DEF Init
<1>5. Len(queue) < QueueMax
  BY MuxWriterAssumption DEF Init
<1>6. \A v \in Views : sent[v] <= made[v] /\ stamped[v] <= made[v]
  BY <1>1
<1>7. <<>> \in Seq(Blocks) /\ <<>> \in Seq(Steps) /\ <<>> \in Seq(Blocks \cup {Sentinel})
  BY EmptySeq
<1>8. /\ held = <<>> /\ finished = {} /\ todo = <<>> /\ ending = FALSE /\ closedOk = TRUE
      /\ result = "running" /\ queue = <<>> /\ wpc = "test" /\ failed = FALSE
      /\ td = "no" /\ term = FALSE /\ disk = <<>> /\ lost = {}
  BY DEF Init
<1>. QED  BY <1>1, <1>3, <1>4, <1>5, <1>6, <1>7, <1>8 DEF TypeOK

(* What the end of doMux unfolds into is a list of steps.                  *)
LEMMA EndOfSourcesType == TypeOK /\ EndOfSources => TypeOK'
<1> SUFFICES ASSUME TypeOK, EndOfSources PROVE TypeOK'
  OBVIOUS
<1> DEFINE Closing == <<Step("heldOut", "main"), Step("wait", "main"), Step("close", "main")>>
           Last == <<Step("wait", "main"), Step("verdict", "main")>>
           First == IfAny(HasSub, Flush("sub"))
           CloseSub == IfAny(HasSub, <<Step("close", "sub")>>)
<1>1. Closing \in Seq(Steps) /\ Last \in Seq(Steps)
  BY ViewsFact DEF Step, Steps
<1>2. First \in Seq(Steps) /\ CloseSub \in Seq(Steps) /\ Flush("main") \in Seq(Steps)
  <2>1. CASE HasSub
    <3>1. Step("close", "sub") \in Steps
      BY <2>1, ViewsFact DEF Step, Steps
    <3>. QED  BY <2>1, <3>1, ViewsFact, TablesType DEF IfAny
  <2>2. CASE ~HasSub
    BY <2>2, ViewsFact, TablesType DEF IfAny
  <2>. QED  BY <2>1, <2>2
<1>3. First \o Flush("main") \o Closing \o CloseSub \o Last \in Seq(Steps)
  <2> HIDE DEF Closing, Last, First, CloseSub
  <2>1. First \o Flush("main") \in Seq(Steps)
    BY <1>2, ConcatProperties
  <2>2. First \o Flush("main") \o Closing \in Seq(Steps)
    BY <1>1, <2>1, ConcatProperties
  <2>3. First \o Flush("main") \o Closing \o CloseSub \in Seq(Steps)
    BY <1>2, <2>2, ConcatProperties
  <2>. QED  BY <1>1, <2>3, ConcatProperties
<1>4. todo' \in Seq(Steps)
  BY <1>3 DEF EndOfSources
<1>5. given' \in [Views -> Nat] /\ held' \in Seq(Blocks) /\ ending' \in BOOLEAN
  BY DEF EndOfSources, TypeOK
<1>. QED  BY <1>4, <1>5, TodoOnly DEF EndOfSources

(* A packet handed to a muxer: its tables when it is the first, then       *)
(* itself.                                                                 *)
LEMMA MuxPacketType ==
  ASSUME TypeOK, NEW v \in Views, MuxPacket(v)
  PROVE  TypeOK'
<1>1. IfAny(given[v] = 0, Tables(v)) \in Seq(Steps)
  BY TablesType, EmptySeq DEF IfAny
<1>2. <<Step("switch", v), Step("packet", v)>> \in Seq(Steps)
  BY DEF Step, Steps
<1>3. todo' \in Seq(Steps)
  BY <1>1, <1>2, ConcatProperties DEF MuxPacket
<1>4. given' \in [Views -> Nat] /\ held' \in Seq(Blocks) /\ ending' \in BOOLEAN
  BY SMTT(30) DEF MuxPacket, TypeOK
<1>5. UNCHANGED <<made, sent, stamped, delayBlk, processed, partVars, holdVars,
                  endVars, queue, writeVars, diskVars>>
  BY DEF MuxPacket
<1>. QED  BY <1>3, <1>4, <1>5, TodoOnly

(* Where a packet begins a part or a unit, or a PCR is due.                *)
LEMMA SwitchBlockType == TypeOK /\ SwitchBlock => TypeOK'
<1> SUFFICES ASSUME TypeOK, SwitchBlock PROVE TypeOK'
  OBVIOUS
<1>1. todo # <<>> /\ Head(todo).view \in Views
  BY HeadOfTodo DEF SwitchBlock, At
<1> DEFINE v == Head(todo).view
<1>2. /\ <<Finish(v, TRUE, TRUE)>> \in Seq(Steps)
      /\ <<Finish(v, FALSE, TRUE)>> \in Seq(Steps)
      /\ <<>> \in Seq(Steps)
  BY <1>1, EmptySeq DEF Finish, Steps
<1>3. \E s \in Seq(Steps) : Then(s)
  BY <1>1, <1>2, TablesType DEF SwitchBlock
<1>4. todo' \in Seq(Steps)
  BY <1>1, <1>3, ThenType
<1>5. UNCHANGED <<viewVars, partVars, holdVars, endVars, queue, writeVars, diskVars>>
  BY DEF SwitchBlock
<1>6. given' \in [Views -> Nat] /\ held' \in Seq(Blocks) /\ ending' \in BOOLEAN
  BY <1>5 DEF TypeOK
<1>. QED  BY <1>4, <1>5, <1>6, TodoOnly

(* A packet in m_outBuf, and the block it fills.                           *)
LEMMA AddPacketType == TypeOK /\ AddPacket => TypeOK'
<1> SUFFICES ASSUME TypeOK, AddPacket PROVE TypeOK'
  OBVIOUS
<1>1. todo # <<>> /\ Head(todo).view \in Views
  BY HeadOfTodo DEF AddPacket, At
<1> DEFINE v == Head(todo).view
           n == made[v] + 1
           b == Block(v, n)
           full == n - sent[v] = BlockLimit
<1>2. n \in Nat /\ b \in Blocks
  <2>1. n \in Nat
    BY <1>1 DEF TypeOK
  <2>. QED  BY <1>1, <2>1, BlockType
<1>3. IfAny(full /\ MayGoOut(v, n), <<PutStep("put", b)>>) \in Seq(Steps)
  <2>1. PutStep("put", b) \in Steps
    BY <1>2 DEF PutStep, Blocks, Steps
  <2>. QED  BY <2>1, EmptySeq DEF IfAny
<1>4. todo' \in Seq(Steps)
  BY <1>1, <1>3, ThenType DEF AddPacket
<1>5. delayBlk' \in [Views -> Seq(Blocks)]
  <2>1. Append(delayBlk[v], b) \in Seq(Blocks)
    BY <1>1, <1>2, AppendProperties DEF TypeOK
  <2>. QED  BY <1>1, <2>1 DEF AddPacket, TypeOK
<1>6. /\ made' \in [Views -> Nat] /\ sent' \in [Views -> Nat] /\ processed' \in [Views -> Nat]
      /\ \A w \in Views : sent'[w] <= made'[w] /\ stamped[w] <= made'[w]
  <2>1. /\ made' = [made EXCEPT ![v] = n]
        /\ processed' = [processed EXCEPT ![v] = @ + 1]
        /\ sent' = IF full THEN [sent EXCEPT ![v] = n] ELSE sent
    BY DEF AddPacket
  <2> HIDE DEF full, n, v
  <2>2. /\ v \in Views /\ n \in Nat
        /\ made \in [Views -> Nat] /\ sent \in [Views -> Nat] /\ processed \in [Views -> Nat]
        /\ \A w \in Views : sent[w] <= made[w] /\ stamped[w] <= made[w] /\ stamped[w] \in Nat
    BY <1>1, <1>2 DEF v, TypeOK
  <2>3. n = made[v] + 1
    BY DEF n
  <2>4. /\ made' \in [Views -> Nat] /\ processed' \in [Views -> Nat]
        /\ sent' \in [Views -> Nat]
    BY <2>1, <2>2
  <2>5. \A w \in Views : made[w] <= made'[w]
    BY <2>1, <2>2, <2>3
  <2>6. \A w \in Views : sent'[w] <= made'[w]
    BY <2>1, <2>2, <2>3
  <2>. QED  BY <2>2, <2>4, <2>5, <2>6
<1>. QED  BY ZenonT(120), <1>4, <1>5, <1>6 DEF AddPacket, TypeOK

(* The arrival times of all packets so far, and the blocks that waited.    *)
LEMMA StampType == TypeOK /\ Stamp => TypeOK'
<1> SUFFICES ASSUME TypeOK, Stamp PROVE TypeOK'
  OBVIOUS
<1>1. todo # <<>> /\ Head(todo).view \in Views
  BY HeadOfTodo DEF Stamp, At
<1>2. PutAll("put", delayBlk[Head(todo).view]) \in Seq(Steps)
  BY <1>1, PutAllType DEF TypeOK
<1>3. todo' \in Seq(Steps)
  BY <1>1, <1>2, ThenType DEF Stamp
<1>4. delayBlk' \in [Views -> Seq(Blocks)]
  BY <1>1, EmptySeq DEF Stamp, TypeOK
<1>5. stamped' \in [Views -> Nat] /\ \A w \in Views : stamped'[w] <= made[w]
  BY <1>1 DEF Stamp, TypeOK
<1>. QED  BY ZenonT(120), <1>3, <1>4, <1>5 DEF Stamp, TypeOK

(* The end of doFlush.                                                     *)
LEMMA FlushRestType == TypeOK /\ FlushRest => TypeOK'
<1> SUFFICES ASSUME TypeOK, FlushRest PROVE TypeOK'
  OBVIOUS
<1>1. todo # <<>> /\ Head(todo).view \in Views
  BY HeadOfTodo DEF FlushRest, At
<1> DEFINE v == Head(todo).view
<1>2. PICK to \in IF M2ts THEN {made[v]} ELSE sent[v]..made[v] :
        /\ sent' = [sent EXCEPT ![v] = to]
        /\ Then(<<PutStep("put", Block(v, to))>>)
  BY DEF FlushRest
<1>3. to \in Nat /\ to <= made[v]
  BY SMTT(30), <1>1 DEF TypeOK
<1>4. <<PutStep("put", Block(v, to))>> \in Seq(Steps)
  <2>1. Block(v, to) \in Blocks
    BY <1>1, <1>3, BlockType
  <2>2. PutStep("put", Block(v, to)) \in Steps
    BY <2>1 DEF PutStep, Blocks, Steps
  <2>. QED  BY <2>2
<1>5. todo' \in Seq(Steps)
  BY <1>1, <1>2, <1>4, ThenType
<1>6. sent' \in [Views -> Nat] /\ \A w \in Views : sent'[w] <= made[w]
  BY <1>1, <1>2, <1>3 DEF TypeOK
<1>. QED  BY ZenonT(120), <1>5, <1>6 DEF FlushRest, TypeOK

(* What a step carries: a block when it puts one out, two flags when a     *)
(* unit or a part ends.                                                    *)
LEMMA StepCarries ==
  ASSUME TypeOK, todo # <<>>
  PROVE  /\ Head(todo).op \in {"put", "queue"} => Head(todo).blk \in Blocks
         /\ Head(todo).op = "finish" => /\ Head(todo).change \in BOOLEAN
                                        /\ Head(todo).recursive \in BOOLEAN
BY HeadOfTodo DEF Steps

(* A block that is queued, held back or dropped by an exception: the wait  *)
(* of asyncWriteBlock keeps the queue below its limit.                     *)
LEMMA PutBlockType == TypeOK /\ PutBlock => TypeOK'
<1> SUFFICES ASSUME TypeOK, PutBlock PROVE TypeOK'
  OBVIOUS
<1>1. todo # <<>> /\ Head(todo).blk \in Blocks
  BY StepCarries DEF PutBlock, At
<1> DEFINE b == Head(todo).blk
<1>2. <<>> \in Seq(Steps) /\ todo \in Seq(Steps)
  BY EmptySeq DEF TypeOK
<1>3. /\ queue \in Seq(Blocks \cup {Sentinel}) /\ Len(queue) \in Nat
      /\ Append(queue, b) \in Seq(Blocks \cup {Sentinel})
      /\ Len(Append(queue, b)) = Len(queue) + 1
  <2>1. queue \in Seq(Blocks \cup {Sentinel}) /\ b \in Blocks \cup {Sentinel}
    BY <1>1 DEF TypeOK
  <2>. QED  BY <2>1, AppendProperties, LenProperties
<1>4. Append(held, b) \in Seq(Blocks)
  BY <1>1, AppendProperties DEF TypeOK
<1>5. CASE AsyncWriteBlock(b)
  <2>1. queue' \in Seq(Blocks \cup {Sentinel}) /\ Len(queue') < QueueMax
    <3>1. /\ WaitAbove \in Nat /\ QueueMax \in Nat /\ WaitAbove + 1 < QueueMax
          /\ Len(queue) <= WaitAbove
      BY <1>5, MuxWriterAssumption DEF AsyncWriteBlock, RoomInQueue
    <3>2. queue' = queue \/ queue' = Append(queue, b)
      BY <1>5 DEF AsyncWriteBlock
    <3>. QED  BY <1>3, <3>1, <3>2
  <2>2. todo' \in Seq(Steps)
    <3>1. Then(<<>>) \/ todo' = <<>>
      BY <1>5 DEF AsyncWriteBlock, Throw
    <3>. QED  BY <1>1, <1>2, <3>1, ThenType
  <2>3. result' \in {"running", "ok", "failed"} /\ held' = held
    BY <1>5 DEF AsyncWriteBlock, Throw, TypeOK
  <2>. QED  BY ZenonT(120), <2>1, <2>2, <2>3 DEF PutBlock, TypeOK
<1>6. CASE held' = Append(held, b) /\ Then(<<>>) /\ UNCHANGED <<queue, result>>
  <2>1. todo' \in Seq(Steps)
    BY <1>1, <1>2, <1>6, ThenType
  <2>2. UNCHANGED <<viewVars, partVars, finished, ending, closedOk, writeVars, diskVars>>
    BY DEF PutBlock
  <2>3. given' \in [Views -> Nat] /\ ending' \in BOOLEAN
    BY <2>2 DEF TypeOK
  <2>. QED  BY <1>4, <1>6, <2>1, <2>2, <2>3, TodoOnly
<1>. QED  BY <1>5, <1>6 DEF PutBlock, AsyncWriteBuffer

(* The end of a unit or a part, and of the other view's with it.           *)
LEMMA FinishFileBlockType == TypeOK /\ FinishFileBlock => TypeOK'
<1> SUFFICES ASSUME TypeOK, FinishFileBlock PROVE TypeOK'
  OBVIOUS
<1> DEFINE f == Head(todo)
           v == f.view
           before == OtherFirst(v, f.change, f.recursive)
           other == <<Finish(Other(v), f.change, FALSE)>>
           tail == IfAny(~M2ts, <<Step("tail", v)>>)
           flush == Flush(v) \o <<Step("blockDone", v)>> \o tail
           first == IfAny(processed[v] > 0, flush)
           second == IfAny(before, other)
           third == IfAny(f.change, <<Step("next", v)>>)
           last == IfAny(HasSub /\ f.recursive /\ ~before, other)
<1>1. /\ todo # <<>> /\ v \in Views
      /\ f.change \in BOOLEAN /\ f.recursive \in BOOLEAN
  BY HeadOfTodo, StepCarries DEF FinishFileBlock, At
<1>2. Then(first \o second \o third \o Tables(v) \o last)
  BY DEF FinishFileBlock
<1>3. <<>> \in Seq(Steps)
  BY EmptySeq
<1>4. HasSub => other \in Seq(Steps)
  BY <1>1, ViewsFact DEF Finish, Steps
<1>5. before => HasSub
  BY DEF OtherFirst
<1>6. second \in Seq(Steps) /\ last \in Seq(Steps)
  <2> HIDE DEF other, before, v, f
  <2>. QED  BY <1>3, <1>4, <1>5 DEF IfAny
<1>7. third \in Seq(Steps) /\ tail \in Seq(Steps) /\ <<Step("blockDone", v)>> \in Seq(Steps)
  <2>1. /\ Step("next", v) \in Steps /\ Step("tail", v) \in Steps
        /\ Step("blockDone", v) \in Steps
    BY <1>1 DEF Step, Steps
  <2>. QED  BY <1>3, <2>1 DEF IfAny
<1>8. first \in Seq(Steps)
  <2> HIDE DEF tail, v
  <2>1. Flush(v) \o <<Step("blockDone", v)>> \in Seq(Steps)
    BY <1>1, <1>7, TablesType, ConcatProperties
  <2>2. flush \in Seq(Steps)
    BY <1>7, <2>1, ConcatProperties
  <2> HIDE DEF flush
  <2>. QED  BY <1>3, <2>2 DEF IfAny
<1>9. first \o second \o third \o Tables(v) \o last \in Seq(Steps)
  <2> HIDE DEF first, second, third, last, v
  <2>1. first \o second \in Seq(Steps)
    BY <1>6, <1>8, ConcatProperties
  <2>2. first \o second \o third \in Seq(Steps)
    BY <1>7, <2>1, ConcatProperties
  <2>3. first \o second \o third \o Tables(v) \in Seq(Steps)
    BY <1>1, <2>2, TablesType, ConcatProperties
  <2>. QED  BY <1>6, <2>3, ConcatProperties
<1>10. todo' \in Seq(Steps)
  BY <1>1, <1>2, <1>9, ThenType
<1>11. UNCHANGED <<viewVars, partVars, holdVars, endVars, queue, writeVars, diskVars>>
  BY DEF FinishFileBlock
<1>12. given' \in [Views -> Nat] /\ held' \in Seq(Blocks) /\ ending' \in BOOLEAN
  BY <1>11 DEF TypeOK
<1>. QED  BY <1>10, <1>11, <1>12, TodoOnly

(* The unit of a view is over, and the blocks held back for it go out.     *)
LEMMA MuxBlockFinishedType == TypeOK /\ MuxBlockFinished => TypeOK'
<1> SUFFICES ASSUME TypeOK, MuxBlockFinished PROVE TypeOK'
  OBVIOUS
<1>1. todo # <<>> /\ Head(todo).view \in Views
  BY HeadOfTodo DEF MuxBlockFinished, At
<1>2. held \in Seq(Blocks) /\ <<>> \in Seq(Blocks) /\ <<>> \in Seq(Steps)
  BY EmptySeq DEF TypeOK
<1>3. PutAll("queue", held) \in Seq(Steps)
  BY <1>2, PutAllType
<1>4. \E s \in Seq(Steps) : Then(s)
  BY <1>2, <1>3 DEF MuxBlockFinished
<1>5. todo' \in Seq(Steps)
  BY <1>1, <1>4, ThenType
<1>6. held' \in Seq(Blocks) /\ finished' \subseteq Views
  BY <1>1, <1>2 DEF MuxBlockFinished, AfterRelease, TypeOK
<1>7. processed' \in [Views -> Nat] /\ unit' \in [Views -> Nat]
  <2> DEFINE v == Head(todo).view
  <2>1. v \in Views /\ processed \in [Views -> Nat] /\ unit \in [Views -> Nat]
    BY <1>1 DEF TypeOK
  <2>2. /\ processed' = [processed EXCEPT ![v] = 0]
        /\ unit' = [unit EXCEPT ![v] = @ + 1]
    BY DEF MuxBlockFinished
  <2> HIDE DEF v
  <2>. QED  BY <2>1, <2>2
<1>8. UNCHANGED <<given, made, sent, stamped, delayBlk, firstOf, open, endVars, queue,
                  writeVars, diskVars>>
  BY DEF MuxBlockFinished
<1>. QED  BY ZenonT(120), <1>5, <1>6, <1>7, <1>8 DEF TypeOK

(* The mux thread appends what doFlush left; a write may throw.            *)
LEMMA FlushTSBufferType == TypeOK /\ FlushTSBuffer => TypeOK'
<1> SUFFICES ASSUME TypeOK, FlushTSBuffer PROVE TypeOK'
  OBVIOUS
<1>1. todo # <<>> /\ Head(todo).view \in Views
  BY HeadOfTodo DEF FlushTSBuffer, At
<1> DEFINE v == Head(todo).view
<1>2. <<>> \in Seq(Steps)
  BY EmptySeq
<1>3. UNCHANGED <<given, made, stamped, delayBlk, processed, unit, firstOf, holdVars,
                  ending, closedOk, queue, writeVars>>
  BY DEF FlushTSBuffer
<1>4. todo' \in Seq(Steps)
  <2>1. Then(<<>>) \/ todo' = <<>>
    BY DEF FlushTSBuffer, Throw
  <2>. QED  BY <1>1, <1>2, <2>1, ThenType
<1>5. open' \subseteq Views \X Nat /\ result' \in {"running", "ok", "failed"}
  BY DEF FlushTSBuffer, Throw, TypeOK
<1>6. sent' = [sent EXCEPT ![v] = made[v]] \/ sent' = sent
  BY DEF FlushTSBuffer
<1>7. sent' \in [Views -> Nat] /\ \A w \in Views : sent'[w] <= made[w]
  <2>1. /\ v \in Views /\ made \in [Views -> Nat] /\ sent \in [Views -> Nat]
        /\ \A w \in Views : sent[w] <= made[w]
    BY <1>1 DEF TypeOK
  <2> HIDE DEF v
  <2>. QED  BY <1>6, <2>1
<1>8. disk' \in Seq(Blocks) /\ lost' \subseteq Blocks
  <2>1. Block(v, made[v]) \in Blocks
    <3>1. made[v] \in Nat
      BY <1>1 DEF TypeOK
    <3>. QED  BY <1>1, <3>1, BlockType
  <2>2. Write(Block(v, made[v])) \/ UNCHANGED diskVars
    BY DEF FlushTSBuffer
  <2>3. CASE Write(Block(v, made[v]))
    BY <2>1, <2>3, WriteType
  <2>4. CASE UNCHANGED diskVars
    BY <2>4 DEF TypeOK
  <2>. QED  BY <2>2, <2>3, <2>4
<1>. QED  BY ZenonT(120), <1>3, <1>4, <1>5, <1>7, <1>8 DEF TypeOK

(* The next file of a view is opened, or the opening throws.               *)
LEMMA GotoNextFileType == TypeOK /\ GotoNextFile => TypeOK'
<1> SUFFICES ASSUME TypeOK, GotoNextFile PROVE TypeOK'
  OBVIOUS
<1>1. todo # <<>> /\ Head(todo).view \in Views
  BY HeadOfTodo DEF GotoNextFile, At
<1> DEFINE v == Head(todo).view
<1>2. <<>> \in Seq(Steps)
  BY EmptySeq
<1>3. UNCHANGED <<viewVars, unit, holdVars, ending, closedOk, queue, writeVars, diskVars>>
  BY DEF GotoNextFile
<1>4. todo' \in Seq(Steps)
  <2>1. Then(<<>>) \/ todo' = <<>>
    BY DEF GotoNextFile, Throw
  <2>. QED  BY <1>1, <1>2, <2>1, ThenType
<1>5. result' \in {"running", "ok", "failed"}
  BY DEF GotoNextFile, Throw, TypeOK
<1>6. /\ made[v] + 1 \in Nat /\ firstOf[v] \in Seq(Nat)
      /\ Part(v) + 1 \in Nat
  <2>1. made[v] \in Nat /\ firstOf[v] \in Seq(Nat)
    BY <1>1 DEF TypeOK
  <2>2. Len(firstOf[v]) \in Nat
    BY <2>1, LenProperties
  <2>. QED  BY <2>1, <2>2 DEF Part
<1>7. open' \subseteq Views \X Nat
  BY SMTT(30), <1>1, <1>6 DEF GotoNextFile, TypeOK
<1>8. firstOf' \in [Views -> Seq(Nat)]
  <2>1. Append(firstOf[v], made[v] + 1) \in Seq(Nat)
    BY <1>6, AppendProperties
  <2>. QED  BY ZenonT(120), <1>1, <2>1 DEF GotoNextFile, TypeOK
<1>. QED  BY ZenonT(120), <1>3, <1>4, <1>5, <1>7, <1>8 DEF TypeOK

(* The blocks still held back, the wait for the writer and the verdict.    *)
LEMMA EndOfMuxType == TypeOK /\ (HeldOut \/ WaitForWriting \/ Verdict) => TypeOK'
<1> SUFFICES ASSUME TypeOK, HeldOut \/ WaitForWriting \/ Verdict PROVE TypeOK'
  OBVIOUS
<1>1. todo # <<>> /\ <<>> \in Seq(Steps)
  BY EmptySeq DEF HeldOut, WaitForWriting, Verdict, At
<1>2. CASE HeldOut
  <2>1. PutAll("queue", held) \in Seq(Steps)
    BY PutAllType DEF TypeOK
  <2>2. todo' \in Seq(Steps)
    BY <1>1, <1>2, <2>1, ThenType DEF HeldOut
  <2>. QED  BY <1>2, <2>2, TodoOnly DEF HeldOut, TypeOK
<1>3. CASE WaitForWriting
  <2>1. todo' \in Seq(Steps)
    BY <1>1, <1>3, ThenType DEF WaitForWriting
  <2>. QED  BY <1>3, <2>1, TodoOnly DEF WaitForWriting, TypeOK
<1>4. CASE Verdict
  BY ZenonT(120), <1>1, <1>4 DEF Verdict, TypeOK
<1>. QED  BY <1>2, <1>3, <1>4

(* The end of a muxer: its tail is appended, its file closed.              *)
LEMMA CloseMuxerType == TypeOK /\ CloseMuxer => TypeOK'
<1> SUFFICES ASSUME TypeOK, CloseMuxer PROVE TypeOK'
  OBVIOUS
<1>1. todo # <<>> /\ Head(todo).view \in Views
  BY HeadOfTodo DEF CloseMuxer, At
<1> DEFINE v == Head(todo).view
<1>2. <<>> \in Seq(Steps)
  BY EmptySeq
<1>3. UNCHANGED <<given, made, stamped, delayBlk, processed, unit, firstOf, holdVars,
                  ending, queue, writeVars>>
  BY DEF CloseMuxer
<1>4. todo' \in Seq(Steps)
  <2>1. Then(<<>>) \/ todo' = <<>>
    BY DEF CloseMuxer, Throw
  <2>. QED  BY <1>1, <1>2, <2>1, ThenType
<1>5. /\ open' \subseteq Views \X Nat /\ closedOk' \in BOOLEAN
      /\ result' \in {"running", "ok", "failed"}
  BY DEF CloseMuxer, Throw, TypeOK
<1>6. sent' = [sent EXCEPT ![v] = made[v]] \/ sent' = sent
  BY DEF CloseMuxer
<1>7. sent' \in [Views -> Nat] /\ \A w \in Views : sent'[w] <= made[w]
  <2>1. /\ v \in Views /\ made \in [Views -> Nat] /\ sent \in [Views -> Nat]
        /\ \A w \in Views : sent[w] <= made[w]
    BY <1>1 DEF TypeOK
  <2> HIDE DEF v
  <2>. QED  BY <1>6, <2>1
<1>8. disk' \in Seq(Blocks) /\ lost' \subseteq Blocks
  <2>1. Block(v, made[v]) \in Blocks
    <3>1. made[v] \in Nat
      BY <1>1 DEF TypeOK
    <3>. QED  BY <1>1, <3>1, BlockType
  <2>2. Write(Block(v, made[v])) \/ UNCHANGED diskVars
    BY DEF CloseMuxer
  <2>3. CASE Write(Block(v, made[v]))
    BY <2>1, <2>3, WriteType
  <2>4. CASE UNCHANGED diskVars
    BY <2>4 DEF TypeOK
  <2>. QED  BY <2>2, <2>3, <2>4
<1>. QED  BY <1>3, <1>4, <1>5, <1>7, <1>8 DEF TypeOK

-----------------------------------------------------------------------------
(* The writer *)

(* The queue loses its first block.                                        *)
LEMMA TailOfQueue ==
  ASSUME TypeOK, queue # <<>>
  PROVE  /\ Head(queue) \in Blocks \cup {Sentinel}
         /\ Tail(queue) \in Seq(Blocks \cup {Sentinel})
         /\ Len(Tail(queue)) = Len(queue) - 1 /\ Len(queue) \in Nat
<1>1. queue \in Seq(Blocks \cup {Sentinel})
  BY DEF TypeOK
<1>. QED  BY <1>1, HeadTailProperties, LenProperties

(* What is written is a block.                                             *)
LEMMA ExecuteType ==
  ASSUME TypeOK, queue # <<>>, Execute(Head(queue)) \/ UNCHANGED diskVars
  PROVE  disk' \in Seq(Blocks) /\ lost' \subseteq Blocks
<1> DEFINE b == Head(queue)
<1>1. CASE UNCHANGED diskVars
  BY <1>1 DEF TypeOK
<1>2. CASE b \in Blocks /\ Write(b)
  BY <1>2, WriteType
<1>. QED  BY <1>1, <1>2, TailOfQueue DEF Execute

(* The writer's thread finds a block where it expects one, for it takes    *)
(* blocks out only after they are written.                                 *)
LEMMA WriterThreadType == TypeOK /\ WriterInv /\ WriterThread => TypeOK'
<1> SUFFICES ASSUME TypeOK, WriterInv, WriterThread PROVE TypeOK'
  OBVIOUS
<1>1. CASE WriterTest
  BY ZenonT(120), <1>1 DEF WriterTest, TypeOK
<1>2. CASE WriterPeek
  BY <1>2 DEF WriterPeek, TypeOK
<1>3. CASE WriterExecute
  <2>1. queue # <<>>
    BY <1>3 DEF WriterExecute, WriterInv, IdleMeansIdle
  <2>2. disk' \in Seq(Blocks) /\ lost' \subseteq Blocks
    <3>1. Execute(Head(queue)) \/ UNCHANGED diskVars
      BY <1>3 DEF WriterExecute
    <3>. QED  BY <2>1, <3>1, ExecuteType
  <2>3. failed' \in BOOLEAN /\ wpc' = "pop"
    BY <1>3 DEF WriterExecute, AfterExecute, TypeOK
  <2>4. UNCHANGED <<muxVars, queue, td, term>>
    BY <1>3 DEF WriterExecute
  <2>. QED  BY <2>2, <2>3, <2>4 DEF TypeOK
<1>4. CASE WriterPop
  <2>1. queue # <<>>
    BY <1>4 DEF WriterPop, WriterInv, IdleMeansIdle
  <2>2. queue' \in Seq(Blocks \cup {Sentinel}) /\ Len(queue') <= Len(queue)
    BY <1>4, <2>1, TailOfQueue DEF WriterPop
  <2>3. td \in {"no", "push"} => Len(queue') < QueueMax
    <3>1. QueueMax \in Nat /\ Len(queue) \in Nat /\ Len(queue') \in Nat
      BY <2>1, <2>2, TailOfQueue, LenProperties, MuxWriterAssumption
    <3>. QED  BY <2>2, <3>1 DEF TypeOK
  <2>4. wpc' = "test" /\ UNCHANGED <<muxVars, failed, td, term, diskVars>>
    BY <1>4 DEF WriterPop
  <2>. QED  BY <2>2, <2>3, <2>4 DEF TypeOK
<1>. QED  BY <1>1, <1>2, <1>3, <1>4 DEF WriterThread

(* The destructor leaves the queue a queue.                                *)
LEMMA TearDownType == TypeOK /\ TearDown => TypeOK'
<1> SUFFICES ASSUME TypeOK, TearDown PROVE TypeOK'
  OBVIOUS
<1>1. CASE Terminate
  BY <1>1 DEF Terminate, TypeOK
<1>2. CASE PushSentinel
  <2>1. Append(queue, Sentinel) \in Seq(Blocks \cup {Sentinel})
    BY AppendProperties DEF TypeOK
  <2>. QED  BY <1>2, <2>1 DEF PushSentinel, TypeOK
<1>3. CASE Join
  BY <1>3 DEF Join, TypeOK
<1>4. CASE Drain
  <2>1. queue # <<>> /\ (Execute(Head(queue)) \/ UNCHANGED diskVars)
    BY <1>4 DEF Drain
  <2>2. disk' \in Seq(Blocks) /\ lost' \subseteq Blocks
    BY <2>1, ExecuteType
  <2>3. queue' \in Seq(Blocks \cup {Sentinel})
    BY <1>4, <2>1, TailOfQueue DEF Drain
  <2>. QED  BY <1>4, <2>2, <2>3 DEF Drain, TypeOK
<1>5. CASE DestroyMuxers
  BY <1>5 DEF DestroyMuxers, TypeOK
<1>. QED  BY <1>1, <1>2, <1>3, <1>4, <1>5 DEF TearDown

(* Every step keeps the types.                                             *)
LEMMA NextTypeOK == TypeOK /\ WriterInv /\ [Next]_vars => TypeOK'
<1> SUFFICES ASSUME TypeOK, WriterInv, [Next]_vars PROVE TypeOK'
  OBVIOUS
<1>1. ASSUME NEW v \in Views, MuxPacket(v) PROVE TypeOK'
  BY <1>1, MuxPacketType
<1>2. CASE Stop
  BY <1>2 DEF Stop, TypeOK
<1>3. CASE MuxStep
  BY <1>3, SwitchBlockType, AddPacketType, StampType, FlushRestType, PutBlockType,
     FinishFileBlockType, MuxBlockFinishedType, FlushTSBufferType, GotoNextFileType,
     EndOfMuxType, CloseMuxerType DEF MuxStep
<1>4. CASE UNCHANGED vars
  <2>1. UNCHANGED <<viewVars, partVars, holdVars, closedOk, result, queue, writeVars,
                    diskVars>>
    BY <1>4 DEF vars
  <2>2. todo' = todo /\ ending' = ending
    BY <1>4 DEF vars
  <2>. QED  BY <2>1, <2>2, TodoOnly DEF TypeOK
<1>. QED  BY <1>1, <1>2, <1>3, <1>4, EndOfSourcesType, WriterThreadType, TearDownType
          DEF Next, AllDone

-----------------------------------------------------------------------------
(* Why the queue is bounded and empty only when the writer is idle *)

(* At the start the queue is empty and the job has not ended.              *)
LEMMA InitWriterInv == Init => WriterInv
BY MuxWriterAssumption
   DEF Init, WriterInv, JobOver, TearDownAfterJob, QueueBound, DrainAfterThread, IdleMeansIdle

(* A step of the mux thread that queues nothing keeps the writer's         *)
(* invariant, if the list of its steps is empty when it ends the job.      *)
LEMMA NoQueueing ==
  ASSUME WriterInv, result = "running", UNCHANGED <<queue, writeVars>>,
         result' # "running" => todo' = <<>>
  PROVE  WriterInv'
BY DEF WriterInv, JobOver, TearDownAfterJob, QueueBound, DrainAfterThread, IdleMeansIdle

(* The mux thread has steps to take only while the job runs, and queues a  *)
(* block only when there is room.                                          *)
LEMMA MuxStepWriterInv == TypeOK /\ WriterInv /\ MuxStep => WriterInv'
<1> SUFFICES ASSUME TypeOK, WriterInv, MuxStep PROVE WriterInv'
  OBVIOUS
<1>1. result = "running"
  BY DEF WriterInv, JobOver, MuxStep, SwitchBlock, AddPacket, Stamp, FlushRest, PutBlock,
     FinishFileBlock, MuxBlockFinished, FlushTSBuffer, GotoNextFile, HeldOut,
     WaitForWriting, CloseMuxer, Verdict, At
<1>2. CASE SwitchBlock \/ AddPacket \/ Stamp \/ FlushRest
  BY <1>1, <1>2, NoQueueing DEF SwitchBlock, AddPacket, Stamp, FlushRest
<1>3. CASE FinishFileBlock \/ MuxBlockFinished \/ HeldOut \/ WaitForWriting
  BY <1>1, <1>3, NoQueueing DEF FinishFileBlock, MuxBlockFinished, HeldOut, WaitForWriting
<1>4. CASE FlushTSBuffer
  BY <1>1, <1>4, NoQueueing DEF FlushTSBuffer, Throw
<1>5. CASE GotoNextFile
  BY <1>1, <1>5, NoQueueing DEF GotoNextFile, Throw
<1>6. CASE CloseMuxer
  BY <1>1, <1>6, NoQueueing DEF CloseMuxer, Throw
<1>7. CASE Verdict
  BY <1>1, <1>7, NoQueueing DEF Verdict
<1>8. CASE PutBlock
  <2> DEFINE b == Head(todo).blk
  <2>1. UNCHANGED writeVars /\ (AsyncWriteBlock(b) \/ UNCHANGED <<queue, result>>)
    BY <1>8 DEF PutBlock, AsyncWriteBuffer
  <2>2. CASE UNCHANGED <<queue, result>>
    BY <1>1, <2>1, <2>2, NoQueueing
  <2>3. CASE AsyncWriteBlock(b)
    <3>1. CASE queue' = queue
      BY <1>1, <2>1, <2>3, <3>1, NoQueueing DEF AsyncWriteBlock, Throw
    <3>2. CASE queue' = Append(queue, b)
      <4>1. /\ Len(queue) \in Nat /\ Len(queue) <= WaitAbove
            /\ queue' # <<>> /\ Len(queue') = Len(queue) + 1
        <5>1. b \in Blocks \cup {Sentinel} /\ queue \in Seq(Blocks \cup {Sentinel})
          BY <1>8, StepCarries DEF PutBlock, At, TypeOK
        <5>. QED  BY <2>3, <3>2, <5>1, AppendProperties, LenProperties
                  DEF AsyncWriteBlock, RoomInQueue
      <4>2. Len(queue') <= WaitAbove + 1
        <5>1. WaitAbove \in Nat
          BY MuxWriterAssumption
        <5>. QED  BY <4>1, <5>1
      <4>3. result' # "running" => todo' = <<>>
        BY <1>1, <2>3 DEF AsyncWriteBlock, Throw
      <4>. QED  BY <1>1, <2>1, <4>1, <4>2, <4>3 DEF WriterInv, JobOver, TearDownAfterJob,
                   QueueBound, DrainAfterThread, IdleMeansIdle
    <3>. QED  BY <2>3, <3>1, <3>2 DEF AsyncWriteBlock
  <2>. QED  BY <2>1, <2>2, <2>3
<1>. QED  BY <1>2, <1>3, <1>4, <1>5, <1>6, <1>7, <1>8 DEF MuxStep

(* The writer takes a block out of the queue only after it wrote it, and   *)
(* goes for the next one after a look at m_terminated.                     *)
LEMMA WriterThreadInv == TypeOK /\ WriterInv /\ WriterThread => WriterInv'
<1> SUFFICES ASSUME TypeOK, WriterInv, WriterThread PROVE WriterInv'
  OBVIOUS
<1> USE DEF WriterInv, JobOver, TearDownAfterJob, QueueBound, DrainAfterThread, IdleMeansIdle
<1>1. CASE WriterTest
  BY <1>1 DEF WriterTest
<1>2. CASE WriterPeek
  BY <1>2 DEF WriterPeek
<1>3. CASE WriterExecute
  BY <1>3 DEF WriterExecute, AfterExecute
<1>4. CASE WriterPop
  <2>1. queue # <<>>
    BY <1>4 DEF WriterPop
  <2>2. Len(queue') = Len(queue) - 1 /\ Len(queue) \in Nat /\ WaitAbove \in Nat
    BY <1>4, <2>1, TailOfQueue, MuxWriterAssumption DEF WriterPop
  <2>. QED  BY <1>4, <2>2 DEF WriterPop
<1>. QED  BY <1>1, <1>2, <1>3, <1>4 DEF WriterThread

(* The destructor drains the queue only when the thread has ended.         *)
LEMMA TearDownInv == TypeOK /\ WriterInv /\ TearDown => WriterInv'
<1> SUFFICES ASSUME TypeOK, WriterInv, TearDown PROVE WriterInv'
  OBVIOUS
<1> USE DEF WriterInv, JobOver, TearDownAfterJob, QueueBound, DrainAfterThread, IdleMeansIdle
<1>1. CASE Terminate
  BY <1>1 DEF Terminate
<1>2. CASE PushSentinel
  <2>1. queue' = queue \/ queue' # <<>>
    <3>1. Append(queue, Sentinel) # <<>>
      BY AppendProperties DEF TypeOK
    <3>. QED  BY <1>2, <3>1 DEF PushSentinel
  <2>. QED  BY <1>2, <2>1 DEF PushSentinel
<1>3. CASE Join
  BY <1>3 DEF Join
<1>4. CASE Drain
  BY <1>4 DEF Drain
<1>5. CASE DestroyMuxers
  BY <1>5 DEF DestroyMuxers
<1>. QED  BY <1>1, <1>2, <1>3, <1>4, <1>5 DEF TearDown

(* Every step keeps the writer's invariant.                                *)
LEMMA NextWriterInv == TypeOK /\ WriterInv /\ [Next]_vars => WriterInv'
<1> SUFFICES ASSUME TypeOK, WriterInv, [Next]_vars PROVE WriterInv'
  OBVIOUS
<1>1. ASSUME NEW v \in Views, MuxPacket(v) PROVE WriterInv'
  BY <1>1, NoQueueing DEF MuxPacket
<1>2. CASE EndOfSources
  BY <1>2, NoQueueing DEF EndOfSources
<1>3. CASE Stop
  BY <1>3, NoQueueing DEF Stop
<1>4. CASE UNCHANGED vars
  BY <1>4 DEF vars, WriterInv, JobOver, TearDownAfterJob, QueueBound, DrainAfterThread,
     IdleMeansIdle
<1>. QED  BY <1>1, <1>2, <1>3, <1>4, MuxStepWriterInv, WriterThreadInv, TearDownInv
          DEF Next, AllDone

(* TypeOK and WriterInv need each other: the queue stays below its limit   *)
(* for QueueBound, and what the writer takes is a block for IdleMeansIdle. *)
LEMMA MuxInductive == Spec => [](TypeOK /\ WriterInv)
<1>1. Init => TypeOK /\ WriterInv
  BY InitTypeOK, InitWriterInv
<1>2. TypeOK /\ WriterInv /\ [Next]_vars => TypeOK' /\ WriterInv'
  BY NextTypeOK, NextWriterInv
<1>. QED  BY <1>1, <1>2, PTL DEF Spec

(* In every state of the muxer and its writer every variable holds a value *)
(* of its kind; the write queue in particular never reaches the limit at   *)
(* which SafeQueue::push drops a block in silence, whatever the sizes.     *)
THEOREM MuxTypeCorrect == Spec => []TypeOK
BY MuxInductive, PTL

(* An empty write queue means that the writer has nothing in its hand, so  *)
(* that a file may be closed after waitForWriting; nothing is queued after *)
(* the job's end, and the destructor's drain never runs beside the thread. *)
THEOREM WriterCorrect == Spec => []WriterInv
BY MuxInductive, PTL
=============================================================================

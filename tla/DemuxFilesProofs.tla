--------------------------- MODULE DemuxFilesProofs ---------------------------
(***************************************************************************)
(* Theorems about DemuxFiles, for every number of outputs and every size   *)
(* of unit, block and packet, with the thread and without it: the types,   *)
(* that no buffer is overrun, that the thread is handed whole units only;  *)
(* and, but for the outputs that lost something at a split where nobody    *)
(* looked, that a demux reported as complete has written every byte, that  *)
(* one output that cannot be finished leaves the others whole, and that    *)
(* the parts of a file are valid.                                          *)
(***************************************************************************)
EXTENDS DemuxFiles, TLAPS

(* The buffer holds less than a block but while the step that takes the    *)
(* block out is next.                                                      *)
BlockGoes ==
  \A o \in Outs : bufLen[o] >= BlockSize =>
    IF todo = <<>> THEN result # "running" ELSE Head(todo).op = "out" /\ Head(todo).out = o
WithinMade == \A o \in Outs : bufLen[o] <= made[o]
Inv == TypeOK /\ NoOverflow /\ UnitsOnly /\ WithinMade /\ BlockGoes

-----------------------------------------------------------------------------
LEMMA Sizing1 ==
  /\ Unit \in Nat /\ Unit > 0 /\ BlockSize \in Nat /\ BlockSize > 0
  /\ MaxPacket \in Nat /\ AddData \in Nat /\ HeaderSize \in Nat /\ HeaderSize <= AddData
  /\ MaxPacket + AddData < Unit /\ Unit <= BlockSize
  /\ BlockSize % Unit = 0
  /\ Capacity \in Nat /\ Capacity = BlockSize + MaxPacket + AddData /\ Capacity < 2 * BlockSize
<1>1. /\ Unit \in Nat /\ Unit > 0 /\ BlockSize \in Nat /\ BlockSize > 0
      /\ MaxPacket \in Nat /\ AddData \in Nat /\ HeaderSize \in Nat /\ HeaderSize <= AddData
      /\ MaxPacket + AddData < Unit /\ BlockSize % Unit = 0
  BY DemuxFilesAssumption
<1>2. Unit <= BlockSize
  <2> SUFFICES ASSUME BlockSize < Unit PROVE FALSE
    BY <1>1
  <2>1. BlockSize % Unit = BlockSize
    BY <1>1
  <2> QED BY <1>1, <2>1
<1>3. Capacity \in Nat /\ Capacity = BlockSize + MaxPacket + AddData
  BY <1>1 DEF Capacity
<1>4. Capacity < 2 * BlockSize
  BY <1>1, <1>2, <1>3
<1> QED BY <1>1, <1>2, <1>3, <1>4

LEMMA OutputTypes ==
  /\ Len(Outputs) \in Nat /\ Outs = 1..Len(Outputs)
  /\ \A o \in Outs : Outputs[o].wav \in BOOLEAN
<1> DEFINE R == [track : Nat, takes : SUBSET Kinds, wav : BOOLEAN]
<1>1. Outputs \in Seq(R)
  BY DemuxFilesAssumption
<1>2. \A o \in 1..Len(Outputs) : Outputs[o] \in R
  <2> HIDE DEF R
  <2> QED BY <1>1
<1>3. Len(Outputs) \in Nat
  BY <1>1
<1> QED BY <1>2, <1>3 DEF Outs

(* WholeUnits takes whole units only, and no more than there is.           *)
LEMMA UnitsOfWhole ==
  ASSUME NEW n \in Nat
  PROVE  WholeUnits(n) \in 0..n /\ WholeUnits(n) % Unit = 0
<1>1. Unit \in Nat \ {0}
  BY Sizing1
<1>2. n \div Unit \in Nat /\ n - (n % Unit) = Unit * (n \div Unit)
  BY <1>1
<1>3. (Unit * (n \div Unit)) % Unit = 0
  BY <1>1, <1>2
<1>4. n - (n % Unit) \in 0..n
  BY <1>1
<1> QED BY <1>2, <1>3, <1>4 DEF WholeUnits

LEMMA StretchTypes ==
  ASSUME NEW c \in Stretches, NEW from \in Nat, NEW to \in Nat
  PROVE  /\ Put(c, from, to) \in Stretches
         /\ EmptyAt(from) \in Stretches
         /\ \A b \in BOOLEAN : Sized(c, b) \in Stretches
BY DEF Stretches, Put, EmptyAt, Sized

(* What a step puts in front of the steps that are left.                   *)
LEMMA ThenSteps ==
  ASSUME todo \in Seq(Steps), todo # <<>>, NEW steps \in Seq(Steps), Then(steps)
  PROVE  /\ todo' \in Seq(Steps)
         /\ steps # <<>> => todo' # <<>> /\ Head(todo') = Head(steps)
BY DEF Then

LEMMA StepTypes ==
  ASSUME NEW o \in Outs
  PROVE  \A op \in {"frame", "out", "room", "copy", "wait", "split", "flush", "close", "verdict"} :
           /\ Step(op, o) \in Steps
           /\ \A n \in Nat : Sizing(op, o, n) \in Steps
BY DEF Step, Sizing, Steps

LEMMA OutInOuts ==
  ASSUME TypeOK, NEW op, At(op)
  PROVE  todo # <<>> /\ Out \in Outs /\ Head(todo).size \in Nat /\ Head(todo).op = op
<1>1. todo # <<>> /\ Head(todo).op = op /\ todo \in Seq(Steps)
  BY DEF At, TypeOK
<1>2. Head(todo) \in Steps
  BY <1>1
<1> QED BY <1>1, <1>2 DEF Out, Steps

(* While no block is due on it, an output holds less than a block.         *)
LEMMA LessThanBlock ==
  ASSUME Inv, NEW o \in Outs, IF todo = <<>> THEN result = "running" ELSE Head(todo).op # "out"
  PROVE  bufLen[o] \in Nat /\ bufLen[o] < BlockSize
BY Sizing1 DEF Inv, TypeOK, BlockGoes

LEMMA InvInit == Init => Inv
<1> SUFFICES ASSUME Init PROVE Inv
  OBVIOUS
<1>1. EmptyAt(0) \in Stretches
  BY DEF EmptyAt, Stretches
<1>2. /\ made \in [Outs -> Nat] /\ bufLen \in [Outs -> Nat] /\ total \in [Outs -> Nat]
      /\ first \in [Outs -> BOOLEAN] /\ heads \in [Outs -> SUBSET Nat]
  BY DEF Init
<1>3. work \in [Outs -> Stretches] /\ parts \in [Outs -> Seq(Stretches)]
  BY <1>1 DEF Init
<1>4. todo \in Seq(Steps) /\ queue \in Seq(Writes)
  BY DEF Init
<1>5. TypeOK
  BY <1>2, <1>3, <1>4 DEF Init, TypeOK
<1>6. UnitsOnly
  BY DEF Init, UnitsOnly
<1>7. NoOverflow /\ WithinMade /\ BlockGoes
  BY Sizing1 DEF Init, NoOverflow, WithinMade, BlockGoes
<1> QED BY <1>5, <1>6, <1>7 DEF Inv

-----------------------------------------------------------------------------
LEMMA Appended ==
  ASSUME NEW S, NEW s \in Seq(S), NEW w \in S, NEW t, t = Append(s, w)
  PROVE  /\ t \in Seq(S)
         /\ \A i \in 1..Len(t) : t[i] = w \/ (i \in 1..Len(s) /\ t[i] = s[i])
<1>1. t \in Seq(S) /\ Len(t) = Len(s) + 1 /\ Len(s) \in Nat
  OBVIOUS
<1>2. t[Len(s) + 1] = w
  OBVIOUS
<1>3. \A i \in 1..Len(s) : t[i] = s[i]
  OBVIOUS
<1>4. \A i \in 1..Len(t) : i = Len(s) + 1 \/ i \in 1..Len(s)
  BY <1>1
<1>5. ASSUME NEW i \in 1..Len(t)
      PROVE  t[i] = w \/ (i \in 1..Len(s) /\ t[i] = s[i])
  <2>1. CASE i = Len(s) + 1
    BY <1>2, <2>1
  <2>2. CASE i \in 1..Len(s)
    BY <1>3, <2>2
  <2> QED BY <1>4, <2>1, <2>2
<1> QED BY <1>1, <1>5

(* The numbers of an output in a state of Inv.                             *)
LEMMA Numbers ==
  ASSUME Inv
  PROVE  /\ TypeOK /\ UnitsOnly /\ BlockGoes
         /\ \A o \in Outs : /\ bufLen[o] \in Nat /\ made[o] \in Nat /\ total[o] \in Nat
                            /\ bufLen[o] <= Capacity /\ bufLen[o] <= made[o]
<1>1. TypeOK /\ UnitsOnly /\ BlockGoes /\ NoOverflow /\ WithinMade
  BY DEF Inv
<1> QED BY <1>1 DEF TypeOK, NoOverflow, WithinMade

(* What leaves a buffer: the rest stays, and the thread is given n bytes.  *)
LEMMA LeaveKeeps ==
  ASSUME Inv, NEW o \in Outs, NEW n \in 0..bufLen[o], Async => n % Unit = 0,
         NEW steps \in Seq(Steps), todo # <<>>, Leave(o, n, steps)
  PROVE  /\ bufLen' \in [Outs -> Nat] /\ \A p \in Outs : bufLen'[p] <= bufLen[p]
         /\ work' \in [Outs -> Stretches] /\ queue' \in Seq(Writes) /\ todo' \in Seq(Steps)
         /\ \/ Throw
            \/ result' = result /\ bufLen' = [bufLen EXCEPT ![o] = @ - n] /\ Then(steps)
         /\ UnitsOnly'
<1>1. TypeOK /\ UnitsOnly /\ bufLen[o] <= made[o] /\ bufLen[o] \in Nat /\ made[o] \in Nat
  BY DEF Inv, WithinMade, TypeOK
<1> DEFINE at == made[o] - bufLen[o]
<1>2. at \in Nat /\ at + n \in Nat /\ (at + n) - at = n
  BY <1>1
<1>3. CASE bufLen' = [bufLen EXCEPT ![o] = @ - n] /\ Then(steps) /\ UNCHANGED result
           /\ IF Async THEN queue' = Append(queue, [out |-> o, from |-> at, to |-> at + n]) /\ UNCHANGED work
                        ELSE work' = [work EXCEPT ![o] = Put(@, at, at + n)] /\ UNCHANGED queue
  <2>1. bufLen' \in [Outs -> Nat] /\ \A p \in Outs : bufLen'[p] <= bufLen[p]
    BY <1>1, <1>3 DEF TypeOK
  <2>2. todo' \in Seq(Steps)
    BY <1>1, <1>3, ThenSteps DEF TypeOK
  <2>3. work' \in [Outs -> Stretches]
    <3>1. work[o] \in Stretches
      BY <1>1 DEF TypeOK
    <3>2. Put(work[o], at, at + n) \in Stretches
      BY <1>2, <3>1, StretchTypes
    <3> QED BY <1>1, <1>3, <3>2 DEF TypeOK
  <2>4. queue' \in Seq(Writes) /\ UnitsOnly'
    <3>1. CASE ~Async
      BY <1>1, <1>3, <3>1 DEF TypeOK, UnitsOnly
    <3>2. CASE Async
      <4> DEFINE w == [out |-> o, from |-> at, to |-> at + n]
      <4>1. w \in Writes /\ (w.to - w.from) % Unit = 0
        BY <1>2, <3>2 DEF Writes
      <4>2. queue' = Append(queue, w) /\ queue \in Seq(Writes)
        BY <1>1, <1>3, <3>2 DEF TypeOK
      <4>3. \A i \in 1..Len(queue) : (queue[i].to - queue[i].from) % Unit = 0
        BY <1>1, <3>2 DEF UnitsOnly
      <4> HIDE DEF w
      <4>4. /\ queue' \in Seq(Writes)
            /\ \A i \in 1..Len(queue') : queue'[i] = w \/ (i \in 1..Len(queue) /\ queue'[i] = queue[i])
        BY <4>1, <4>2, Appended
      <4> QED BY <4>1, <4>3, <4>4 DEF UnitsOnly
    <3> QED BY <3>1, <3>2
  <2> QED BY <1>3, <2>1, <2>2, <2>3, <2>4
<1>4. CASE Throw /\ UNCHANGED <<bufLen, work, queue>>
  BY <1>1, <1>4 DEF Throw, TypeOK, UnitsOnly
<1> QED BY <1>3, <1>4 DEF Leave

LEMMA StepSeqs ==
  ASSUME NEW s \in Steps, NEW t \in Steps, NEW c \in BOOLEAN
  PROVE  /\ <<>> \in Seq(Steps) /\ <<s>> \in Seq(Steps)
         /\ IfAny(c, <<s>>) \in Seq(Steps)
         /\ IfAny(c, <<s>>) \o <<t>> \in Seq(Steps)
         /\ <<t>> \o IfAny(c, <<s>>) \in Seq(Steps)
         /\ Head(<<t>> \o IfAny(c, <<s>>)) = t /\ <<t>> \o IfAny(c, <<s>>) # <<>>
BY DEF IfAny

LEMMA WriteOutBufferKeeps == Inv /\ WriteOutBuffer => Inv'
<1> SUFFICES ASSUME Inv, WriteOutBuffer PROVE Inv'
  OBVIOUS
<1> DEFINE o == Out
           n == IF BlockDue(o) THEN BlockSize ELSE 0
           steps == IfAny(SplitDue(o, n), IfAny(Async, <<Step("wait", o)>>) \o <<Step("split", o)>>)
<1>1. /\ TypeOK /\ todo # <<>> /\ o \in Outs /\ Head(todo).op = "out"
      /\ bufLen[o] \in Nat /\ bufLen[o] <= Capacity
  BY OutInOuts DEF WriteOutBuffer, At, Inv, NoOverflow, TypeOK
<1>2. n \in 0..bufLen[o] /\ n % Unit = 0 /\ bufLen[o] - n < BlockSize
  <2>1. 0 % Unit = 0
    BY Sizing1
  <2> QED BY <1>1, <2>1, Sizing1 DEF BlockDue
<1>3. steps \in Seq(Steps)
  <2>1. Step("wait", o) \in Steps /\ Step("split", o) \in Steps
    BY <1>1, StepTypes
  <2>2. Async \in BOOLEAN
    BY DemuxFilesAssumption
  <2>3. IfAny(Async, <<Step("wait", o)>>) \o <<Step("split", o)>> \in Seq(Steps)
    BY <2>1, <2>2, StepSeqs
  <2> QED BY <2>3 DEF IfAny
<1> HIDE DEF steps
<1>4. /\ bufLen' \in [Outs -> Nat] /\ \A p \in Outs : bufLen'[p] <= bufLen[p]
      /\ work' \in [Outs -> Stretches] /\ queue' \in Seq(Writes) /\ todo' \in Seq(Steps)
      /\ UnitsOnly'
      /\ Throw \/ (result' = result /\ bufLen' = [bufLen EXCEPT ![o] = @ - n])
  <2>1. CASE n > 0
    <3>1. Leave(o, n, steps)
      BY <2>1 DEF WriteOutBuffer, steps
    <3> QED BY <1>1, <1>2, <1>3, <3>1, LeaveKeeps
  <2>2. CASE ~(n > 0)
    <3>1. Then(steps) /\ UNCHANGED <<bufLen, work, queue, result>>
      BY <2>2 DEF WriteOutBuffer, steps
    <3>2. n = 0
      BY <1>2, <2>2
    <3>3. todo' \in Seq(Steps)
      BY <1>1, <1>3, <3>1, ThenSteps DEF TypeOK
    <3>4. bufLen' = [bufLen EXCEPT ![o] = @ - n]
      BY <1>1, <3>1, <3>2 DEF TypeOK
    <3>5. UnitsOnly'
      BY <3>1, Numbers DEF UnitsOnly
    <3>6. \A p \in Outs : bufLen'[p] <= bufLen[p]
      BY <3>1, Numbers
    <3> QED BY <1>1, <3>1, <3>3, <3>4, <3>5, <3>6 DEF TypeOK
  <2> QED BY <2>1, <2>2
<1>5. TypeOK'
  <2>1. total' \in [Outs -> Nat]
    <3>1. total' = [total EXCEPT ![o] = @ + n]
      BY DEF WriteOutBuffer
    <3> QED BY <1>1, <1>2, <3>1 DEF TypeOK
  <2>2. result' \in {"running", "ok", "unfinished", "failed"}
    BY <1>1, <1>4 DEF TypeOK, Throw
  <2>3. UNCHANGED <<made, first, heads, open, parts, ending, unfinished, wpc, failed, unseen>>
    BY DEF WriteOutBuffer
  <2> QED BY <1>1, <1>4, <2>1, <2>2, <2>3 DEF TypeOK
<1>6. NoOverflow' /\ WithinMade'
  <2>1. \A p \in Outs : bufLen'[p] \in Nat /\ bufLen'[p] <= bufLen[p] /\ made'[p] = made[p]
    BY <1>4 DEF WriteOutBuffer
  <2> QED BY <2>1, Numbers, Sizing1 DEF NoOverflow, WithinMade
<1>7. BlockGoes'
  <2> SUFFICES ASSUME NEW p \in Outs, ~Throw PROVE bufLen'[p] < BlockSize
    <3>1. \A p \in Outs : bufLen'[p] \in Nat
      BY <1>4
    <3> QED BY <3>1, Sizing1 DEF BlockGoes, Throw
  <2>1. bufLen' = [bufLen EXCEPT ![o] = @ - n]
    BY <1>4
  <2>2. CASE p = o
    BY <1>1, <1>2, <2>1, <2>2 DEF TypeOK
  <2>3. CASE p # o
    <3>1. bufLen[p] < BlockSize
      BY <1>1, <2>1, <2>3, Sizing1, Numbers DEF BlockGoes, Out
    <3> QED BY <1>1, <2>1, <2>3, <3>1 DEF TypeOK
  <2> QED BY <2>2, <2>3
<1> QED BY <1>4, <1>5, <1>6, <1>7 DEF Inv

-----------------------------------------------------------------------------
(* A step of the mux thread that finds no block due and leaves no more     *)
(* than it found in any buffer.                                            *)
Quiet == IF todo = <<>> THEN result = "running" ELSE Head(todo).op # "out"
LEMMA LessLeft ==
  ASSUME Inv, TypeOK', UnitsOnly', made' = made,
         \A p \in Outs : bufLen'[p] <= bufLen[p],
         Quiet \/ Throw
  PROVE  Inv'
<1>1. \A p \in Outs : bufLen'[p] \in Nat /\ bufLen[p] \in Nat /\ made'[p] = made[p]
  <2>1. bufLen' \in [Outs -> Nat]
    BY DEF TypeOK
  <2> QED BY <2>1, Numbers
<1>2. NoOverflow' /\ WithinMade'
  <2>1. ASSUME NEW p \in Outs PROVE bufLen'[p] <= Capacity /\ bufLen'[p] <= made'[p]
    <3>1. bufLen[p] <= Capacity /\ bufLen[p] <= made[p] /\ made[p] \in Nat
      BY Numbers
    <3>2. bufLen'[p] <= bufLen[p]
      OBVIOUS
    <3> QED BY <1>1, <3>1, <3>2, Sizing1
  <2> QED BY <2>1 DEF NoOverflow, WithinMade
<1>3. CASE Quiet
  <2>1. ASSUME NEW p \in Outs PROVE bufLen'[p] < BlockSize
    <3>1. bufLen[p] < BlockSize
      BY <1>3, LessThanBlock DEF Quiet
    <3> QED BY <1>1, <3>1, Sizing1
  <2>2. BlockGoes'
    BY <1>1, <2>1, Sizing1 DEF BlockGoes
  <2> QED BY <1>2, <2>2 DEF Inv
<1>4. CASE Throw
  <2>1. BlockGoes'
    BY <1>4 DEF Throw, BlockGoes
  <2> QED BY <1>2, <2>1 DEF Inv
<1> QED BY <1>3, <1>4

LEMMA MakeRoomKeeps == Inv /\ MakeRoom => Inv'
<1> SUFFICES ASSUME Inv, MakeRoom PROVE Inv'
  OBVIOUS
<1> DEFINE o == Out
           n == IF RoomFor(o, Head(todo).size) THEN 0 ELSE Flushed(o)
<1>1. TypeOK /\ todo # <<>> /\ o \in Outs /\ Head(todo).op = "room" /\ bufLen[o] \in Nat
  BY OutInOuts, Numbers DEF MakeRoom, At
<1>2. n \in 0..bufLen[o] /\ (Async => n % Unit = 0)
  <2>1. 0 % Unit = 0
    BY Sizing1
  <2>2. WholeUnits(bufLen[o]) \in 0..bufLen[o] /\ WholeUnits(bufLen[o]) % Unit = 0
    BY <1>1, UnitsOfWhole
  <2>3. Flushed(o) \in 0..bufLen[o] /\ (Async => Flushed(o) % Unit = 0)
    BY <1>1, <2>2 DEF Flushed
  <2> QED BY <1>1, <2>1, <2>3
<1>3. <<>> \in Seq(Steps)
  OBVIOUS
<1>4. /\ bufLen' \in [Outs -> Nat] /\ \A p \in Outs : bufLen'[p] <= bufLen[p]
      /\ work' \in [Outs -> Stretches] /\ queue' \in Seq(Writes) /\ todo' \in Seq(Steps)
      /\ UnitsOnly'
      /\ Throw \/ result' = result
  <2>1. CASE n > 0
    <3>1. Leave(o, n, <<>>)
      BY <2>1 DEF MakeRoom
    <3> HIDE DEF n
    <3> QED BY <1>1, <1>2, <1>3, <3>1, LeaveKeeps
  <2>2. CASE ~(n > 0)
    <3>1. Then(<<>>) /\ UNCHANGED <<bufLen, work, queue, result>>
      BY <2>2 DEF MakeRoom
    <3>2. todo' \in Seq(Steps)
      BY <1>1, <1>3, <3>1, ThenSteps DEF TypeOK
    <3>3. UnitsOnly' /\ \A p \in Outs : bufLen'[p] <= bufLen[p]
      BY <3>1, Numbers DEF UnitsOnly
    <3> QED BY <1>1, <3>1, <3>2, <3>3 DEF TypeOK
  <2> QED BY <2>1, <2>2
<1>5. TypeOK'
  <2>1. total' \in [Outs -> Nat]
    <3>1. total' = [total EXCEPT ![o] = @ + n] /\ n \in Nat
      BY <1>1, <1>2 DEF MakeRoom
    <3> HIDE DEF n
    <3> QED BY <1>1, <3>1 DEF TypeOK
  <2>2. UNCHANGED <<made, first, heads, open, parts, ending, unfinished, wpc, failed, unseen>>
    BY DEF MakeRoom
  <2>3. result' \in {"running", "ok", "unfinished", "failed"}
    BY <1>1, <1>4 DEF TypeOK, Throw
  <2> QED BY <1>1, <1>4, <2>1, <2>2, <2>3 DEF TypeOK
<1>6. made' = made
  BY DEF MakeRoom
<1>7. Quiet
  BY <1>1 DEF Quiet
<1> QED BY <1>4, <1>5, <1>6, <1>7, LessLeft

LEMMA FlushOutputKeeps == Inv /\ FlushOutput => Inv'
<1> SUFFICES ASSUME Inv, FlushOutput PROVE Inv'
  OBVIOUS
<1> DEFINE n == WholeUnits(bufLen[Out])
<1>1. TypeOK /\ todo # <<>> /\ Out \in Outs /\ Head(todo).op = "flush" /\ bufLen[Out] \in Nat
  BY OutInOuts, Numbers DEF FlushOutput, At
<1>2. n \in 0..bufLen[Out] /\ n % Unit = 0
  BY <1>1, UnitsOfWhole
<1>3. Leave(Out, n, <<>>) /\ <<>> \in Seq(Steps)
  BY DEF FlushOutput
<1> HIDE DEF n
<1>4. /\ bufLen' \in [Outs -> Nat] /\ \A p \in Outs : bufLen'[p] <= bufLen[p]
      /\ work' \in [Outs -> Stretches] /\ queue' \in Seq(Writes) /\ todo' \in Seq(Steps)
      /\ UnitsOnly'
      /\ Throw \/ result' = result
  BY <1>1, <1>2, <1>3, LeaveKeeps
<1>5. UNCHANGED <<made, total, first, heads, open, parts, ending, unfinished, wpc, failed, unseen>>
  BY DEF FlushOutput
<1>6. TypeOK'
  BY <1>1, <1>4, <1>5 DEF TypeOK, Throw
<1>7. Quiet
  BY <1>1 DEF Quiet
<1> QED BY <1>4, <1>5, <1>6, <1>7, LessLeft

-----------------------------------------------------------------------------
(* Steps that leave the buffers and the files as they are.                 *)
LEMMA PlanKeeps ==
  ASSUME Inv, UNCHANGED <<bufVars, fileVars, queue, wpc, failed>>,
         todo' \in Seq(Steps), ending' \in BOOLEAN, unfinished' \subseteq Outs, unseen' \subseteq Outs,
         result' \in {"running", "ok", "unfinished", "failed"},
         Quiet
  PROVE  Inv'
<1>1. TypeOK /\ UnitsOnly
  BY Numbers
<1>2. TypeOK'
  BY <1>1 DEF TypeOK, bufVars, fileVars
<1>3. UnitsOnly'
  BY <1>1 DEF UnitsOnly
<1>4. made' = made /\ \A p \in Outs : bufLen'[p] <= bufLen[p]
  BY Numbers DEF bufVars
<1> QED BY <1>2, <1>3, <1>4, LessLeft

LEMMA MuxPacketKeeps ==
  ASSUME Inv, NEW t, NEW kind, NEW n \in Sizes, MuxPacket(t, kind, n)
  PROVE  Inv'
<1>1. TypeOK /\ n \in Nat
  BY Numbers, DemuxFilesAssumption
<1>2. todo' \in Seq(Steps)
  <2>1. todo' = [o \in Outs |-> Sizing("frame", o, IF o \in Takers(t, kind) THEN n ELSE 0)]
    BY DEF MuxPacket
  <2>2. \A o \in Outs : Sizing("frame", o, IF o \in Takers(t, kind) THEN n ELSE 0) \in Steps
    BY <1>1, StepTypes
  <2> QED BY <2>1, <2>2, OutputTypes
<1>3. UNCHANGED <<bufVars, fileVars, endVars, writeVars, unseen>> /\ todo = <<>> /\ result = "running"
  BY DEF MuxPacket
<1> QED BY <1>1, <1>2, <1>3, PlanKeeps DEF endVars, writeVars, TypeOK, Quiet

LEMMA PassOverKeeps == Inv /\ (PassOver \/ WaitForWriting) => Inv'
<1> SUFFICES ASSUME Inv, PassOver \/ WaitForWriting PROVE Inv'
  OBVIOUS
<1>1. /\ TypeOK /\ todo # <<>> /\ Head(todo).op # "out" /\ Then(<<>>)
      /\ UNCHANGED <<bufVars, fileVars, endVars, writeVars, unseen>>
  BY Numbers DEF PassOver, WaitForWriting, At
<1>2. todo' \in Seq(Steps)
  <2>1. <<>> \in Seq(Steps)
    OBVIOUS
  <2> QED BY <1>1, <2>1, ThenSteps DEF TypeOK
<1> QED BY <1>1, <1>2, PlanKeeps DEF endVars, writeVars, TypeOK, Quiet

LEMMA ForAllSteps ==
  ASSUME NEW op \in {"flush", "close"}
  PROVE  ForAll(op) \in Seq(Steps)
BY OutputTypes, StepTypes DEF ForAll

LEMMA EndKeeps == Inv /\ EndOfSources => Inv'
<1> SUFFICES ASSUME Inv, EndOfSources PROVE Inv'
  OBVIOUS
<1>1. /\ TypeOK /\ todo = <<>> /\ result = "running" /\ ending' = TRUE
      /\ UNCHANGED <<bufVars, fileVars, unfinished, result, writeVars, unseen>>
      /\ todo' = ForAll("flush") \o <<Step("wait", 1)>> \o ForAll("close")
                 \o <<Step("wait", 1), Step("verdict", 1)>>
  BY Numbers DEF EndOfSources
<1>2. 1 \in Outs
  BY DemuxFilesAssumption, OutputTypes
<1>3. Step("wait", 1) \in Steps /\ Step("verdict", 1) \in Steps
  BY <1>2, StepTypes
<1>4. todo' \in Seq(Steps)
  BY <1>1, <1>3, ForAllSteps
<1> QED BY <1>1, <1>4, PlanKeeps DEF writeVars, TypeOK, Quiet

LEMMA VerdictKeeps == Inv /\ Verdict => Inv'
<1> SUFFICES ASSUME Inv, Verdict PROVE Inv'
  OBVIOUS
<1>1. /\ TypeOK /\ todo # <<>> /\ Head(todo).op = "verdict" /\ Then(<<>>)
      /\ result' \in {"failed", "unfinished", "ok"}
      /\ UNCHANGED <<bufVars, fileVars, ending, unfinished, writeVars, unseen>>
  BY Numbers DEF Verdict, At
<1>2. todo' \in Seq(Steps)
  <2>1. <<>> \in Seq(Steps)
    OBVIOUS
  <2> QED BY <1>1, <2>1, ThenSteps DEF TypeOK
<1> QED BY <1>1, <1>2, PlanKeeps DEF writeVars, TypeOK, Quiet

-----------------------------------------------------------------------------
(* A frame is begun with what its codec puts in front, or the exception is *)
(* raised where that does not fit (writeAdditionData).                     *)
Begun(new, a) ==
  /\ made' = [made EXCEPT ![Out] = @ + a]
  /\ bufLen' = [bufLen EXCEPT ![Out] = @ + a]
  /\ heads' = IF new /\ first[Out] /\ Outputs[Out].wav THEN [heads EXCEPT ![Out] = @ \cup {made[Out]}] ELSE heads
  /\ first' = IF new THEN [first EXCEPT ![Out] = FALSE] ELSE first
  /\ Then(IfAny(new, <<Step("out", Out)>>)
          \o <<Sizing("room", Out, Head(todo).size), Sizing("copy", Out, Head(todo).size)>>)
  /\ UNCHANGED result
Unfit == Throw /\ UNCHANGED <<made, bufLen, heads, first>>

LEMMA FrameChoices ==
  ASSUME Inv, Frame
  PROVE  /\ At("frame") /\ Head(todo).size > 0
         /\ UNCHANGED <<total, fileVars, ending, unfinished, writeVars, unseen>>
         /\ \/ \E new \in BOOLEAN : \E a \in Nat :
                /\ a <= Room(Out) /\ (~new => a = 0) /\ Begun(new, a)
                /\ Outputs[Out].wav => new /\ a = IF first[Out] THEN HeaderSize ELSE 0
            \/ Unfit
<1>1. /\ At("frame") /\ Head(todo).size > 0
      /\ UNCHANGED <<total, fileVars, ending, unfinished, writeVars, unseen>>
  BY DEF Frame
<1>2. PICK new \in NewFrame(Out) : \E a \in IF new THEN Additions(Out) ELSE {0} :
        (a <= Room(Out) /\ Begun(new, a)) \/ Unfit
  BY DEF Frame, Begun, Unfit
<1>3. PICK a \in IF new THEN Additions(Out) ELSE {0} : (a <= Room(Out) /\ Begun(new, a)) \/ Unfit
  BY <1>2
<1>4. new \in BOOLEAN /\ a \in Nat /\ (~new => a = 0)
  <2>1. AddSizes \subseteq Nat /\ HeaderSize \in Nat
    BY DemuxFilesAssumption
  <2>2. Additions(Out) \subseteq Nat
    BY <2>1 DEF Additions
  <2>3. new \in BOOLEAN
    BY DEF NewFrame
  <2>4. a \in Nat /\ (~new => a = 0)
    BY <2>2
  <2> QED BY <2>3, <2>4
<1>5. Outputs[Out].wav => new /\ a = IF first[Out] THEN HeaderSize ELSE 0
  BY <1>3 DEF NewFrame, Additions
<1> QED BY <1>1, <1>3, <1>4, <1>5

(* What a codec puts in front of a frame fits, however much it is: it is   *)
(* told where the buffer ends.  A block it completes goes next.            *)
LEMMA FrameKeeps == Inv /\ Frame => Inv'
<1> SUFFICES ASSUME Inv, Frame PROVE Inv'
  OBVIOUS
<1> DEFINE o == Out
<1>1. /\ TypeOK /\ todo # <<>> /\ o \in Outs /\ Head(todo).op = "frame" /\ Head(todo).size \in Nat
      /\ UNCHANGED <<total, fileVars, ending, unfinished, writeVars, unseen>>
  BY FrameChoices, OutInOuts, Numbers DEF At
<1>2. CASE Unfit
  <2>1. Throw /\ UNCHANGED <<made, bufLen, heads, first>>
    BY <1>2 DEF Unfit
  <2>2. TypeOK'
    BY <1>1, <2>1 DEF TypeOK, fileVars, writeVars, Throw
  <2>3. UnitsOnly' /\ \A p \in Outs : bufLen'[p] <= bufLen[p]
    BY <1>1, <2>1, Numbers DEF writeVars, UnitsOnly
  <2> QED BY <2>1, <2>2, <2>3, LessLeft
<1> SUFFICES ASSUME ~Unfit PROVE Inv'
  BY <1>2
<1>3. PICK new \in BOOLEAN, a \in Nat : a <= Room(o) /\ (~new => a = 0) /\ Begun(new, a)
  BY FrameChoices
<1>4. /\ made' = [made EXCEPT ![o] = @ + a] /\ bufLen' = [bufLen EXCEPT ![o] = @ + a]
      /\ heads' = [heads EXCEPT ![o] = @ \cup {made[o]}] \/ heads' = heads
      /\ first' = IF new THEN [first EXCEPT ![o] = FALSE] ELSE first
      /\ result' = result
  BY <1>3 DEF Begun
<1>5. UnitsOnly'
  BY <1>1, Numbers DEF writeVars, UnitsOnly
<1> DEFINE room == Sizing("room", o, Head(todo).size)
           copy == Sizing("copy", o, Head(todo).size)
           steps == IfAny(new, <<Step("out", o)>>) \o <<room, copy>>
<1>6. /\ steps \in Seq(Steps) /\ steps # <<>> /\ (new => Head(steps) = Step("out", o))
  <2>1. room \in Steps /\ copy \in Steps /\ Step("out", o) \in Steps
    BY <1>1, StepTypes
  <2> HIDE DEF room, copy
  <2> QED BY <2>1 DEF IfAny
<1>7. Then(steps)
  BY <1>3 DEF Begun
<1> HIDE DEF steps
<1>8. todo' \in Seq(Steps) /\ todo' # <<>> /\ Head(todo') = Head(steps)
  BY <1>1, <1>6, <1>7, ThenSteps DEF TypeOK
<1>9. /\ made' \in [Outs -> Nat] /\ bufLen' \in [Outs -> Nat]
      /\ heads' \in [Outs -> SUBSET Nat] /\ first' \in [Outs -> BOOLEAN]
  <2>1. /\ made \in [Outs -> Nat] /\ bufLen \in [Outs -> Nat] /\ a \in Nat
        /\ heads \in [Outs -> SUBSET Nat] /\ first \in [Outs -> BOOLEAN]
    BY <1>1, <1>3 DEF TypeOK
  <2> HIDE DEF o
  <2>2. made' \in [Outs -> Nat] /\ bufLen' \in [Outs -> Nat]
    BY <1>1, <1>4, <2>1
  <2>3. first' \in [Outs -> BOOLEAN]
    BY <1>1, <1>4, <2>1
  <2>4. heads' \in [Outs -> SUBSET Nat]
    <3>1. heads[o] \cup {made[o]} \in SUBSET Nat
      BY <1>1, <2>1
    <3> QED BY <1>1, <1>4, <2>1, <3>1
  <2> QED BY <2>2, <2>3, <2>4
<1>10. TypeOK'
  BY <1>1, <1>4, <1>8, <1>9 DEF TypeOK, fileVars, writeVars
<1>11. ASSUME NEW p \in Outs
       PROVE  /\ bufLen'[p] <= Capacity /\ bufLen'[p] <= made'[p]
              /\ (bufLen'[p] >= BlockSize => new /\ p = o)
  <2>1. /\ bufLen[p] \in Nat /\ made[p] \in Nat /\ bufLen[p] <= Capacity /\ bufLen[p] <= made[p]
        /\ a \in Nat
    BY <1>3, Numbers
  <2>2. bufLen[p] < BlockSize
    BY <1>1, LessThanBlock
  <2>3. /\ bufLen'[p] = IF p = o THEN bufLen[p] + a ELSE bufLen[p]
        /\ made'[p] = IF p = o THEN made[p] + a ELSE made[p]
    BY <1>1, <1>4 DEF TypeOK
  <2>4. p = o => bufLen[p] + a <= Capacity
    BY <1>3, <2>1, Sizing1 DEF Room
  <2> QED BY <1>3, <2>1, <2>2, <2>3, <2>4, Sizing1
<1>12. NoOverflow' /\ WithinMade'
  BY <1>11 DEF NoOverflow, WithinMade
<1>13. BlockGoes'
  BY <1>6, <1>8, <1>11 DEF BlockGoes, Step
<1> QED BY <1>5, <1>10, <1>12, <1>13 DEF Inv

(* The part of a frame that is copied fits; what it fills goes next.       *)
LEMMA CopyPartKeeps == Inv /\ CopyPart => Inv'
<1> SUFFICES ASSUME Inv, CopyPart PROVE Inv'
  OBVIOUS
<1> DEFINE o == Out
           n == PartThatFits(o, Head(todo).size)
           left == Head(todo).size - n
           steps == <<Step("out", o)>> \o IfAny(left > 0, <<Sizing("copy", o, left)>>)
<1>1. /\ TypeOK /\ todo # <<>> /\ o \in Outs /\ Head(todo).op = "copy" /\ Head(todo).size \in Nat
      /\ made' = [made EXCEPT ![o] = @ + n] /\ bufLen' = [bufLen EXCEPT ![o] = @ + n]
      /\ Then(steps)
      /\ UNCHANGED <<total, first, heads, fileVars, endVars, writeVars, unseen>>
  BY OutInOuts, Numbers DEF CopyPart, At
<1>2. n \in Nat /\ left \in Nat /\ bufLen[o] + n <= Capacity
  BY <1>1, Numbers, Sizing1 DEF PartThatFits
<1>3. steps \in Seq(Steps) /\ steps # <<>> /\ Head(steps) = Step("out", o)
  <2>1. Step("out", o) \in Steps /\ Sizing("copy", o, left) \in Steps /\ (left > 0) \in BOOLEAN
    BY <1>1, <1>2, StepTypes
  <2> QED BY <2>1, StepSeqs
<1> HIDE DEF n, left, steps, o
<1>4. todo' \in Seq(Steps) /\ todo' # <<>> /\ Head(todo') = Step("out", o)
  BY <1>1, <1>3, ThenSteps DEF TypeOK
<1>5. made' \in [Outs -> Nat] /\ bufLen' \in [Outs -> Nat]
  <2>1. made \in [Outs -> Nat] /\ bufLen \in [Outs -> Nat]
    BY <1>1 DEF TypeOK
  <2> QED BY <1>1, <1>2, <2>1
<1>6. TypeOK'
  BY <1>1, <1>4, <1>5 DEF TypeOK, fileVars, endVars, writeVars
<1>7. UnitsOnly'
  BY <1>1, Numbers DEF writeVars, UnitsOnly
<1>8. ASSUME NEW p \in Outs
      PROVE  /\ bufLen'[p] <= Capacity /\ bufLen'[p] <= made'[p]
             /\ (bufLen'[p] >= BlockSize => p = o)
  <2>1. /\ bufLen[p] \in Nat /\ made[p] \in Nat /\ bufLen[p] <= Capacity /\ bufLen[p] <= made[p]
    BY Numbers
  <2>2. bufLen[p] < BlockSize
    BY <1>1, LessThanBlock
  <2>3. /\ bufLen'[p] = IF p = o THEN bufLen[p] + n ELSE bufLen[p]
        /\ made'[p] = IF p = o THEN made[p] + n ELSE made[p]
    BY <1>1 DEF TypeOK
  <2> QED BY <1>2, <2>1, <2>2, <2>3, Sizing1
<1>9. NoOverflow' /\ WithinMade'
  BY <1>8 DEF NoOverflow, WithinMade
<1>10. BlockGoes'
  BY <1>4, <1>8 DEF BlockGoes, Step
<1> QED BY <1>6, <1>7, <1>9, <1>10 DEF Inv

-----------------------------------------------------------------------------
(* A part that is ended takes the rest out of the buffer.                  *)
LEMMA EndedPart ==
  ASSUME TypeOK, NEW o \in Outs
  PROVE  /\ Put(work[o], made[o] - bufLen[o], made[o]) \in Stretches \/ bufLen[o] > made[o]
         /\ [bufLen EXCEPT ![o] = 0] \in [Outs -> Nat]
         /\ [work EXCEPT ![o] = EmptyAt(made[o])] \in [Outs -> Stretches]
         /\ \A c \in Stretches : [parts EXCEPT ![o] = Append(@, c)] \in [Outs -> Seq(Stretches)]
         /\ \A b \in BOOLEAN : Sized(work[o], b) \in Stretches
<1>1. /\ made[o] \in Nat /\ bufLen[o] \in Nat /\ work[o] \in Stretches /\ parts[o] \in Seq(Stretches)
      /\ bufLen \in [Outs -> Nat] /\ work \in [Outs -> Stretches]
      /\ parts \in [Outs -> Seq(Stretches)]
  BY DEF TypeOK
<1>2. Put(work[o], made[o] - bufLen[o], made[o]) \in Stretches \/ bufLen[o] > made[o]
  <2>1. made[o] - bufLen[o] \in Nat \/ bufLen[o] > made[o]
    BY <1>1
  <2> QED BY <1>1, <2>1, StretchTypes
<1>3. EmptyAt(made[o]) \in Stretches /\ \A b \in BOOLEAN : Sized(work[o], b) \in Stretches
  BY <1>1, StretchTypes
<1>4. \A c \in Stretches : [parts EXCEPT ![o] = Append(@, c)] \in [Outs -> Seq(Stretches)]
  BY <1>1
<1> QED BY <1>1, <1>2, <1>3, <1>4

(* A part of o is ended as c: its file has its final name, and the next    *)
(* one is begun, or cannot be opened.                                      *)
Ended(o, c) ==
  /\ parts' = [parts EXCEPT ![o] = Append(@, c)]
  /\ work' = [work EXCEPT ![o] = EmptyAt(made[o])]
  /\ bufLen' = [bufLen EXCEPT ![o] = 0]
EndOf(o) == Put(work[o], made[o] - bufLen[o], made[o])
Stopped == Throw /\ UNCHANGED <<bufLen, work, parts>>

LEMMA EndTypes ==
  ASSUME Inv, NEW o \in Outs
  PROVE  /\ \A b \in BOOLEAN : Sized(EndOf(o), b) \in Stretches
         /\ Lacking(o, EndOf(o)) \subseteq Stretches
<1>1. TypeOK /\ bufLen[o] <= made[o] /\ bufLen[o] \in Nat /\ made[o] \in Nat
  BY Numbers
<1>2. EndOf(o) \in Stretches /\ work[o] \in Stretches
  BY <1>1, EndedPart DEF EndOf, TypeOK
<1>3. \A b \in BOOLEAN : Sized(EndOf(o), b) \in Stretches /\ Sized(work[o], b) \in Stretches
  BY <1>1, <1>2, StretchTypes
<1>4. [EndOf(o) EXCEPT !.whole = FALSE] \in Stretches
  BY <1>2 DEF Stretches
<1> QED BY <1>3, <1>4 DEF Lacking

(* What a split may come to.                                               *)
LEMMA SplitChoices ==
  ASSUME Inv, SplitWav
  PROVE  /\ At("split") /\ todo # <<>> /\ Out \in Outs
         /\ UNCHANGED <<made, heads, ending, unfinished, writeVars>>
         /\ \/ \E c \in Stretches :
                /\ Ended(Out, c)
                /\ \/ c = Sized(EndOf(Out), TRUE) /\ unseen' = unseen
                   \/ unseen' = unseen \cup {Out}
                /\ \/ /\ total' = [total EXCEPT ![Out] = 0] /\ first' = [first EXCEPT ![Out] = TRUE]
                      /\ Then(<<>>) /\ UNCHANGED <<open, result>>
                   \/ Throw /\ open' = open \ {Out} /\ UNCHANGED <<total, first>>
            \/ Stopped /\ open' \in {open, open \ {Out}} /\ UNCHANGED <<total, first, unseen>>
<1>1. At("split") /\ UNCHANGED <<made, heads, ending, unfinished, writeVars>>
  BY DEF SplitWav
<1>2. todo # <<>> /\ Out \in Outs
  BY <1>1, Numbers, OutInOuts
<1> DEFINE all == Sized(EndOf(Out), TRUE)
           Choices == {all} \cup (IF Faulty THEN Lacking(Out, EndOf(Out)) ELSE {})
           Goes1 == \/ /\ total' = [total EXCEPT ![Out] = 0] /\ first' = [first EXCEPT ![Out] = TRUE]
                       /\ Then(<<>>) /\ UNCHANGED <<open, result>>
                    \/ Throw /\ open' = open \ {Out} /\ UNCHANGED <<total, first>>
<1>3. Choices \subseteq Stretches
  BY <1>2, EndTypes
<1>4. \/ /\ \E c \in Choices : /\ parts' = [parts EXCEPT ![Out] = Append(@, c)]
                               /\ unseen' = IF c = all THEN unseen ELSE unseen \cup {Out}
         /\ work' = [work EXCEPT ![Out] = EmptyAt(made[Out])]
         /\ bufLen' = [bufLen EXCEPT ![Out] = 0]
         /\ Goes1
      \/ Throw /\ open' \in {open, open \ {Out}} /\ UNCHANGED <<bufLen, total, first, work, parts, unseen>>
  BY DEF SplitWav, EndOf
<1> HIDE DEF all, Choices, Goes1
<1>5. \/ \E c \in Stretches : Ended(Out, c) /\ ((c = all /\ unseen' = unseen) \/ unseen' = unseen \cup {Out}) /\ Goes1
      \/ Stopped /\ open' \in {open, open \ {Out}} /\ UNCHANGED <<total, first, unseen>>
  BY <1>3, <1>4 DEF Ended, Stopped
<1> QED BY <1>1, <1>2, <1>5 DEF all, Goes1

LEMMA EndedKeeps ==
  ASSUME Inv, NEW o \in Outs, NEW c \in Stretches, Ended(o, c)
  PROVE  /\ bufLen' \in [Outs -> Nat] /\ work' \in [Outs -> Stretches]
         /\ parts' \in [Outs -> Seq(Stretches)]
         /\ \A p \in Outs : bufLen'[p] <= bufLen[p]
<1>1. TypeOK
  BY Numbers
<1>2. \A p \in Outs : bufLen'[p] <= bufLen[p]
  BY <1>1, Numbers DEF Ended, TypeOK
<1> QED BY <1>1, <1>2, EndedPart DEF Ended

LEMMA SplitWavKeeps == Inv /\ SplitWav => Inv'
<1> SUFFICES ASSUME Inv, SplitWav PROVE Inv'
  OBVIOUS
<1>1. /\ TypeOK /\ todo # <<>> /\ Out \in Outs /\ Head(todo).op = "split"
      /\ UNCHANGED <<made, heads, ending, unfinished, writeVars>>
  BY SplitChoices, Numbers DEF At
<1>2. <<>> \in Seq(Steps)
  OBVIOUS
<1>3. TypeOK' /\ \A p \in Outs : bufLen'[p] <= bufLen[p]
  <2>1. ASSUME NEW c \in Stretches, Ended(Out, c), unseen' = unseen \/ unseen' = unseen \cup {Out},
               \/ /\ total' = [total EXCEPT ![Out] = 0] /\ first' = [first EXCEPT ![Out] = TRUE]
                  /\ Then(<<>>) /\ UNCHANGED <<open, result>>
               \/ Throw /\ open' = open \ {Out} /\ UNCHANGED <<total, first>>
        PROVE  TypeOK' /\ \A p \in Outs : bufLen'[p] <= bufLen[p]
    <3>1. /\ bufLen' \in [Outs -> Nat] /\ work' \in [Outs -> Stretches]
          /\ parts' \in [Outs -> Seq(Stretches)]
          /\ \A p \in Outs : bufLen'[p] <= bufLen[p]
      BY <1>1, <2>1, EndedKeeps
    <3>2. todo' \in Seq(Steps)
      BY <1>1, <1>2, <2>1, ThenSteps DEF TypeOK, Throw
    <3>3. total' \in [Outs -> Nat] /\ first' \in [Outs -> BOOLEAN]
      <4>1. total \in [Outs -> Nat] /\ first \in [Outs -> BOOLEAN]
        BY <1>1 DEF TypeOK
      <4>2. \/ total' = [total EXCEPT ![Out] = 0] /\ first' = [first EXCEPT ![Out] = TRUE]
            \/ total' = total /\ first' = first
        BY <2>1
      <4>3. [total EXCEPT ![Out] = 0] \in [Outs -> Nat]
        BY <4>1
      <4>4. [first EXCEPT ![Out] = TRUE] \in [Outs -> BOOLEAN]
        BY <4>1
      <4> QED BY <4>1, <4>2, <4>3, <4>4
    <3>4. open' \subseteq Outs /\ unseen' \subseteq Outs
      <4>1. open \subseteq Outs /\ unseen \subseteq Outs
        BY <1>1 DEF TypeOK
      <4>2. open' \subseteq Outs
        <5>1. open' = open \/ open' = open \ {Out}
          BY <2>1
        <5> QED BY <4>1, <5>1
      <4>3. unseen' \subseteq Outs
        BY <1>1, <2>1, <4>1
      <4> QED BY <4>2, <4>3
    <3>5. result' \in {"running", "ok", "unfinished", "failed"}
      BY <1>1, <2>1 DEF TypeOK, Throw
    <3> QED BY <1>1, <3>1, <3>2, <3>3, <3>4, <3>5 DEF TypeOK, writeVars
  <2>2. CASE Stopped /\ open' \in {open, open \ {Out}} /\ UNCHANGED <<total, first, unseen>>
    <3>1. \A p \in Outs : bufLen'[p] <= bufLen[p]
      BY <2>2, Numbers DEF Stopped
    <3>2. open' \subseteq Outs /\ todo' \in Seq(Steps) /\ result' \in {"running", "ok", "unfinished", "failed"}
      BY <1>1, <1>2, <2>2 DEF TypeOK, Stopped, Throw
    <3> QED BY <1>1, <2>2, <3>1, <3>2 DEF TypeOK, writeVars, Stopped
  <2> QED BY <2>1, <2>2, SplitChoices
<1>4. UnitsOnly' /\ made' = made
  BY <1>1, Numbers DEF writeVars, UnitsOnly
<1>5. Quiet
  BY <1>1 DEF Quiet
<1> QED BY <1>3, <1>4, <1>5, LessLeft

(* What the closing of an output may come to.                              *)
LEMMA CloseChoices ==
  ASSUME Inv, CloseOutput
  PROVE  /\ At("close") /\ todo # <<>> /\ Out \in Outs
         /\ UNCHANGED <<made, total, first, heads, ending, writeVars, unseen>>
         /\ open' \in {open, open \ {Out}}
         /\ \/ /\ Ended(Out, Sized(EndOf(Out), Outputs[Out].wav))
               /\ open' = open \ {Out} /\ Then(<<>>) /\ UNCHANGED <<unfinished, result>>
            \/ /\ unfinished' = unfinished \cup {Out} /\ Then(<<>>)
               /\ UNCHANGED <<bufLen, work, parts, result>>
            \/ Stopped /\ UNCHANGED unfinished
<1>1. At("close") /\ UNCHANGED <<made, total, first, heads, ending, writeVars, unseen>>
  BY DEF CloseOutput
<1>2. todo # <<>> /\ Out \in Outs /\ todo \in Seq(Steps)
  BY <1>1, Numbers, OutInOuts DEF TypeOK
<1>3. NextClose = <<>> \o Tail(todo)
  BY <1>2 DEF NextClose
<1>4. \/ /\ Ended(Out, Sized(EndOf(Out), Outputs[Out].wav))
         /\ open' = open \ {Out} /\ Then(<<>>) /\ UNCHANGED <<unfinished, result>>
      \/ /\ unfinished' = unfinished \cup {Out} /\ todo' = NextClose /\ open' = open \ {Out}
         /\ UNCHANGED <<bufLen, work, parts, result>>
      \/ Stopped /\ open' \in {open, open \ {Out}} /\ UNCHANGED unfinished
  BY DEF CloseOutput, Ended, EndOf, Stopped
<1> QED BY <1>1, <1>2, <1>3, <1>4 DEF Then

LEMMA CloseOutputKeeps == Inv /\ CloseOutput => Inv'
<1> SUFFICES ASSUME Inv, CloseOutput PROVE Inv'
  OBVIOUS
<1> DEFINE c == Sized(EndOf(Out), Outputs[Out].wav)
<1>1. /\ TypeOK /\ todo # <<>> /\ Out \in Outs /\ Head(todo).op = "close"
      /\ UNCHANGED <<made, total, first, heads, ending, writeVars, unseen>>
      /\ open' \subseteq Outs
  BY CloseChoices, Numbers DEF At, TypeOK
<1>2. c \in Stretches
  BY <1>1, EndTypes, OutputTypes
<1> HIDE DEF c
<1>3. <<>> \in Seq(Steps)
  OBVIOUS
<1>4. TypeOK' /\ \A p \in Outs : bufLen'[p] <= bufLen[p]
  <2>1. CASE Ended(Out, c) /\ Then(<<>>) /\ UNCHANGED <<unfinished, result>>
    <3>1. todo' \in Seq(Steps)
      BY <1>1, <1>3, <2>1, ThenSteps DEF TypeOK
    <3>2. /\ bufLen' \in [Outs -> Nat] /\ work' \in [Outs -> Stretches]
          /\ parts' \in [Outs -> Seq(Stretches)]
          /\ \A p \in Outs : bufLen'[p] <= bufLen[p]
      BY <1>1, <1>2, <2>1, EndedKeeps
    <3> QED BY <1>1, <2>1, <3>1, <3>2 DEF TypeOK, writeVars
  <2>2. CASE unfinished' = unfinished \cup {Out} /\ Then(<<>>) /\ UNCHANGED <<bufLen, work, parts, result>>
    <3>1. todo' \in Seq(Steps)
      BY <1>1, <1>3, <2>2, ThenSteps DEF TypeOK
    <3>2. \A p \in Outs : bufLen'[p] <= bufLen[p]
      BY <2>2, Numbers
    <3> QED BY <1>1, <2>2, <3>1, <3>2 DEF TypeOK, writeVars
  <2>3. CASE Stopped /\ UNCHANGED unfinished
    <3>1. \A p \in Outs : bufLen'[p] <= bufLen[p]
      BY <2>3, Numbers DEF Stopped
    <3>2. todo' \in Seq(Steps) /\ result' \in {"running", "ok", "unfinished", "failed"}
      BY <1>3, <2>3 DEF Stopped, Throw
    <3> QED BY <1>1, <2>3, <3>1, <3>2 DEF TypeOK, writeVars, Stopped
  <2> QED BY <2>1, <2>2, <2>3, CloseChoices DEF c
<1>5. UnitsOnly' /\ made' = made
  BY <1>1, Numbers DEF writeVars, UnitsOnly
<1>6. Quiet
  BY <1>1 DEF Quiet
<1> QED BY <1>4, <1>5, <1>6, LessLeft

-----------------------------------------------------------------------------
(* The writer's thread takes what it is given and leaves the buffers alone.*)
LEMMA WriterKeeps == Inv /\ Writer => Inv'
<1> SUFFICES ASSUME Inv, Writer PROVE Inv'
  OBVIOUS
<1>1. /\ TypeOK /\ UnitsOnly /\ BlockGoes /\ NoOverflow /\ WithinMade
      /\ UNCHANGED <<bufVars, open, parts, todo, endVars, unseen>>
  BY DEF Writer, WriterExecute, WriterPop, writerLeaves, Inv
<1>2. NoOverflow' /\ WithinMade' /\ BlockGoes'
  BY <1>1 DEF NoOverflow, WithinMade, BlockGoes, bufVars, endVars
<1>3. CASE WriterExecute
  <2> DEFINE w == Head(queue)
  <2>1. queue # <<>> /\ queue' = queue /\ wpc' = "pop" /\ failed' \in BOOLEAN
    BY <1>1, <1>3 DEF WriterExecute, TypeOK
  <2>2. w \in Writes
    BY <1>1, <2>1 DEF TypeOK
  <2>3. work' \in [Outs -> Stretches]
    <3>1. work' = work \/ work' = [work EXCEPT ![w.out] = Put(@, w.from, w.to)]
      BY <1>3 DEF WriterExecute
    <3>2. w.out \in Outs /\ w.from \in Nat /\ w.to \in Nat /\ work \in [Outs -> Stretches]
      BY <1>1, <2>2 DEF Writes, TypeOK
    <3>3. Put(work[w.out], w.from, w.to) \in Stretches
      BY <3>2, StretchTypes
    <3> QED BY <3>1, <3>2, <3>3
  <2>4. TypeOK' /\ UnitsOnly'
    BY <1>1, <2>1, <2>3 DEF TypeOK, UnitsOnly, bufVars, endVars
  <2> QED BY <1>2, <2>4 DEF Inv
<1>4. CASE WriterPop
  <2>1. queue # <<>> /\ wpc' = "exec" /\ queue' = Tail(queue) /\ UNCHANGED <<work, failed>>
    BY <1>4 DEF WriterPop
  <2>2. /\ queue' \in Seq(Writes)
        /\ \A i \in 1..Len(queue') : i + 1 \in 1..Len(queue) /\ queue'[i] = queue[i + 1]
    BY <1>1, <2>1 DEF TypeOK
  <2>3. TypeOK'
    BY <1>1, <2>1, <2>2 DEF TypeOK, bufVars, endVars
  <2>4. UnitsOnly'
    <3> SUFFICES ASSUME Async, NEW i \in 1..Len(queue')
                 PROVE  (queue'[i].to - queue'[i].from) % Unit = 0
      BY DEF UnitsOnly
    <3>1. i + 1 \in 1..Len(queue) /\ queue'[i] = queue[i + 1]
      BY <2>2
    <3>2. (queue[i + 1].to - queue[i + 1].from) % Unit = 0
      BY <1>1, <3>1 DEF UnitsOnly
    <3> QED BY <3>1, <3>2
  <2> QED BY <1>2, <2>3, <2>4 DEF Inv
<1> QED BY <1>3, <1>4 DEF Writer

LEMMA StutterKeeps == Inv /\ UNCHANGED vars => Inv'
<1> SUFFICES ASSUME Inv, UNCHANGED vars PROVE Inv'
  OBVIOUS
<1>1. UNCHANGED <<made, bufLen, total, first, heads, open, work, parts>>
  BY DEF vars, bufVars, fileVars
<1>2. UNCHANGED <<todo, ending, unfinished, result, queue, wpc, failed, unseen>>
  BY DEF vars, endVars, writeVars
<1>3. TypeOK'
  BY <1>1, <1>2, Numbers DEF TypeOK
<1>4. UnitsOnly'
  BY <1>2, Numbers DEF UnitsOnly
<1>5. NoOverflow' /\ WithinMade' /\ BlockGoes'
  BY <1>1, <1>2 DEF Inv, NoOverflow, WithinMade, BlockGoes
<1> QED BY <1>3, <1>4, <1>5 DEF Inv

LEMMA NextKeeps == Inv /\ [Next]_vars => Inv'
<1> SUFFICES ASSUME Inv, [Next]_vars PROVE Inv'
  OBVIOUS
<1>1. CASE \E t \in Tracks, kind \in Kinds, n \in Sizes : MuxPacket(t, kind, n)
  BY <1>1, MuxPacketKeeps
<1>2. CASE EndOfSources
  BY <1>2, EndKeeps
<1>3. CASE MuxStep
  BY <1>3, PassOverKeeps, FrameKeeps, WriteOutBufferKeeps, MakeRoomKeeps, CopyPartKeeps,
     SplitWavKeeps, FlushOutputKeeps, CloseOutputKeeps, VerdictKeeps DEF MuxStep
<1>4. CASE Writer
  BY <1>4, WriterKeeps
<1>5. CASE Done \/ UNCHANGED vars
  BY <1>5, StutterKeeps DEF Done
<1> QED BY <1>1, <1>2, <1>3, <1>4, <1>5 DEF Next

(* The inductive invariant of the demux mode.                              *)
LEMMA DemuxInvariant == Spec => []Inv
<1>1. Init => Inv
  BY InvInit
<1>2. Inv /\ [Next]_vars => Inv'
  BY NextKeeps
<1> QED BY <1>1, <1>2, PTL DEF Spec

(* The variables of the muxer and of its writer keep their types (class    *)
(* SingleFileMuxer and the blocks it gives to BufferedFileWriter).         *)
THEOREM DemuxTypeCorrect == Spec => []TypeOK
<1>1. Inv => TypeOK
  BY DEF Inv
<1> QED BY <1>1, DemuxInvariant, PTL

(* No buffer of 2 MiB + 34 KiB is overrun, however large a frame is and    *)
(* however much its codec would put in front of it: writeAdditionData is   *)
(* told where the buffer ends (muxPacketTo).                               *)
THEOREM BuffersNotOverrun == Spec => []NoOverflow
<1>1. Inv => NoOverflow
  BY DEF Inv
<1> QED BY <1>1, DemuxInvariant, PTL

(* The thread is given whole units of 64 KiB only, also by the flush that  *)
(* a large frame forces and by the flush at the end.                       *)
THEOREM WholeUnitsWritten == Spec => []UnitsOnly
<1>1. Inv => UnitsOnly
  BY DEF Inv
<1> QED BY <1>1, DemuxInvariant, PTL

-----------------------------------------------------------------------------
Running == result = "running"
MuxOps == {"frame", "out", "room", "copy", "wait", "split"}
EndOps == {"flush", "wait", "close", "verdict"}
Ops == IF ending THEN EndOps ELSE MuxOps

(* What the steps to come look like: a part is ended, and a file closed,   *)
(* only after a wait for the writer behind which nothing leaves a buffer.  *)
RightOps == \A i \in 1..Len(todo) : todo[i].op \in Ops
WaitsToSplit ==
  Async => \A i \in 1..Len(todo) : todo[i].op = "split" =>
    IF i = 1 THEN queue = <<>> ELSE todo[i - 1].op = "wait"
WaitsToClose ==
  \A i \in 1..Len(todo) : todo[i].op = "close" =>
    \/ queue = <<>> /\ \A k \in 1..(i - 1) : todo[k].op = "close"
    \/ \E j \in 1..(i - 1) :
         todo[j].op = "wait" /\ \A k \in (j + 1)..(i - 1) : todo[k].op = "close"
ClosesLast ==
  \A i \in 1..Len(todo) : \A j \in 1..Len(todo) : i < j =>
    /\ todo[i].op = "close" => todo[j].op # "flush"
    /\ todo[i].op # "verdict"
QueueInv ==
  /\ ~Async => queue = <<>>
  /\ wpc = "pop" => queue # <<>>
  /\ ~Running => todo = <<>>
OpenInv ==
  Running /\ open # Outs =>
    /\ ending /\ queue = <<>>
    /\ \A i \in 1..Len(todo) : todo[i].op # "flush"
PlanInv == RightOps /\ WaitsToSplit /\ WaitsToClose /\ ClosesLast /\ QueueInv /\ OpenInv

(* The writes queued for an output go on where its file ends, each where   *)
(* the one before ends, up to what is still in the buffer.                 *)
Left(o) == made[o] - bufLen[o]
Start(o) == IF parts[o] = <<>> THEN 0 ELSE parts[o][Len(parts[o])].to
Of(o) == {i \in 1..Len(queue) : queue[i].out = o /\ (i > 1 \/ wpc = "exec")}
Goes(q, I, from, to) ==
  /\ I = {} => from = to
  /\ \A i \in I : (\A k \in I : i <= k) => q[i].from = from
  /\ \A i \in I : (\A k \in I : k <= i) => q[i].to = to
  /\ \A i \in I : \A j \in I : i < j /\ (\A k \in I : k <= i \/ j <= k) => q[i].to = q[j].from
Chain(o) ==
  work[o].whole /\ work[o].from = Start(o) /\ Goes(queue, Of(o), work[o].to, Left(o))
ChainInv == ~failed /\ Running => \A o \in Outs \ unseen : Chain(o)

Good(o, p) ==
  /\ parts[o][p].whole /\ parts[o][p].from = Begins(o, p)
  /\ Outputs[o].wav => parts[o][p].sized
PartsGood == ~failed => \A o \in Outs \ unseen : \A p \in 1..Len(parts[o]) : Good(o, p)

Closed(o) == parts[o] # <<>> /\ parts[o][Len(parts[o])].to = made[o]
ToClose(o) == \E i \in 1..Len(todo) : todo[i].op = "close" /\ todo[i].out = o
ClosedInv ==
  ending /\ Running /\ ~failed =>
    \A o \in Outs \ (unseen \cup unfinished) : ToClose(o) \/ Closed(o)
DataInv == ChainInv /\ PartsGood /\ ClosedInv /\ SuccessIsWhole /\ OthersFinished

(* A packet of a WAV is copied, and a part of it ended, with nothing begun *)
(* in between: what was true when its steps were laid out still is.        *)
Wav(o) == Outputs[o].wav
Ready(o) == ~first[o] /\ total[o] < SplitAt /\ bufLen[o] < BlockSize
ReadyAfter(o) == ~first'[o] /\ total'[o] < SplitAt /\ bufLen'[o] < BlockSize
StepsOfWav ==
  \A i \in 1..Len(todo) : Wav(todo[i].out) =>
    /\ todo[i].op \in {"frame", "room", "copy"} => todo[i].size <= MaxPacket
    /\ todo[i].op = "copy" =>
         /\ Ready(todo[i].out)
         /\ \A j \in 1..(i - 1) : todo[j].op \in {"out", "room"} /\ todo[j].out = todo[i].out
    /\ todo[i].op = "split" => \A j \in 1..(i - 1) : todo[j].op = "wait"
SplitPending(o) == \E i \in 1..Len(todo) : todo[i].op = "split" /\ todo[i].out = o
SplitInTime(o) ==
  /\ first[o] => total[o] = 0 /\ bufLen[o] = 0
  /\ total[o] < SplitAt \/ SplitPending(o)
WavPlan == Running /\ ~ending => StepsOfWav /\ \A o \in Outs : Wav(o) => SplitInTime(o)

(* The part that is being written, and those that are finished, have one   *)
(* header at their beginning and are smaller than their sizes can say.     *)
Bytes(from, to) == from..(to - 1)
OneHeader(o, from, to) == from < to => heads[o] \cap Bytes(from, to) = {from}
PartGrows(o) ==
  /\ \A h \in heads[o] : h < made[o]
  /\ Start(o) <= made[o] /\ made[o] - Start(o) < RiffMax
  /\ OneHeader(o, Start(o), made[o])
  /\ ~ending => /\ IF first[o] THEN made[o] = Start(o) ELSE Start(o) < made[o]
                /\ made[o] - Start(o) = total[o] + bufLen[o]
WavPart(o, c) == c.to <= made[o] /\ c.to - c.from < RiffMax /\ OneHeader(o, c.from, c.to)
WavInv ==
  ~failed => \A o \in Outs \ unseen : Wav(o) =>
    /\ Running => PartGrows(o)
    /\ \A p \in 1..Len(parts[o]) : WavPart(o, parts[o][p])

-----------------------------------------------------------------------------
(* The list of steps *)

LEMMA NoneIn ==
  ASSUME NEW S, NEW s \in Seq(S), Len(s) = 0
  PROVE  s = <<>>
OBVIOUS

LEMMA TodoNow ==
  ASSUME Inv
  PROVE  todo \in Seq(Steps) /\ Len(todo) \in Nat /\ (todo # <<>> => Len(todo) > 0 /\ Head(todo) = todo[1])
BY Numbers DEF TypeOK

LEMMA Joined ==
  ASSUME NEW S, NEW s \in Seq(S), NEW t \in Seq(S)
  PROVE  /\ s \o t \in Seq(S) /\ Len(s \o t) = Len(s) + Len(t)
         /\ \A i \in 1..(Len(s) + Len(t)) : (s \o t)[i] = IF i <= Len(s) THEN s[i] ELSE t[i - Len(s)]
<1>1. s \o t \in Seq(S)
  OBVIOUS
<1>2. Len(s \o t) = Len(s) + Len(t)
  OBVIOUS
<1>3. \A i \in 1..(Len(s) + Len(t)) : (s \o t)[i] = IF i <= Len(s) THEN s[i] ELSE t[i - Len(s)]
  OBVIOUS
<1> QED BY <1>1, <1>2, <1>3

LEMMA ThenAt ==
  ASSUME Inv, todo # <<>>, NEW steps \in Seq(Steps), Then(steps)
  PROVE  /\ todo' \in Seq(Steps) /\ Len(todo') = Len(steps) + (Len(todo) - 1)
         /\ \A i \in 1..Len(todo') :
              IF i <= Len(steps) THEN todo'[i] = steps[i]
              ELSE i - Len(steps) + 1 \in 2..Len(todo) /\ todo'[i] = todo[i - Len(steps) + 1]
<1>1. todo \in Seq(Steps) /\ Len(todo) > 0 /\ Len(todo) \in Nat
  BY TodoNow
<1> DEFINE rest == Tail(todo)
<1>2. rest \in Seq(Steps) /\ Len(rest) = Len(todo) - 1 /\ \A i \in 1..Len(rest) : rest[i] = todo[i + 1]
  BY <1>1
<1>3. todo' = steps \o rest
  BY DEF Then
<1> HIDE DEF rest
<1>4. /\ todo' \in Seq(Steps) /\ Len(todo') = Len(steps) + Len(rest)
      /\ \A i \in 1..(Len(steps) + Len(rest)) :
           todo'[i] = IF i <= Len(steps) THEN steps[i] ELSE rest[i - Len(steps)]
  BY <1>2, <1>3, Joined
<1>5. Len(todo') = Len(steps) + (Len(todo) - 1) /\ Len(steps) \in Nat
  BY <1>1, <1>2, <1>4
<1>6. ASSUME NEW i \in 1..Len(todo')
      PROVE  IF i <= Len(steps) THEN todo'[i] = steps[i]
             ELSE i - Len(steps) + 1 \in 2..Len(todo) /\ todo'[i] = todo[i - Len(steps) + 1]
  <2>1. i \in Nat /\ i > 0 /\ i <= Len(steps) + (Len(todo) - 1)
    BY <1>1, <1>5
  <2>2. CASE i <= Len(steps)
    BY <1>4, <2>2
  <2>3. CASE ~(i <= Len(steps))
    <3>1. i - Len(steps) \in 1..Len(rest) /\ i - Len(steps) + 1 \in 2..Len(todo)
      BY <1>1, <1>2, <1>5, <2>1, <2>3
    <3> QED BY <1>2, <1>4, <2>3, <3>1
  <2> QED BY <2>2, <2>3
<1> QED BY <1>4, <1>5, <1>6

LEMMA OneLess ==
  ASSUME Inv, todo # <<>>, Then(<<>>)
  PROVE  /\ todo' \in Seq(Steps) /\ Len(todo') = Len(todo) - 1 /\ Len(todo') \in Nat
         /\ \A i \in 1..Len(todo') : i + 1 \in 2..Len(todo) /\ todo'[i] = todo[i + 1]
<1>1. <<>> \in Seq(Steps) /\ Len(<<>>) = 0
  OBVIOUS
<1>2. todo \in Seq(Steps) /\ Len(todo) > 0 /\ Len(todo) \in Nat
  BY TodoNow
<1>3. /\ todo' \in Seq(Steps) /\ Len(todo') = 0 + (Len(todo) - 1)
      /\ \A i \in 1..Len(todo') :
           IF i <= 0 THEN todo'[i] = <<>>[i]
           ELSE i - 0 + 1 \in 2..Len(todo) /\ todo'[i] = todo[i - 0 + 1]
  BY <1>1, ThenAt
<1> QED BY <1>2, <1>3

(* A step is done, and none put in its place.                              *)
LEMMA PlanTail ==
  ASSUME Inv, PlanInv, todo # <<>>, Then(<<>>), ending' = ending, wpc' = wpc,
         Running' \/ todo' = <<>>,
         ~Async => queue' = <<>>, wpc = "pop" => queue' # <<>>,
         todo[1].op = "wait" => queue = <<>>,
         todo[1].op \in {"wait", "close", "verdict"} => queue' = queue,
         open' = open \/ todo[1].op = "close"
  PROVE  PlanInv'
<1>1. todo \in Seq(Steps) /\ Len(todo) > 0 /\ Len(todo) \in Nat
  BY TodoNow
<1>2. /\ todo' \in Seq(Steps) /\ Len(todo') = Len(todo) - 1 /\ Len(todo') \in Nat
      /\ \A i \in 1..Len(todo') : i + 1 \in 2..Len(todo) /\ todo'[i] = todo[i + 1]
  BY OneLess
<1>3. Running
  BY DEF PlanInv, QueueInv
<1>4. RightOps'
  BY <1>2 DEF PlanInv, RightOps, Ops
<1>5. WaitsToSplit'
  <2> SUFFICES ASSUME Async, NEW i \in 1..Len(todo'), todo'[i].op = "split"
               PROVE  IF i = 1 THEN queue' = <<>> ELSE todo'[i - 1].op = "wait"
    BY DEF WaitsToSplit
  <2>1. i + 1 \in 2..Len(todo) /\ todo[i + 1].op = "split" /\ i \in Nat /\ i > 0
    BY <1>2
  <2>2. todo[i].op = "wait"
    <3>1. i + 1 \in 1..Len(todo) /\ i + 1 # 1 /\ (i + 1) - 1 = i
      BY <2>1
    <3> QED BY <2>1, <3>1 DEF PlanInv, WaitsToSplit
  <2>3. CASE i = 1
    BY <2>2, <2>3
  <2>4. CASE i # 1
    <3>1. i - 1 \in 1..Len(todo') /\ (i - 1) + 1 = i
      BY <1>2, <2>1, <2>4
    <3> QED BY <1>2, <2>2, <2>4, <3>1
  <2> QED BY <2>3, <2>4
<1>6. WaitsToClose'
  <2> SUFFICES ASSUME NEW i \in 1..Len(todo'), todo'[i].op = "close"
               PROVE  \/ queue' = <<>> /\ \A k \in 1..(i - 1) : todo'[k].op = "close"
                      \/ \E j \in 1..(i - 1) :
                           todo'[j].op = "wait" /\ \A k \in (j + 1)..(i - 1) : todo'[k].op = "close"
    BY DEF WaitsToClose
  <2>1. i + 1 \in 2..Len(todo) /\ todo[i + 1].op = "close" /\ i \in Nat /\ i > 0
    BY <1>2
  <2>2. \A k \in 1..(i - 1) : todo'[k] = todo[k + 1] /\ k + 1 \in 2..i
    BY <1>2, <2>1
  <2>3. \/ queue = <<>> /\ \A k \in 1..((i + 1) - 1) : todo[k].op = "close"
        \/ \E j \in 1..((i + 1) - 1) :
             todo[j].op = "wait" /\ \A k \in (j + 1)..((i + 1) - 1) : todo[k].op = "close"
    <3>1. i + 1 \in 1..Len(todo)
      BY <2>1
    <3> QED BY <2>1, <3>1 DEF PlanInv, WaitsToClose
  <2>4. CASE queue = <<>> /\ \A k \in 1..((i + 1) - 1) : todo[k].op = "close"
    <3>1. todo[1].op = "close"
      BY <2>1, <2>4
    <3>2. \A k \in 1..(i - 1) : todo'[k].op = "close"
      BY <2>1, <2>2, <2>4
    <3> QED BY <2>4, <3>1, <3>2
  <2>5. CASE \E j \in 1..((i + 1) - 1) :
             todo[j].op = "wait" /\ \A k \in (j + 1)..((i + 1) - 1) : todo[k].op = "close"
    <3>1. PICK j \in 1..i : todo[j].op = "wait" /\ \A k \in (j + 1)..i : todo[k].op = "close"
      BY <2>1, <2>5
    <3>2. CASE j = 1
      <4>1. queue' = <<>>
        BY <3>1, <3>2
      <4>2. \A k \in 1..(i - 1) : todo'[k].op = "close"
        BY <2>1, <2>2, <3>1, <3>2
      <4> QED BY <4>1, <4>2
    <3>3. CASE j # 1
      <4>1. j - 1 \in 1..(i - 1) /\ (j - 1) + 1 = j
        BY <2>1, <3>1, <3>3
      <4>2. todo'[j - 1].op = "wait"
        BY <2>2, <3>1, <4>1
      <4>3. \A k \in ((j - 1) + 1)..(i - 1) : todo'[k].op = "close"
        BY <2>1, <2>2, <3>1, <4>1
      <4> QED BY <4>1, <4>2, <4>3
    <3> QED BY <3>2, <3>3
  <2> QED BY <2>3, <2>4, <2>5
<1>7. ClosesLast'
  <2>1. ASSUME NEW i \in 1..Len(todo'), NEW j \in 1..Len(todo'), i < j
        PROVE  (todo'[i].op = "close" => todo'[j].op # "flush") /\ todo'[i].op # "verdict"
    <3>1. i + 1 \in 1..Len(todo) /\ j + 1 \in 1..Len(todo) /\ i + 1 < j + 1
      BY <1>2, <2>1
    <3>2. todo'[i] = todo[i + 1] /\ todo'[j] = todo[j + 1]
      BY <1>2
    <3> QED BY <3>1, <3>2 DEF PlanInv, ClosesLast
  <2> QED BY <2>1 DEF ClosesLast
<1>8. QueueInv'
  BY DEF QueueInv
<1>9. OpenInv'
  <2> SUFFICES ASSUME Running', open' # Outs
               PROVE  ending' /\ queue' = <<>> /\ \A i \in 1..Len(todo') : todo'[i].op # "flush"
    BY DEF OpenInv
  <2>1. todo[1].op \in Ops
    BY <1>1 DEF PlanInv, RightOps
  <2>2. CASE todo[1].op = "close"
    <3>1. ending
      BY <2>1, <2>2 DEF Ops, MuxOps
    <3>2. queue = <<>>
      <4>1. 1 \in 1..Len(todo) /\ 1..(1 - 1) = {}
        BY <1>1
      <4> QED BY <2>2, <4>1 DEF PlanInv, WaitsToClose
    <3>3. \A i \in 1..Len(todo') : todo'[i].op # "flush"
      <4>1. ASSUME NEW i \in 1..Len(todo') PROVE todo'[i].op # "flush"
        <5>1. i + 1 \in 1..Len(todo) /\ 1 < i + 1 /\ 1 \in 1..Len(todo) /\ todo'[i] = todo[i + 1]
          BY <1>1, <1>2
        <5> QED BY <2>2, <5>1 DEF PlanInv, ClosesLast
      <4> QED BY <4>1
    <3> QED BY <2>2, <3>1, <3>2, <3>3
  <2>3. CASE todo[1].op # "close"
    <3>1. ending /\ queue = <<>> /\ \A i \in 1..Len(todo) : todo[i].op # "flush"
      BY <1>3, <2>3 DEF PlanInv, OpenInv
    <3>2. todo[1].op \in {"wait", "verdict"}
      BY <1>1, <2>1, <2>3, <3>1 DEF Ops, EndOps
    <3> QED BY <1>2, <3>1, <3>2
  <2> QED BY <2>2, <2>3
<1> QED BY <1>4, <1>5, <1>6, <1>7, <1>8, <1>9 DEF PlanInv

(* A step puts others in front of what is left, before the sources end.    *)
LEMMA PlanPrefix ==
  ASSUME Inv, PlanInv, todo # <<>>, NEW steps \in Seq(Steps), Then(steps),
         ~ending, ending' = ending, wpc' = wpc, Running', open' = open,
         ~Async => queue' = <<>>, wpc = "pop" => queue' # <<>>,
         todo[1].op # "wait",
         \A i \in 1..Len(steps) :
           /\ steps[i].op \in MuxOps
           /\ Async /\ steps[i].op = "split" => i > 1 /\ steps[i - 1].op = "wait"
  PROVE  PlanInv'
<1>1. todo \in Seq(Steps) /\ Len(todo) > 0 /\ Len(todo) \in Nat /\ Len(steps) \in Nat
  BY TodoNow
<1>2. /\ Len(todo') = Len(steps) + (Len(todo) - 1)
      /\ \A i \in 1..Len(todo') :
           IF i <= Len(steps) THEN todo'[i] = steps[i]
           ELSE i - Len(steps) + 1 \in 2..Len(todo) /\ todo'[i] = todo[i - Len(steps) + 1]
  BY ThenAt
<1>3. \A i \in 1..Len(todo) : todo[i].op \in MuxOps
  BY DEF PlanInv, RightOps, Ops
<1>4. \A i \in 1..Len(todo') : todo'[i].op \in MuxOps
  <2>1. ASSUME NEW i \in 1..Len(todo') PROVE todo'[i].op \in MuxOps
    <3>1. CASE i <= Len(steps)
      <4>1. i \in 1..Len(steps)
        BY <1>1, <3>1
      <4> QED BY <1>2, <3>1, <4>1
    <3>2. CASE ~(i <= Len(steps))
      <4>1. i - Len(steps) + 1 \in 1..Len(todo) /\ todo'[i] = todo[i - Len(steps) + 1]
        BY <1>2, <3>2
      <4> QED BY <1>3, <4>1
    <3> QED BY <3>1, <3>2
  <2> QED BY <2>1
<1>5. RightOps'
  BY <1>4 DEF RightOps, Ops
<1>6. WaitsToSplit'
  <2> SUFFICES ASSUME Async, NEW i \in 1..Len(todo'), todo'[i].op = "split"
               PROVE  i # 1 /\ todo'[i - 1].op = "wait"
    BY DEF WaitsToSplit
  <2>1. CASE i <= Len(steps)
    <3>1. i \in 1..Len(steps) /\ todo'[i] = steps[i]
      BY <1>1, <1>2, <2>1
    <3>2. i > 1 /\ steps[i - 1].op = "wait"
      BY <3>1
    <3>3. i - 1 \in 1..Len(todo') /\ i - 1 <= Len(steps)
      BY <1>1, <1>2, <2>1, <3>2
    <3> QED BY <1>2, <3>2, <3>3
  <2>2. CASE ~(i <= Len(steps))
    <3> DEFINE k == i - Len(steps) + 1
    <3>1. k \in 2..Len(todo) /\ todo[k].op = "split" /\ i \in Nat /\ k \in Nat
      BY <1>1, <1>2, <2>2
    <3>2. todo[k - 1].op = "wait"
      <4>1. k \in 1..Len(todo) /\ k # 1
        BY <3>1
      <4> HIDE DEF k
      <4> QED BY <3>1, <4>1 DEF PlanInv, WaitsToSplit
    <3>3. k - 1 # 1
      BY <3>2
    <3>4. i - 1 \in 1..Len(todo') /\ ~(i - 1 <= Len(steps)) /\ (i - 1) - Len(steps) + 1 = k - 1 /\ i # 1
      <4>1. /\ i \in Nat /\ Len(steps) \in Nat /\ Len(todo') \in Nat /\ i <= Len(todo') /\ i > Len(steps)
            /\ k = i - Len(steps) + 1 /\ k \in Nat /\ k >= 2
        BY <1>1, <1>2, <2>2, <3>1
      <4>2. k - 1 # 1
        BY <3>3
      <4> HIDE DEF k
      <4>3. i - 1 > Len(steps) /\ (i - 1) - Len(steps) + 1 = k - 1
        BY <4>1, <4>2
      <4>4. i - 1 \in 1..Len(todo') /\ i # 1
        BY <4>1, <4>3
      <4> QED BY <4>1, <4>3, <4>4
    <3>5. todo'[i - 1] = todo[k - 1]
      BY <1>2, <3>4
    <3> QED BY <3>2, <3>4, <3>5
  <2> QED BY <2>1, <2>2
<1>7. WaitsToClose' /\ ClosesLast'
  BY <1>4 DEF MuxOps, WaitsToClose, ClosesLast
<1>8. QueueInv'
  BY DEF QueueInv
<1>9. OpenInv'
  <2>1. Running
    BY DEF PlanInv, QueueInv
  <2> QED BY <2>1 DEF PlanInv, OpenInv
<1> QED BY <1>5, <1>6, <1>7, <1>8, <1>9 DEF PlanInv

LEMMA PlanThrow ==
  ASSUME PlanInv, Throw, queue' = queue, wpc' = wpc
  PROVE  PlanInv'
<1>1. todo' = <<>> /\ ~Running' /\ Len(todo') = 0 /\ 1..0 = {}
  BY DEF Throw, Running
<1>2. RightOps' /\ WaitsToSplit' /\ WaitsToClose' /\ ClosesLast'
  BY <1>1 DEF RightOps, WaitsToSplit, WaitsToClose, ClosesLast
<1>3. QueueInv' /\ OpenInv'
  BY <1>1 DEF PlanInv, QueueInv, OpenInv
<1> QED BY <1>2, <1>3 DEF PlanInv

(* The writer, or nothing, moves.                                          *)
LEMMA PlanStays ==
  ASSUME PlanInv, UNCHANGED <<todo, ending, result, open>>,
         queue = <<>> => queue' = <<>>, wpc' = "pop" => queue' # <<>>
  PROVE  PlanInv'
<1>1. RightOps' /\ ClosesLast'
  BY DEF PlanInv, RightOps, ClosesLast, Ops
<1>2. WaitsToSplit' /\ WaitsToClose'
  BY DEF PlanInv, WaitsToSplit, WaitsToClose
<1>3. QueueInv' /\ OpenInv'
  BY DEF PlanInv, QueueInv, OpenInv, Running
<1> QED BY <1>1, <1>2, <1>3 DEF PlanInv

(* What is left to do when the sources have ended.                         *)
EndPlan(steps, n) ==
  /\ Len(steps) = 2 * n + 3
  /\ \A i \in 1..n : steps[i].op = "flush"
  /\ steps[n + 1].op = "wait"
  /\ \A o \in 1..n : steps[n + 1 + o].op = "close" /\ steps[n + 1 + o].out = o
  /\ steps[2 * n + 2].op = "wait" /\ steps[2 * n + 3].op = "verdict"
LEMMA EndSteps ==
  ASSUME Inv, EndOfSources, NEW n, n = Len(Outputs)
  PROVE  n \in Nat /\ Outs = 1..n /\ EndPlan(todo', n)
<1>1. n \in Nat /\ Outs = 1..n /\ 1 \in Outs
  BY OutputTypes, DemuxFilesAssumption
<1> DEFINE f == ForAll("flush")
           c == ForAll("close")
           w == <<Step("wait", 1)>>
           v == <<Step("wait", 1), Step("verdict", 1)>>
<1>2. /\ f \in Seq(Steps) /\ Len(f) = n /\ \A i \in 1..n : f[i].op = "flush"
      /\ c \in Seq(Steps) /\ Len(c) = n /\ \A i \in 1..n : c[i].op = "close" /\ c[i].out = i
  <2>1. f \in Seq(Steps) /\ c \in Seq(Steps)
    BY ForAllSteps
  <2>2. f = [o \in 1..n |-> Step("flush", o)] /\ c = [o \in 1..n |-> Step("close", o)]
    BY <1>1 DEF ForAll
  <2>3. Len(f) = n /\ Len(c) = n
    BY <1>1, <2>1, <2>2
  <2> HIDE DEF f, c
  <2> QED BY <2>1, <2>2, <2>3 DEF Step
<1>3. /\ w \in Seq(Steps) /\ Len(w) = 1 /\ w[1].op = "wait"
      /\ v \in Seq(Steps) /\ Len(v) = 2 /\ v[1].op = "wait" /\ v[2].op = "verdict"
  <2>1. Step("wait", 1) \in Steps /\ Step("verdict", 1) \in Steps
    BY <1>1, StepTypes
  <2>2. Step("wait", 1).op = "wait" /\ Step("verdict", 1).op = "verdict"
    BY DEF Step
  <2> QED BY <2>1, <2>2
<1> DEFINE fw == f \o w
           fwc == fw \o c
<1>4. todo' = fwc \o v
  BY DEF EndOfSources
<1> HIDE DEF f, c, w, v
<1>5. /\ fw \in Seq(Steps) /\ Len(fw) = n + 1
      /\ \A i \in 1..(n + 1) : fw[i] = IF i <= n THEN f[i] ELSE w[i - n]
  <2>1. f \in Seq(Steps) /\ w \in Seq(Steps) /\ Len(f) = n /\ Len(w) = 1
    BY <1>2, <1>3
  <2>2. /\ fw \in Seq(Steps) /\ Len(fw) = Len(f) + Len(w)
        /\ \A i \in 1..(Len(f) + Len(w)) : fw[i] = IF i <= Len(f) THEN f[i] ELSE w[i - Len(f)]
    BY <2>1, Joined
  <2> HIDE DEF fw
  <2> QED BY <2>1, <2>2
<1> HIDE DEF fw
<1>6. /\ fwc \in Seq(Steps) /\ Len(fwc) = (n + 1) + n
      /\ \A i \in 1..((n + 1) + n) : fwc[i] = IF i <= n + 1 THEN fw[i] ELSE c[i - (n + 1)]
  <2>1. fw \in Seq(Steps) /\ c \in Seq(Steps) /\ Len(fw) = n + 1 /\ Len(c) = n
    BY <1>2, <1>5
  <2>2. /\ fwc \in Seq(Steps) /\ Len(fwc) = Len(fw) + Len(c)
        /\ \A i \in 1..(Len(fw) + Len(c)) : fwc[i] = IF i <= Len(fw) THEN fw[i] ELSE c[i - Len(fw)]
    <3>1. fw \in Seq(Steps) /\ c \in Seq(Steps)
      BY <2>1
    <3> QED BY <3>1, Joined
  <2> HIDE DEF fwc
  <2> QED BY <2>1, <2>2
<1> HIDE DEF fwc
<1>7. /\ Len(todo') = ((n + 1) + n) + 2
      /\ \A i \in 1..(((n + 1) + n) + 2) :
           todo'[i] = IF i <= (n + 1) + n THEN fwc[i] ELSE v[i - ((n + 1) + n)]
  <2>1. fwc \in Seq(Steps) /\ v \in Seq(Steps) /\ Len(fwc) = (n + 1) + n /\ Len(v) = 2
    BY <1>3, <1>6
  <2>2. /\ fwc \o v \in Seq(Steps) /\ Len(fwc \o v) = Len(fwc) + Len(v)
        /\ \A i \in 1..(Len(fwc) + Len(v)) :
             (fwc \o v)[i] = IF i <= Len(fwc) THEN fwc[i] ELSE v[i - Len(fwc)]
    <3>1. fwc \in Seq(Steps) /\ v \in Seq(Steps)
      BY <2>1
    <3> QED BY <3>1, Joined
  <2> QED BY <1>4, <2>1, <2>2
<1>8. ASSUME NEW i \in 1..n PROVE todo'[i].op = "flush"
  <2>1. /\ i \in 1..(n + 1) /\ i <= n /\ i \in 1..((n + 1) + n) /\ i <= n + 1
        /\ i \in 1..(((n + 1) + n) + 2) /\ i <= (n + 1) + n
    BY <1>1
  <2> QED BY <1>2, <1>5, <1>6, <1>7, <2>1
<1>9. todo'[n + 1].op = "wait"
  <2>1. n + 1 \in 1..(n + 1) /\ ~(n + 1 <= n) /\ (n + 1) - n = 1
        /\ n + 1 \in 1..((n + 1) + n) /\ n + 1 \in 1..(((n + 1) + n) + 2)
    BY <1>1
  <2> QED BY <1>3, <1>5, <1>6, <1>7, <2>1
<1>10. ASSUME NEW o \in 1..n PROVE todo'[n + 1 + o].op = "close" /\ todo'[n + 1 + o].out = o
  <2>1. /\ n + 1 + o \in 1..((n + 1) + n) /\ n + 1 + o \in 1..(((n + 1) + n) + 2)
        /\ ~(n + 1 + o <= n + 1) /\ (n + 1 + o) - (n + 1) = o /\ n + 1 + o <= (n + 1) + n
    BY <1>1
  <2> QED BY <1>2, <1>6, <1>7, <2>1
<1>11. todo'[2 * n + 2].op = "wait" /\ todo'[2 * n + 3].op = "verdict"
  <2>1. /\ 2 * n + 2 \in 1..(((n + 1) + n) + 2) /\ 2 * n + 3 \in 1..(((n + 1) + n) + 2)
        /\ ~(2 * n + 2 <= (n + 1) + n) /\ ~(2 * n + 3 <= (n + 1) + n)
        /\ (2 * n + 2) - ((n + 1) + n) = 1 /\ (2 * n + 3) - ((n + 1) + n) = 2
    BY <1>1
  <2> QED BY <1>3, <1>7, <2>1
<1>12. Len(todo') = 2 * n + 3
  BY <1>1, <1>7
<1> QED BY <1>1, <1>8, <1>9, <1>10, <1>11, <1>12 DEF EndPlan

LEMMA PlanEnd == Inv /\ PlanInv /\ EndOfSources => PlanInv'
<1> SUFFICES ASSUME Inv, PlanInv, EndOfSources PROVE PlanInv'
  OBVIOUS
<1>1. PICK n : n = Len(Outputs)
  OBVIOUS
<1>2. /\ n \in Nat /\ Outs = 1..n /\ Len(todo') = 2 * n + 3
      /\ \A i \in 1..n : todo'[i].op = "flush"
      /\ todo'[n + 1].op = "wait"
      /\ \A o \in 1..n : todo'[n + 1 + o].op = "close" /\ todo'[n + 1 + o].out = o
      /\ todo'[2 * n + 2].op = "wait" /\ todo'[2 * n + 3].op = "verdict"
  <2>1. n \in Nat /\ Outs = 1..n /\ EndPlan(todo', n)
    BY <1>1, EndSteps
  <2> QED BY <2>1 DEF EndPlan
<1>3. \A i \in 1..Len(todo') :
        \/ i \in 1..n \/ i = n + 1 \/ i = 2 * n + 2 \/ i = 2 * n + 3
        \/ i - (n + 1) \in 1..n /\ n + 1 + (i - (n + 1)) = i
  BY <1>2
<1>4. \A i \in 1..Len(todo') :
        /\ todo'[i].op = IF i <= n THEN "flush" ELSE IF i = n + 1 THEN "wait"
                         ELSE IF i <= 2 * n + 1 THEN "close" ELSE IF i = 2 * n + 2 THEN "wait" ELSE "verdict"
  <2>1. ASSUME NEW i \in 1..Len(todo')
        PROVE  todo'[i].op = IF i <= n THEN "flush" ELSE IF i = n + 1 THEN "wait"
                             ELSE IF i <= 2 * n + 1 THEN "close" ELSE IF i = 2 * n + 2 THEN "wait" ELSE "verdict"
    <3>1. CASE i \in 1..n
      BY <1>2, <3>1
    <3>2. CASE i = n + 1 \/ i = 2 * n + 2 \/ i = 2 * n + 3
      BY <1>2, <3>2
    <3>3. CASE i - (n + 1) \in 1..n /\ n + 1 + (i - (n + 1)) = i
      <4>1. todo'[i].op = "close" /\ i > n + 1 /\ i <= 2 * n + 1
        BY <1>2, <3>3
      <4> QED BY <1>2, <4>1
    <3> QED BY <1>3, <3>1, <3>2, <3>3
  <2> QED BY <2>1
<1>5. ending' = TRUE /\ UNCHANGED <<result, open, queue, wpc>> /\ result = "running" /\ ~ending
  BY DEF EndOfSources, fileVars, writeVars
<1>6. RightOps' /\ WaitsToSplit'
  BY <1>4, <1>5 DEF RightOps, WaitsToSplit, Ops, EndOps
<1>7. WaitsToClose'
  <2>1. ASSUME NEW i \in 1..Len(todo'), todo'[i].op = "close"
        PROVE  \E j \in 1..(i - 1) :
                 todo'[j].op = "wait" /\ \A k \in (j + 1)..(i - 1) : todo'[k].op = "close"
    <3>1. i > n + 1 /\ i <= 2 * n + 1 /\ i \in Nat
      BY <1>2, <1>4, <2>1
    <3>2. n + 1 \in 1..(i - 1)
      BY <1>2, <3>1
    <3>3. \A k \in ((n + 1) + 1)..(i - 1) : k \in 1..Len(todo') /\ k > n + 1 /\ k <= 2 * n + 1
      BY <1>2, <3>1
    <3>4. \A k \in ((n + 1) + 1)..(i - 1) : todo'[k].op = "close"
      BY <1>2, <1>4, <3>3
    <3> QED BY <1>2, <3>2, <3>4
  <2> QED BY <2>1 DEF WaitsToClose
<1>8. ClosesLast'
  <2>1. ASSUME NEW i \in 1..Len(todo'), NEW j \in 1..Len(todo'), i < j
        PROVE  (todo'[i].op = "close" => todo'[j].op # "flush") /\ todo'[i].op # "verdict"
    <3>1. i \in Nat /\ j \in Nat /\ i < 2 * n + 3 /\ n \in Nat
      BY <1>2, <2>1
    <3>2. todo'[i].op # "verdict"
      BY <1>4, <3>1
    <3>3. CASE todo'[i].op = "close"
      <4>1. i > n + 1
        BY <1>4, <3>1, <3>3
      <4>2. ~(j <= n)
        BY <2>1, <3>1, <4>1
      <4> QED BY <1>4, <3>2, <4>2
    <3> QED BY <3>2, <3>3
  <2> QED BY <2>1 DEF ClosesLast
<1>9. QueueInv' /\ OpenInv'
  BY <1>5 DEF PlanInv, QueueInv, OpenInv, Running
<1> QED BY <1>6, <1>7, <1>8, <1>9 DEF PlanInv

LEMMA LeaveQueue ==
  ASSUME Inv, NEW o, NEW n, NEW steps, Leave(o, n, steps)
  PROVE  \/ Throw /\ UNCHANGED <<bufLen, work, queue>>
         \/ Then(steps) /\ result' = result /\ (~Async => queue' = queue) /\ queue' # <<>>
         \/ Then(steps) /\ result' = result /\ queue' = queue /\ ~Async
<1>1. queue \in Seq(Writes)
  BY Numbers DEF TypeOK
<1>2. \A w : Append(queue, w) # <<>>
  BY <1>1
<1> QED BY <1>2 DEF Leave

LEMMA PlanMuxPacket ==
  ASSUME Inv, PlanInv, NEW t, NEW kind, NEW n \in Sizes, MuxPacket(t, kind, n)
  PROVE  PlanInv'
<1>1. todo' = [o \in Outs |-> Sizing("frame", o, IF o \in Takers(t, kind) THEN n ELSE 0)]
  BY DEF MuxPacket
<1>2. Outs = 1..Len(Outputs) /\ Len(Outputs) \in Nat
  BY OutputTypes
<1>3. Len(todo') = Len(Outputs)
  BY <1>1, <1>2
<1>4. \A i \in 1..Len(todo') : todo'[i].op = "frame"
  BY <1>1, <1>2, <1>3 DEF Sizing
<1>5. UNCHANGED <<fileVars, endVars, writeVars>> /\ result = "running" /\ ~ending
  BY DEF MuxPacket
<1>6. UNCHANGED <<ending, result, open, queue, wpc>>
  BY <1>5 DEF fileVars, endVars, writeVars
<1>7. RightOps' /\ WaitsToSplit' /\ WaitsToClose' /\ ClosesLast'
  BY <1>4, <1>5, <1>6 DEF RightOps, WaitsToSplit, WaitsToClose, ClosesLast, Ops, MuxOps
<1>8. QueueInv' /\ OpenInv'
  BY <1>5, <1>6 DEF PlanInv, QueueInv, OpenInv, Running
<1> QED BY <1>7, <1>8 DEF PlanInv

LEMMA PlanPassOver == Inv /\ PlanInv /\ (PassOver \/ WaitForWriting) => PlanInv'
<1> SUFFICES ASSUME Inv, PlanInv, PassOver \/ WaitForWriting PROVE PlanInv'
  OBVIOUS
<1>1. /\ todo # <<>> /\ Then(<<>>) /\ UNCHANGED <<ending, result, open, queue, wpc>>
      /\ Head(todo).op = "frame" \/ (Head(todo).op = "wait" /\ (Async => queue = <<>>))
  BY DEF PassOver, WaitForWriting, At, WriterIdle, fileVars, endVars, writeVars
<1>2. Head(todo) = todo[1]
  BY <1>1, TodoNow
<1>3. (~Async => queue = <<>>) /\ (wpc = "pop" => queue # <<>>) /\ Running
  BY <1>1 DEF PlanInv, QueueInv
<1> QED BY <1>1, <1>2, <1>3, PlanTail DEF Running

LEMMA OpsOfJoin ==
  ASSUME NEW s \in Seq(Steps), NEW t \in Seq(Steps), NEW O,
         \A i \in 1..Len(s) : s[i].op \in O, \A i \in 1..Len(t) : t[i].op \in O
  PROVE  s \o t \in Seq(Steps) /\ \A i \in 1..Len(s \o t) : (s \o t)[i].op \in O
<1> DEFINE u == s \o t
<1>1. /\ u \in Seq(Steps) /\ Len(u) = Len(s) + Len(t)
      /\ \A i \in 1..(Len(s) + Len(t)) : u[i] = IF i <= Len(s) THEN s[i] ELSE t[i - Len(s)]
  BY Joined
<1> HIDE DEF u
<1>2. Len(s) \in Nat /\ Len(t) \in Nat
  OBVIOUS
<1>3. ASSUME NEW i \in 1..Len(u) PROVE u[i].op \in O
  <2>1. i \in 1..(Len(s) + Len(t))
    BY <1>1
  <2>2. CASE i <= Len(s)
    <3>1. i \in 1..Len(s)
      BY <1>2, <2>1, <2>2
    <3> QED BY <1>1, <2>1, <2>2, <3>1
  <2>3. CASE ~(i <= Len(s))
    <3>1. i - Len(s) \in 1..Len(t)
      BY <1>2, <2>1, <2>3
    <3> QED BY <1>1, <2>1, <2>3, <3>1
  <2> QED BY <2>2, <2>3
<1>4. u \in Seq(Steps) /\ \A i \in 1..Len(u) : u[i].op \in O
  BY <1>1, <1>3
<1> QED BY <1>4 DEF u

LEMMA OneOp ==
  ASSUME NEW s \in Steps, NEW q, q = <<>> \/ q = <<s>>
  PROVE  q \in Seq(Steps) /\ Len(q) \in {0, 1} /\ \A i \in 1..Len(q) : q[i] = s
<1>1. CASE q = <<>>
  <2>1. Len(q) = 0 /\ 1..0 = {} /\ q \in Seq(Steps)
    BY <1>1
  <2> QED BY <2>1
<1>2. CASE q = <<s>>
  <2>1. Len(q) = 1 /\ q[1] = s /\ q \in Seq(Steps)
    BY <1>2
  <2> QED BY <2>1
<1> QED BY <1>1, <1>2

LEMMA TwoOps ==
  ASSUME NEW s \in Steps, NEW t \in Steps, NEW q, q = <<s, t>>
  PROVE  q \in Seq(Steps) /\ Len(q) = 2 /\ q[1] = s /\ q[2] = t
         /\ \A i \in 1..Len(q) : q[i] = s \/ q[i] = t
<1>1. q \in Seq(Steps) /\ Len(q) = 2 /\ q[1] = s /\ q[2] = t
  OBVIOUS
<1>2. \A i \in 1..2 : i = 1 \/ i = 2
  OBVIOUS
<1> QED BY <1>1, <1>2

LEMMA PlanFrame == Inv /\ PlanInv /\ Frame => PlanInv'
<1> SUFFICES ASSUME Inv, PlanInv, Frame, ~Unfit PROVE PlanInv'
  <2>1. Inv /\ PlanInv /\ Frame /\ Unfit => queue' = queue /\ wpc' = wpc /\ Throw
    BY FrameChoices DEF writeVars, Unfit
  <2> QED BY <2>1, PlanThrow
<1> DEFINE o == Out
           room == Sizing("room", o, Head(todo).size)
           copy == Sizing("copy", o, Head(todo).size)
<1>1. /\ todo # <<>> /\ o \in Outs /\ Head(todo).op = "frame" /\ Head(todo).size \in Nat
      /\ UNCHANGED <<ending, result, open, queue, wpc>> /\ Head(todo) = todo[1]
  BY FrameChoices, OutInOuts, Numbers, TodoNow DEF At, Begun, fileVars, writeVars
<1>2. PICK new \in BOOLEAN : Then(IfAny(new, <<Step("out", o)>>) \o <<room, copy>>)
  BY FrameChoices DEF Begun
<1> DEFINE s == IfAny(new, <<Step("out", o)>>)
           t == <<room, copy>>
           O == {"out", "room", "copy"}
           steps == s \o t
<1>3. /\ steps \in Seq(Steps)
      /\ \A i \in 1..Len(steps) : steps[i].op \in O
  <2>1. room \in Steps /\ copy \in Steps /\ Step("out", o) \in Steps
    BY <1>1, StepTypes
  <2>2. room.op = "room" /\ copy.op = "copy" /\ Step("out", o).op = "out"
    BY DEF Sizing, Step
  <2> HIDE DEF room, copy
  <2>3. /\ s \in Seq(Steps) /\ t \in Seq(Steps)
        /\ \A i \in 1..Len(s) : s[i].op \in O
        /\ \A i \in 1..Len(t) : t[i].op \in O
    <3> DEFINE first1 == Step("out", o)
    <3>1. s = <<>> \/ s = <<first1>>
      BY DEF IfAny
    <3>2. t = <<room, copy>>
      OBVIOUS
    <3> HIDE DEF s, t, first1
    <3>3. s \in Seq(Steps) /\ \A i \in 1..Len(s) : s[i] = first1
      BY <2>1, <3>1, OneOp DEF first1
    <3>4. t \in Seq(Steps) /\ \A i \in 1..Len(t) : t[i] = room \/ t[i] = copy
      BY <2>1, <3>2, TwoOps
    <3> QED BY <2>2, <3>3, <3>4 DEF first1
  <2> HIDE DEF s, t, O
  <2> QED BY <2>3, OpsOfJoin
<1>9. Then(steps)
  BY <1>2
<1> HIDE DEF steps, s, t
<1>4. ~ending
  <2>1. 1 \in 1..Len(todo)
    BY <1>1, TodoNow
  <2> QED BY <1>1, <2>1 DEF PlanInv, RightOps, Ops, EndOps
<1>5. (~Async => queue = <<>>) /\ (wpc = "pop" => queue # <<>>) /\ Running
  BY <1>1 DEF PlanInv, QueueInv
<1>6. \A i \in 1..Len(steps) :
           /\ steps[i].op \in MuxOps
           /\ Async /\ steps[i].op = "split" => i > 1 /\ steps[i - 1].op = "wait"
  BY <1>3 DEF MuxOps
<1> QED BY <1>1, <1>3, <1>4, <1>5, <1>6, <1>9, PlanPrefix DEF Running

LEMMA PlanCopyPart == Inv /\ PlanInv /\ CopyPart => PlanInv'
<1> SUFFICES ASSUME Inv, PlanInv, CopyPart PROVE PlanInv'
  OBVIOUS
<1> DEFINE o == Out
           n == PartThatFits(o, Head(todo).size)
           left == Head(todo).size - n
           s == <<Step("out", o)>>
           t == IfAny(left > 0, <<Sizing("copy", o, left)>>)
           O == {"out", "copy"}
           steps == s \o t
<1>1. /\ todo # <<>> /\ o \in Outs /\ Head(todo).op = "copy" /\ Head(todo).size \in Nat
      /\ UNCHANGED <<ending, result, open, queue, wpc>> /\ Head(todo) = todo[1]
  BY OutInOuts, Numbers, TodoNow DEF CopyPart, At, fileVars, endVars, writeVars
<1>2. Then(steps)
  BY DEF CopyPart
<1>3. steps \in Seq(Steps) /\ \A i \in 1..Len(steps) : steps[i].op \in O
  <2>1. left \in Nat
    BY <1>1, Numbers, Sizing1 DEF PartThatFits
  <2> HIDE DEF left
  <2>2. Step("out", o) \in Steps /\ Sizing("copy", o, left) \in Steps
    BY <1>1, <2>1, StepTypes
  <2>3. Step("out", o).op = "out" /\ Sizing("copy", o, left).op = "copy"
    BY DEF Sizing, Step
  <2>4. /\ s \in Seq(Steps) /\ \A i \in 1..Len(s) : s[i].op \in O
        /\ t \in Seq(Steps) /\ \A i \in 1..Len(t) : t[i].op \in O
    <3> DEFINE out1 == Step("out", o)
               copy1 == Sizing("copy", o, left)
    <3>1. s = <<out1>> /\ (t = <<>> \/ t = <<copy1>>)
      BY DEF IfAny
    <3>2. out1 \in Steps /\ copy1 \in Steps /\ out1.op \in O /\ copy1.op \in O
      BY <2>2, <2>3
    <3> HIDE DEF s, t, out1, copy1
    <3>3. s \in Seq(Steps) /\ \A i \in 1..Len(s) : s[i] = out1
      BY <3>1, <3>2, OneOp
    <3>4. t \in Seq(Steps) /\ \A i \in 1..Len(t) : t[i] = copy1
      BY <3>1, <3>2, OneOp
    <3> QED BY <3>2, <3>3, <3>4
  <2> HIDE DEF s, t, O
  <2> QED BY <2>4, OpsOfJoin
<1> HIDE DEF steps
<1>4. ~ending
  <2>1. 1 \in 1..Len(todo)
    BY <1>1, TodoNow
  <2> QED BY <1>1, <2>1 DEF PlanInv, RightOps, Ops, EndOps
<1>5. (~Async => queue = <<>>) /\ (wpc = "pop" => queue # <<>>) /\ Running
  BY <1>1 DEF PlanInv, QueueInv
<1>6. \A i \in 1..Len(steps) :
           /\ steps[i].op \in MuxOps
           /\ Async /\ steps[i].op = "split" => i > 1 /\ steps[i - 1].op = "wait"
  BY <1>3 DEF MuxOps
<1> QED BY <1>1, <1>2, <1>3, <1>4, <1>5, <1>6, PlanPrefix DEF Running

(* The steps that a part of a WAV is ended in wait for the writer first.   *)
LEMMA SplitSteps ==
  ASSUME NEW o \in Outs, NEW c, NEW steps,
         steps = IfAny(c, IfAny(Async, <<Step("wait", o)>>) \o <<Step("split", o)>>)
  PROVE  /\ steps \in Seq(Steps)
         /\ \A i \in 1..Len(steps) :
              /\ steps[i].op \in {"wait", "split"} /\ steps[i].out = o
              /\ Async /\ steps[i].op = "split" => i > 1 /\ steps[i - 1].op = "wait"
<1> DEFINE w == Step("wait", o)
           s == Step("split", o)
<1>1. w \in Steps /\ s \in Steps /\ w.op = "wait" /\ s.op = "split" /\ w.out = o /\ s.out = o
  <2>1. w \in Steps /\ s \in Steps
    BY StepTypes
  <2> QED BY <2>1 DEF Step
<1>2. CASE c /\ Async
  <2> DEFINE a == <<w>>
             b == <<s>>
  <2>1. steps = a \o b
    BY <1>2 DEF IfAny
  <2> HIDE DEF w, s
  <2>2. a \in Seq(Steps) /\ Len(a) = 1 /\ a[1] = w /\ b \in Seq(Steps) /\ Len(b) = 1 /\ b[1] = s
    BY <1>1
  <2> HIDE DEF a, b
  <2>3. /\ a \o b \in Seq(Steps) /\ Len(a \o b) = Len(a) + Len(b)
        /\ \A i \in 1..(Len(a) + Len(b)) : (a \o b)[i] = IF i <= Len(a) THEN a[i] ELSE b[i - Len(a)]
    BY <2>2, Joined
  <2>4. steps[1] = w /\ steps[2] = s /\ Len(steps) = 2 /\ steps \in Seq(Steps)
    <3>1. Len(steps) = 2 /\ steps \in Seq(Steps)
      <4>1. Len(steps) = Len(a) + Len(b) /\ steps \in Seq(Steps)
        BY <2>1, <2>3
      <4>2. Len(a) + Len(b) = 2
        BY <2>2
      <4> QED BY <4>1, <4>2
    <3>2. /\ 1 \in 1..(Len(a) + Len(b)) /\ 1 <= Len(a)
          /\ 2 \in 1..(Len(a) + Len(b)) /\ ~(2 <= Len(a)) /\ 2 - Len(a) = 1
      BY <2>2
    <3> QED BY <2>1, <2>2, <2>3, <3>1, <3>2
  <2>5. \A i \in 1..Len(steps) : i = 1 \/ i = 2
    <3>1. \A i \in 1..2 : i = 1 \/ i = 2
      OBVIOUS
    <3> QED BY <2>4, <3>1
  <2> QED BY <1>1, <2>4, <2>5
<1>3. CASE ~(c /\ Async)
  <2>1. steps = <<>> \/ (~Async /\ steps = <<s>>)
    <3>1. CASE ~c
      BY <3>1 DEF IfAny
    <3>2. CASE c /\ ~Async
      <4>1. steps = <<>> \o <<s>>
        BY <3>2 DEF IfAny
      <4> HIDE DEF s
      <4>2. <<>> \o <<s>> = <<s>>
        BY <1>1
      <4> QED BY <3>2, <4>1, <4>2
    <3> QED BY <1>3, <3>1, <3>2
  <2> HIDE DEF w, s
  <2>2. steps \in Seq(Steps) /\ \A i \in 1..Len(steps) : steps[i] = s
    BY <1>1, <2>1, OneOp
  <2>3. Async => 1..Len(steps) = {}
    <3>1. Len(<<>>) = 0 /\ 1..0 = {}
      OBVIOUS
    <3> QED BY <2>1, <3>1
  <2> QED BY <1>1, <2>2, <2>3
<1> QED BY <1>2, <1>3

LEMMA PlanWriteOutBuffer == Inv /\ PlanInv /\ WriteOutBuffer => PlanInv'
<1> SUFFICES ASSUME Inv, PlanInv, WriteOutBuffer PROVE PlanInv'
  OBVIOUS
<1> DEFINE o == Out
           n == IF BlockDue(o) THEN BlockSize ELSE 0
           c == SplitDue(o, n)
           steps == IfAny(c, IfAny(Async, <<Step("wait", o)>>) \o <<Step("split", o)>>)
<1>1. /\ todo # <<>> /\ o \in Outs /\ Head(todo).op = "out" /\ Head(todo) = todo[1]
      /\ UNCHANGED <<ending, open, wpc>>
  BY OutInOuts, Numbers, TodoNow DEF WriteOutBuffer, At
<1>2. IF n > 0 THEN Leave(o, n, steps) ELSE Then(steps) /\ UNCHANGED <<bufLen, work, queue, result>>
  BY DEF WriteOutBuffer
<1> HIDE DEF n, c
<1>3. /\ steps \in Seq(Steps)
      /\ \A i \in 1..Len(steps) :
           /\ steps[i].op \in {"wait", "split"}
           /\ Async /\ steps[i].op = "split" => i > 1 /\ steps[i - 1].op = "wait"
  BY <1>1, SplitSteps
<1> HIDE DEF steps, o
<1>4. ~ending
  <2>1. 1 \in 1..Len(todo)
    BY <1>1, TodoNow
  <2> QED BY <1>1, <2>1 DEF PlanInv, RightOps, Ops, EndOps
<1>5. (~Async => queue = <<>>) /\ (wpc = "pop" => queue # <<>>) /\ Running
  BY <1>1 DEF PlanInv, QueueInv
<1>6. \/ Throw /\ UNCHANGED <<bufLen, work, queue>>
      \/ Then(steps) /\ result' = result /\ (~Async => queue' = queue) /\ queue' # <<>>
      \/ Then(steps) /\ result' = result /\ queue' = queue
  BY <1>2, LeaveQueue
<1>7. CASE Throw /\ UNCHANGED <<bufLen, work, queue>>
  BY <1>1, <1>7, PlanThrow
<1>8. CASE Then(steps) /\ result' = result /\ (~Async => queue' = <<>>) /\ (wpc = "pop" => queue' # <<>>)
  <2>1. \A i \in 1..Len(steps) :
           /\ steps[i].op \in MuxOps
           /\ Async /\ steps[i].op = "split" => i > 1 /\ steps[i - 1].op = "wait"
    BY <1>3 DEF MuxOps
  <2>2. Running'
    BY <1>5, <1>8 DEF Running
  <2> QED BY <1>1, <1>3, <1>4, <1>8, <2>1, <2>2, PlanPrefix
<1> QED BY <1>5, <1>6, <1>7, <1>8

(* A buffer is emptied by a step that puts none in its place.              *)
LEMMA PlanLeave ==
  ASSUME Inv, PlanInv, todo # <<>>, Head(todo).op \in {"room", "flush"},
         UNCHANGED <<ending, open, wpc>>,
         \/ Then(<<>>) /\ UNCHANGED <<queue, result>>
         \/ \E o, n : Leave(o, n, <<>>)
  PROVE  PlanInv'
<1>1. Head(todo) = todo[1]
  BY TodoNow
<1>2. (~Async => queue = <<>>) /\ (wpc = "pop" => queue # <<>>) /\ Running
  BY DEF PlanInv, QueueInv
<1>3. \/ Throw /\ UNCHANGED <<bufLen, work, queue>>
      \/ Then(<<>>) /\ result' = result /\ (~Async => queue' = queue) /\ queue' # <<>>
      \/ Then(<<>>) /\ result' = result /\ queue' = queue
  BY LeaveQueue
<1>4. CASE Throw /\ UNCHANGED <<bufLen, work, queue>>
  BY <1>4, PlanThrow
<1>5. CASE Then(<<>>) /\ result' = result /\ (~Async => queue' = <<>>) /\ (wpc = "pop" => queue' # <<>>)
  <2>1. Running'
    BY <1>2, <1>5 DEF Running
  <2>2. todo[1].op \notin {"wait", "close", "verdict"}
    BY <1>1
  <2> QED BY <1>5, <2>1, <2>2, PlanTail
<1> QED BY <1>2, <1>3, <1>4, <1>5

LEMMA PlanMakeRoom == Inv /\ PlanInv /\ (MakeRoom \/ FlushOutput) => PlanInv'
<1> SUFFICES ASSUME Inv, PlanInv, MakeRoom \/ FlushOutput PROVE PlanInv'
  OBVIOUS
<1>1. /\ todo # <<>> /\ Head(todo).op \in {"room", "flush"} /\ UNCHANGED <<ending, open, wpc>>
  BY DEF MakeRoom, FlushOutput, At
<1>2. \/ Then(<<>>) /\ UNCHANGED <<queue, result>>
      \/ \E o, n : Leave(o, n, <<>>)
  <2>1. CASE FlushOutput
    BY <2>1 DEF FlushOutput
  <2>2. CASE MakeRoom
    <3> DEFINE n == IF RoomFor(Out, Head(todo).size) THEN 0 ELSE Flushed(Out)
    <3>1. IF n > 0 THEN Leave(Out, n, <<>>) ELSE Then(<<>>) /\ UNCHANGED <<bufLen, work, queue, result>>
      BY <2>2 DEF MakeRoom
    <3> HIDE DEF n
    <3> QED BY <3>1
  <2> QED BY <2>1, <2>2
<1> QED BY <1>1, <1>2, PlanLeave

LEMMA PlanSplitWav == Inv /\ PlanInv /\ SplitWav => PlanInv'
<1> SUFFICES ASSUME Inv, PlanInv, SplitWav PROVE PlanInv'
  OBVIOUS
<1>1. /\ todo # <<>> /\ Head(todo).op = "split" /\ Head(todo) = todo[1]
      /\ UNCHANGED <<ending, queue, wpc>>
  BY SplitChoices, TodoNow DEF At, writeVars
<1>2. Throw \/ (Then(<<>>) /\ UNCHANGED <<open, result>>)
  BY SplitChoices DEF Stopped
<1>3. (~Async => queue = <<>>) /\ (wpc = "pop" => queue # <<>>) /\ Running
  BY <1>1 DEF PlanInv, QueueInv
<1>4. CASE Throw
  BY <1>1, <1>4, PlanThrow
<1>5. CASE Then(<<>>) /\ UNCHANGED <<open, result>>
  <2>1. Running' /\ todo[1].op \notin {"wait", "close", "verdict"}
    BY <1>1, <1>3, <1>5 DEF Running
  <2> QED BY <1>1, <1>3, <1>5, <2>1, PlanTail
<1> QED BY <1>2, <1>4, <1>5

LEMMA PlanCloseOutput == Inv /\ PlanInv /\ CloseOutput => PlanInv'
<1> SUFFICES ASSUME Inv, PlanInv, CloseOutput PROVE PlanInv'
  OBVIOUS
<1>1. /\ todo # <<>> /\ Head(todo).op = "close" /\ Head(todo) = todo[1]
      /\ UNCHANGED <<ending, queue, wpc>>
  BY CloseChoices, TodoNow DEF At, writeVars
<1>2. Throw \/ (Then(<<>>) /\ UNCHANGED result)
  BY CloseChoices DEF Stopped
<1>3. (~Async => queue = <<>>) /\ (wpc = "pop" => queue # <<>>) /\ Running
  BY <1>1 DEF PlanInv, QueueInv
<1>4. CASE Throw
  BY <1>1, <1>4, PlanThrow
<1>5. CASE Then(<<>>) /\ UNCHANGED result
  <2>1. Running' /\ todo[1].op = "close"
    BY <1>1, <1>3, <1>5 DEF Running
  <2> QED BY <1>1, <1>3, <1>5, <2>1, PlanTail
<1> QED BY <1>2, <1>4, <1>5

LEMMA PlanVerdict == Inv /\ PlanInv /\ Verdict => PlanInv'
<1> SUFFICES ASSUME Inv, PlanInv, Verdict PROVE PlanInv'
  OBVIOUS
<1>1. /\ todo # <<>> /\ Head(todo).op = "verdict" /\ Head(todo) = todo[1] /\ Then(<<>>)
      /\ UNCHANGED <<ending, open, queue, wpc>>
  BY TodoNow DEF Verdict, At, fileVars, writeVars
<1>2. (~Async => queue = <<>>) /\ (wpc = "pop" => queue # <<>>) /\ Running
  BY <1>1 DEF PlanInv, QueueInv
<1>3. todo' = <<>>
  <2>1. todo \in Seq(Steps) /\ Len(todo) > 0 /\ Len(todo) \in Nat
    BY <1>1, TodoNow
  <2>2. Len(todo) = 1
    <3> SUFFICES ASSUME Len(todo) # 1 PROVE FALSE
      OBVIOUS
    <3>1. \A n \in Nat : n > 0 /\ n # 1 => 1 \in 1..n /\ 2 \in 1..n /\ 1 < 2
      OBVIOUS
    <3>2. 1 \in 1..Len(todo) /\ 2 \in 1..Len(todo) /\ 1 < 2
      BY <2>1, <3>1
    <3> QED BY <1>1, <3>2 DEF PlanInv, ClosesLast
  <2>3. todo' \in Seq(Steps) /\ Len(todo') = 0
    BY <1>1, <2>2, OneLess
  <2> QED BY <2>3
<1>4. todo[1].op \notin {"wait", "close"}
  BY <1>1
<1> QED BY <1>1, <1>2, <1>3, <1>4, PlanTail

LEMMA PlanWriter == Inv /\ PlanInv /\ (Writer \/ UNCHANGED vars) => PlanInv'
<1> SUFFICES ASSUME Inv, PlanInv, Writer \/ UNCHANGED vars PROVE PlanInv'
  OBVIOUS
<1>1. UNCHANGED <<todo, ending, result, open>>
  BY DEF Writer, WriterExecute, WriterPop, writerLeaves, vars, fileVars, endVars
<1>2. (queue = <<>> => queue' = <<>>) /\ (wpc' = "pop" => queue' # <<>>)
  BY DEF Writer, WriterExecute, WriterPop, vars, writeVars, PlanInv, QueueInv
<1> QED BY <1>1, <1>2, PlanStays

LEMMA PlanNext == Inv /\ PlanInv /\ [Next]_vars => PlanInv'
<1> SUFFICES ASSUME Inv, PlanInv, [Next]_vars PROVE PlanInv'
  OBVIOUS
<1>1. CASE \E t \in Tracks, kind \in Kinds, n \in Sizes : MuxPacket(t, kind, n)
  BY <1>1, PlanMuxPacket
<1>2. CASE EndOfSources
  BY <1>2, PlanEnd
<1>3. CASE MuxStep
  BY <1>3, PlanPassOver, PlanFrame, PlanWriteOutBuffer, PlanMakeRoom, PlanCopyPart,
     PlanSplitWav, PlanCloseOutput, PlanVerdict DEF MuxStep
<1>4. CASE Writer \/ Done \/ UNCHANGED vars
  BY <1>4, PlanWriter DEF Done
<1> QED BY <1>1, <1>2, <1>3, <1>4 DEF Next

LEMMA PlanInit == Init => PlanInv
<1> SUFFICES ASSUME Init PROVE PlanInv
  OBVIOUS
<1>1. todo = <<>> /\ queue = <<>> /\ open = Outs /\ wpc = "exec"
  BY DEF Init
<1>2. Len(todo) = 0 /\ 1..0 = {}
  BY <1>1
<1>3. RightOps /\ WaitsToSplit /\ WaitsToClose /\ ClosesLast
  BY <1>2 DEF RightOps, WaitsToSplit, WaitsToClose, ClosesLast
<1>4. QueueInv /\ OpenInv
  BY <1>1 DEF QueueInv, OpenInv
<1> QED BY <1>3, <1>4 DEF PlanInv

-----------------------------------------------------------------------------
(* The writes queued for an output *)

LEMMA GoesAppend ==
  ASSUME NEW I \in SUBSET Nat, NEW m \in Nat, \A i \in I : i < m,
         NEW q, NEW r, \A i \in I : r[i] = q[i],
         NEW f, NEW t, NEW u, r[m].from = t, r[m].to = u, Goes(q, I, f, t)
  PROVE  Goes(r, I \cup {m}, f, u)
<1> DEFINE J == I \cup {m}
<1>1. /\ I = {} => f = t
      /\ \A i \in I : (\A k \in I : i <= k) => q[i].from = f
      /\ \A i \in I : (\A k \in I : k <= i) => q[i].to = t
      /\ \A i \in I : \A j \in I : i < j /\ (\A k \in I : k <= i \/ j <= k) => q[i].to = q[j].from
  BY DEF Goes
<1>2. ASSUME NEW i \in J, \A k \in J : i <= k PROVE r[i].from = f
  <2>1. CASE i = m
    <3>1. I = {}
      BY <1>2, <2>1
    <3> QED BY <1>1, <2>1, <3>1
  <2>2. CASE i \in I
    BY <1>1, <1>2, <2>2
  <2> QED BY <2>1, <2>2
<1>3. ASSUME NEW i \in J, \A k \in J : k <= i PROVE r[i].to = u
  <2>1. i \notin I
    BY <1>3
  <2> QED BY <2>1
<1>4. ASSUME NEW i \in J, NEW j \in J, i < j, \A k \in J : k <= i \/ j <= k PROVE r[i].to = r[j].from
  <2>1. i \in I
    BY <1>4
  <2>2. CASE j \in I
    <3>1. \A k \in I : k <= i \/ j <= k
      BY <1>4
    <3>2. q[i].to = q[j].from
      BY <1>1, <1>4, <2>1, <2>2, <3>1
    <3> QED BY <2>1, <2>2, <3>2
  <2>3. CASE j = m
    <3>1. \A k \in I : k <= i
      BY <1>4, <2>3
    <3>2. q[i].to = t
      BY <1>1, <2>1, <3>1
    <3> QED BY <2>1, <2>3, <3>2
  <2> QED BY <2>2, <2>3
<1>5. J # {}
  OBVIOUS
<1> HIDE DEF J
<1>6. Goes(r, J, f, u)
  BY <1>2, <1>3, <1>4, <1>5 DEF Goes
<1> QED BY <1>6 DEF J

LEMMA GoesFirst ==
  ASSUME NEW I \in SUBSET Nat, NEW m \in I, \A i \in I : m <= i,
         NEW q, NEW f, NEW t, Goes(q, I, f, t)
  PROVE  q[m].from = f /\ Goes(q, I \ {m}, q[m].to, t)
<1> DEFINE J == I \ {m}
<1>1. /\ \A i \in I : (\A k \in I : i <= k) => q[i].from = f
      /\ \A i \in I : (\A k \in I : k <= i) => q[i].to = t
      /\ \A i \in I : \A j \in I : i < j /\ (\A k \in I : k <= i \/ j <= k) => q[i].to = q[j].from
  BY DEF Goes
<1>2. q[m].from = f
  BY <1>1
<1>3. ASSUME J = {} PROVE q[m].to = t
  <2>1. \A k \in I : k <= m
    BY <1>3
  <2> QED BY <1>1, <2>1
<1>4. ASSUME NEW i \in J, \A k \in J : i <= k PROVE q[i].from = q[m].to
  <2>1. m < i /\ i \in I
    OBVIOUS
  <2>2. \A k \in I : k <= m \/ i <= k
    BY <1>4
  <2> QED BY <1>1, <2>1, <2>2
<1>5. ASSUME NEW i \in J, \A k \in J : k <= i PROVE q[i].to = t
  <2>1. \A k \in I : k <= i
    BY <1>5
  <2> QED BY <1>1, <2>1
<1>6. ASSUME NEW i \in J, NEW j \in J, i < j, \A k \in J : k <= i \/ j <= k PROVE q[i].to = q[j].from
  <2>1. \A k \in I : k <= i \/ j <= k
    BY <1>6
  <2> QED BY <1>1, <1>6, <2>1
<1> HIDE DEF J
<1>7. Goes(q, J, q[m].to, t)
  BY <1>3, <1>4, <1>5, <1>6 DEF Goes
<1> QED BY <1>2, <1>7 DEF J

LEMMA GoesShift ==
  ASSUME NEW I \in SUBSET Nat, NEW J \in SUBSET Nat, \A i \in I : i > 0 /\ i - 1 \in J,
         \A i \in J : i + 1 \in I,
         NEW q, NEW r, \A i \in J : r[i] = q[i + 1], NEW f, NEW t, Goes(q, I, f, t)
  PROVE  Goes(r, J, f, t)
<1>1. /\ I = {} => f = t
      /\ \A i \in I : (\A k \in I : i <= k) => q[i].from = f
      /\ \A i \in I : (\A k \in I : k <= i) => q[i].to = t
      /\ \A i \in I : \A j \in I : i < j /\ (\A k \in I : k <= i \/ j <= k) => q[i].to = q[j].from
  BY DEF Goes
<1>2. J = {} => f = t
  BY <1>1
<1>3. ASSUME NEW i \in J, \A k \in J : i <= k PROVE r[i].from = f
  <2>1. \A k \in I : i + 1 <= k
    BY <1>3
  <2> QED BY <1>1, <2>1
<1>4. ASSUME NEW i \in J, \A k \in J : k <= i PROVE r[i].to = t
  <2>1. \A k \in I : k <= i + 1
    BY <1>4
  <2> QED BY <1>1, <2>1
<1>5. ASSUME NEW i \in J, NEW j \in J, i < j, \A k \in J : k <= i \/ j <= k PROVE r[i].to = r[j].from
  <2>1. i + 1 < j + 1 /\ \A k \in I : k <= i + 1 \/ j + 1 <= k
    BY <1>5
  <2>2. q[i + 1].to = q[j + 1].from
    BY <1>1, <2>1
  <2> QED BY <2>2
<1> QED BY <1>2, <1>3, <1>4, <1>5 DEF Goes

LEMMA GoesSame ==
  ASSUME NEW I, NEW q, NEW r, \A i \in I : r[i] = q[i], NEW f, NEW t, Goes(q, I, f, t)
  PROVE  Goes(r, I, f, t)
BY DEF Goes

(* A file that is whole stays so when what is put goes on where it ends.   *)
LEMMA PutGoesOn ==
  ASSUME NEW c \in Stretches, c.whole, NEW to \in Nat
  PROVE  Put(c, c.to, to).whole /\ Put(c, c.to, to).from = c.from /\ Put(c, c.to, to).to = to
BY DEF Put, Stretches

-----------------------------------------------------------------------------
(* What the steps keep *)

LEMMA Busy ==
  ASSUME Inv, PlanInv, todo # <<>>
  PROVE  /\ Running /\ Head(todo) = todo[1] /\ Len(todo) \in Nat /\ Len(todo) > 0
         /\ 1 \in 1..Len(todo) /\ Head(todo).op \in Ops
<1>1. Len(todo) \in Nat /\ Len(todo) > 0 /\ Head(todo) = todo[1]
  BY TodoNow
<1>2. 1 \in 1..Len(todo)
  BY <1>1
<1> QED BY <1>1, <1>2 DEF PlanInv, QueueInv, RightOps

LEMMA ChainSame ==
  ASSUME ChainInv, UNCHANGED <<work, parts, queue, wpc, failed, unseen>>, Running' => Running,
         \A o \in Outs : made'[o] - bufLen'[o] = made[o] - bufLen[o]
  PROVE  ChainInv'
<1> SUFFICES ASSUME ~failed', Running', NEW o \in Outs \ unseen PROVE Chain(o)'
  BY DEF ChainInv
<1>1. Chain(o)
  BY DEF ChainInv
<1>2. Start(o)' = Start(o) /\ Of(o)' = Of(o) /\ Left(o)' = Left(o)
  BY DEF Start, Of, Left
<1> QED BY <1>1, <1>2 DEF Chain

(* While the end is on its way, nothing but the close of a file lets go of *)
(* the need to close it.                                                   *)
LEMMA ClosedStep ==
  ASSUME Inv, ClosedInv, todo # <<>>, Then(<<>>), Head(todo).op # "close",
         Running' => Running, ~failed' => ~failed, UNCHANGED <<ending, unfinished, parts, made, unseen>>
  PROVE  ClosedInv'
<1> SUFFICES ASSUME ending', Running', ~failed', NEW o \in Outs \ (unseen \cup unfinished)
             PROVE  ToClose(o)' \/ Closed(o)'
  BY DEF ClosedInv
<1>1. ToClose(o) \/ Closed(o)
  BY DEF ClosedInv
<1>2. CASE Closed(o)
  BY <1>2 DEF Closed
<1>3. CASE ToClose(o)
  <2>1. PICK i \in 1..Len(todo) : todo[i].op = "close" /\ todo[i].out = o
    BY <1>3 DEF ToClose
  <2>2. /\ todo \in Seq(Steps) /\ Len(todo) > 0 /\ Len(todo) \in Nat /\ Head(todo) = todo[1]
        /\ Len(todo') = Len(todo) - 1
        /\ \A j \in 1..Len(todo') : todo'[j] = todo[j + 1]
    BY OneLess, TodoNow
  <2>3. i # 1
    BY <2>1, <2>2
  <2>4. i - 1 \in 1..Len(todo') /\ (i - 1) + 1 = i
    BY <2>2, <2>3
  <2>5. todo'[i - 1].op = "close" /\ todo'[i - 1].out = o
    BY <2>1, <2>2, <2>4
  <2> QED BY <2>4, <2>5 DEF ToClose
<1> QED BY <1>1, <1>2, <1>3

(* A step that moves no data to or from a file before the sources end.     *)
LEMMA DataBefore ==
  ASSUME DataInv, Running, ~ending', result' = result, UNCHANGED <<work, parts, queue, wpc, failed, unseen>>,
         \A o \in Outs : made'[o] - bufLen'[o] = made[o] - bufLen[o]
  PROVE  DataInv'
<1>1. ChainInv'
  BY ChainSame DEF DataInv
<1>2. PartsGood'
  BY DEF DataInv, PartsGood, Good, Begins
<1>3. ClosedInv' /\ SuccessIsWhole' /\ OthersFinished'
  BY DEF ClosedInv, SuccessIsWhole, OthersFinished, Running
<1> QED BY <1>1, <1>2, <1>3 DEF DataInv

(* A step that throws leaves the parts that are finished as they are.      *)
LEMMA DataThrow ==
  ASSUME DataInv, Throw, UNCHANGED <<parts, failed, unseen>>
  PROVE  DataInv'
<1>1. result' = "failed" /\ ~Running'
  BY DEF Throw, Running
<1>2. ChainInv' /\ ClosedInv' /\ SuccessIsWhole' /\ OthersFinished'
  BY <1>1 DEF ChainInv, ClosedInv, SuccessIsWhole, OthersFinished
<1>3. PartsGood'
  BY DEF DataInv, PartsGood, Good, Begins
<1> QED BY <1>2, <1>3 DEF DataInv

LEMMA DataMuxPacket ==
  ASSUME DataInv, NEW t, NEW kind, NEW n, MuxPacket(t, kind, n)
  PROVE  DataInv'
<1>1. UNCHANGED <<bufVars, fileVars, endVars, writeVars, unseen>> /\ result = "running" /\ ~ending
  BY DEF MuxPacket
<1>2. UNCHANGED <<made, bufLen, work, parts, ending, result, queue, wpc, failed, unseen>>
  BY <1>1 DEF bufVars, fileVars, endVars, writeVars
<1> QED BY <1>1, <1>2, DataBefore DEF Running

LEMMA DataPut ==
  ASSUME Inv, PlanInv, DataInv, todo # <<>>, Head(todo).op \in {"frame", "copy"},
         NEW o \in Outs, NEW a \in Nat,
         made' = [made EXCEPT ![o] = @ + a], bufLen' = [bufLen EXCEPT ![o] = @ + a],
         UNCHANGED <<fileVars, ending, result, writeVars, unseen>>
  PROVE  DataInv'
<1>1. UNCHANGED <<work, parts, ending, result, queue, wpc, failed, unseen>>
  BY DEF fileVars, writeVars
<1>2. Running /\ ~ending
  BY Busy DEF Ops, EndOps
<1>3. ASSUME NEW p \in Outs PROVE made'[p] - bufLen'[p] = made[p] - bufLen[p]
  <2>1. made[p] \in Nat /\ bufLen[p] \in Nat /\ made \in [Outs -> Nat] /\ bufLen \in [Outs -> Nat]
    BY Numbers DEF TypeOK
  <2>2. CASE p = o
    BY <2>1, <2>2
  <2>3. CASE p # o
    BY <2>1, <2>3
  <2> QED BY <2>2, <2>3
<1> QED BY <1>1, <1>2, <1>3, DataBefore

LEMMA DataFrame == Inv /\ PlanInv /\ DataInv /\ (Frame \/ CopyPart \/ PassOver) => DataInv'
<1> SUFFICES ASSUME Inv, PlanInv, DataInv, Frame \/ CopyPart \/ PassOver PROVE DataInv'
  OBVIOUS
<1>1. CASE Frame
  <2>1. /\ todo # <<>> /\ Head(todo).op = "frame" /\ Out \in Outs
        /\ UNCHANGED <<fileVars, ending, writeVars, unseen>>
    BY <1>1, FrameChoices, OutInOuts, Numbers DEF At
  <2>2. CASE Unfit
    BY <2>1, <2>2, DataThrow DEF Unfit, fileVars, writeVars
  <2>3. CASE ~Unfit
    <3>1. PICK a \in Nat : made' = [made EXCEPT ![Out] = @ + a] /\ bufLen' = [bufLen EXCEPT ![Out] = @ + a]
                           /\ result' = result
      BY <1>1, <2>3, FrameChoices DEF Begun
    <3> QED BY <2>1, <3>1, DataPut
  <2> QED BY <2>2, <2>3
<1>2. CASE CopyPart
  <2> DEFINE o == Out
             n == PartThatFits(o, Head(todo).size)
  <2>1. /\ todo # <<>> /\ Head(todo).op = "copy" /\ o \in Outs /\ Head(todo).size \in Nat
        /\ UNCHANGED <<fileVars, ending, result, writeVars, unseen>>
        /\ made' = [made EXCEPT ![o] = @ + n] /\ bufLen' = [bufLen EXCEPT ![o] = @ + n]
    BY <1>2, OutInOuts, Numbers DEF CopyPart, At, endVars
  <2>2. n \in Nat
    BY <2>1, Numbers, Sizing1 DEF PartThatFits
  <2> HIDE DEF o, n
  <2> QED BY <2>1, <2>2, DataPut
<1>3. CASE PassOver
  <2>1. todo # <<>> /\ Head(todo).op = "frame" /\ UNCHANGED <<bufVars, fileVars, endVars, writeVars, unseen>>
    BY <1>3 DEF PassOver, At
  <2>2. UNCHANGED <<made, bufLen, work, parts, ending, result, queue, wpc, failed, unseen>>
    BY <2>1 DEF bufVars, fileVars, endVars, writeVars
  <2>3. Running /\ ~ending
    BY <2>1, Busy DEF Ops, EndOps
  <2> QED BY <2>2, <2>3, DataBefore
<1> QED BY <1>1, <1>2, <1>3

LEMMA DataWait == Inv /\ PlanInv /\ DataInv /\ WaitForWriting => DataInv'
<1> SUFFICES ASSUME Inv, PlanInv, DataInv, WaitForWriting PROVE DataInv'
  OBVIOUS
<1>1. /\ todo # <<>> /\ Head(todo).op = "wait" /\ Then(<<>>)
      /\ UNCHANGED <<bufVars, fileVars, endVars, writeVars, unseen>>
  BY DEF WaitForWriting, At
<1>2. UNCHANGED <<made, bufLen, work, parts, ending, unfinished, result, queue, wpc, failed, unseen>>
  BY <1>1 DEF bufVars, fileVars, endVars, writeVars
<1>3. Running
  BY <1>1, Busy
<1>4. ChainInv'
  BY <1>2, <1>3, ChainSame DEF DataInv
<1>5. PartsGood'
  BY <1>2 DEF DataInv, PartsGood, Good, Begins
<1>6. ClosedInv'
  BY <1>1, <1>2, <1>3, ClosedStep DEF DataInv
<1>7. SuccessIsWhole' /\ OthersFinished'
  BY <1>2, <1>3 DEF SuccessIsWhole, OthersFinished, Running
<1> QED BY <1>4, <1>5, <1>6, <1>7 DEF DataInv

LEMMA DataEnd == Inv /\ PlanInv /\ DataInv /\ EndOfSources => DataInv'
<1> SUFFICES ASSUME Inv, PlanInv, DataInv, EndOfSources PROVE DataInv'
  OBVIOUS
<1>1. UNCHANGED <<bufVars, fileVars, unfinished, result, writeVars, unseen>> /\ result = "running"
  BY DEF EndOfSources
<1>2. UNCHANGED <<made, bufLen, work, parts, unfinished, result, queue, wpc, failed, unseen>>
  BY <1>1 DEF bufVars, fileVars, writeVars
<1>3. ChainInv'
  BY <1>1, <1>2, ChainSame DEF DataInv, Running
<1>4. PartsGood'
  BY <1>2 DEF DataInv, PartsGood, Good, Begins
<1>5. ClosedInv'
  <2> SUFFICES ASSUME NEW o \in Outs PROVE ToClose(o)'
    BY DEF ClosedInv
  <2>1. PICK n : n = Len(Outputs)
    OBVIOUS
  <2>2. n \in Nat /\ Outs = 1..n /\ EndPlan(todo', n)
    BY <2>1, EndSteps
  <2>3. o \in 1..n /\ Len(todo') = 2 * n + 3 /\ todo'[n + 1 + o].op = "close" /\ todo'[n + 1 + o].out = o
    BY <2>2 DEF EndPlan
  <2>4. n + 1 + o \in 1..Len(todo')
    BY <2>2, <2>3
  <2> QED BY <2>3, <2>4 DEF ToClose
<1>6. SuccessIsWhole' /\ OthersFinished'
  BY <1>1 DEF SuccessIsWhole, OthersFinished
<1> QED BY <1>3, <1>4, <1>5, <1>6 DEF DataInv

(* What leaves a buffer goes on where the writes before it end.            *)
LEMMA ChainLeave ==
  ASSUME Inv, PlanInv, ChainInv, todo # <<>>, NEW o \in Outs, NEW n \in 0..bufLen[o],
         NEW steps, Leave(o, n, steps), UNCHANGED <<made, parts, wpc, failed, unseen>>
  PROVE  ChainInv'
<1> SUFFICES ASSUME ~failed', Running', NEW p \in Outs \ unseen PROVE Chain(p)'
  BY DEF ChainInv
<1>1. Running /\ ~failed /\ Chain(p)
  BY Busy DEF ChainInv
<1>2. /\ queue \in Seq(Writes) /\ work \in [Outs -> Stretches] /\ bufLen \in [Outs -> Nat]
      /\ made[o] \in Nat /\ bufLen[o] \in Nat /\ bufLen[o] <= made[o] /\ n \in Nat
      /\ wpc \in {"exec", "pop"} /\ work[p] \in Stretches
  BY Numbers DEF TypeOK
<1> DEFINE at == Left(o)
<1>3. at \in Nat /\ at + n \in Nat
  BY <1>2 DEF Left
<1>4. /\ bufLen' = [bufLen EXCEPT ![o] = @ - n]
      /\ IF Async THEN queue' = Append(queue, [out |-> o, from |-> at, to |-> at + n]) /\ work' = work
                  ELSE work' = [work EXCEPT ![o] = Put(@, at, at + n)] /\ queue' = queue
  <2>1. ~Throw
    BY DEF Throw, Running
  <2> QED BY <2>1 DEF Leave, Left
<1>5. Left(p)' = IF p = o THEN at + n ELSE Left(p)
  BY <1>2, <1>4 DEF Left
<1>6. Start(p)' = Start(p)
  BY DEF Start
<1> HIDE DEF at
<1>7. CASE ~Async
  <2>1. queue' = queue /\ work' = [work EXCEPT ![o] = Put(@, at, at + n)] /\ queue = <<>>
    BY <1>4, <1>7 DEF PlanInv, QueueInv
  <2>2. Of(p) = {} /\ Of(p)' = {}
    <3>1. Len(<<>>) = 0 /\ 1..0 = {}
      OBVIOUS
    <3> QED BY <2>1, <3>1 DEF Of
  <2>3. work[p].whole /\ work[p].from = Start(p) /\ work[p].to = Left(p)
    BY <1>1, <2>2 DEF Chain, Goes
  <2>4. work'[p].whole /\ work'[p].from = Start(p) /\ work'[p].to = Left(p)'
    <3>1. CASE p = o
      <4>1. work'[o] = Put(work[o], work[o].to, at + n)
        BY <1>2, <2>1, <2>3, <3>1 DEF at
      <4> QED BY <1>2, <1>3, <1>5, <2>3, <3>1, <4>1, PutGoesOn
    <3>2. CASE p # o
      BY <1>2, <1>5, <2>1, <2>3, <3>2
    <3> QED BY <3>1, <3>2
  <2> QED BY <1>6, <2>2, <2>4 DEF Chain, Goes
<1>8. CASE Async
  <2> DEFINE w == [out |-> o, from |-> at, to |-> at + n]
             m == Len(queue) + 1
  <2>1. w.out = o /\ w.from = at /\ w.to = at + n /\ w \in Writes
    BY <1>3 DEF Writes
  <2>2. queue' = Append(queue, w) /\ work' = work
    BY <1>4, <1>8
  <2> HIDE DEF w
  <2>3. /\ m \in Nat /\ m > 0 /\ Len(queue') = m /\ queue'[m] = w
        /\ \A i \in 1..Len(queue) : queue'[i] = queue[i]
    BY <1>2, <2>1, <2>2
  <2>4. m > 1 \/ wpc = "exec"
    <3>1. CASE queue = <<>>
      BY <1>2, <3>1 DEF PlanInv, QueueInv
    <3>2. CASE queue # <<>>
      <4>1. Len(queue) > 0
        BY <1>2, <3>2
      <4> QED BY <1>2, <4>1
    <3> QED BY <3>1, <3>2
  <2>5. /\ Of(p) \in SUBSET Nat /\ \A i \in Of(p) : i < m /\ i \in 1..Len(queue)
    BY <1>2 DEF Of
  <2>6. \A i \in Of(p) : queue'[i] = queue[i]
    BY <2>3, <2>5
  <2>7. Goes(queue, Of(p), work[p].to, Left(p))
    BY <1>1 DEF Chain
  <2>8. Goes(queue', Of(p)', work[p].to, Left(p)')
    <3>1. CASE p = o
      <4>1. Of(p)' = Of(p) \cup {m}
        <5>1. \A i : i \in 1..m <=> i = m \/ i \in 1..Len(queue)
          BY <1>2, <2>3
        <5> HIDE DEF m
        <5> QED BY <2>1, <2>3, <2>4, <3>1, <5>1 DEF Of
      <4>2. queue'[m].from = Left(p) /\ queue'[m].to = Left(p)'
        BY <1>5, <2>1, <2>3, <3>1 DEF at
      <4> HIDE DEF m
      <4>3. Goes(queue', Of(p) \cup {m}, work[p].to, Left(p)')
        BY <2>3, <2>5, <2>6, <2>7, <4>2, GoesAppend
      <4> QED BY <4>1, <4>3
    <3>2. CASE p # o
      <4>1. Of(p)' = Of(p)
        <5>1. \A i : i \in 1..m <=> i = m \/ i \in 1..Len(queue)
          BY <1>2, <2>3
        <5> HIDE DEF m
        <5> QED BY <2>1, <2>3, <3>2, <5>1 DEF Of
      <4> QED BY <1>5, <2>6, <2>7, <3>2, <4>1, GoesSame
    <3> QED BY <3>1, <3>2
  <2> QED BY <1>1, <1>6, <2>2, <2>8 DEF Chain
<1> QED BY <1>7, <1>8

LEMMA DataLeave ==
  Inv /\ PlanInv /\ DataInv /\ (WriteOutBuffer \/ MakeRoom \/ FlushOutput) => DataInv'
<1> SUFFICES ASSUME Inv, PlanInv, DataInv, WriteOutBuffer \/ MakeRoom \/ FlushOutput PROVE DataInv'
  OBVIOUS
<1>1. /\ todo # <<>> /\ Out \in Outs /\ Head(todo).op \in {"out", "room", "flush"}
      /\ bufLen[Out] \in Nat /\ UNCHANGED <<made, parts, ending, unfinished, wpc, failed, unseen>>
  BY OutInOuts, Numbers DEF WriteOutBuffer, MakeRoom, FlushOutput, At
<1>2. PICK n, steps :
        /\ n \in 0..bufLen[Out]
        /\ Leave(Out, n, steps) \/ (Then(steps) /\ UNCHANGED <<bufLen, work, queue, result>>)
        /\ FlushOutput => steps = <<>>
  <2>1. CASE WriteOutBuffer
    <3> DEFINE n == IF BlockDue(Out) THEN BlockSize ELSE 0
               s == IfAny(SplitDue(Out, n), IfAny(Async, <<Step("wait", Out)>>) \o <<Step("split", Out)>>)
    <3>1. IF n > 0 THEN Leave(Out, n, s) ELSE Then(s) /\ UNCHANGED <<bufLen, work, queue, result>>
      BY <2>1 DEF WriteOutBuffer
    <3>2. n \in 0..bufLen[Out]
      BY <1>1, Sizing1 DEF BlockDue
    <3>3. ~FlushOutput
      BY <2>1 DEF WriteOutBuffer, FlushOutput, At
    <3> HIDE DEF n, s
    <3> QED BY <3>1, <3>2, <3>3
  <2>2. CASE MakeRoom
    <3> DEFINE n == IF RoomFor(Out, Head(todo).size) THEN 0 ELSE Flushed(Out)
    <3>1. IF n > 0 THEN Leave(Out, n, <<>>) ELSE Then(<<>>) /\ UNCHANGED <<bufLen, work, queue, result>>
      BY <2>2 DEF MakeRoom
    <3>2. n \in 0..bufLen[Out]
      <4>1. WholeUnits(bufLen[Out]) \in 0..bufLen[Out]
        BY <1>1, UnitsOfWhole
      <4> QED BY <1>1, <4>1 DEF Flushed
    <3>3. ~FlushOutput
      BY <2>2 DEF MakeRoom, FlushOutput, At
    <3> HIDE DEF n
    <3> QED BY <3>1, <3>2, <3>3
  <2>3. CASE FlushOutput
    <3>1. WholeUnits(bufLen[Out]) \in 0..bufLen[Out]
      BY <1>1, UnitsOfWhole
    <3>2. Leave(Out, WholeUnits(bufLen[Out]), <<>>)
      BY <2>3 DEF FlushOutput
    <3> QED BY <3>1, <3>2
  <2> QED BY <2>1, <2>2, <2>3
<1>3. Running
  BY <1>1, Busy
<1>4. Throw \/ (Then(steps) /\ result' = result)
  BY <1>2 DEF Leave
<1>5. CASE Throw
  BY <1>1, <1>5, DataThrow
<1>6. CASE Then(steps) /\ result' = result
  <2>1. ChainInv'
    <3>1. CASE Leave(Out, n, steps)
      BY <1>1, <1>2, <3>1, ChainLeave DEF DataInv
    <3>2. CASE UNCHANGED <<bufLen, work, queue, result>>
      BY <1>1, <1>3, <3>2, ChainSame DEF DataInv
    <3> QED BY <1>2, <3>1, <3>2
  <2>2. PartsGood'
    BY <1>1 DEF DataInv, PartsGood, Good, Begins
  <2>3. ClosedInv'
    <3>1. CASE FlushOutput
      <4>1. Then(<<>>) /\ Head(todo).op # "close"
        BY <1>1, <1>2, <1>6, <3>1
      <4> QED BY <1>1, <1>3, <4>1, ClosedStep DEF DataInv
    <3>2. CASE WriteOutBuffer \/ MakeRoom
      <4>1. Head(todo).op \in {"out", "room"}
        BY <3>2 DEF WriteOutBuffer, MakeRoom, At
      <4>2. ~ending
        BY <1>1, <4>1, Busy DEF Ops, EndOps
      <4> QED BY <1>1, <4>2 DEF ClosedInv
    <3> QED BY <3>1, <3>2
  <2>4. SuccessIsWhole' /\ OthersFinished'
    BY <1>3, <1>6 DEF SuccessIsWhole, OthersFinished, Running
  <2> QED BY <2>1, <2>2, <2>3, <2>4 DEF DataInv
<1> QED BY <1>4, <1>5, <1>6

(* A file that is ended when nothing is queued holds all that was put into *)
(* the buffer since the one before.                                        *)
LEMMA PartEnded ==
  ASSUME Inv, ChainInv, PartsGood, Running, ~failed, queue = <<>>, NEW o \in Outs, o \notin unseen,
         NEW b \in BOOLEAN, Outputs[o].wav => b, Ended(o, Sized(EndOf(o), b)),
         UNCHANGED <<made, queue, wpc, failed, unseen>>
  PROVE  /\ ChainInv' /\ PartsGood' /\ Closed(o)' /\ \A p \in Outs : p # o => parts'[p] = parts[p]
         /\ \E c \in Stretches : parts'[o] = Append(parts[o], c) /\ c.from = Start(o) /\ c.to = made[o]
<1> DEFINE tail == EndOf(o)
           c == Sized(tail, b)
           L == Len(parts[o])
<1>1. /\ work \in [Outs -> Stretches] /\ bufLen \in [Outs -> Nat] /\ parts \in [Outs -> Seq(Stretches)]
      /\ \A p \in Outs : made[p] \in Nat
      /\ work[o] \in Stretches /\ parts[o] \in Seq(Stretches) /\ L \in Nat
  BY Numbers DEF TypeOK
<1>2. ASSUME NEW p \in Outs PROVE Of(p) = {} /\ Of(p)' = {}
  <2>1. Len(<<>>) = 0 /\ 1..0 = {}
    OBVIOUS
  <2> QED BY <2>1 DEF Of
<1>3. ASSUME NEW p \in Outs \ unseen PROVE work[p].whole /\ work[p].from = Start(p) /\ work[p].to = Left(p)
  BY <1>2 DEF ChainInv, Chain, Goes
<1>4. tail.whole /\ tail.from = Start(o) /\ tail.to = made[o] /\ tail \in Stretches
  <2>1. tail = Put(work[o], work[o].to, made[o])
    BY <1>3 DEF Left, EndOf
  <2>2. work[o].to \in Nat /\ made[o] \in Nat
    BY <1>1 DEF Stretches
  <2> HIDE DEF tail
  <2>3. tail \in Stretches
    BY <1>1, <2>1, <2>2, StretchTypes
  <2>4. work[o].whole /\ work[o].from = Start(o)
    BY <1>3
  <2>5. tail.whole /\ tail.from = work[o].from /\ tail.to = made[o]
    BY <1>1, <2>1, <2>2, <2>4, PutGoesOn
  <2> QED BY <2>3, <2>4, <2>5
<1>5. c.whole /\ c.from = Start(o) /\ c.to = made[o] /\ c.sized = b /\ c \in Stretches
  <2> HIDE DEF tail
  <2> QED BY <1>4 DEF Sized, Stretches
<1>6. /\ parts' = [parts EXCEPT ![o] = Append(@, c)] /\ work' = [work EXCEPT ![o] = EmptyAt(made[o])]
      /\ bufLen' = [bufLen EXCEPT ![o] = 0]
  BY DEF Ended
<1> HIDE DEF c, tail
<1>7. /\ parts'[o] = Append(parts[o], c) /\ Len(parts'[o]) = L + 1 /\ parts'[o][L + 1] = c
      /\ \A k \in 1..L : parts'[o][k] = parts[o][k]
      /\ \A p \in Outs : p # o => parts'[p] = parts[p]
  <2>1. parts'[o] = Append(parts[o], c) /\ \A p \in Outs : p # o => parts'[p] = parts[p]
    BY <1>1, <1>6
  <2>2. /\ Len(Append(parts[o], c)) = L + 1 /\ Append(parts[o], c)[L + 1] = c
        /\ \A k \in 1..L : Append(parts[o], c)[k] = parts[o][k]
    BY <1>1, <1>5
  <2> QED BY <2>1, <2>2
<1>8. parts'[o] # <<>>
  <2>1. Len(<<>>) = 0 /\ L + 1 # 0
    BY <1>1
  <2> QED BY <1>7, <2>1
<1> HIDE DEF L
<1>9. Closed(o)'
  BY <1>5, <1>7, <1>8 DEF Closed
<1>10. ChainInv'
  <2> SUFFICES ASSUME NEW p \in Outs \ unseen PROVE Chain(p)'
    BY DEF ChainInv
  <2>1. work'[p].whole /\ work'[p].from = Start(p)' /\ work'[p].to = Left(p)'
    <3>1. CASE p = o
      <4>1. work'[o] = EmptyAt(made[o]) /\ bufLen'[o] = 0
        BY <1>1, <1>6
      <4>2. Start(o)' = made[o] /\ Left(o)' = made[o]
        BY <1>1, <1>5, <1>7, <1>8, <4>1 DEF Start, Left
      <4> QED BY <3>1, <4>1, <4>2 DEF EmptyAt
    <3>2. CASE p # o
      <4>1. work'[p] = work[p] /\ bufLen'[p] = bufLen[p] /\ parts'[p] = parts[p]
        BY <1>1, <1>6, <1>7, <3>2
      <4> QED BY <1>3, <4>1 DEF Start, Left
    <3> QED BY <3>1, <3>2
  <2> QED BY <1>2, <2>1 DEF Chain, Goes
<1>11. PartsGood'
  <2> SUFFICES ASSUME NEW p \in Outs \ unseen, NEW k \in 1..Len(parts'[p]) PROVE Good(p, k)'
    BY DEF PartsGood
  <2>1. \A q \in Outs \ unseen : \A i \in 1..Len(parts[q]) : Good(q, i)
    BY DEF PartsGood
  <2>2. CASE p # o
    BY <1>7, <2>1, <2>2 DEF Good, Begins
  <2>3. CASE p = o
    <3>1. L \in Nat /\ L = Len(parts[o]) /\ k \in 1..(L + 1)
      BY <1>1, <1>7, <2>3 DEF L
    <3>2. Begins(o, k)' = IF k = 1 THEN 0 ELSE parts[o][k - 1].to
      <4>1. k = 1 \/ k - 1 \in 1..L
        BY <3>1
      <4>2. CASE k = 1
        BY <4>2 DEF Begins
      <4>3. CASE k # 1
        <5>1. parts'[o][k - 1] = parts[o][k - 1]
          BY <1>7, <4>1, <4>3
        <5> QED BY <3>1, <4>3, <5>1 DEF Begins
      <4> QED BY <4>2, <4>3
    <3>3. CASE k \in 1..L
      <4>1. parts'[o][k] = parts[o][k] /\ Good(o, k)
        BY <1>7, <2>1, <3>1, <3>3
      <4> QED BY <2>3, <3>2, <4>1 DEF Good, Begins
    <3>4. CASE k = L + 1
      <4>1. parts'[o][k] = c
        BY <1>7, <3>4
      <4>2. Begins(o, k)' = Start(o)
        <5>1. CASE L = 0
          <6>1. parts[o] = <<>>
            BY <1>1, <3>1, <5>1, NoneIn
          <6> QED BY <3>1, <3>2, <3>4, <5>1, <6>1 DEF Start
        <5>2. CASE L # 0
          <6>1. parts[o] # <<>> /\ k # 1 /\ k - 1 = L
            BY <3>1, <3>4, <5>2
          <6> QED BY <3>1, <3>2, <6>1 DEF Start
        <5> QED BY <5>1, <5>2
      <4> QED BY <1>5, <2>3, <4>1, <4>2 DEF Good
    <3> QED BY <3>1, <3>3, <3>4
  <2> QED BY <2>2, <2>3
<1> QED BY <1>5, <1>7, <1>9, <1>10, <1>11

(* The other outputs are as they were.                                     *)
LEMMA OthersGoOn ==
  ASSUME Inv, ChainInv, PartsGood, Running, ~failed, NEW o \in Outs, NEW c \in Stretches, Ended(o, c),
         unseen \subseteq unseen', o \in unseen', UNCHANGED <<made, queue, wpc, failed>>
  PROVE  /\ ChainInv' /\ PartsGood' /\ \A p \in Outs : p # o => parts'[p] = parts[p]
         /\ parts'[o] = Append(parts[o], c)
<1>1. /\ work \in [Outs -> Stretches] /\ bufLen \in [Outs -> Nat] /\ parts \in [Outs -> Seq(Stretches)]
  BY Numbers DEF TypeOK
<1>2. ASSUME NEW p \in Outs, p # o
      PROVE  work'[p] = work[p] /\ bufLen'[p] = bufLen[p] /\ parts'[p] = parts[p]
  BY <1>1, <1>2 DEF Ended
<1>3. ChainInv'
  <2> SUFFICES ASSUME NEW p \in Outs \ unseen' PROVE Chain(p)'
    BY DEF ChainInv
  <2>1. Chain(p) /\ p # o
    BY DEF ChainInv
  <2>2. Start(p)' = Start(p) /\ Of(p)' = Of(p) /\ Left(p)' = Left(p) /\ work'[p] = work[p]
    BY <1>2, <2>1 DEF Start, Of, Left
  <2> QED BY <2>1, <2>2 DEF Chain
<1>4. PartsGood'
  <2> SUFFICES ASSUME NEW p \in Outs \ unseen', NEW k \in 1..Len(parts'[p]) PROVE Good(p, k)'
    BY DEF PartsGood
  <2>1. p # o /\ p \in Outs \ unseen
    OBVIOUS
  <2>2. parts'[p] = parts[p]
    BY <1>2, <2>1
  <2>3. Good(p, k)
    BY <2>1, <2>2 DEF PartsGood
  <2> QED BY <2>2, <2>3 DEF Good, Begins
<1>5. parts'[o] = Append(parts[o], c)
  BY <1>1 DEF Ended
<1> QED BY <1>2, <1>3, <1>4, <1>5

LEMMA DataSplitWav == Inv /\ PlanInv /\ DataInv /\ SplitWav => DataInv'
<1> SUFFICES ASSUME Inv, PlanInv, DataInv, SplitWav PROVE DataInv'
  OBVIOUS
<1>1. /\ todo # <<>> /\ Out \in Outs /\ Head(todo).op = "split"
      /\ UNCHANGED <<made, ending, unfinished, queue, wpc, failed>>
  BY SplitChoices DEF At, writeVars
<1>2. Running /\ ~ending /\ Head(todo) = todo[1] /\ 1 \in 1..Len(todo)
  BY <1>1, Busy DEF Ops, EndOps
<1>3. queue = <<>>
  BY <1>1, <1>2 DEF PlanInv, QueueInv, WaitsToSplit
<1>4. CASE Stopped /\ UNCHANGED unseen
  BY <1>1, <1>4, DataThrow DEF Stopped
<1>5. ASSUME NEW c \in Stretches, Ended(Out, c),
             (c = Sized(EndOf(Out), TRUE) /\ unseen' = unseen) \/ unseen' = unseen \cup {Out},
             Throw \/ result' = result
      PROVE  DataInv'
  <2>1. SuccessIsWhole' /\ OthersFinished' /\ ClosedInv'
    BY <1>1, <1>2, <1>5 DEF SuccessIsWhole, OthersFinished, ClosedInv, Running, Throw
  <2>2. CASE failed
    <3>1. ChainInv' /\ PartsGood'
      BY <1>1, <2>2 DEF ChainInv, PartsGood
    <3> QED BY <2>1, <3>1 DEF DataInv
  <2>3. CASE ~failed /\ Out \in unseen'
    <3>1. unseen \subseteq unseen'
      BY <1>5
    <3>2. ChainInv' /\ PartsGood'
      BY <1>1, <1>2, <1>5, <2>3, <3>1, OthersGoOn DEF DataInv
    <3> QED BY <2>1, <3>2 DEF DataInv
  <2>4. CASE ~failed /\ Out \notin unseen'
    <3>1. c = Sized(EndOf(Out), TRUE) /\ unseen' = unseen
      BY <1>5, <2>4
    <3>2. ChainInv' /\ PartsGood'
      BY <1>1, <1>2, <1>3, <1>5, <2>4, <3>1, PartEnded DEF DataInv
    <3> QED BY <2>1, <3>2 DEF DataInv
  <2> QED BY <2>2, <2>3, <2>4
<1> QED BY <1>4, <1>5, SplitChoices

LEMMA DataCloseOutput == Inv /\ PlanInv /\ DataInv /\ CloseOutput => DataInv'
<1> SUFFICES ASSUME Inv, PlanInv, DataInv, CloseOutput PROVE DataInv'
  OBVIOUS
<1>8. Out \in Outs
  BY CloseChoices
<1>9. PICK o \in Outs : o = Out
  BY <1>8
<1> DEFINE c == Sized(EndOf(o), Outputs[o].wav)
<1>1. /\ todo # <<>> /\ Head(todo).op = "close"
      /\ UNCHANGED <<made, ending, queue, wpc, failed, unseen>>
  BY CloseChoices DEF At, writeVars
<1>2. Running /\ Head(todo) = todo[1] /\ 1 \in 1..Len(todo)
  BY <1>1, Busy
<1>3. queue = <<>>
  <2>1. 1..(1 - 1) = {}
    OBVIOUS
  <2> QED BY <1>1, <1>2, <2>1 DEF PlanInv, WaitsToClose
<1>4. \/ Ended(o, c) /\ Then(<<>>) /\ UNCHANGED <<unfinished, result>>
      \/ /\ unfinished' = unfinished \cup {o} /\ Then(<<>>)
         /\ UNCHANGED <<bufLen, work, parts, result>>
      \/ Stopped
  BY <1>9, CloseChoices
<1>5. CASE Stopped
  BY <1>1, <1>5, DataThrow DEF Stopped
<1>10. ASSUME Then(<<>>), UNCHANGED result, NEW p \in Outs, p # o, ToClose(p) PROVE ToClose(p)'
  <2>1. PICK i \in 1..Len(todo) : todo[i].op = "close" /\ todo[i].out = p
    BY <1>10 DEF ToClose
  <2>2. /\ todo \in Seq(Steps) /\ Len(todo) > 0 /\ Len(todo) \in Nat
        /\ Len(todo') = Len(todo) - 1
        /\ \A j \in 1..Len(todo') : todo'[j] = todo[j + 1]
    BY <1>1, <1>10, OneLess, TodoNow
  <2>3. i # 1
    BY <1>2, <1>9, <1>10, <2>1 DEF Out
  <2>4. i - 1 \in 1..Len(todo') /\ (i - 1) + 1 = i
    BY <2>2, <2>3
  <2>5. todo'[i - 1].op = "close" /\ todo'[i - 1].out = p
    BY <2>1, <2>2, <2>4
  <2> QED BY <2>4, <2>5 DEF ToClose
<1>6. CASE unfinished' = unfinished \cup {o} /\ Then(<<>>) /\ UNCHANGED <<bufLen, work, parts, result>>
  <2>1. ChainInv'
    BY <1>1, <1>2, <1>6, ChainSame DEF DataInv
  <2>2. PartsGood'
    BY <1>1, <1>6 DEF DataInv, PartsGood, Good, Begins
  <2>3. SuccessIsWhole' /\ OthersFinished'
    BY <1>2, <1>6 DEF SuccessIsWhole, OthersFinished, Running
  <2>4. ClosedInv'
    <3> SUFFICES ASSUME ending', ~failed', NEW p \in Outs, p \notin unseen, p \notin unfinished, p # o
                 PROVE  ToClose(p)' \/ Closed(p)'
      BY <1>1, <1>6 DEF ClosedInv
    <3>1. ToClose(p) \/ Closed(p)
      BY <1>1, <1>2 DEF DataInv, ClosedInv
    <3>2. Closed(p) => Closed(p)'
      BY <1>1, <1>6 DEF Closed
    <3> QED BY <1>6, <1>10, <3>1, <3>2
  <2> QED BY <2>1, <2>2, <2>3, <2>4 DEF DataInv
<1>7. CASE Ended(o, c) /\ Then(<<>>) /\ UNCHANGED <<unfinished, result>>
  <2>1. SuccessIsWhole' /\ OthersFinished'
    BY <1>2, <1>7 DEF SuccessIsWhole, OthersFinished, Running
  <2>2. CASE failed
    <3>1. ChainInv' /\ PartsGood' /\ ClosedInv'
      BY <1>1, <2>2 DEF ChainInv, PartsGood, ClosedInv
    <3> QED BY <2>1, <3>1 DEF DataInv
  <2>3. CASE ~failed
    <3>1. /\ ChainInv' /\ PartsGood' /\ \A p \in Outs : p # o => parts'[p] = parts[p]
          /\ o \notin unseen => Closed(o)'
      <4>1. Outputs[o].wav \in BOOLEAN
        BY OutputTypes
      <4>2. c \in Stretches
        BY <4>1, EndTypes
      <4>3. ChainInv /\ PartsGood
        BY DEF DataInv
      <4>4. CASE o \in unseen
        <5> HIDE DEF c
        <5> QED BY <1>1, <1>2, <1>7, <2>3, <4>2, <4>3, <4>4, OthersGoOn
      <4>5. CASE o \notin unseen
        BY <1>1, <1>2, <1>3, <1>7, <2>3, <4>1, <4>3, <4>5, PartEnded
      <4> QED BY <4>4, <4>5
    <3>2. ClosedInv'
      <4> SUFFICES ASSUME ending', ~failed', NEW p \in Outs, p \notin unseen, p \notin unfinished
                   PROVE  ToClose(p)' \/ Closed(p)'
        BY <1>1, <1>7 DEF ClosedInv
      <4>1. CASE p = o
        BY <3>1, <4>1
      <4>2. CASE p # o
        <5>1. ToClose(p) \/ Closed(p)
          BY <1>1, <1>2 DEF DataInv, ClosedInv
        <5>2. Closed(p) => Closed(p)'
          BY <1>1, <3>1, <4>2 DEF Closed
        <5> QED BY <1>7, <1>10, <4>2, <5>1, <5>2
      <4> QED BY <4>1, <4>2
    <3> QED BY <2>1, <3>1, <3>2 DEF DataInv
  <2> QED BY <2>2, <2>3
<1> QED BY <1>4, <1>5, <1>6, <1>7

(* The verdict is the last step: every file was closed by then.            *)
LEMMA DataVerdict == Inv /\ PlanInv /\ DataInv /\ Verdict => DataInv'
<1> SUFFICES ASSUME Inv, PlanInv, DataInv, Verdict PROVE DataInv'
  OBVIOUS
<1>1. /\ todo # <<>> /\ Head(todo).op = "verdict"
      /\ UNCHANGED <<bufVars, fileVars, ending, unfinished, writeVars, unseen>>
      /\ result' = IF HasError THEN "failed" ELSE IF unfinished # {} THEN "unfinished" ELSE "ok"
  BY DEF Verdict, At
<1>2. UNCHANGED <<made, work, parts, ending, unfinished, queue, wpc, failed, unseen>>
  BY <1>1 DEF bufVars, fileVars, writeVars
<1>3. ~Running'
  BY <1>1 DEF Running
<1>4. ChainInv' /\ ClosedInv'
  BY <1>3 DEF ChainInv, ClosedInv
<1>5. PartsGood'
  BY <1>2 DEF DataInv, PartsGood, Good, Begins
<1>6. ASSUME ~failed, NEW o \in Outs \ (unseen \cup unfinished) PROVE Whole(o)'
  <2>2. Running /\ Head(todo) = todo[1] /\ Len(todo) \in Nat /\ Len(todo) > 0 /\ Head(todo).op \in Ops
    BY <1>1, Busy
  <2>3. ending
    BY <1>1, <2>2 DEF Ops, MuxOps
  <2>4. Len(todo) = 1
    <3> SUFFICES ASSUME Len(todo) # 1 PROVE FALSE
      OBVIOUS
    <3>1. \A n \in Nat : n > 0 /\ n # 1 => 1 \in 1..n /\ 2 \in 1..n /\ 1 < 2
      OBVIOUS
    <3>2. 1 \in 1..Len(todo) /\ 2 \in 1..Len(todo) /\ 1 < 2
      BY <2>2, <3>1
    <3> QED BY <1>1, <2>2, <3>2 DEF PlanInv, ClosesLast
  <2>5. ~ToClose(o)
    <3>1. \A i \in 1..1 : i = 1
      OBVIOUS
    <3> QED BY <1>1, <2>2, <2>4, <3>1 DEF ToClose
  <2>6. Closed(o)
    BY <1>6, <2>2, <2>3, <2>5 DEF DataInv, ClosedInv
  <2>7. \A p \in 1..Len(parts[o]) : Good(o, p)
    BY <1>6 DEF DataInv, PartsGood
  <2> QED BY <1>2, <2>6, <2>7 DEF Whole, Closed, Good, Begins
<1>7. SuccessIsWhole'
  BY <1>1, <1>2, <1>6 DEF SuccessIsWhole, HasError
<1>8. OthersFinished'
  BY <1>1, <1>2, <1>6 DEF OthersFinished, HasError
<1> QED BY <1>4, <1>5, <1>7, <1>8 DEF DataInv

(* What the writer takes first goes on where the file ends.                *)
LEMMA ChainExecute == Inv /\ PlanInv /\ ChainInv /\ WriterExecute => ChainInv'
<1> SUFFICES ASSUME Inv, PlanInv, ChainInv, WriterExecute, ~failed', Running',
                    NEW o \in Outs \ unseen
             PROVE  Chain(o)'
  BY DEF ChainInv, WriterExecute, writerLeaves
<1> DEFINE w == Head(queue)
           L == Len(queue)
<1>1. /\ queue # <<>> /\ wpc = "exec" /\ wpc' = "pop" /\ queue' = queue
      /\ UNCHANGED <<made, bufLen, parts, result>>
  BY DEF WriterExecute, writerLeaves, bufVars, endVars
<1>2. ~failed /\ work' = IF w.out \in open THEN [work EXCEPT ![w.out] = Put(@, w.from, w.to)] ELSE work
  BY DEF WriterExecute
<1>3. Running /\ Chain(o)
  BY <1>1, <1>2 DEF ChainInv, Running
<1>4. open = Outs
  BY <1>1, <1>3 DEF PlanInv, OpenInv
<1>5. /\ queue \in Seq(Writes) /\ work \in [Outs -> Stretches] /\ L \in Nat /\ L > 0
      /\ w = queue[1] /\ w \in Writes
  <2>1. queue \in Seq(Writes) /\ work \in [Outs -> Stretches]
    BY Numbers DEF TypeOK
  <2> QED BY <1>1, <2>1
<1>6. w.out \in Outs /\ w.from \in Nat /\ w.to \in Nat
  BY <1>5 DEF Writes
<1>7. Start(o)' = Start(o) /\ Left(o)' = Left(o)
  BY <1>1 DEF Start, Left
<1>8. work' = [work EXCEPT ![w.out] = Put(@, w.from, w.to)]
  BY <1>2, <1>4, <1>6
<1>9. /\ Of(o) \in SUBSET Nat /\ \A i \in Of(o) : 1 <= i
      /\ Of(o)' = Of(o) \ {1} /\ (w.out = o <=> 1 \in Of(o))
  <2>1. 1 \in 1..L /\ \A i \in 1..L : i \in Nat /\ 1 <= i /\ (i > 1 <=> i # 1)
    BY <1>5
  <2> HIDE DEF w
  <2>2. Of(o) = {i \in 1..L : queue[i].out = o} /\ Of(o)' = {i \in 1..L : queue[i].out = o /\ i > 1}
    BY <1>1 DEF Of
  <2> HIDE DEF L
  <2> QED BY <1>5, <2>1, <2>2
<1>10. work[o].whole /\ work[o].from = Start(o) /\ Goes(queue, Of(o), work[o].to, Left(o))
  BY <1>3 DEF Chain
<1> HIDE DEF w, L
<1>11. CASE w.out = o
  <2>1. queue[1].from = work[o].to /\ Goes(queue, Of(o) \ {1}, queue[1].to, Left(o))
    <3> DEFINE I == Of(o)
               f == work[o].to
               t == Left(o)
    <3>1. I \in SUBSET Nat /\ 1 \in I /\ (\A i \in I : 1 <= i) /\ Goes(queue, I, f, t)
      BY <1>9, <1>10, <1>11
    <3> HIDE DEF I, f, t
    <3>2. queue[1].from = f /\ Goes(queue, I \ {1}, queue[1].to, t)
      BY <3>1, GoesFirst
    <3> QED BY <3>2 DEF I, f, t
  <2>2. work'[o] = Put(work[o], work[o].to, w.to) /\ work[o] \in Stretches
    BY <1>5, <1>8, <1>11, <2>1
  <2>3. work'[o].whole /\ work'[o].from = Start(o) /\ work'[o].to = w.to
    BY <1>6, <1>10, <2>2, PutGoesOn
  <2>4. Goes(queue', Of(o)', work'[o].to, Left(o)')
    BY <1>1, <1>5, <1>7, <1>9, <2>1, <2>3
  <2> QED BY <1>7, <2>3, <2>4 DEF Chain
<1>12. CASE w.out # o
  <2>1. Of(o)' = Of(o)
    BY <1>9, <1>12
  <2>2. work'[o] = work[o]
    BY <1>5, <1>8, <1>12
  <2>3. Goes(queue', Of(o)', work'[o].to, Left(o)')
    BY <1>1, <1>7, <1>10, <2>1, <2>2
  <2> QED BY <1>7, <1>10, <2>2, <2>3 DEF Chain
<1> QED BY <1>11, <1>12

LEMMA ChainPop == Inv /\ ChainInv /\ WriterPop => ChainInv'
<1> SUFFICES ASSUME Inv, ChainInv, WriterPop, ~failed', Running', NEW o \in Outs \ unseen PROVE Chain(o)'
  BY DEF ChainInv, WriterPop, writerLeaves
<1>1. /\ queue # <<>> /\ wpc = "pop" /\ wpc' = "exec" /\ queue' = Tail(queue)
      /\ UNCHANGED <<made, bufLen, parts, work, result, failed>>
  BY DEF WriterPop, writerLeaves, bufVars, endVars
<1>2. Chain(o)
  BY <1>1 DEF ChainInv, Running
<1>3. queue \in Seq(Writes)
  BY Numbers DEF TypeOK
<1>4. /\ Len(queue) \in Nat /\ Len(queue) > 0 /\ Len(queue') = Len(queue) - 1
      /\ \A i \in 1..Len(queue') : queue'[i] = queue[i + 1]
  BY <1>1, <1>3
<1>5. Start(o)' = Start(o) /\ Left(o)' = Left(o)
  BY <1>1 DEF Start, Left
<1> DEFINE I == Of(o)
           J == {i \in 1..Len(queue') : queue'[i].out = o}
<1>6. Of(o)' = J
  BY <1>1 DEF Of
<1>7. I \in SUBSET Nat /\ \A i \in I : i \in 1..Len(queue) /\ queue[i].out = o /\ i > 1
  BY <1>1, <1>4 DEF Of
<1>8. \A i \in I : i > 0 /\ i - 1 \in J
  <2> SUFFICES ASSUME NEW i \in I PROVE i - 1 \in J
    BY <1>7
  <2>1. i - 1 \in 1..Len(queue') /\ (i - 1) + 1 = i
    BY <1>4, <1>7
  <2>2. queue'[i - 1].out = o
    BY <1>4, <1>7, <2>1
  <2> QED BY <2>1, <2>2
<1>9. J \in SUBSET Nat /\ \A i \in J : i + 1 \in I /\ queue'[i] = queue[i + 1]
  <2>1. ASSUME NEW i \in J PROVE i \in Nat /\ i + 1 \in I /\ queue'[i] = queue[i + 1]
    <3>1. i \in 1..Len(queue') /\ queue'[i].out = o
      OBVIOUS
    <3>2. i + 1 \in 1..Len(queue) /\ i + 1 > 1 /\ queue'[i] = queue[i + 1] /\ i \in Nat
      BY <1>4, <3>1
    <3> QED BY <3>1, <3>2 DEF Of
  <2> QED BY <2>1
<1> HIDE DEF I, J
<1>10. Goes(queue, I, work[o].to, Left(o)) /\ work[o].whole /\ work[o].from = Start(o)
  BY <1>2 DEF Chain, I
<1>11. Goes(queue', J, work[o].to, Left(o))
  BY <1>7, <1>8, <1>9, <1>10, GoesShift
<1> QED BY <1>1, <1>5, <1>6, <1>10, <1>11 DEF Chain

LEMMA DataWriter == Inv /\ PlanInv /\ DataInv /\ Writer => DataInv'
<1> SUFFICES ASSUME Inv, PlanInv, DataInv, Writer PROVE DataInv'
  OBVIOUS
<1>1. UNCHANGED <<made, parts, todo, ending, unfinished, result, unseen>> /\ (~failed' => ~failed)
  BY DEF Writer, WriterExecute, WriterPop, writerLeaves, bufVars, endVars
<1>2. ChainInv'
  BY ChainExecute, ChainPop DEF Writer, DataInv
<1>3. PartsGood'
  BY <1>1 DEF DataInv, PartsGood, Good, Begins
<1>4. ClosedInv'
  BY <1>1 DEF DataInv, ClosedInv, ToClose, Closed, Running
<1>5. SuccessIsWhole' /\ OthersFinished'
  BY <1>1 DEF DataInv, SuccessIsWhole, OthersFinished, Whole, Begins
<1> QED BY <1>2, <1>3, <1>4, <1>5 DEF DataInv

LEMMA DataStutter == DataInv /\ UNCHANGED vars => DataInv'
<1> SUFFICES ASSUME DataInv, UNCHANGED vars PROVE DataInv'
  OBVIOUS
<1>1. /\ UNCHANGED <<made, bufLen, work, parts, todo, ending, unfinished, result, queue, wpc, failed, unseen>>
  BY DEF vars, bufVars, fileVars, endVars, writeVars
<1>2. ChainInv'
  BY <1>1, ChainSame DEF DataInv, Running
<1>3. PartsGood'
  BY <1>1 DEF DataInv, PartsGood, Good, Begins
<1>4. ClosedInv'
  BY <1>1 DEF DataInv, ClosedInv, ToClose, Closed, Running
<1>5. SuccessIsWhole' /\ OthersFinished'
  BY <1>1 DEF DataInv, SuccessIsWhole, OthersFinished, Whole, Begins
<1> QED BY <1>2, <1>3, <1>4, <1>5 DEF DataInv

LEMMA DataNext == Inv /\ PlanInv /\ DataInv /\ [Next]_vars => DataInv'
<1> SUFFICES ASSUME Inv, PlanInv, DataInv, [Next]_vars PROVE DataInv'
  OBVIOUS
<1>1. CASE \E t \in Tracks, kind \in Kinds, n \in Sizes : MuxPacket(t, kind, n)
  BY <1>1, DataMuxPacket
<1>2. CASE EndOfSources
  BY <1>2, DataEnd
<1>3. CASE MuxStep
  BY <1>3, DataFrame, DataLeave, DataSplitWav, DataWait, DataCloseOutput, DataVerdict DEF MuxStep
<1>4. CASE Writer
  BY <1>4, DataWriter
<1>5. CASE Done \/ UNCHANGED vars
  BY <1>5, DataStutter DEF Done
<1> QED BY <1>1, <1>2, <1>3, <1>4, <1>5 DEF Next

LEMMA DataInit == Init => DataInv
<1> SUFFICES ASSUME Init PROVE DataInv
  OBVIOUS
<1>1. /\ made = [o \in Outs |-> 0] /\ bufLen = made /\ queue = <<>> /\ result = "running"
      /\ work = [o \in Outs |-> EmptyAt(0)] /\ parts = [o \in Outs |-> <<>>] /\ ending = FALSE
  BY DEF Init
<1>2. Len(<<>>) = 0 /\ 1..0 = {}
  OBVIOUS
<1>3. ASSUME NEW o \in Outs PROVE Chain(o) /\ Len(parts[o]) = 0
  <2>1. Of(o) = {} /\ Start(o) = 0 /\ Left(o) = 0 /\ work[o] = EmptyAt(0) /\ parts[o] = <<>>
    BY <1>1, <1>2 DEF Of, Start, Left
  <2>2. work[o].whole /\ work[o].from = 0 /\ work[o].to = 0
    BY <2>1 DEF EmptyAt
  <2> QED BY <2>1, <2>2 DEF Chain, Goes
<1>4. ChainInv /\ PartsGood /\ ClosedInv /\ SuccessIsWhole /\ OthersFinished
  BY <1>1, <1>2, <1>3 DEF ChainInv, PartsGood, ClosedInv, SuccessIsWhole, OthersFinished
<1> QED BY <1>4 DEF DataInv

LEMMA DataInvariant == Spec => [](Inv /\ PlanInv /\ DataInv)
<1>1. Init => Inv /\ PlanInv /\ DataInv
  BY InvInit, PlanInit, DataInit
<1>2. Inv /\ PlanInv /\ DataInv /\ [Next]_vars => (Inv /\ PlanInv /\ DataInv)'
  BY NextKeeps, PlanNext, DataNext
<1> QED BY <1>1, <1>2, PTL DEF Spec

(* A demux that is reported as complete has written every byte of every    *)
(* output (MuxerManager::doMux, SingleFileMuxer::doFlush and close): no    *)
(* queued write is left behind by a split or a close, no failed write or   *)
(* rename is passed over, and nothing that fails when the files are        *)
(* closed.  When close has named the outputs whose end it could not write, *)
(* every other is whole, also one behind them; a write or a rename that    *)
(* fails is not named, as its exception ends the loop.  Left out are the   *)
(* outputs for which a close, an open or a seek failed at a split:         *)
(* writeOutBuffer looks at none of these, and such a part may lack bytes   *)
(* in a demux that is reported as complete.                                *)
THEOREM DemuxIsWhole == Spec => []FinishedIsWhole
<1>1. Inv /\ PlanInv /\ DataInv => FinishedIsWhole
  BY DEF DataInv, FinishedIsWhole
<1> QED BY <1>1, DataInvariant, PTL

-----------------------------------------------------------------------------
(* The parts of a WAV: the steps to come *)

(* A packet of a WAV is copied, and a part of one ended, before anything   *)
(* else is begun.                                                          *)
LEMMA HeadOfWav ==
  ASSUME Inv, StepsOfWav, NEW i \in 2..Len(todo), Wav(todo[i].out)
  PROVE  /\ todo[i].op = "copy" =>
              /\ Head(todo).op \in {"out", "room"} /\ Head(todo).out = todo[i].out
              /\ Ready(todo[i].out)
         /\ todo[i].op = "split" => Head(todo).op = "wait"
<1>1. Len(todo) \in Nat /\ todo # <<>> => Head(todo) = todo[1]
  BY TodoNow
<1>2. todo # <<>>
  <2>1. Len(<<>>) = 0
    OBVIOUS
  <2> QED BY <1>1, <2>1
<1>3. Head(todo) = todo[1] /\ 1 \in 1..(i - 1) /\ i \in 1..Len(todo)
  BY <1>1, <1>2
<1> QED BY <1>3 DEF StepsOfWav

(* The steps of a list that stand before the rest of what is left.         *)
LEMMA WavPrefix ==
  ASSUME Inv, todo # <<>>, StepsOfWav, NEW steps \in Seq(Steps), Then(steps),
         \A i \in 1..Len(steps) : Wav(steps[i].out) =>
           /\ steps[i].op \in {"frame", "room", "copy"} => steps[i].size <= MaxPacket
           /\ steps[i].op = "copy" =>
                /\ ReadyAfter(steps[i].out)
                /\ \A j \in 1..(i - 1) : steps[j].op \in {"out", "room"} /\ steps[j].out = steps[i].out
           /\ steps[i].op = "split" => \A j \in 1..(i - 1) : steps[j].op = "wait",
         \A i \in 2..Len(todo) : Wav(todo[i].out) =>
           /\ todo[i].op = "copy" => steps = <<>> /\ ReadyAfter(todo[i].out)
           /\ todo[i].op = "split" => steps = <<>>
  PROVE  StepsOfWav'
<1>1. todo \in Seq(Steps) /\ Len(todo) > 0 /\ Len(todo) \in Nat /\ Len(steps) \in Nat
  BY TodoNow
<1>2. /\ Len(todo') = Len(steps) + (Len(todo) - 1)
      /\ \A i \in 1..Len(todo') :
           IF i <= Len(steps) THEN todo'[i] = steps[i]
           ELSE i - Len(steps) + 1 \in 2..Len(todo) /\ todo'[i] = todo[i - Len(steps) + 1]
  BY ThenAt
<1> SUFFICES ASSUME NEW i \in 1..Len(todo'), Wav(todo'[i].out)
    PROVE  /\ todo'[i].op \in {"frame", "room", "copy"} => todo'[i].size <= MaxPacket
           /\ todo'[i].op = "copy" =>
                /\ ReadyAfter(todo'[i].out)
                /\ \A j \in 1..(i - 1) : todo'[j].op \in {"out", "room"} /\ todo'[j].out = todo'[i].out
           /\ todo'[i].op = "split" => \A j \in 1..(i - 1) : todo'[j].op = "wait"
  BY DEF StepsOfWav, Wav, Ready, ReadyAfter
<1>3. CASE i <= Len(steps)
  <2>1. i \in 1..Len(steps) /\ todo'[i] = steps[i]
    BY <1>1, <1>2, <1>3
  <2>2. \A j \in 1..(i - 1) : todo'[j] = steps[j]
    <3>1. \A j \in 1..(i - 1) : j \in 1..Len(todo') /\ j <= Len(steps)
      BY <1>1, <1>2, <1>3
    <3> QED BY <1>2, <3>1
  <2> QED BY <2>1, <2>2
<1>4. CASE ~(i <= Len(steps))
  <2>1. PICK k \in 2..Len(todo) : k = i - Len(steps) + 1 /\ todo'[i] = todo[k]
    BY <1>2, <1>4
  <2>2. k \in 1..Len(todo) /\ Wav(todo[k].out)
    BY <2>1
  <2>3. ASSUME steps = <<>>, NEW j \in 1..(i - 1)
        PROVE  j + 1 \in 1..(k - 1) /\ todo'[j] = todo[j + 1]
    <3>1. Len(steps) = 0
      BY <2>3
    <3>2. j \in 1..Len(todo') /\ ~(j <= 0) /\ j - 0 + 1 = j + 1 /\ j + 1 \in 1..(k - 1)
      BY <1>1, <1>2, <2>1, <3>1
    <3> QED BY <1>2, <3>1, <3>2
  <2>4. todo'[i].op \in {"frame", "room", "copy"} => todo'[i].size <= MaxPacket
    BY <2>1, <2>2 DEF StepsOfWav
  <2>5. ASSUME todo'[i].op = "copy"
        PROVE  /\ ReadyAfter(todo'[i].out)
               /\ \A j \in 1..(i - 1) : todo'[j].op \in {"out", "room"} /\ todo'[j].out = todo'[i].out
    <3>1. steps = <<>> /\ ReadyAfter(todo[k].out)
      BY <2>1, <2>2, <2>5
    <3>2. \A j \in 1..(k - 1) : todo[j].op \in {"out", "room"} /\ todo[j].out = todo[k].out
      BY <2>1, <2>2, <2>5 DEF StepsOfWav
    <3>3. ReadyAfter(todo'[i].out)
      BY <2>1, <3>1
    <3>4. \A j \in 1..(i - 1) : todo'[j].op \in {"out", "room"} /\ todo'[j].out = todo'[i].out
      <4>1. ASSUME NEW j \in 1..(i - 1)
            PROVE  todo'[j].op \in {"out", "room"} /\ todo'[j].out = todo'[i].out
        <5>1. j + 1 \in 1..(k - 1) /\ todo'[j] = todo[j + 1]
          BY <2>3, <3>1
        <5>2. todo[j + 1].op \in {"out", "room"} /\ todo[j + 1].out = todo[k].out
          BY <3>2, <5>1
        <5> QED BY <2>1, <5>1, <5>2
      <4> QED BY <4>1
    <3> QED BY <3>3, <3>4
  <2>6. ASSUME todo'[i].op = "split"
        PROVE  \A j \in 1..(i - 1) : todo'[j].op = "wait"
    <3>1. steps = <<>>
      BY <2>1, <2>2, <2>6
    <3>2. \A j \in 1..(k - 1) : todo[j].op = "wait"
      BY <2>1, <2>2, <2>6 DEF StepsOfWav
    <3>3. ASSUME NEW j \in 1..(i - 1) PROVE todo'[j].op = "wait"
      <4>1. j + 1 \in 1..(k - 1) /\ todo'[j] = todo[j + 1]
        BY <2>3, <3>1
      <4> QED BY <3>2, <4>1
    <3> QED BY <3>3
  <2> QED BY <2>4, <2>5, <2>6
<1> QED BY <1>3, <1>4

(* A part that is to be ended is ended next, after a wait for the writer.  *)
LEMMA PendingNow ==
  ASSUME Inv, StepsOfWav, NEW o \in Outs, Wav(o), SplitPending(o)
  PROVE  /\ todo # <<>>
         /\ \/ Head(todo).op = "split" /\ Head(todo).out = o
            \/ /\ Head(todo).op = "wait"
               /\ \E i \in 2..Len(todo) : todo[i].op = "split" /\ todo[i].out = o
<1>1. PICK i \in 1..Len(todo) : todo[i].op = "split" /\ todo[i].out = o
  BY DEF SplitPending
<1>2. todo # <<>>
  <2>1. Len(<<>>) = 0
    OBVIOUS
  <2> QED BY <1>1, <2>1, TodoNow
<1>3. Head(todo) = todo[1] /\ Len(todo) \in Nat
  BY <1>2, TodoNow
<1>4. CASE i = 1
  BY <1>1, <1>2, <1>3, <1>4
<1>5. CASE i # 1
  <2>1. i \in 2..Len(todo)
    BY <1>3, <1>5
  <2> QED BY <1>1, <1>2, <2>1, HeadOfWav
<1> QED BY <1>4, <1>5

LEMMA WavSizes ==
  /\ SplitAt \in Int /\ SplitAt > 0 /\ SplitAt + Unit + BlockSize = RiffMax /\ RiffMax \in Nat
  /\ SplitAt + Capacity < RiffMax
<1>1. RiffMax \in Nat /\ RiffMax > Unit + 2 * BlockSize
  BY DemuxFilesAssumption
<1>2. /\ Unit \in Nat /\ BlockSize \in Nat /\ Unit > 0 /\ BlockSize > 0
      /\ MaxPacket + AddData < Unit /\ Capacity = BlockSize + MaxPacket + AddData
      /\ MaxPacket \in Nat /\ AddData \in Nat
  BY Sizing1
<1> QED BY <1>1, <1>2 DEF SplitAt

(* Before the sources end and while the job runs, the plan is what it says *)
LEMMA WavNow ==
  ASSUME Inv, PlanInv, WavPlan, todo # <<>>, Head(todo).op \notin EndOps \/ ~ending
  PROVE  /\ ~ending /\ Running /\ StepsOfWav /\ \A o \in Outs : Wav(o) => SplitInTime(o)
         /\ Head(todo) = todo[1] /\ Len(todo) \in Nat /\ 1 \in 1..Len(todo)
BY Busy DEF Ops, WavPlan

(* A step that is done and puts none in its place, and keeps the numbers.  *)
LEMMA WavShift ==
  ASSUME Inv, PlanInv, WavPlan, todo # <<>>, Head(todo).op \in {"frame", "room", "wait"},
         Then(<<>>), ending' = ending,
         \A o \in Outs : Wav(o) => total'[o] = total[o] /\ bufLen'[o] = bufLen[o] /\ first'[o] = first[o]
  PROVE  WavPlan'
<1> SUFFICES ASSUME ~ending PROVE WavPlan'
  BY DEF WavPlan
<1>1. /\ StepsOfWav /\ \A o \in Outs : Wav(o) => SplitInTime(o)
  BY WavNow
<1>2. Len(<<>>) = 0 /\ 1..0 = {} /\ <<>> \in Seq(Steps)
  OBVIOUS
<1>3. ASSUME NEW i \in 2..Len(todo) PROVE todo[i].out \in Outs
  <2>1. todo \in Seq(Steps) /\ i \in 1..Len(todo)
    BY <1>3, TodoNow
  <2>2. todo[i] \in Steps
    BY <2>1
  <2> QED BY <2>2 DEF Steps
<1>4. StepsOfWav'
  <2>1. ASSUME NEW i \in 2..Len(todo), Wav(todo[i].out), todo[i].op = "copy" PROVE ReadyAfter(todo[i].out)
    BY <1>1, <1>3, <2>1, HeadOfWav DEF Ready, ReadyAfter
  <2> QED BY <1>1, <1>2, <2>1, WavPrefix
<1>5. ASSUME NEW o \in Outs, Wav(o) PROVE SplitInTime(o)'
  <2>1. SplitInTime(o) /\ total'[o] = total[o] /\ bufLen'[o] = bufLen[o] /\ first'[o] = first[o]
    BY <1>1, <1>5
  <2>2. ASSUME SplitPending(o) PROVE SplitPending(o)'
    <3>1. PICK i \in 2..Len(todo) : todo[i].op = "split" /\ todo[i].out = o
      BY <1>1, <1>5, <2>2, PendingNow
    <3>2. /\ Len(todo') = Len(todo) - 1 /\ Len(todo) \in Nat
          /\ \A k \in 1..Len(todo') : k + 1 \in 2..Len(todo) /\ todo'[k] = todo[k + 1]
      BY OneLess, TodoNow
    <3>3. i - 1 \in 1..Len(todo') /\ (i - 1) + 1 = i
      BY <3>2
    <3>4. todo'[i - 1] = todo[i]
      BY <3>2, <3>3
    <3> QED BY <3>1, <3>3, <3>4 DEF SplitPending
  <2> QED BY <2>1, <2>2 DEF SplitInTime
<1> QED BY <1>4, <1>5 DEF WavPlan, Wav

LEMMA PlanOfPacket ==
  ASSUME Inv, PlanInv, WavPlan, NEW t, NEW kind, NEW n \in Sizes, MuxPacket(t, kind, n)
  PROVE  WavPlan'
<1>1. todo' = [o \in Outs |-> Sizing("frame", o, IF o \in Takers(t, kind) THEN n ELSE 0)]
  BY DEF MuxPacket
<1>2. Outs = 1..Len(Outputs) /\ Len(Outputs) \in Nat
  BY OutputTypes
<1>3. /\ todo = <<>> /\ Running /\ ~ending /\ UNCHANGED <<total, bufLen, first, ending>>
      /\ \A o \in Takers(t, kind) : Outputs[o].wav => n <= MaxPacket
  BY DEF MuxPacket, Running, bufVars, endVars
<1>4. Len(todo') = Len(Outputs)
  BY <1>1, <1>2
<1>5. ASSUME NEW i \in 1..Len(todo'), Wav(todo'[i].out)
      PROVE  todo'[i].op = "frame" /\ todo'[i].size <= MaxPacket
  <2>1. i \in Outs /\ todo'[i] = Sizing("frame", i, IF i \in Takers(t, kind) THEN n ELSE 0)
    BY <1>1, <1>2, <1>4
  <2>2. todo'[i].op = "frame" /\ todo'[i].out = i /\ todo'[i].size = IF i \in Takers(t, kind) THEN n ELSE 0
    BY <2>1 DEF Sizing
  <2>3. Outputs[i].wav
    BY <1>5, <2>2 DEF Wav
  <2> QED BY <1>3, <2>2, <2>3, Sizing1
<1>6. StepsOfWav'
  BY <1>5 DEF StepsOfWav, Wav
<1>7. ASSUME NEW o \in Outs, Wav(o) PROVE SplitInTime(o)'
  <2>1. ~SplitPending(o)
    BY <1>3 DEF SplitPending
  <2>2. SplitInTime(o)
    BY <1>3, <1>7 DEF WavPlan
  <2> QED BY <1>3, <2>1, <2>2 DEF SplitInTime
<1> QED BY <1>6, <1>7 DEF WavPlan, Wav

LEMMA PlanOfPass == Inv /\ PlanInv /\ WavPlan /\ (PassOver \/ WaitForWriting) => WavPlan'
<1> SUFFICES ASSUME Inv, PlanInv, WavPlan, PassOver \/ WaitForWriting PROVE WavPlan'
  OBVIOUS
<1>1. /\ todo # <<>> /\ Head(todo).op \in {"frame", "wait"} /\ Then(<<>>)
      /\ UNCHANGED <<bufVars, endVars>>
  BY DEF PassOver, WaitForWriting, At
<1>2. UNCHANGED <<total, bufLen, first, ending>>
  BY <1>1 DEF bufVars, endVars
<1> QED BY <1>1, <1>2, WavShift

(* A packet of a WAV always finds room in its buffer.                      *)
LEMMA RoomForWav ==
  ASSUME Inv, PlanInv, WavPlan, At("room"), Wav(Out)
  PROVE  RoomFor(Out, Head(todo).size)
<1>1. todo # <<>> /\ Head(todo).op = "room" /\ Out \in Outs /\ Head(todo).size \in Nat
  BY OutInOuts, Numbers
<1>2. StepsOfWav /\ Head(todo) = todo[1] /\ 1 \in 1..Len(todo)
  BY <1>1, WavNow DEF EndOps
<1>3. Head(todo).size <= MaxPacket
  BY <1>1, <1>2 DEF StepsOfWav, Out
<1>4. bufLen[Out] \in Nat /\ bufLen[Out] < BlockSize
  BY <1>1, LessThanBlock
<1> QED BY <1>1, <1>3, <1>4, Sizing1 DEF RoomFor

LEMMA PlanOfRoom == Inv /\ PlanInv /\ WavPlan /\ MakeRoom => WavPlan'
<1> SUFFICES ASSUME Inv, PlanInv, WavPlan, MakeRoom PROVE WavPlan'
  OBVIOUS
<1> DEFINE n == IF RoomFor(Out, Head(todo).size) THEN 0 ELSE Flushed(Out)
<1>1. /\ todo # <<>> /\ Head(todo).op = "room" /\ Out \in Outs /\ At("room")
      /\ UNCHANGED <<first, ending>>
  BY OutInOuts, Numbers DEF MakeRoom
<1>2. /\ IF n > 0 THEN Leave(Out, n, <<>>) ELSE Then(<<>>) /\ UNCHANGED <<bufLen, work, queue, result>>
      /\ total' = [total EXCEPT ![Out] = @ + n]
  BY DEF MakeRoom
<1>3. /\ bufLen \in [Outs -> Nat] /\ total \in [Outs -> Nat]
  BY Numbers DEF TypeOK
<1>4. Wav(Out) => n = 0
  BY <1>1, RoomForWav
<1> HIDE DEF n
<1>5. CASE Throw
  BY <1>5 DEF Throw, WavPlan, Running
<1>6. CASE Then(<<>>) /\ bufLen' = [bufLen EXCEPT ![Out] = @ - n]
  <2>1. ASSUME NEW o \in Outs, Wav(o) PROVE total'[o] = total[o] /\ bufLen'[o] = bufLen[o]
    <3>1. CASE o = Out
      <4>1. n = 0 /\ total[Out] \in Nat /\ bufLen[Out] \in Nat
        BY <1>3, <1>4, <2>1, <3>1
      <4>2. total'[Out] = total[Out] + n /\ bufLen'[Out] = bufLen[Out] - n
        BY <1>1, <1>2, <1>3, <1>6
      <4> QED BY <3>1, <4>1, <4>2
    <3>2. CASE o # Out
      BY <1>2, <1>3, <1>6, <3>2
    <3> QED BY <3>1, <3>2
  <2> QED BY <1>1, <1>6, <2>1, WavShift
<1>7. CASE Then(<<>>) /\ bufLen' = bufLen /\ ~(n > 0)
  <2>1. ASSUME NEW o \in Outs, Wav(o) PROVE total'[o] = total[o]
    <3>1. CASE o = Out
      <4>1. n = 0 /\ total[Out] \in Nat
        BY <1>3, <1>4, <2>1, <3>1
      <4>2. total'[Out] = total[Out] + n
        BY <1>1, <1>2, <1>3
      <4> QED BY <3>1, <4>1, <4>2
    <3>2. CASE o # Out
      BY <1>2, <1>3, <3>2
    <3> QED BY <3>1, <3>2
  <2> QED BY <1>1, <1>7, <2>1, WavShift
<1> QED BY <1>2, <1>5, <1>6, <1>7 DEF Leave

LEMMA ThreeOps ==
  ASSUME NEW a \in Steps, NEW b \in Steps, NEW c \in Steps, NEW new \in BOOLEAN,
         NEW u, u = IF new THEN <<a>> ELSE <<>>, NEW v, v = <<b, c>>
  PROVE  /\ u \o v \in Seq(Steps)
         /\ IF new THEN Len(u \o v) = 3 /\ (u \o v)[1] = a /\ (u \o v)[2] = b /\ (u \o v)[3] = c
                   ELSE Len(u \o v) = 2 /\ (u \o v)[1] = b /\ (u \o v)[2] = c
<1> DEFINE s == u \o v
<1>1. u \in Seq(Steps) /\ IF new THEN Len(u) = 1 /\ u[1] = a ELSE Len(u) = 0
  OBVIOUS
<1>2. v \in Seq(Steps) /\ Len(v) = 2 /\ v[1] = b /\ v[2] = c
  BY TwoOps
<1>4. /\ s \in Seq(Steps) /\ Len(s) = Len(u) + Len(v)
      /\ \A i \in 1..(Len(u) + Len(v)) : s[i] = IF i <= Len(u) THEN u[i] ELSE v[i - Len(u)]
  BY <1>1, <1>2, Joined
<1> SUFFICES /\ s \in Seq(Steps)
             /\ IF new THEN Len(s) = 3 /\ s[1] = a /\ s[2] = b /\ s[3] = c
                       ELSE Len(s) = 2 /\ s[1] = b /\ s[2] = c
  OBVIOUS
<1> HIDE DEF s
<1>5. CASE new
  <2>1. Len(u) = 1 /\ u[1] = a
    BY <1>1, <1>5
  <2>2. 1 \in 1..3 /\ 2 \in 1..3 /\ 3 \in 1..3
    OBVIOUS
  <2>3. s[1] = u[1] /\ s[2] = v[2 - 1] /\ s[3] = v[3 - 1] /\ Len(s) = 3
    BY <1>2, <1>4, <2>1, <2>2
  <2> QED BY <1>2, <1>4, <1>5, <2>1, <2>3
<1>6. CASE ~new
  <2>1. Len(u) = 0
    BY <1>1, <1>6
  <2>2. 1 \in 1..2 /\ 2 \in 1..2
    OBVIOUS
  <2>3. s[1] = v[1 - 0] /\ s[2] = v[2 - 0] /\ Len(s) = 2
    BY <1>2, <1>4, <2>1, <2>2
  <2> QED BY <1>2, <1>4, <1>6, <2>3
<1> QED BY <1>5, <1>6

LEMMA ElementsOfJoin ==
  ASSUME NEW s \in Seq(Steps), NEW t \in Seq(Steps), NEW O,
         \A i \in 1..Len(s) : s[i] \in O, \A i \in 1..Len(t) : t[i] \in O
  PROVE  s \o t \in Seq(Steps) /\ \A i \in 1..Len(s \o t) : (s \o t)[i] \in O
<1> DEFINE u == s \o t
<1>1. /\ u \in Seq(Steps) /\ Len(u) = Len(s) + Len(t)
      /\ \A i \in 1..(Len(s) + Len(t)) : u[i] = IF i <= Len(s) THEN s[i] ELSE t[i - Len(s)]
  BY Joined
<1> HIDE DEF u
<1>2. Len(s) \in Nat /\ Len(t) \in Nat
  OBVIOUS
<1>3. ASSUME NEW i \in 1..Len(u) PROVE u[i] \in O
  <2>1. i \in 1..(Len(s) + Len(t))
    BY <1>1
  <2>2. i \in 1..Len(s) \/ (~(i <= Len(s)) /\ i - Len(s) \in 1..Len(t))
    BY <1>2, <2>1
  <2> QED BY <1>1, <2>1, <2>2
<1>4. u \in Seq(Steps) /\ \A i \in 1..Len(u) : u[i] \in O
  BY <1>1, <1>3
<1> QED BY <1>4 DEF u

(* A packet is laid out: what comes before it may fill a block, then room  *)
(* is made and it is copied.                                               *)
FrameList(new, o, n) ==
  IfAny(new, <<Step("out", o)>>) \o <<Sizing("room", o, n), Sizing("copy", o, n)>>
LEMMA FrameSteps ==
  ASSUME NEW o \in Outs, NEW n \in Nat, NEW new \in BOOLEAN, NEW s, s = FrameList(new, o, n)
  PROVE  /\ s \in Seq(Steps) /\ Len(s) \in {2, 3}
         /\ \A i \in 1..Len(s) :
              /\ s[i].op \in {"out", "room", "copy"} /\ s[i].out = o
              /\ s[i].op # "out" => s[i].size = n
              /\ i < Len(s) => s[i].op # "copy"
<1> DEFINE a == Step("out", o)
           b == Sizing("room", o, n)
           c == Sizing("copy", o, n)
<1>1. a \in Steps /\ b \in Steps /\ c \in Steps
  BY StepTypes
<1>2. /\ a.op = "out" /\ a.out = o
      /\ b.op = "room" /\ b.out = o /\ b.size = n /\ c.op = "copy" /\ c.out = o /\ c.size = n
  BY DEF Step, Sizing
<1> HIDE DEF a, b, c
<1>6. PICK u, v : (u = IF new THEN <<a>> ELSE <<>>) /\ v = <<b, c>> /\ s = u \o v
  BY DEF IfAny, FrameList, a, b, c
<1>3. /\ s \in Seq(Steps)
      /\ IF new THEN Len(s) = 3 /\ s[1] = a /\ s[2] = b /\ s[3] = c
                ELSE Len(s) = 2 /\ s[1] = b /\ s[2] = c
  <2>1. /\ u \o v \in Seq(Steps)
        /\ IF new THEN Len(u \o v) = 3 /\ (u \o v)[1] = a /\ (u \o v)[2] = b /\ (u \o v)[3] = c
                  ELSE Len(u \o v) = 2 /\ (u \o v)[1] = b /\ (u \o v)[2] = c
    <3>1. a \in Steps /\ b \in Steps /\ c \in Steps /\ (u = IF new THEN <<a>> ELSE <<>>) /\ v = <<b, c>>
      BY <1>1, <1>6
    <3> QED BY <3>1, ThreeOps
  <2>2. s = u \o v
    BY <1>6
  <2> QED BY <2>1, <2>2
<1>4. CASE new
  <2>3. Len(s) = 3
    BY <1>3, <1>4
  <2>1. \A i \in 1..Len(s) : (i = 1 \/ i = 2 \/ i = 3) /\ (i < Len(s) => i # 3)
    BY <2>3
  <2> QED BY <1>2, <1>3, <1>4, <2>1
<1>5. CASE ~new
  <2>3. Len(s) = 2
    BY <1>3, <1>5
  <2>1. \A i \in 1..Len(s) : (i = 1 \/ i = 2) /\ (i < Len(s) => i # 2)
    BY <2>3
  <2> QED BY <1>2, <1>3, <1>5, <2>1
<1> QED BY <1>4, <1>5

(* What a packet of a WAV is given: a header when it is a part's first.    *)
LEMMA FrameOfWav ==
  ASSUME Inv, PlanInv, WavPlan, Frame, ~Unfit
  PROVE  /\ Out \in Outs /\ todo # <<>> /\ Head(todo).op = "frame" /\ Head(todo).size \in Nat
         /\ UNCHANGED <<total, parts, ending, result, failed>>
         /\ \E new \in BOOLEAN : \E a \in Nat :
              /\ made' = [made EXCEPT ![Out] = @ + a]
              /\ bufLen' = [bufLen EXCEPT ![Out] = @ + a]
              /\ heads' = IF new /\ Wav(Out) /\ first[Out] THEN [heads EXCEPT ![Out] = @ \cup {made[Out]}] ELSE heads
              /\ first' = IF new THEN [first EXCEPT ![Out] = FALSE] ELSE first
              /\ Then(FrameList(new, Out, Head(todo).size))
              /\ Wav(Out) => new /\ a = IF first[Out] THEN HeaderSize ELSE 0
<1>1. /\ Out \in Outs /\ todo # <<>> /\ Head(todo).op = "frame" /\ Head(todo).size \in Nat
      /\ UNCHANGED <<total, parts, ending, result, failed>>
  BY FrameChoices, OutInOuts, Numbers DEF At, Begun, fileVars, writeVars
<1>2. PICK new \in BOOLEAN, a \in Nat :
        (~new => a = 0) /\ Begun(new, a) /\ (Outputs[Out].wav => new /\ a = IF first[Out] THEN HeaderSize ELSE 0)
  BY FrameChoices
<1> DEFINE A == /\ made' = [made EXCEPT ![Out] = @ + a]
                /\ bufLen' = [bufLen EXCEPT ![Out] = @ + a]
                /\ heads' = IF new /\ Wav(Out) /\ first[Out] THEN [heads EXCEPT ![Out] = @ \cup {made[Out]}] ELSE heads
                /\ first' = IF new THEN [first EXCEPT ![Out] = FALSE] ELSE first
                /\ Then(FrameList(new, Out, Head(todo).size))
<1>3. (new /\ first[Out] /\ Outputs[Out].wav) <=> (new /\ Wav(Out) /\ first[Out])
  BY DEF Wav
<1>4. A
  BY <1>2, <1>3 DEF Begun, FrameList
<1>5. Wav(Out) => new /\ a = IF first[Out] THEN HeaderSize ELSE 0
  BY <1>2 DEF Wav
<1> QED BY <1>1, <1>4, <1>5

LEMMA PlanOfFrame == Inv /\ PlanInv /\ WavPlan /\ Frame => WavPlan'
<1> SUFFICES ASSUME Inv, PlanInv, WavPlan, Frame, ~Unfit PROVE WavPlan'
  BY DEF Unfit, Throw, WavPlan, Running
<1> DEFINE n == Head(todo).size
<1>1. /\ Out \in Outs /\ todo # <<>> /\ Head(todo).op = "frame" /\ n \in Nat
      /\ UNCHANGED <<total, ending>>
  BY FrameOfWav
<1>2. PICK new \in BOOLEAN, a \in Nat :
              /\ bufLen' = [bufLen EXCEPT ![Out] = @ + a]
              /\ first' = IF new THEN [first EXCEPT ![Out] = FALSE] ELSE first
              /\ Then(FrameList(new, Out, n))
              /\ Wav(Out) => new /\ a = IF first[Out] THEN HeaderSize ELSE 0
  BY FrameOfWav
<1> DEFINE s == FrameList(new, Out, n)
<1>3. /\ s \in Seq(Steps) /\ Len(s) \in {2, 3}
      /\ \A i \in 1..Len(s) :
              /\ s[i].op \in {"out", "room", "copy"} /\ s[i].out = Out
              /\ s[i].op # "out" => s[i].size = n
              /\ i < Len(s) => s[i].op # "copy"
  BY <1>1, FrameSteps
<1>4. Then(s)
  BY <1>2
<1> HIDE DEF s
<1>5. /\ ~ending /\ StepsOfWav /\ \A o \in Outs : Wav(o) => SplitInTime(o)
      /\ Head(todo) = todo[1] /\ 1 \in 1..Len(todo)
  BY <1>1, WavNow DEF EndOps
<1>6. ASSUME NEW o \in Outs, Wav(o) PROVE ~SplitPending(o) /\ total[o] < SplitAt /\ (first[o] => total[o] = 0 /\ bufLen[o] = 0)
  <2>1. ~SplitPending(o)
    BY <1>1, <1>5, <1>6, PendingNow
  <2> QED BY <1>5, <1>6, <2>1 DEF SplitInTime
<1>7. /\ bufLen \in [Outs -> Nat] /\ first \in [Outs -> BOOLEAN]
  BY Numbers DEF TypeOK
<1>8. ASSUME Wav(Out) PROVE ReadyAfter(Out) /\ n <= MaxPacket
  <2>1. first'[Out] = FALSE /\ total'[Out] < SplitAt
    BY <1>1, <1>2, <1>6, <1>7, <1>8
  <2>2. bufLen[Out] \in Nat /\ bufLen[Out] < BlockSize
    BY <1>1, LessThanBlock
  <2>3. bufLen'[Out] = bufLen[Out] + a
    BY <1>1, <1>2, <1>7
  <2>4. bufLen'[Out] < BlockSize
    <3>1. CASE first[Out]
      <4>1. a = HeaderSize /\ bufLen[Out] = 0
        BY <1>1, <1>2, <1>6, <1>8, <3>1
      <4> QED BY <2>3, <4>1, Sizing1
    <3>2. CASE ~first[Out]
      BY <1>2, <1>8, <2>2, <2>3, <3>2
    <3> QED BY <3>1, <3>2
  <2>5. n <= MaxPacket
    BY <1>1, <1>5, <1>8 DEF StepsOfWav, Out
  <2> QED BY <2>1, <2>4, <2>5 DEF ReadyAfter
<1>9. StepsOfWav'
  <2>1. ASSUME NEW i \in 1..Len(s), Wav(s[i].out)
        PROVE  /\ s[i].op \in {"frame", "room", "copy"} => s[i].size <= MaxPacket
               /\ s[i].op = "copy" =>
                    /\ ReadyAfter(s[i].out)
                    /\ \A j \in 1..(i - 1) : s[j].op \in {"out", "room"} /\ s[j].out = s[i].out
               /\ s[i].op = "split" => \A j \in 1..(i - 1) : s[j].op = "wait"
    <3>1. s[i].out = Out /\ Wav(Out)
      BY <1>3, <2>1
    <3>2. \A j \in 1..(i - 1) : j \in 1..Len(s) /\ j < Len(s)
      BY <1>3
    <3>3. \A j \in 1..(i - 1) : s[j].op \in {"out", "room"} /\ s[j].out = s[i].out
      BY <1>3, <3>2
    <3> QED BY <1>3, <1>8, <3>1, <3>3
  <2>2. \A i \in 2..Len(todo) : Wav(todo[i].out) => todo[i].op # "copy" /\ todo[i].op # "split"
    BY <1>1, <1>5, HeadOfWav
  <2> QED BY <1>1, <1>3, <1>4, <1>5, <2>1, <2>2, WavPrefix
<1>10. ASSUME NEW o \in Outs, Wav(o) PROVE SplitInTime(o)'
  <2>1. total[o] < SplitAt /\ total'[o] = total[o] /\ (first[o] => total[o] = 0 /\ bufLen[o] = 0)
    BY <1>1, <1>6, <1>10
  <2>2. CASE o = Out
    BY <1>1, <1>8, <1>10, <2>1, <2>2 DEF ReadyAfter, SplitInTime
  <2>3. CASE o # Out
    <3>1. bufLen'[o] = bufLen[o] /\ first'[o] = first[o]
      BY <1>1, <1>2, <1>7, <2>3
    <3> QED BY <2>1, <3>1 DEF SplitInTime
  <2> QED BY <2>2, <2>3
<1> QED BY <1>9, <1>10 DEF WavPlan, Wav

(* The whole packet of a WAV is copied in one part.                        *)
LEMMA CopyOfWav ==
  ASSUME Inv, PlanInv, WavPlan, At("copy"), Wav(Out)
  PROVE  /\ PartThatFits(Out, Head(todo).size) = Head(todo).size /\ Ready(Out)
         /\ Head(todo).size <= MaxPacket
<1>1. todo # <<>> /\ Head(todo).op = "copy" /\ Out \in Outs /\ Head(todo).size \in Nat
  BY OutInOuts, Numbers
<1>2. StepsOfWav /\ Head(todo) = todo[1] /\ 1 \in 1..Len(todo)
  BY <1>1, WavNow DEF EndOps
<1>3. Head(todo).size <= MaxPacket /\ Ready(Out)
  BY <1>1, <1>2 DEF StepsOfWav, Out
<1>4. bufLen[Out] \in Nat /\ bufLen[Out] < BlockSize
  BY <1>1, LessThanBlock
<1> QED BY <1>1, <1>3, <1>4, Sizing1 DEF PartThatFits

LEMMA PlanOfCopy == Inv /\ PlanInv /\ WavPlan /\ CopyPart => WavPlan'
<1> SUFFICES ASSUME Inv, PlanInv, WavPlan, CopyPart PROVE WavPlan'
  OBVIOUS
<1> DEFINE n == PartThatFits(Out, Head(todo).size)
           left == Head(todo).size - n
           s == <<Step("out", Out)>> \o IfAny(left > 0, <<Sizing("copy", Out, left)>>)
<1>1. /\ todo # <<>> /\ Head(todo).op = "copy" /\ Out \in Outs /\ Head(todo).size \in Nat /\ At("copy")
      /\ UNCHANGED <<total, first, ending>>
      /\ bufLen' = [bufLen EXCEPT ![Out] = @ + n] /\ Then(s)
  BY OutInOuts, Numbers DEF CopyPart, endVars
<1>2. bufLen \in [Outs -> Nat]
  BY Numbers DEF TypeOK
<1>3. Wav(Out) => left = 0 /\ ~first[Out]
  BY <1>1, CopyOfWav DEF Ready
<1>4. n \in Nat /\ left \in Nat
  BY <1>1, Numbers, Sizing1 DEF PartThatFits
<1> HIDE DEF n, left
<1>5. /\ s \in Seq(Steps) /\ Len(s) \in Nat
      /\ \A i \in 1..Len(s) : s[i].out = Out /\ s[i].op \in {"out", "copy"} /\ (left = 0 => s[i].op = "out")
  <2> DEFINE x == Step("out", Out)
             y == Sizing("copy", Out, left)
  <2>1. x \in Steps /\ y \in Steps
    BY <1>1, <1>4, StepTypes
  <2>2. x.op = "out" /\ x.out = Out /\ y.op = "copy" /\ y.out = Out
    BY DEF Step, Sizing
  <2> HIDE DEF x, y
  <2>3. PICK u, v, O : /\ s = u \o v /\ u = <<x>> /\ (v = <<>> \/ v = <<y>>) /\ (~(left > 0) => v = <<>>)
                       /\ O = (IF left > 0 THEN {x, y} ELSE {x})
    BY DEF IfAny, x, y
  <2> HIDE DEF s
  <2>4. /\ u \in Seq(Steps) /\ \A i \in 1..Len(u) : u[i] \in O
        /\ v \in Seq(Steps) /\ \A i \in 1..Len(v) : v[i] \in O
    <3>1. u \in Seq(Steps) /\ \A i \in 1..Len(u) : u[i] = x
      BY <2>1, <2>3, OneOp
    <3>2. v \in Seq(Steps) /\ \A i \in 1..Len(v) : v[i] = y /\ left > 0
      <4>1. v \in Seq(Steps) /\ \A i \in 1..Len(v) : v[i] = y
        BY <2>1, <2>3, OneOp
      <4>2. v = <<>> => 1..Len(v) = {}
        OBVIOUS
      <4> QED BY <2>3, <4>1, <4>2
    <3> QED BY <2>3, <3>1, <3>2
  <2>5. s \in Seq(Steps) /\ \A i \in 1..Len(s) : s[i] \in O
    BY <2>3, <2>4, ElementsOfJoin
  <2>6. Len(s) \in Nat
    BY <2>5
  <2> QED BY <1>4, <2>2, <2>3, <2>5, <2>6
<1> HIDE DEF s
<1>6. /\ ~ending /\ StepsOfWav /\ \A o \in Outs : Wav(o) => SplitInTime(o)
      /\ Head(todo) = todo[1] /\ 1 \in 1..Len(todo)
  BY <1>1, WavNow DEF EndOps
<1>7. StepsOfWav'
  <2>1. ASSUME NEW i \in 1..Len(s), Wav(s[i].out) PROVE s[i].op = "out"
    BY <1>3, <1>5, <2>1
  <2>2. \A i \in 2..Len(todo) : Wav(todo[i].out) => todo[i].op # "copy" /\ todo[i].op # "split"
    BY <1>1, <1>6, HeadOfWav
  <2> QED BY <1>1, <1>5, <1>6, <2>1, <2>2, WavPrefix
<1>8. ASSUME NEW o \in Outs, Wav(o) PROVE SplitInTime(o)'
  <2>1. ~SplitPending(o)
    BY <1>1, <1>6, <1>8, PendingNow
  <2>2. total[o] < SplitAt /\ (first[o] => total[o] = 0 /\ bufLen[o] = 0)
    BY <1>6, <1>8, <2>1 DEF SplitInTime
  <2>3. first[o] => bufLen'[o] = bufLen[o]
    BY <1>1, <1>2, <1>3, <1>8
  <2> QED BY <1>1, <2>2, <2>3 DEF SplitInTime
<1> QED BY <1>7, <1>8 DEF WavPlan, Wav

(* After what could leave a buffer has left, a part of a WAV is full only  *)
(* when it is to be ended next; and none is while a packet is laid out.    *)
LEMMA PlanOfOut == Inv /\ PlanInv /\ WavPlan /\ WriteOutBuffer => WavPlan'
<1> SUFFICES ASSUME Inv, PlanInv, WavPlan, WriteOutBuffer PROVE WavPlan'
  OBVIOUS
<1> DEFINE n == IF BlockDue(Out) THEN BlockSize ELSE 0
           c == SplitDue(Out, n)
           s == IfAny(c, IfAny(Async, <<Step("wait", Out)>>) \o <<Step("split", Out)>>)
<1>1. /\ todo # <<>> /\ Head(todo).op = "out" /\ Out \in Outs /\ UNCHANGED <<first, ending>>
      /\ IF n > 0 THEN Leave(Out, n, s) ELSE Then(s) /\ UNCHANGED <<bufLen, work, queue, result>>
      /\ total' = [total EXCEPT ![Out] = @ + n]
  BY OutInOuts, Numbers DEF WriteOutBuffer
<1>2. CASE Throw
  BY <1>2 DEF Throw, WavPlan, Running
<1>3. CASE ~Throw
  <2>1. /\ bufLen \in [Outs -> Nat] /\ total \in [Outs -> Nat]
        /\ bufLen[Out] \in Nat /\ total[Out] \in Nat
    BY <1>1, Numbers DEF TypeOK
  <2>2. /\ n \in Nat /\ (bufLen[Out] < BlockSize => n = 0) /\ Outputs[Out].wav \in BOOLEAN
        /\ (c <=> Wav(Out) /\ total[Out] + n >= SplitAt)
    BY <1>1, <2>1, Sizing1, OutputTypes DEF BlockDue, SplitDue, Wav
  <2>9. PICK o \in Outs : o = Out
    BY <1>1
  <2>3. /\ s \in Seq(Steps) /\ Len(s) \in Nat
        /\ \A i \in 1..Len(s) : s[i].op \in {"wait", "split"} /\ s[i].out = Out
        /\ ~c => s = <<>>
        /\ c => s # <<>> /\ s[Len(s)].op = "split" /\ \A i \in 1..(Len(s) - 1) : s[i].op = "wait"
    <3> DEFINE a == Step("wait", Out)
               b == Step("split", Out)
    <3>1. a \in Steps /\ b \in Steps /\ a.op = "wait" /\ b.op = "split" /\ a.out = Out /\ b.out = Out
      BY <1>1, StepTypes DEF Step
    <3> HIDE DEF c, n
    <3>2. CASE ~c
      <4>1. s = <<>> /\ Len(s) = 0 /\ s \in Seq(Steps) /\ 1..0 = {}
        BY <3>2 DEF IfAny
      <4> HIDE DEF s
      <4> QED BY <3>2, <4>1
    <3>3. CASE c
      <4>1. PICK u, v : s = u \o v /\ (u = IF Async THEN <<a>> ELSE <<>>) /\ v = <<b>>
        BY <3>3 DEF IfAny
      <4> HIDE DEF a, b, s
      <4>2. /\ u \in Seq(Steps) /\ Len(u) \in {0, 1} /\ \A i \in 1..Len(u) : u[i] = a
        <5>1. a \in Steps /\ (u = <<>> \/ u = <<a>>)
          BY <3>1, <4>1
        <5> QED BY <5>1, OneOp
      <4>3. v \in Seq(Steps) /\ Len(v) = 1 /\ v[1] = b
        BY <3>1, <4>1
      <4>4. /\ u \o v \in Seq(Steps) /\ Len(u \o v) = Len(u) + Len(v)
            /\ \A i \in 1..(Len(u) + Len(v)) : (u \o v)[i] = IF i <= Len(u) THEN u[i] ELSE v[i - Len(u)]
        BY <4>2, <4>3, Joined
      <4>5. /\ s \in Seq(Steps) /\ Len(s) = Len(u) + 1
            /\ \A i \in 1..(Len(u) + 1) : s[i] = IF i <= Len(u) THEN u[i] ELSE v[i - Len(u)]
        BY <4>1, <4>3, <4>4
      <4>6. s[Len(s)] = b
        <5>1. Len(u) + 1 \in 1..(Len(u) + 1) /\ ~(Len(u) + 1 <= Len(u)) /\ (Len(u) + 1) - Len(u) = 1
          BY <4>2
        <5> QED BY <4>3, <4>5, <5>1
      <4>7. ASSUME NEW i \in 1..(Len(s) - 1) PROVE s[i] = a
        <5>1. i \in 1..(Len(u) + 1) /\ i <= Len(u) /\ i \in 1..Len(u)
          BY <4>2, <4>5, <4>7
        <5> QED BY <4>2, <4>5, <5>1
      <4>8. \A i \in 1..Len(s) : i = Len(s) \/ i \in 1..(Len(s) - 1)
        BY <4>2, <4>5
      <4>9. s # <<>>
        <5>1. Len(<<>>) = 0
          OBVIOUS
        <5> QED BY <4>2, <4>5, <5>1
      <4> QED BY <3>1, <3>3, <4>2, <4>5, <4>6, <4>7, <4>8, <4>9
    <3> QED BY <3>2, <3>3
  <2> HIDE DEF n, c, s
  <2>4. /\ Then(s)
        /\ IF n > 0 THEN bufLen' = [bufLen EXCEPT ![Out] = @ - n] ELSE bufLen' = bufLen
    BY <1>1, <1>3 DEF Leave
  <2>5. /\ ~ending /\ StepsOfWav /\ \A p \in Outs : Wav(p) => SplitInTime(p)
        /\ Head(todo) = todo[1] /\ 1 \in 1..Len(todo)
    BY <1>1, WavNow DEF EndOps
  <2>6. ASSUME NEW p \in Outs, Wav(p)
        PROVE  ~SplitPending(p) /\ total[p] < SplitAt /\ (first[p] => total[p] = 0 /\ bufLen[p] = 0)
    <3>1. ~SplitPending(p)
      BY <1>1, <2>5, <2>6, PendingNow
    <3> QED BY <2>5, <2>6, <3>1 DEF SplitInTime
  <2>7. ASSUME Wav(Out), bufLen[Out] < BlockSize
        PROVE  ~c /\ total'[Out] = total[Out] /\ bufLen'[Out] = bufLen[Out]
    <3>1. n = 0 /\ total[Out] < SplitAt
      BY <1>1, <2>2, <2>6, <2>7
    <3>2. total'[Out] = total[Out] + n
      BY <1>1, <2>1
    <3> QED BY <2>1, <2>2, <2>4, <3>1, <3>2, WavSizes
  <2>8. StepsOfWav'
    <3>1. ASSUME NEW i \in 1..Len(s), Wav(s[i].out)
          PROVE  s[i].op \in {"wait", "split"} /\ \A j \in 1..(i - 1) : s[j].op = "wait"
      <4>1. c
        <5>1. s # <<>>
          <6>1. s = <<>> => 1..Len(s) = {}
            OBVIOUS
          <6> QED BY <3>1, <6>1
        <5> QED BY <2>3, <5>1
      <4>2. \A j \in 1..(i - 1) : j \in 1..(Len(s) - 1)
        BY <2>3
      <4> QED BY <2>3, <4>1, <4>2
    <3>2. ASSUME NEW i \in 2..Len(todo), Wav(todo[i].out)
          PROVE  /\ todo[i].op = "copy" => s = <<>> /\ ReadyAfter(todo[i].out)
                 /\ todo[i].op # "split"
      <4>1. todo[i].op # "split"
        BY <1>1, <2>5, <3>2, HeadOfWav
      <4>2. ASSUME todo[i].op = "copy" PROVE s = <<>> /\ ReadyAfter(todo[i].out)
        <5>1. Out = todo[i].out /\ Ready(Out)
          BY <2>5, <3>2, <4>2, HeadOfWav DEF Out
        <5>2. Wav(Out) /\ bufLen[Out] < BlockSize
          BY <3>2, <5>1 DEF Ready
        <5>3. s = <<>> /\ ReadyAfter(Out)
          BY <1>1, <2>3, <2>7, <5>1, <5>2 DEF Ready, ReadyAfter
        <5> QED BY <5>1, <5>3
      <4> QED BY <4>1, <4>2
    <3>3. \A i \in 1..Len(s) : Wav(s[i].out) =>
           /\ s[i].op \in {"frame", "room", "copy"} => s[i].size <= MaxPacket
           /\ s[i].op = "copy" =>
                /\ ReadyAfter(s[i].out)
                /\ \A j \in 1..(i - 1) : s[j].op \in {"out", "room"} /\ s[j].out = s[i].out
           /\ s[i].op = "split" => \A j \in 1..(i - 1) : s[j].op = "wait"
      BY <3>1
    <3>4. \A i \in 2..Len(todo) : Wav(todo[i].out) =>
           /\ todo[i].op = "copy" => s = <<>> /\ ReadyAfter(todo[i].out)
           /\ todo[i].op = "split" => s = <<>>
      BY <3>2
    <3> QED BY <1>1, <2>3, <2>4, <2>5, <3>3, <3>4, WavPrefix
  <2>10. ASSUME NEW p \in Outs, Wav(p) PROVE SplitInTime(p)'
    <3>1. CASE p # Out
      <4>1. total'[p] = total[p] /\ bufLen'[p] = bufLen[p] /\ first'[p] = first[p]
        BY <1>1, <2>1, <2>4, <3>1
      <4> QED BY <2>6, <2>10, <4>1 DEF SplitInTime
    <3>2. CASE p = Out
      <4>1. first'[p] => total'[p] = 0 /\ bufLen'[p] = 0
        BY <1>1, <2>6, <2>7, <2>10, <3>2, Sizing1
      <4>2. CASE ~c
        <5>1. total'[p] = total[p] + n /\ total[p] + n < SplitAt
          BY <1>1, <2>1, <2>2, <2>10, <3>2, <4>2, WavSizes
        <5> QED BY <4>1, <5>1 DEF SplitInTime
      <4>3. CASE c
        <5>1. s # <<>> /\ s[Len(s)].op = "split" /\ s[Len(s)].out = p /\ Len(s) \in 1..Len(s)
          <6>1. s # <<>> /\ s[Len(s)].op = "split" /\ Len(s) \in Nat /\ s \in Seq(Steps)
            BY <2>3, <4>3
          <6>2. Len(s) > 0
            BY <6>1
          <6> QED BY <2>3, <3>2, <6>1, <6>2
        <5>2. /\ todo' \in Seq(Steps) /\ Len(todo') = Len(s) + (Len(todo) - 1)
              /\ \A i \in 1..Len(todo') :
                   IF i <= Len(s) THEN todo'[i] = s[i]
                   ELSE i - Len(s) + 1 \in 2..Len(todo) /\ todo'[i] = todo[i - Len(s) + 1]
          BY <1>1, <2>3, <2>4, ThenAt
        <5>3. Len(s) \in 1..Len(todo') /\ Len(s) <= Len(s)
          BY <1>1, <2>3, <5>1, <5>2, TodoNow
        <5>4. todo'[Len(s)] = s[Len(s)]
          BY <5>2, <5>3
        <5> QED BY <4>1, <5>1, <5>3, <5>4 DEF SplitInTime, SplitPending
      <4> QED BY <4>2, <4>3
    <3> QED BY <3>1, <3>2
  <2> QED BY <2>8, <2>10 DEF WavPlan, Wav
<1> QED BY <1>2, <1>3

LEMMA PlanOfSplit == Inv /\ PlanInv /\ WavPlan /\ SplitWav => WavPlan'
<1> SUFFICES ASSUME Inv, PlanInv, WavPlan, SplitWav PROVE WavPlan'
  OBVIOUS
<1>1. /\ Out \in Outs /\ todo # <<>> /\ Head(todo).op = "split" /\ ending' = ending
      /\ \/ Throw
         \/ /\ bufLen' = [bufLen EXCEPT ![Out] = 0] /\ total' = [total EXCEPT ![Out] = 0]
            /\ first' = [first EXCEPT ![Out] = TRUE] /\ Then(<<>>)
  BY SplitChoices DEF At, Ended, Stopped
<1>2. CASE Throw
  BY <1>2 DEF Throw, WavPlan, Running
<1>3. CASE /\ bufLen' = [bufLen EXCEPT ![Out] = 0] /\ total' = [total EXCEPT ![Out] = 0]
           /\ first' = [first EXCEPT ![Out] = TRUE] /\ Then(<<>>)
  <2>1. bufLen \in [Outs -> Nat] /\ total \in [Outs -> Nat] /\ first \in [Outs -> BOOLEAN]
    BY Numbers DEF TypeOK
  <2>2. /\ ~ending /\ StepsOfWav /\ \A p \in Outs : Wav(p) => SplitInTime(p)
        /\ Head(todo) = todo[1] /\ 1 \in 1..Len(todo)
    BY <1>1, WavNow DEF EndOps
  <2>3. StepsOfWav'
    <3>1. \A i \in 2..Len(todo) : Wav(todo[i].out) => todo[i].op # "copy" /\ todo[i].op # "split"
      BY <1>1, <2>2, HeadOfWav
    <3>2. <<>> \in Seq(Steps) /\ 1..Len(<<>>) = {}
      OBVIOUS
    <3> QED BY <1>1, <1>3, <2>2, <3>1, <3>2, WavPrefix
  <2>4. ASSUME NEW p \in Outs, Wav(p) PROVE SplitInTime(p)'
    <3>1. CASE p = Out
      <4>1. total'[p] = 0 /\ bufLen'[p] = 0
        BY <1>3, <2>1, <3>1
      <4> QED BY <4>1, WavSizes DEF SplitInTime
    <3>2. CASE p # Out
      <4>1. ~SplitPending(p)
        BY <1>1, <2>2, <2>4, <3>2, PendingNow DEF Out
      <4>2. total'[p] = total[p] /\ bufLen'[p] = bufLen[p] /\ first'[p] = first[p]
        BY <1>3, <2>1, <3>2
      <4> QED BY <2>2, <2>4, <4>1, <4>2 DEF SplitInTime
    <3> QED BY <3>1, <3>2
  <2> QED BY <2>3, <2>4 DEF WavPlan, Wav
<1> QED BY <1>1, <1>2, <1>3

LEMMA WavPlanNext == Inv /\ PlanInv /\ WavPlan /\ [Next]_vars => WavPlan'
<1> SUFFICES ASSUME Inv, PlanInv, WavPlan, [Next]_vars PROVE WavPlan'
  OBVIOUS
<1>1. CASE \E t \in Tracks, kind \in Kinds, n \in Sizes : MuxPacket(t, kind, n)
  BY <1>1, PlanOfPacket
<1>2. CASE EndOfSources
  BY <1>2 DEF EndOfSources, WavPlan
<1>3. CASE FlushOutput \/ CloseOutput \/ Verdict
  <2>1. todo # <<>> /\ Head(todo).op \in {"flush", "close", "verdict"} /\ ending' = ending
    BY <1>3 DEF FlushOutput, CloseOutput, Verdict, At
  <2>2. ending
    BY <2>1, Busy DEF Ops, MuxOps
  <2> QED BY <2>1, <2>2 DEF WavPlan
<1>4. CASE Writer \/ UNCHANGED vars
  <2>1. UNCHANGED <<todo, first, total, bufLen, ending, result>>
    BY <1>4 DEF Writer, WriterExecute, WriterPop, writerLeaves, vars, bufVars, endVars
  <2> QED BY <2>1 DEF WavPlan, StepsOfWav, SplitInTime, SplitPending, Ready, Running, Wav
<1>5. CASE MuxStep
  BY <1>3, <1>5, PlanOfPass, PlanOfFrame, PlanOfOut, PlanOfRoom, PlanOfCopy, PlanOfSplit DEF MuxStep
<1> QED BY <1>1, <1>2, <1>4, <1>5 DEF Next, Done

LEMMA WavPlanInit == Init => WavPlan
<1> SUFFICES ASSUME Init PROVE WavPlan
  OBVIOUS
<1>1. /\ todo = <<>> /\ bufLen = [o \in Outs |-> 0] /\ total = [o \in Outs |-> 0]
  BY DEF Init
<1>2. 1..Len(<<>>) = {}
  OBVIOUS
<1> QED BY <1>1, <1>2, WavSizes DEF WavPlan, StepsOfWav, SplitInTime

-----------------------------------------------------------------------------
(* The parts of a WAV: what they hold *)

LEMMA WavNumbers ==
  ASSUME Inv, NEW o \in Outs
  PROVE  /\ bufLen[o] \in Nat /\ made[o] \in Nat /\ total[o] \in Nat /\ bufLen[o] <= Capacity
         /\ first[o] \in BOOLEAN /\ heads[o] \subseteq Nat
         /\ parts[o] \in Seq(Stretches) /\ Len(parts[o]) \in Nat
         /\ \A p \in 1..Len(parts[o]) : parts[o][p].from \in Nat /\ parts[o][p].to \in Nat
         /\ Start(o) \in Nat
<1>1. TypeOK /\ bufLen[o] \in Nat /\ made[o] \in Nat /\ total[o] \in Nat /\ bufLen[o] <= Capacity
  BY Numbers
<1>2. first[o] \in BOOLEAN /\ heads[o] \in SUBSET Nat /\ parts[o] \in Seq(Stretches) /\ Len(parts[o]) \in Nat
  BY <1>1 DEF TypeOK
<1>3. \A p \in 1..Len(parts[o]) : parts[o][p].from \in Nat /\ parts[o][p].to \in Nat
  <2>1. \A p \in 1..Len(parts[o]) : parts[o][p] \in Stretches
    BY <1>2
  <2> QED BY <2>1 DEF Stretches
<1>4. Start(o) \in Nat
  <2>1. CASE parts[o] = <<>>
    BY <2>1 DEF Start
  <2>2. CASE parts[o] # <<>>
    <3>1. Len(parts[o]) # 0
      BY <1>2, <2>2, NoneIn
    <3>2. Len(parts[o]) \in 1..Len(parts[o])
      BY <1>2, <3>1
    <3> QED BY <1>3, <2>2, <3>2 DEF Start
  <2> QED BY <2>1, <2>2
<1> QED BY <1>1, <1>2, <1>3, <1>4

(* A step that puts no bytes into a buffer and ends no part.               *)
LEMMA WavSame ==
  ASSUME WavInv, UNCHANGED <<made, heads, parts, unseen>>, ~failed' => ~failed, Running' => Running,
         \A o \in Outs : Wav(o) /\ ~ending' /\ Running' =>
           ~ending /\ first'[o] = first[o] /\ total'[o] + bufLen'[o] = total[o] + bufLen[o]
  PROVE  WavInv'
<1> SUFFICES ASSUME ~failed', NEW o \in Outs \ unseen, Wav(o)
             PROVE  /\ Running' => PartGrows(o)'
                    /\ \A p \in 1..Len(parts'[o]) : WavPart(o, parts[o][p])'
  BY DEF WavInv, Wav
<1>1. /\ Running => PartGrows(o)
      /\ \A p \in 1..Len(parts[o]) : WavPart(o, parts[o][p])
  BY DEF WavInv
<1>2. \A p \in 1..Len(parts'[o]) : WavPart(o, parts[o][p])'
  BY <1>1 DEF WavPart, OneHeader
<1>3. ASSUME Running' PROVE PartGrows(o)'
  <2>1. PartGrows(o) /\ Start(o)' = Start(o)
    BY <1>1, <1>3 DEF Start
  <2> QED BY <1>3, <2>1 DEF PartGrows, OneHeader
<1> QED BY <1>2, <1>3

LEMMA WavOfPlans ==
  ASSUME Inv, PlanInv, WavInv,
         \/ \E t \in Tracks, kind \in Kinds, n \in Sizes : MuxPacket(t, kind, n)
         \/ EndOfSources \/ PassOver \/ WaitForWriting \/ Verdict \/ Writer \/ UNCHANGED vars
  PROVE  WavInv'
<1>1. UNCHANGED <<made, heads, parts, first, total, bufLen, unseen>> /\ (~failed' => ~failed)
  BY DEF MuxPacket, EndOfSources, PassOver, WaitForWriting, Verdict, Writer, WriterExecute, WriterPop,
         writerLeaves, bufVars, fileVars, writeVars, vars
<1>2. (Running' => Running) /\ (~ending' => ~ending)
  <2>1. CASE Verdict
    <3>1. todo # <<>> /\ ending' = ending
      BY <2>1 DEF Verdict, At
    <3> QED BY <3>1, Busy
  <2>2. CASE ~Verdict
    BY <2>2 DEF MuxPacket, EndOfSources, PassOver, WaitForWriting, Writer, WriterExecute, WriterPop,
         writerLeaves, endVars, vars, Running
  <2> QED BY <2>1, <2>2
<1> QED BY <1>1, <1>2, WavSame

(* What leaves a buffer is counted as left.                                *)
LEMMA WavOfLeave == Inv /\ PlanInv /\ WavInv /\ (WriteOutBuffer \/ MakeRoom \/ FlushOutput) => WavInv'
<1> SUFFICES ASSUME Inv, PlanInv, WavInv, WriteOutBuffer \/ MakeRoom \/ FlushOutput PROVE WavInv'
  OBVIOUS
<1>1. /\ Out \in Outs /\ todo # <<>> /\ Head(todo).op \in {"out", "room", "flush"}
      /\ UNCHANGED <<made, heads, parts, first, ending, failed, unseen>>
  BY OutInOuts, Numbers DEF WriteOutBuffer, MakeRoom, FlushOutput
<1>2. Running
  BY <1>1, Busy
<1>3. CASE Throw
  BY <1>1, <1>3, WavSame DEF Throw, Running
<1>4. CASE ~Throw /\ FlushOutput
  <2>1. ending
    BY <1>1, <1>4, Busy DEF Ops, MuxOps, FlushOutput, At
  <2> QED BY <1>1, <1>2, <2>1, WavSame
<1>5. CASE ~Throw /\ ~FlushOutput
  <2>1. bufLen \in [Outs -> Nat] /\ total \in [Outs -> Nat]
    BY Numbers DEF TypeOK
  <2>2. PICK n \in Nat : /\ total' = [total EXCEPT ![Out] = @ + n]
                         /\ \/ bufLen' = [bufLen EXCEPT ![Out] = @ - n]
                            \/ bufLen' = bufLen /\ n = 0
    <3>1. CASE WriteOutBuffer
      <4> DEFINE n == IF BlockDue(Out) THEN BlockSize ELSE 0
                 s == IfAny(SplitDue(Out, n), IfAny(Async, <<Step("wait", Out)>>) \o <<Step("split", Out)>>)
      <4>1. /\ IF n > 0 THEN Leave(Out, n, s) ELSE Then(s) /\ UNCHANGED <<bufLen, work, queue, result>>
            /\ total' = [total EXCEPT ![Out] = @ + n]
        BY <3>1 DEF WriteOutBuffer
      <4>2. n \in Nat
        BY Sizing1
      <4> HIDE DEF n, s
      <4>3. CASE n > 0
        <5>1. bufLen' = [bufLen EXCEPT ![Out] = @ - n]
          BY <1>5, <4>1, <4>3 DEF Leave
        <5> QED BY <4>1, <4>2, <5>1
      <4>4. CASE ~(n > 0)
        <5>1. n = 0 /\ bufLen' = bufLen
          BY <4>1, <4>2, <4>4
        <5> QED BY <4>1, <4>2, <5>1
      <4> QED BY <4>3, <4>4
    <3>2. CASE MakeRoom
      <4> DEFINE n == IF RoomFor(Out, Head(todo).size) THEN 0 ELSE Flushed(Out)
      <4>1. /\ IF n > 0 THEN Leave(Out, n, <<>>) ELSE Then(<<>>) /\ UNCHANGED <<bufLen, work, queue, result>>
            /\ total' = [total EXCEPT ![Out] = @ + n]
        BY <3>2 DEF MakeRoom
      <4>2. n \in Nat
        <5>1. bufLen[Out] \in Nat
          BY <1>1, <2>1
        <5>2. WholeUnits(bufLen[Out]) \in Nat
          BY <5>1, UnitsOfWhole
        <5> QED BY <5>1, <5>2 DEF Flushed
      <4> HIDE DEF n
      <4>3. CASE n > 0
        <5>1. bufLen' = [bufLen EXCEPT ![Out] = @ - n]
          BY <1>5, <4>1, <4>3 DEF Leave
        <5> QED BY <4>1, <4>2, <5>1
      <4>4. CASE ~(n > 0)
        <5>1. n = 0 /\ bufLen' = bufLen
          BY <4>1, <4>2, <4>4
        <5> QED BY <4>1, <4>2, <5>1
      <4> QED BY <4>3, <4>4
    <3> QED BY <1>5, <3>1, <3>2
  <2>3. ASSUME NEW o \in Outs PROVE total'[o] + bufLen'[o] = total[o] + bufLen[o]
    <3>1. total[o] \in Nat /\ bufLen[o] \in Nat
      BY <2>1
    <3>2. CASE o = Out
      <4>1. total'[o] = total[o] + n /\ (bufLen'[o] = bufLen[o] - n \/ (bufLen'[o] = bufLen[o] /\ n = 0))
        BY <2>1, <2>2, <3>2
      <4> QED BY <3>1, <4>1
    <3>3. CASE o # Out
      BY <2>1, <2>2, <3>3
    <3> QED BY <3>2, <3>3
  <2> QED BY <1>1, <1>2, <2>3, WavSame
<1> QED BY <1>3, <1>4, <1>5

(* A part grows by a bytes: the first of a part are its header.            *)
LEMMA Grows ==
  ASSUME Inv, NEW o \in Outs, PartGrows(o), ~ending, ~ending', NEW a \in Nat,
         made'[o] = made[o] + a, parts'[o] = parts[o], ~first'[o],
         IF first[o] THEN a > 0 /\ heads'[o] = heads[o] \cup {made[o]} ELSE heads'[o] = heads[o],
         total'[o] = total[o], bufLen'[o] = bufLen[o] + a, total[o] < SplitAt, bufLen'[o] <= Capacity
  PROVE  PartGrows(o)'
<1>1. /\ bufLen[o] \in Nat /\ made[o] \in Nat /\ total[o] \in Nat
      /\ first[o] \in BOOLEAN /\ heads[o] \subseteq Nat /\ Start(o) \in Nat
  BY WavNumbers
<1>2. Start(o)' = Start(o)
  BY DEF Start
<1>3. /\ \A h \in heads[o] : h < made[o]
      /\ Start(o) <= made[o] /\ OneHeader(o, Start(o), made[o])
      /\ IF first[o] THEN made[o] = Start(o) ELSE Start(o) < made[o]
      /\ made[o] - Start(o) = total[o] + bufLen[o]
  BY DEF PartGrows
<1>4. made'[o] - Start(o) = total'[o] + bufLen'[o] /\ made'[o] - Start(o) < RiffMax /\ Start(o) < made'[o]
  <2>1. PICK m \in Nat, s \in Nat, t \in Nat, b \in Nat :
          m = made[o] /\ s = Start(o) /\ t = total[o] /\ b = bufLen[o]
    BY <1>1
  <2>2. m - s = t + b /\ s <= m /\ (first[o] => a > 0) /\ (~first[o] => s < m)
    BY <1>3, <2>1
  <2>3. made'[o] = m + a /\ total'[o] = t /\ bufLen'[o] = b + a
    BY <2>1
  <2>4. PICK sa \in Int, ca \in Nat, rm \in Nat : sa = SplitAt /\ ca = Capacity /\ rm = RiffMax
    BY WavSizes, Sizing1
  <2>5. sa + ca < rm /\ t < sa /\ b + a <= ca
    BY <2>1, <2>3, <2>4, WavSizes
  <2>6. (m + a) - s = t + (b + a) /\ (m + a) - s < rm /\ s < m + a
    BY <1>1, <2>2, <2>5
  <2> QED BY <2>1, <2>3, <2>4, <2>6
<1>5. \A h \in heads'[o] : h < made'[o]
  BY <1>1, <1>3
<1>6. heads'[o] \cap Bytes(Start(o), made'[o]) = {Start(o)}
  <2>1. CASE first[o]
    <3>1. \A h \in heads[o] : h < Start(o)
      BY <1>3, <2>1
    <3>2. Start(o) \in Bytes(Start(o), made'[o]) /\ Start(o) \in heads'[o]
      BY <1>1, <1>3, <1>4, <2>1 DEF Bytes
    <3>3. ASSUME NEW h \in heads'[o], h \in Bytes(Start(o), made'[o]) PROVE h = Start(o)
      <4>1. h \in heads[o] \/ h = Start(o)
        BY <1>3, <2>1
      <4>2. h \in Int /\ h >= Start(o)
        BY <1>1, <3>3 DEF Bytes
      <4> QED BY <1>1, <3>1, <4>1, <4>2
    <3> QED BY <3>2, <3>3
  <2>2. CASE ~first[o]
    <3>1. heads[o] \cap Bytes(Start(o), made[o]) = {Start(o)}
      BY <1>3, <2>2 DEF OneHeader
    <3>2. ASSUME NEW h \in heads[o] PROVE h \in Bytes(Start(o), made[o]) <=> h \in Bytes(Start(o), made'[o])
      <4>1. h \in Nat /\ h < made[o]
        BY <1>1, <1>3
      <4> QED BY <1>1, <4>1 DEF Bytes
    <3> QED BY <2>2, <3>1, <3>2
  <2> QED BY <2>1, <2>2
<1>7. OneHeader(o, Start(o), made[o])'
  BY <1>2, <1>6 DEF OneHeader
<1> QED BY <1>1, <1>2, <1>4, <1>5, <1>7 DEF PartGrows

(* The parts that are ended stay what they are when the next one grows.    *)
LEMMA PartsStay ==
  ASSUME Inv, NEW o \in Outs, NEW c, WavPart(o, c), c.from \in Nat, c.to \in Nat, NEW a \in Nat, made'[o] = made[o] + a,
         heads'[o] = heads[o] \/ heads'[o] = heads[o] \cup {made[o]}
  PROVE  c.to <= made'[o] /\ c.to - c.from < RiffMax
         /\ (c.from < c.to => heads'[o] \cap Bytes(c.from, c.to) = {c.from})
<1>1. made[o] \in Nat /\ c.to <= made[o] /\ c.to - c.from < RiffMax
  BY WavNumbers DEF WavPart
<1>2. c.from < c.to => heads[o] \cap Bytes(c.from, c.to) = {c.from}
  BY DEF WavPart, OneHeader
<1>3. made[o] \notin Bytes(c.from, c.to)
  BY <1>1 DEF Bytes
<1> QED BY <1>1, <1>2, <1>3

LEMMA WavOfFrame == Inv /\ PlanInv /\ WavPlan /\ WavInv /\ (Frame \/ CopyPart) => WavInv'
<1> SUFFICES ASSUME Inv, PlanInv, WavPlan, WavInv, (Frame /\ ~Unfit) \/ CopyPart PROVE WavInv'
  <2>1. ASSUME Inv, WavInv, Frame, Unfit PROVE WavInv'
    BY <2>1, FrameChoices, WavSame DEF Unfit, Throw, Running, fileVars, writeVars
  <2> QED BY <2>1
<1>1. /\ Out \in Outs /\ todo # <<>> /\ Head(todo).op \in {"frame", "copy"}
      /\ UNCHANGED <<total, parts, ending, result, failed, unseen>>
  <2>1. CASE Frame /\ ~Unfit
    BY <2>1, FrameOfWav, FrameChoices
  <2>2. CASE CopyPart
    BY <2>2, OutInOuts, Numbers DEF CopyPart, fileVars, endVars, writeVars
  <2> QED BY <2>1, <2>2
<1>2. ~ending /\ Running /\ StepsOfWav /\ \A o \in Outs : Wav(o) => SplitInTime(o)
  BY <1>1, WavNow DEF EndOps
<1>3. /\ made \in [Outs -> Nat] /\ bufLen \in [Outs -> Nat] /\ first \in [Outs -> BOOLEAN]
      /\ heads \in [Outs -> SUBSET Nat]
  BY Numbers DEF TypeOK
<1>4. Inv'
  BY FrameKeeps, CopyPartKeeps
<1>5. PICK a \in Nat :
        /\ made' = [made EXCEPT ![Out] = @ + a] /\ bufLen' = [bufLen EXCEPT ![Out] = @ + a]
        /\ \A o \in Outs : o # Out => heads'[o] = heads[o] /\ first'[o] = first[o]
        /\ Wav(Out) =>
             /\ ~first'[Out]
             /\ IF first[Out] THEN a > 0 /\ heads'[Out] = heads[Out] \cup {made[Out]}
                ELSE heads'[Out] = heads[Out]
  <2>1. CASE Frame /\ ~Unfit
    <3>1. PICK new \in BOOLEAN, a \in Nat :
              /\ made' = [made EXCEPT ![Out] = @ + a]
              /\ bufLen' = [bufLen EXCEPT ![Out] = @ + a]
              /\ heads' = IF new /\ Wav(Out) /\ first[Out] THEN [heads EXCEPT ![Out] = @ \cup {made[Out]}] ELSE heads
              /\ first' = IF new THEN [first EXCEPT ![Out] = FALSE] ELSE first
              /\ Wav(Out) => new /\ a = IF first[Out] THEN HeaderSize ELSE 0
      BY <2>1, FrameOfWav
    <3>2. \A o \in Outs : o # Out => heads'[o] = heads[o] /\ first'[o] = first[o]
      BY <1>3, <3>1
    <3>3. HeaderSize > 0
      BY DemuxFilesAssumption
    <3>4. ASSUME Wav(Out)
          PROVE  /\ first'[Out] = FALSE
                 /\ IF first[Out] THEN a > 0 /\ heads'[Out] = heads[Out] \cup {made[Out]}
                    ELSE heads'[Out] = heads[Out]
      <4>1. new /\ first'[Out] = FALSE
        BY <1>1, <1>3, <3>1, <3>4
      <4>2. CASE first[Out]
        BY <1>1, <1>3, <3>1, <3>3, <3>4, <4>1, <4>2
      <4>3. CASE ~first[Out]
        BY <1>1, <1>3, <3>1, <3>4, <4>1, <4>3
      <4> QED BY <4>1, <4>2, <4>3
    <3> QED BY <3>1, <3>2, <3>4
  <2>2. CASE CopyPart
    <3> DEFINE n == PartThatFits(Out, Head(todo).size)
    <3>1. /\ At("copy") /\ UNCHANGED <<first, heads>> /\ Head(todo).size \in Nat
          /\ made' = [made EXCEPT ![Out] = @ + n] /\ bufLen' = [bufLen EXCEPT ![Out] = @ + n]
      BY <2>2, OutInOuts, Numbers DEF CopyPart
    <3>2. n \in Nat
      BY <1>1, <3>1, Numbers, Sizing1 DEF PartThatFits
    <3>3. Wav(Out) => ~first[Out]
      BY <3>1, CopyOfWav DEF Ready
    <3> HIDE DEF n
    <3> QED BY <3>1, <3>2, <3>3
  <2> QED BY <2>1, <2>2
<1> SUFFICES ASSUME ~failed', NEW o \in Outs \ unseen, Wav(o)
             PROVE  PartGrows(o)' /\ \A p \in 1..Len(parts'[o]) : WavPart(o, parts[o][p])'
  BY <1>1 DEF WavInv, Wav
<1>6. /\ PartGrows(o) /\ \A p \in 1..Len(parts[o]) : WavPart(o, parts[o][p])
  BY <1>1, <1>2 DEF WavInv
<1>7. parts'[o] = parts[o] /\ total'[o] = total[o]
  BY <1>1
<1>8. CASE o # Out
  <2>1. made'[o] = made[o] /\ bufLen'[o] = bufLen[o] /\ heads'[o] = heads[o] /\ first'[o] = first[o] /\ ending' = ending
    BY <1>1, <1>3, <1>5, <1>8
  <2>2. Start(o)' = Start(o)
    BY <1>7 DEF Start
  <2>3. PartGrows(o)'
    BY <1>6, <1>7, <2>1, <2>2 DEF PartGrows, OneHeader
  <2> QED BY <1>6, <1>7, <2>1, <2>3 DEF WavPart, OneHeader
<1>9. CASE o = Out
  <2>1. /\ made'[o] = made[o] + a /\ bufLen'[o] = bufLen[o] + a /\ ~first'[o]
        /\ IF first[o] THEN a > 0 /\ heads'[o] = heads[o] \cup {made[o]} ELSE heads'[o] = heads[o]
    BY <1>3, <1>5, <1>9
  <2>2. total[o] < SplitAt
    <3>1. ~SplitPending(o)
      BY <1>1, <1>2, PendingNow
    <3> QED BY <1>2, <3>1 DEF SplitInTime
  <2>3. bufLen'[o] <= Capacity
    BY <1>4 DEF Inv, NoOverflow
  <2>4. PartGrows(o)'
    <3>1. ~ending'
      BY <1>1, <1>2
    <3> QED BY <1>2, <1>6, <1>7, <2>1, <2>2, <2>3, <3>1, Grows
  <2>5. ASSUME NEW p \in 1..Len(parts'[o]) PROVE WavPart(o, parts[o][p])'
    <3>1. PICK c : c = parts[o][p] /\ parts'[o][p] = c
      BY <1>7
    <3>2. WavPart(o, c) /\ c.from \in Nat /\ c.to \in Nat
      BY <1>6, <1>7, <3>1, WavNumbers
    <3>3. heads'[o] = heads[o] \/ heads'[o] = heads[o] \cup {made[o]}
      BY <2>1
    <3>4. c.to <= made'[o] /\ c.to - c.from < RiffMax
          /\ (c.from < c.to => heads'[o] \cap Bytes(c.from, c.to) = {c.from})
      BY <2>1, <3>2, <3>3, PartsStay
    <3> QED BY <3>1, <3>4 DEF WavPart, OneHeader
  <2> QED BY <2>4, <2>5
<1> QED BY <1>8, <1>9

(* A part that is ended holds all since the one before, and a new one has  *)
(* nothing yet.                                                            *)
LEMMA WavEnded ==
  ASSUME Inv, WavInv, Running, ~failed, NEW o \in Outs, NEW c \in Stretches,
         parts'[o] = Append(parts[o], c), unseen \subseteq unseen',
         o \in unseen' \/ (c.from = Start(o) /\ c.to = made[o]),
         \A p \in Outs : p # o => parts'[p] = parts[p] /\ first'[p] = first[p]
                                  /\ total'[p] = total[p] /\ bufLen'[p] = bufLen[p],
         UNCHANGED <<made, heads, ending>>,
         ~ending /\ Running' => first'[o] /\ total'[o] = 0 /\ bufLen'[o] = 0
  PROVE  WavInv'
<1> SUFFICES ASSUME NEW p \in Outs \ unseen', Wav(p)
             PROVE  (Running' => PartGrows(p)') /\ \A k \in 1..Len(parts'[p]) : WavPart(p, parts[p][k])'
  BY DEF WavInv, Wav
<1>1. PartGrows(p) /\ \A k \in 1..Len(parts[p]) : WavPart(p, parts[p][k])
  BY DEF WavInv
<1>2. CASE p # o
  <2>1. parts'[p] = parts[p] /\ first'[p] = first[p] /\ total'[p] = total[p] /\ bufLen'[p] = bufLen[p]
    BY <1>2
  <2>2. Start(p)' = Start(p)
    BY <2>1 DEF Start
  <2>3. PartGrows(p)'
    BY <1>1, <2>1, <2>2 DEF PartGrows, OneHeader
  <2> QED BY <1>1, <2>1, <2>3 DEF WavPart, OneHeader
<1>3. CASE p = o
  <2> DEFINE L == Len(parts[o])
  <2>1. /\ parts[o] \in Seq(Stretches) /\ L \in Nat /\ made[o] \in Nat /\ Start(o) \in Nat
    BY WavNumbers
  <2>2. /\ parts'[o] # <<>> /\ Len(parts'[o]) = L + 1 /\ parts'[o][L + 1] = c
        /\ \A k \in 1..L : parts'[o][k] = parts[o][k]
    <3>1. /\ Len(Append(parts[o], c)) = L + 1 /\ Append(parts[o], c)[L + 1] = c
          /\ \A k \in 1..L : Append(parts[o], c)[k] = parts[o][k] /\ Append(parts[o], c) # <<>>
      BY <2>1
    <3>2. Len(<<>>) = 0
      OBVIOUS
    <3> QED BY <2>1, <3>1, <3>2
  <2>3. Start(o)' = made[o]
    <3>1. c.to = made[o]
      BY <1>3
    <3> QED BY <2>2, <3>1 DEF Start
  <2>4. ASSUME Running' PROVE PartGrows(o)'
    <3>1. made'[o] = made[o] /\ made[o] - made[o] = 0 /\ 0 < RiffMax /\ ~(made[o] < made[o]) /\ made[o] <= made[o]
      <4>1. RiffMax \in Nat \ {0}
        BY DemuxFilesAssumption
      <4>2. made'[o] = made[o]
        OBVIOUS
      <4>3. made[o] \in Nat
        BY <2>1
      <4>4. made[o] - made[o] = 0 /\ ~(made[o] < made[o]) /\ made[o] <= made[o]
        BY <4>3
      <4>5. 0 < RiffMax
        BY <4>1
      <4> QED BY <4>2, <4>4, <4>5
    <3>2. \A h \in heads'[o] : h < made'[o]
      BY <1>1, <1>3 DEF PartGrows
    <3>3. ~ending' => /\ IF first'[o] THEN made'[o] = Start(o)' ELSE Start(o)' < made'[o]
                      /\ made'[o] - Start(o)' = total'[o] + bufLen'[o]
      BY <2>3, <2>4, <3>1
    <3>4. Start(o)' <= made'[o] /\ made'[o] - Start(o)' < RiffMax
      BY <2>3, <3>1
    <3>5. OneHeader(o, Start(o), made[o])'
      BY <2>3, <3>1 DEF OneHeader
    <3> QED BY <3>2, <3>3, <3>4, <3>5 DEF PartGrows
  <2>5. WavPart(o, c)
    <3>1. c.from = Start(o) /\ c.to = made[o]
      BY <1>3
    <3> QED BY <1>1, <1>3, <2>1, <3>1 DEF PartGrows, WavPart
  <2>6. ASSUME NEW k \in 1..Len(parts'[o]) PROVE WavPart(o, parts[o][k])'
    <3>1. k = L + 1 \/ k \in 1..L
      BY <2>1, <2>2
    <3>2. PICK d : d = parts'[o][k] /\ WavPart(o, d)
      BY <1>1, <1>3, <2>2, <2>5, <3>1
    <3> QED BY <3>2 DEF WavPart, OneHeader
  <2> QED BY <1>3, <2>4, <2>6
<1> QED BY <1>2, <1>3

(* An output whose file is ended: of WavEnded, with what PartEnded says.   *)
LEMMA WavOfEnded ==
  ASSUME Inv, PlanInv, DataInv, WavInv, Running, queue = <<>>, NEW o \in Outs, NEW c \in Stretches,
         Ended(o, c), unseen \subseteq unseen',
         \/ o \in unseen'
         \/ unseen' = unseen /\ \E b \in BOOLEAN : c = Sized(EndOf(o), b) /\ (Outputs[o].wav => b),
         UNCHANGED <<made, heads, ending, queue, wpc, failed>>,
         \A p \in Outs : p # o => first'[p] = first[p] /\ total'[p] = total[p],
         ~ending /\ Running' => first'[o] /\ total'[o] = 0
  PROVE  WavInv'
<1>1. CASE failed
  BY <1>1 DEF WavInv
<1>2. CASE ~failed
  <2>1. ChainInv /\ PartsGood
    BY DEF DataInv
  <2>2. \A p \in Outs : p # o => parts'[p] = parts[p]
    <3>1. CASE o \in unseen'
      BY <1>2, <2>1, <3>1, OthersGoOn
    <3>2. CASE o \notin unseen'
      BY <1>2, <2>1, <3>2, PartEnded
    <3> QED BY <3>1, <3>2
  <2>3. PICK d \in Stretches : /\ parts'[o] = Append(parts[o], d)
                               /\ o \in unseen' \/ (d.from = Start(o) /\ d.to = made[o])
    <3>1. CASE o \in unseen'
      BY <1>2, <2>1, <3>1, OthersGoOn
    <3>2. CASE o \notin unseen'
      BY <1>2, <2>1, <3>2, PartEnded
    <3> QED BY <3>1, <3>2
  <2>4. bufLen \in [Outs -> Nat]
    BY Numbers DEF TypeOK
  <2>5. bufLen'[o] = 0 /\ \A p \in Outs : p # o => bufLen'[p] = bufLen[p]
    BY <2>4 DEF Ended
  <2>6. \A p \in Outs : p # o => parts'[p] = parts[p] /\ first'[p] = first[p]
                                 /\ total'[p] = total[p] /\ bufLen'[p] = bufLen[p]
    BY <2>2, <2>5
  <2>7. ~ending /\ Running' => first'[o] /\ total'[o] = 0 /\ bufLen'[o] = 0
    BY <2>5
  <2> QED BY <1>2, <2>3, <2>6, <2>7, WavEnded
<1> QED BY <1>1, <1>2

LEMMA WavOfSplit == Inv /\ PlanInv /\ DataInv /\ WavInv /\ SplitWav => WavInv'
<1> SUFFICES ASSUME Inv, PlanInv, DataInv, WavInv, SplitWav PROVE WavInv'
  OBVIOUS
<1>1. /\ todo # <<>> /\ Out \in Outs /\ Head(todo).op = "split"
      /\ UNCHANGED <<made, heads, ending, unfinished, queue, wpc, failed>>
  BY SplitChoices DEF At, writeVars
<1>2. Running /\ ~ending /\ Head(todo) = todo[1] /\ 1 \in 1..Len(todo)
  BY <1>1, Busy DEF Ops, EndOps
<1>3. queue = <<>>
  BY <1>1, <1>2 DEF PlanInv, QueueInv, WaitsToSplit
<1>4. CASE Stopped /\ UNCHANGED unseen
  BY <1>1, <1>4, WavSame DEF Stopped, Throw, Running
<1>5. ASSUME NEW c \in Stretches, Ended(Out, c),
             (c = Sized(EndOf(Out), TRUE) /\ unseen' = unseen) \/ unseen' = unseen \cup {Out},
             \/ total' = [total EXCEPT ![Out] = 0] /\ first' = [first EXCEPT ![Out] = TRUE]
             \/ Throw /\ UNCHANGED <<total, first>>
      PROVE  WavInv'
  <2>1. total \in [Outs -> Nat] /\ first \in [Outs -> BOOLEAN]
    BY Numbers DEF TypeOK
  <2>2. /\ \A p \in Outs : p # Out => first'[p] = first[p] /\ total'[p] = total[p]
        /\ ~ending /\ Running' => first'[Out] /\ total'[Out] = 0
    BY <1>1, <1>5, <2>1 DEF Throw, Running
  <2>3. /\ unseen \subseteq unseen'
        /\ \/ Out \in unseen'
           \/ unseen' = unseen /\ \E b \in BOOLEAN : c = Sized(EndOf(Out), b) /\ (Outputs[Out].wav => b)
    BY <1>5
  <2> QED BY <1>1, <1>2, <1>3, <1>5, <2>2, <2>3, WavOfEnded
<1> QED BY <1>4, <1>5, SplitChoices

LEMMA WavOfClose == Inv /\ PlanInv /\ DataInv /\ WavInv /\ CloseOutput => WavInv'
<1> SUFFICES ASSUME Inv, PlanInv, DataInv, WavInv, CloseOutput PROVE WavInv'
  OBVIOUS
<1>1. /\ todo # <<>> /\ Head(todo).op = "close" /\ Out \in Outs
      /\ UNCHANGED <<made, total, first, heads, ending, queue, wpc, failed, unseen>>
  BY CloseChoices DEF At, writeVars
<1>2. /\ Running /\ ending /\ Head(todo) = todo[1] /\ 1 \in 1..Len(todo)
  BY <1>1, Busy DEF Ops, MuxOps
<1>3. queue = <<>>
  <2>1. 1..(1 - 1) = {}
    OBVIOUS
  <2> QED BY <1>1, <1>2, <2>1 DEF PlanInv, WaitsToClose
<1>4. CASE UNCHANGED parts
  BY <1>1, <1>2, <1>4, WavSame
<1>5. CASE Ended(Out, Sized(EndOf(Out), Outputs[Out].wav))
  <2>1. Outputs[Out].wav \in BOOLEAN
    BY <1>1, OutputTypes
  <2>2. PICK c \in Stretches : c = Sized(EndOf(Out), Outputs[Out].wav)
    BY <1>1, <2>1, EndTypes
  <2>3. \E b \in BOOLEAN : c = Sized(EndOf(Out), b) /\ (Outputs[Out].wav => b)
    BY <2>1, <2>2
  <2>4. Ended(Out, c)
    BY <1>5, <2>2
  <2> QED BY <1>1, <1>2, <1>3, <2>3, <2>4, WavOfEnded
<1> QED BY <1>4, <1>5, CloseChoices DEF Stopped

LEMMA WavNext ==
  Inv /\ PlanInv /\ WavPlan /\ DataInv /\ WavInv /\ [Next]_vars => WavInv'
<1> SUFFICES ASSUME Inv, PlanInv, WavPlan, DataInv, WavInv, [Next]_vars PROVE WavInv'
  OBVIOUS
<1>1. CASE \/ \E t \in Tracks, kind \in Kinds, n \in Sizes : MuxPacket(t, kind, n)
           \/ EndOfSources \/ Writer \/ Done \/ UNCHANGED vars
  <2>1. CASE \E t \in Tracks, kind \in Kinds, n \in Sizes : MuxPacket(t, kind, n)
    BY <2>1, WavOfPlans
  <2>2. CASE EndOfSources \/ Writer \/ Done \/ UNCHANGED vars
    BY <2>2, WavOfPlans DEF Done
  <2> QED BY <1>1, <2>1, <2>2
<1>2. CASE MuxStep
  BY <1>2, WavOfPlans, WavOfLeave, WavOfFrame, WavOfSplit, WavOfClose DEF MuxStep
<1> QED BY <1>1, <1>2 DEF Next

LEMMA WavInit == Init => WavInv
<1> SUFFICES ASSUME Init, NEW o \in Outs, Wav(o)
             PROVE  PartGrows(o) /\ \A p \in 1..Len(parts[o]) : WavPart(o, parts[o][p])
  BY DEF WavInv
<1>1. /\ made[o] = 0 /\ bufLen[o] = 0 /\ total[o] = 0 /\ first[o] /\ heads[o] = {} /\ parts[o] = <<>>
  BY DEF Init
<1>2. Len(<<>>) = 0 /\ 1..0 = {}
  OBVIOUS
<1>3. Start(o) = 0
  BY <1>1 DEF Start
<1>4. RiffMax \in Nat \ {0}
  BY DemuxFilesAssumption
<1>5. 0 < RiffMax /\ 0 - 0 = 0 /\ 0 <= 0 /\ 0 + 0 = 0 /\ ~(0 < 0)
  BY <1>4
<1>6. PartGrows(o)
  BY <1>1, <1>3, <1>5 DEF PartGrows, OneHeader
<1> QED BY <1>1, <1>2, <1>6

(* The parts that a demux leaves are valid (SingleFileMuxer::writeOutBuffer *)
(* and close): each goes on where the one before ended with nothing lost,  *)
(* and a part of a WAV has its one header at its beginning, has its sizes  *)
(* written and is smaller than they can say, whatever write or rename      *)
(* fails.  Left out are the outputs for which a close, an open or a seek   *)
(* failed at a split.                                                      *)
THEOREM PartsAreValid == Spec => []PartsValid
<1> DEFINE I == Inv /\ PlanInv /\ WavPlan /\ DataInv /\ WavInv
<1>1. Init => I
  BY InvInit, PlanInit, WavPlanInit, DataInit, WavInit
<1>2. I /\ [Next]_vars => I'
  BY NextKeeps, PlanNext, WavPlanNext, DataNext, WavNext
<1>3. I => PartsValid
  <2> SUFFICES ASSUME I, ~failed, NEW o \in Outs \ unseen, NEW p \in 1..Len(parts[o]), NEW c, c = parts[o][p]
               PROVE  /\ c.whole /\ c.from = Begins(o, p)
                      /\ Outputs[o].wav =>
                           /\ c.sized /\ c.to - c.from < RiffMax
                           /\ c.to > c.from => heads[o] \cap c.from..(c.to - 1) = {c.from}
    BY DEF PartsValid
  <2>1. Good(o, p)
    BY DEF DataInv, PartsGood
  <2>2. ASSUME Wav(o)
        PROVE  c.to - c.from < RiffMax /\ (c.to > c.from => heads[o] \cap c.from..(c.to - 1) = {c.from})
    <3>1. WavPart(o, c)
      BY <2>2 DEF WavInv
    <3>2. c.from \in Nat /\ c.to \in Nat
      BY <2>2, WavNumbers
    <3>3. c.to > c.from => c.from < c.to
      BY <3>2
    <3> QED BY <3>1, <3>3 DEF WavPart, OneHeader, Bytes
  <2> QED BY <2>1, <2>2 DEF Good, Wav
<1> HIDE DEF I
<1>4. Spec => []I
  BY <1>1, <1>2, PTL DEF Spec
<1> QED BY <1>3, <1>4, PTL
=============================================================================

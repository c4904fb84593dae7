--------------------------- MODULE MuxOrderProofs ---------------------------
(***************************************************************************)
(* Proofs about the order of the blocks of MuxWriter: on the way from the  *)
(* muxers to the disk they stand in one line for each view, in which none  *)
(* overtakes another and, as long as nothing fails, none is lost; and the  *)
(* units of two views that are kept apart go to the disk in turn.          *)
(***************************************************************************)
EXTENDS MuxPlanProofs

USE DEF viewVars, partVars, holdVars, endVars, writeVars, diskVars, muxVars

-----------------------------------------------------------------------------
(* The end of a job *)

HeldOuts == {s \in Steps : s.op = "heldOut"}
Verdicts == {s \in Steps : s.op = "verdict"}

\* Steps after which blocks of the first view may be held back
Live == {s \in Steps : s.op \in {"stamp", "rest", "put"}}

\* What is exposed at the end, once no packet is made any more
ShutRule(v) ==
  M2ts /\ Exposed(Plan, Ops("rest", v), Ops("close", v) \cup Verdicts) => Clean(v)
GoneRule(v) ==
  Exposed(Plan, Ops("close", v), Verdicts) => sent[v] = made[v] \/ ~closedOk
VerdictRule == Rule(Steps \ Closing, Ops("wait", "main"), Verdicts, queue = <<>>)
LiveRule == Ordered(Plan, Live, HeldOuts, {End})
OnceRule == Ordered(Plan, HeldOuts \cup Closing, {}, HeldOuts)
OneKind ==
  \A i, k \in 1..Len(todo) : todo[i] \in Puts /\ todo[k] \in Puts => todo[i].op = todo[k].op
\* A step that is taken when the sources are at their end
Late(s) == s.op \in EndOps \cup {"stamp", "rest", "put", "queue"}

LastInv == result = "running" =>
  /\ OneKind
  /\ ~ending => \A k \in 1..Len(todo) : Early(todo[k])
  /\ ending =>
       /\ \A k \in 1..Len(todo) : Late(todo[k])
       /\ \A v \in Views : ShutRule(v) /\ GoneRule(v)
       /\ VerdictRule /\ LiveRule /\ OnceRule

-----------------------------------------------------------------------------
(* Where the blocks are *)

Elems(s) == {s[i] : i \in 1..Len(s)}
\* x comes before y in their view
Before(x, y) == x.view = y.view /\ x.view \in Views => x.last < y.first
Below(X, Y) == \A x \in X, y \in Y : Before(x, y)
Rising(s) == \A i, k \in 1..Len(s) : i < k => Before(s[i], s[k])

\* The queue, but for the block the writer has done
WaitLine == IF wpc = "pop" THEN Tail(queue) ELSE queue
PutBlocks(op) == {todo[k].blk : k \in {j \in 1..Len(todo) : todo[j].op = op}}
\* The blocks held back have not been queued at the end of the job
HeldLive == ending => \E k \in 1..Len(todo) : todo[k].op = "heldOut"
Landed == Elems(disk)
Waiting == Elems(WaitLine) \ {Sentinel}
Holding == IF HeldLive THEN Elems(held) ELSE {}
Delayed == UNION {Elems(delayBlk[v]) : v \in Views}
\* All blocks on their way, the first of a view in front
Line == <<Landed, Waiting, PutBlocks("queue"), Holding, PutBlocks("put"), Delayed>>

InLine(S) == \A j, k \in 1..6 : j < k => Below(S[j], S[k])
PutsRise ==
  \A i, k \in 1..Len(todo) : i < k /\ todo[i] \in Puts /\ todo[k] \in Puts
    => Before(todo[i].blk, todo[k].blk)
EachRises ==
  /\ Rising(disk) /\ Rising(WaitLine) /\ Rising(held) /\ PutsRise
  /\ \A v \in Views : Rising(delayBlk[v])
\* A block holds packets of its part that have left the muxer
Spot(b) ==
  /\ b.view \in Views /\ b.part \in 1..Part(b.view)
  /\ firstOf[b.view][b.part] <= b.first /\ b.first <= b.last + 1 /\ b.last <= sent[b.view]
  /\ b.part < Part(b.view) => b.last < firstOf[b.view][b.part + 1]
Spots(S) == \A k \in 1..6 : \A b \in S[k] : Spot(b)
InTime(S) == M2ts => \A k \in 1..5 : \A b \in S[k] : b.last <= stamped[b.view]
FirstRises ==
  \A v \in Views :
    /\ Part(v) > 0 /\ firstOf[v][1] = 1 /\ firstOf[v][Part(v)] <= sent[v] + 1
    /\ \A p, q \in 1..Part(v) : p <= q => firstOf[v][p] <= firstOf[v][q]
Covers(b, v, n) == b.view = v /\ b.first <= n /\ n <= b.last
Covered(S) == \A v \in Views : \A n \in 1..sent[v] : \E k \in 1..6 : \E b \in S[k] : Covers(b, v, n)
LineInv ==
  /\ InLine(Line) /\ EachRises /\ Spots(Line) /\ InTime(Line) /\ FirstRises
  /\ ~failed /\ result # "failed" => Covered(Line)

\* What lies before the part a view writes now is on the disk
WholeInv ==
  ~failed /\ result = "running" =>
    \A v \in Views : \A n \in 1..firstOf[v][Part(v)] - 1 : \E b \in Elems(disk) : Covers(b, v, n)
\* Nothing is on its way any more when a job has ended well
EndInv ==
  result = "ok" =>
    /\ ending /\ ~failed /\ \A v \in Views : sent[v] = made[v]
    /\ \A k \in 2..6 : Line[k] = {}

-----------------------------------------------------------------------------
(* The end of a job comes in its order *)

(* The steps behind the one taken are still to be taken.                   *)
LEMMA StepsKept ==
  ASSUME TypeOK, todo # <<>>, NEW steps \in Seq(Steps), Then(steps)
  PROVE  /\ \A i \in 1..Len(todo) : i = 1 \/
              (Len(steps) + i - 1 \in 1..Len(todo') /\ todo'[Len(steps) + i - 1] = todo[i])
         /\ \A k \in 1..Len(todo') :
              \/ k \in 1..Len(steps) /\ todo'[k] = steps[k]
              \/ /\ k - Len(steps) + 1 \in 2..Len(todo)
                 /\ todo'[k] = todo[k - Len(steps) + 1]
         /\ \A k \in 1..Len(steps) : k \in 1..Len(todo') /\ todo'[k] = steps[k]
         /\ Len(steps) \in Nat /\ Len(todo') \in Nat /\ Len(todo) \in Nat
<1>1. /\ Tail(todo) \in Seq(Steps) /\ todo' = steps \o Tail(todo)
      /\ Len(todo) \in Nat /\ Len(Tail(todo)) = Len(todo) - 1 /\ Len(steps) \in Nat
      /\ \A i \in 1..Len(Tail(todo)) : Tail(todo)[i] = todo[i + 1]
  <2>1. todo \in Seq(Steps) /\ Len(todo) \in Nat /\ Len(steps) \in Nat
    BY LenProperties DEF TypeOK
  <2>. QED  BY <2>1, HeadTailProperties DEF Then
<1>2. /\ Len(todo') = Len(steps) + Len(todo) - 1
      /\ \A k \in 1..Len(steps) : k \in 1..Len(todo') /\ todo'[k] = steps[k]
      /\ \A k \in 1..Len(Tail(todo)) :
           Len(steps) + k \in 1..Len(todo') /\ todo'[Len(steps) + k] = Tail(todo)[k]
      /\ \A k \in 1..Len(todo') :
           k \in 1..Len(steps) \/ (/\ k - Len(steps) \in 1..Len(Tail(todo))
                                   /\ todo'[k] = Tail(todo)[k - Len(steps)])
  <2>1. /\ Len(steps \o Tail(todo)) = Len(steps) + Len(Tail(todo))
        /\ \A k \in 1..Len(steps) : k \in 1..Len(steps \o Tail(todo)) /\ (steps \o Tail(todo))[k] = steps[k]
        /\ \A k \in 1..Len(Tail(todo)) :
             /\ Len(steps) + k \in 1..Len(steps \o Tail(todo))
             /\ (steps \o Tail(todo))[Len(steps) + k] = Tail(todo)[k]
        /\ \A k \in 1..Len(steps \o Tail(todo)) :
             k \in 1..Len(steps) \/ (/\ k - Len(steps) \in 1..Len(Tail(todo))
                                     /\ (steps \o Tail(todo))[k] = Tail(todo)[k - Len(steps)])
    BY <1>1, JoinedSteps
  <2>. QED  BY <1>1, <2>1
<1>3. ASSUME NEW i \in 1..Len(todo), i # 1
      PROVE  Len(steps) + i - 1 \in 1..Len(todo') /\ todo'[Len(steps) + i - 1] = todo[i]
  <2>1. i - 1 \in 1..Len(Tail(todo)) /\ (i - 1) + 1 = i /\ Len(steps) + (i - 1) = Len(steps) + i - 1
    BY <1>1, <1>3
  <2>2. Tail(todo)[i - 1] = todo[(i - 1) + 1]
    BY <1>1, <2>1
  <2>. QED  BY <1>2, <2>1, <2>2
<1>4. ASSUME NEW k \in 1..Len(todo'), k \notin 1..Len(steps)
      PROVE  k - Len(steps) + 1 \in 2..Len(todo) /\ todo'[k] = todo[k - Len(steps) + 1]
  <2>1. k - Len(steps) \in 1..Len(Tail(todo)) /\ todo'[k] = Tail(todo)[k - Len(steps)]
    BY <1>2, <1>4
  <2>. QED  BY <1>1, <2>1
<1>5. Len(todo') \in Nat
  BY <1>1, <1>2
<1>. QED  BY <1>1, <1>2, <1>3, <1>4, <1>5

(* All blocks to put out come from one step.                               *)
LEMMA OneKindKept ==
  ASSUME TypeOK, PlanInv, result = "running", OneKind, todo # <<>>,
         NEW steps \in Seq(Steps), Then(steps), NEW op,
         \A k \in 1..Len(steps) : steps[k] \in Puts => steps[k].op = op,
         Head(todo) \in Puts => steps = <<>>
  PROVE  OneKind'
<1>1. Puts' = Puts
  BY DEF Puts
<1>2. CASE Head(todo) \in Puts
  <2>1. Len(steps) = 0 /\ \A k \in 1..0 : FALSE
    BY <1>2
  <2>2. \A k \in 1..Len(todo') :
          k \in 1..Len(steps) \/ \E i \in 1..Len(todo) : todo'[k] = todo[i]
    BY StepsOfTodo
  <2>3. \A k \in 1..Len(todo') : \E i \in 1..Len(todo) : todo'[k] = todo[i]
    BY <2>1, <2>2
  <2>. QED  BY <1>1, <2>3 DEF OneKind
<1>3. CASE Head(todo) \notin Puts
  <2>1. \A k \in 1..Len(todo) : todo[k] \notin Puts
    BY <1>3, NoPutsLeft
  <2>2. \A k \in 1..Len(todo') : todo'[k] \in Puts => todo'[k].op = op
    BY <2>1, StepsOfTodo
  <2>. QED  BY <1>1, <2>2 DEF OneKind
<1>. QED  BY <1>2, <1>3

(* What the step that is taken keeps of what the end of the job needs.     *)
ShutKept(v) == M2ts /\ (Clean(v) \/ Head(todo) \in Ops("rest", v)) => Clean(v)'
GoneKept(v) ==
  sent[v] = made[v] \/ ~closedOk \/ Head(todo) \in Ops("close", v)
    => sent'[v] = made'[v] \/ ~closedOk'
EndKept ==
  /\ \A v \in Views : ShutKept(v) /\ GoneKept(v)
  /\ IdleKept

(* A step while there are sources.                                         *)
LEMMA EarlyStep ==
  ASSUME TypeOK, PlanInv, LastInv, result = "running", ~ending, ~ending', todo # <<>>,
         NEW steps \in Seq(Steps), Then(steps), \A k \in 1..Len(steps) : Early(steps[k]), OneKind'
  PROVE  LastInv'
<1>1. \A k \in 1..Len(todo') : Early(todo'[k])
  BY StepsOfTodo DEF LastInv
<1>2. \A s : Early(s)' <=> Early(s)
  BY DEF Early
<1>3. \A k \in 1..Len(todo') : Early(todo[k])'
  BY <1>1 DEF Early
<1>. QED  BY <1>3 DEF LastInv

(* A step when the sources are at their end.                               *)
LEMMA LateStep ==
  ASSUME TypeOK, PlanInv, LastInv, result = "running", ending, ending', todo # <<>>,
         NEW steps \in Seq(Steps), Then(steps), \A k \in 1..Len(steps) : steps[k] \in Puts,
         \A k \in 1..Len(steps) : steps[k].op = "put" => Head(todo) \in Live,
         Head(todo) \in Closing => steps = <<>>, EndKept, OneKind'
  PROVE  LastInv'
<1> USE DEF Rule
<1>1. \A k \in 1..Len(steps) :
        /\ steps[k] \in Steps /\ steps[k].op \in {"put", "queue"}
        /\ steps[k] \notin Verdicts /\ steps[k] \notin HeldOuts /\ steps[k] \notin Closing
        /\ steps[k] # End
        /\ \A v : steps[k] \notin Ops("close", v)
        /\ steps[k] \in Live => Head(todo) \in Live
        /\ Late(steps[k])
  <2>1. \A s \in Puts : /\ s \in Steps /\ s.op \in {"put", "queue"} /\ s # End
                        /\ s \notin Verdicts /\ s \notin HeldOuts /\ s \notin Closing /\ Late(s)
                        /\ \A v : s \notin Ops("close", v)
                        /\ s \in Live => s.op = "put"
    BY DEF Puts, Verdicts, HeldOuts, Closing, Late, Ops, Live, End
  <2>. QED  BY <2>1
<1>2. \A k \in 1..Len(todo') : Late(todo[k])'
  <2>1. \A k \in 1..Len(todo') : Late(todo'[k])
    BY <1>1, StepsOfTodo DEF LastInv
  <2>. QED  BY <2>1 DEF Late
<1>3. ASSUME NEW v \in Views PROVE ShutRule(v)' /\ GoneRule(v)'
  <2>1. \A E, N : Ordered(Plan, {}, E, N)
    BY DEF Ordered
  <2>2. ASSUME NEW E, NEW N, \A k \in 1..Len(steps) : steps[k] \notin N, Exposed(Plan', E, N)
        PROVE  Head(todo) \in E \/ Exposed(Plan, E, N)
    BY <2>1, <2>2, KeepRule
  <2>3. /\ \A k \in 1..Len(steps) : steps[k] \notin Ops("close", v) \cup Verdicts
        /\ \A k \in 1..Len(steps) : steps[k] \notin Verdicts
    BY <1>1
  <2>4. /\ Exposed(Plan', Ops("rest", v), Ops("close", v) \cup Verdicts) =>
             Head(todo) \in Ops("rest", v) \/ Exposed(Plan, Ops("rest", v), Ops("close", v) \cup Verdicts)
        /\ Exposed(Plan', Ops("close", v), Verdicts) =>
             Head(todo) \in Ops("close", v) \/ Exposed(Plan, Ops("close", v), Verdicts)
    BY <2>2, <2>3
  <2>5. ShutRule(v) /\ GoneRule(v) /\ ShutKept(v) /\ GoneKept(v)
    BY <1>3 DEF LastInv, EndKept
  <2>6. ShutRule(v)'
    BY <2>4, <2>5 DEF ShutRule, ShutKept
  <2>7. GoneRule(v)'
    BY <2>4, <2>5 DEF GoneRule, GoneKept
  <2>. QED  BY <2>6, <2>7
<1>4. VerdictRule'
  <2> DEFINE D == Steps \ Closing
             E == Ops("wait", "main")
             N == Verdicts
  <2>1. Ordered(Plan, D, E, N) /\ (Exposed(Plan, E, N) => queue = <<>>)
    BY DEF LastInv, VerdictRule
  <2>2. Head(todo) \in Steps
    BY HeadOfTodo
  <2>3. \A k \in 1..Len(steps) : steps[k] \notin N /\ (steps[k] \notin D \/ Head(todo) \in D)
    <3>1. CASE Head(todo) \in Closing
      <4>1. Len(steps) = 0
        BY <3>1
      <4>. QED  BY <4>1
    <3>. QED  BY <1>1, <2>2, <3>1
  <2> HIDE DEF D, E, N
  <2>4. /\ Ordered(Plan', D, E, N)
        /\ Exposed(Plan', E, N) => Head(todo) \notin D /\ (Head(todo) \in E \/ Exposed(Plan, E, N))
    BY <2>1, <2>3, KeepRule
  <2>5. Head(todo) \notin D => Head(todo) \in Closing
    BY <2>2 DEF D
  <2>6. Exposed(Plan', E, N) => queue' = <<>>
    BY <2>1, <2>4, <2>5 DEF EndKept, IdleKept, E
  <2>. QED  BY <2>4, <2>6 DEF VerdictRule, D, E, N
<1>5. LiveRule'
  <2>1. Ordered(Plan, Live, HeldOuts, {End})
    BY DEF LastInv, LiveRule
  <2>2. \A k \in 1..Len(steps) : steps[k] \notin {End} /\ (steps[k] \notin Live \/ Head(todo) \in Live)
    BY <1>1
  <2>3. Ordered(Plan', Live, HeldOuts, {End})
    BY <2>1, <2>2, KeepRule
  <2>. QED  BY <2>3 DEF LiveRule
<1>6. OnceRule'
  <2>1. Ordered(Plan, HeldOuts \cup Closing, {}, HeldOuts)
    BY DEF LastInv, OnceRule
  <2>2. \A k \in 1..Len(steps) : steps[k] \notin HeldOuts /\ steps[k] \notin HeldOuts \cup Closing
    BY <1>1
  <2>3. Ordered(Plan', HeldOuts \cup Closing, {}, HeldOuts)
    BY <2>1, <2>2, KeepRule
  <2>. QED  BY <2>3 DEF OnceRule
<1>. QED  BY <1>2, <1>3, <1>4, <1>5, <1>6 DEF LastInv

(* What kind of step the next one is.                                      *)
LEMMA HeadWhen ==
  ASSUME TypeOK, LastInv, result = "running", todo # <<>>
  PROVE  (ending => Late(Head(todo))) /\ (~ending => Early(Head(todo)))
BY HeadIsFirst DEF LastInv

(* A step that puts blocks out, all for one reason, or nothing.            *)
LEMMA PutsStep ==
  ASSUME TypeOK, PlanInv, LastInv, result = "running", ending' = ending, todo # <<>>,
         NEW steps \in Seq(Steps), Then(steps), NEW op \in {"put", "queue"},
         \A k \in 1..Len(steps) : steps[k] \in Puts /\ steps[k].op = op,
         ending /\ op = "put" => steps = <<>> \/ Head(todo) \in Live,
         Head(todo) \in Closing \cup Puts => steps = <<>>,
         ending => EndKept
  PROVE  LastInv'
<1>1. OneKind'
  <2>1. OneKind
    BY DEF LastInv
  <2>. QED  BY <2>1, OneKindKept
<1>2. steps = <<>> => \A k \in 1..Len(steps) : FALSE
  <2>1. Len(<<>>) = 0 /\ \A k \in 1..0 : FALSE
    OBVIOUS
  <2>. QED  BY <2>1
<1>3. CASE ending
  <2>1. \A k \in 1..Len(steps) : steps[k].op = "put" => Head(todo) \in Live
    BY <1>2, <1>3
  <2>. QED  BY <1>1, <1>3, <2>1, LateStep
<1>4. CASE ~ending
  <2>1. \A k \in 1..Len(steps) : Early(steps[k])
    BY DEF Early, EndOps
  <2>. QED  BY <1>1, <1>4, <2>1, EarlyStep
<1>5. ending \in BOOLEAN
  BY DEF TypeOK
<1>. QED  BY <1>3, <1>4

(* Nothing is put in.                                                      *)
LEMMA PoppedStep ==
  ASSUME TypeOK, PlanInv, LastInv, result = "running", ending' = ending, todo # <<>>,
         Then(<<>>), ending => EndKept
  PROVE  LastInv'
<1>1. <<>> \in Seq(Steps) /\ \A k \in 1..Len(<<>>) : <<>>[k] \in Puts /\ <<>>[k].op = "put"
  <2>1. <<>> \in Seq(Steps) /\ Len(<<>>) = 0 /\ \A k \in 1..0 : FALSE
    BY EmptySeq
  <2>. QED  BY <2>1
<1>. QED  BY <1>1, PutsStep

(* What follows a packet or an end of a unit concerns no end of the job.    *)
LEMMA SwitchSequel ==
  ASSUME TypeOK, PlanInv, result = "running", SwitchBlock \/ FinishFileBlock
  PROVE  /\ todo # <<>> /\ Head(todo).op \in {"switch", "finish"} /\ Head(todo).view \in Views
         /\ Head(todo) \notin Puts
         /\ \E steps \in Seq(Steps) :
              Then(steps) /\ \A k \in 1..Len(steps) : steps[k] \notin Puts /\ Early(steps[k])
<1>1. todo # <<>> /\ Head(todo).op \in {"switch", "finish"} /\ Head(todo).view \in Views
  BY HeadOfTodo DEF SwitchBlock, FinishFileBlock, At
<1>2. Head(todo) \notin Puts
  BY <1>1 DEF Puts
<1>3. CASE FinishFileBlock
  BY <1>1, <1>2, <1>3, FinishSequel
<1>4. CASE SwitchBlock
  <2>v. PICK v \in Views : v = Head(todo).view
    BY <1>1
  <2>1. ASSUME NEW c \in BOOLEAN
        PROVE  /\ <<Finish(v, c, TRUE)>> \in Seq(Steps)
               /\ \A k \in 1..Len(<<Finish(v, c, TRUE)>>) :
                    <<Finish(v, c, TRUE)>>[k] \notin Puts /\ Early(<<Finish(v, c, TRUE)>>[k])
    <3> DEFINE x == Finish(v, c, TRUE)
    <3>1. x \in Steps /\ x \notin Puts
      BY FinishKinds
    <3>2. Early(x)
      BY DEF Early, EndOps, Finish
    <3> HIDE DEF x
    <3>3. <<x>> \in Seq(Steps) /\ Len(<<x>>) = 1 /\ <<x>>[1] = x /\ \A k \in 1..1 : k = 1
      BY <3>1
    <3>4. \A k \in 1..Len(<<x>>) : <<x>>[k] \notin Puts /\ Early(<<x>>[k])
      BY <3>1, <3>2, <3>3
    <3>. QED  BY <3>3, <3>4 DEF x
  <2>2. /\ Tables(v) \in Seq(Steps)
        /\ \A k \in 1..Len(Tables(v)) : Tables(v)[k] \notin Puts /\ Early(Tables(v)[k])
    <3> DEFINE S == {Step("packet", v), Step("stamp", v)}
    <3>1. <<Step("packet", v)>> \in Seq(S) /\ <<Step("stamp", v)>> \in Seq(S) /\ <<>> \in Seq(S)
      OBVIOUS
    <3>2. Tables(v) \in Seq(S)
      BY <3>1, ConcatProperties DEF Tables, IfAny
    <3>3. \A s \in S : s \notin Puts
      BY StepKinds
    <3>4. \A s \in S : Early(s)
      BY DEF Early, EndOps, Step
    <3> HIDE DEF S
    <3>. QED  BY <3>2, <3>3, <3>4, TablesType, ElementOfSeq
  <2>3. (\E c \in BOOLEAN : Then(<<Finish(v, c, TRUE)>>)) \/ Then(Tables(v)) \/ Then(<<>>)
    BY <1>4, <2>v DEF SwitchBlock
  <2>4. <<>> \in Seq(Steps) /\ Len(<<>>) = 0 /\ \A k \in 1..0 : FALSE
    BY EmptySeq
  <2>. QED  BY <1>1, <1>2, <2>1, <2>2, <2>3, <2>4
<1>. QED  BY <1>3, <1>4

(* The steps in which a unit or part is begun or ended.                    *)
LEMMA SwitchLast ==
  ASSUME TypeOK, PlanInv, LastInv, result = "running", SwitchBlock \/ FinishFileBlock
  PROVE  LastInv'
<1>1. /\ todo # <<>> /\ Head(todo).op \in {"switch", "finish"} /\ Head(todo).view \in Views
      /\ Head(todo) \notin Puts
  BY SwitchSequel
<1>2. ~ending /\ ~ending'
  <2>1. ~Late(Head(todo))
    BY <1>1 DEF Late, EndOps
  <2>. QED  BY <1>1, <2>1, HeadWhen DEF SwitchBlock, FinishFileBlock
<1>3. PICK steps \in Seq(Steps) :
        Then(steps) /\ \A k \in 1..Len(steps) : steps[k] \notin Puts /\ Early(steps[k])
  BY SwitchSequel
<1>4. OneKind'
  <2>1. OneKind
    BY DEF LastInv
  <2>. QED  BY <1>1, <1>3, <2>1, OneKindKept
<1>. QED  BY <1>1, <1>2, <1>3, <1>4, EarlyStep

(* The steps that make, stamp and flush packets.                           *)
LEMMA PacketsLast ==
  ASSUME TypeOK, PlanInv, PlaceInv, LastInv, result = "running", AddPacket \/ Stamp \/ FlushRest
  PROVE  LastInv'
<1>0. /\ todo # <<>> /\ Head(todo).op \in {"packet", "stamp", "rest"} /\ Head(todo) \in Steps
      /\ Head(todo).view \in Views /\ ending' = ending /\ closedOk' = closedOk
  BY HeadOfTodo DEF AddPacket, Stamp, FlushRest, At
<1>v. PICK v \in Views : v = Head(todo).view
  BY <1>0
<1>1. Head(todo) \notin Closing /\ Head(todo) \notin Puts
      /\ (Head(todo).op # "packet" => Head(todo) \in Live)
      /\ \A w : Head(todo) \notin Ops("close", w)
  BY <1>0 DEF Closing, Puts, Live, Ops
<1>2. IdleKept
  BY <1>1 DEF IdleKept
<1>3. /\ made \in [Views -> Nat] /\ sent \in [Views -> Nat] /\ stamped \in [Views -> Nat]
      /\ sent[v] <= made[v] /\ delayBlk \in [Views -> Seq(Blocks)] /\ delayBlk[v] \in Seq(Blocks)
  BY <1>v DEF TypeOK
<1>4. CASE AddPacket
  <2> DEFINE u == Head(todo).view
             n == made[u] + 1
             b == Block(u, n)
             c == n - sent[u] = BlockLimit /\ MayGoOut(u, n)
             steps == IfAny(c, <<PutStep("put", b)>>)
  <2>1. b \in Blocks /\ c \in BOOLEAN
    BY <1>v, <1>3, BlockType DEF MayGoOut
  <2>2. steps \in Seq(Steps) /\ \A k \in 1..Len(steps) : steps[k] \in Puts /\ steps[k].op = "put"
    <3> HIDE DEF b, c
    <3>1. steps \in Seq(Steps)
          /\ \A k \in 1..Len(steps) : steps[k] \in Puts /\ steps[k] \in Ops("put", b.view)
      BY <2>1, OnePut
    <3>. QED  BY <3>1 DEF Ops
  <2>3. Then(steps)
    BY <1>4 DEF AddPacket
  <2>4. ~ending
    <3>1. ~Late(Head(todo))
      BY <1>4 DEF AddPacket, At, Late, EndOps
    <3>. QED  BY <1>0, <3>1, HeadWhen
  <2> HIDE DEF steps
  <2>. QED  BY <1>0, <1>1, <2>2, <2>3, <2>4, PutsStep
<1>5. CASE Stamp
  <2> DEFINE steps == PutAll("put", delayBlk[v])
  <2>1. steps \in Seq(Steps) /\ \A k \in 1..Len(steps) : steps[k] \in Puts /\ steps[k].op = "put"
    <3>1. steps \in Seq(Steps)
          /\ \A k \in 1..Len(steps) : steps[k] \in Puts /\ steps[k] \in Ops("put", delayBlk[v][k].view)
      BY <1>3, PutAllPuts
    <3> HIDE DEF steps
    <3>. QED  BY <3>1 DEF Ops
  <2>2. Then(steps)
    BY <1>5, <1>v DEF Stamp
  <2>3. ASSUME NEW w \in Views PROVE ShutKept(w) /\ GoneKept(w)
    <3>1. sent' = sent /\ made' = made /\ (delayBlk[w] = <<>> => delayBlk'[w] = <<>>)
      BY <1>5, <1>v, <1>3 DEF Stamp
    <3>2. Head(todo) \notin Ops("rest", w)
      BY <1>5 DEF Stamp, At, Ops
    <3>. QED  BY <1>0, <1>1, <3>1, <3>2 DEF ShutKept, GoneKept, Clean
  <2>4. Head(todo) \in Live
    BY <1>1, <1>5 DEF Stamp, At
  <2> HIDE DEF steps
  <2>. QED  BY <1>0, <1>1, <1>2, <2>1, <2>2, <2>3, <2>4, PutsStep DEF EndKept
<1>6. CASE FlushRest
  <2>1. PICK to \in IF M2ts THEN {made[v]} ELSE sent[v]..made[v] :
          /\ sent' = [sent EXCEPT ![v] = to]
          /\ Then(<<PutStep("put", Block(v, to))>>)
    BY <1>6, <1>v DEF FlushRest
  <2>2. to \in Nat /\ (M2ts \/ sent[v] = made[v] => to = made[v])
    BY <1>3, <2>1
  <2> DEFINE steps == IfAny(TRUE, <<PutStep("put", Block(v, to))>>)
  <2>3. /\ steps \in Seq(Steps) /\ Then(steps)
        /\ \A k \in 1..Len(steps) : steps[k] \in Puts /\ steps[k].op = "put"
    <3>1. Block(v, to) \in Blocks
      BY <2>2, BlockType
    <3>2. steps = <<PutStep("put", Block(v, to))>>
      BY DEF IfAny
    <3>3. steps \in Seq(Steps)
          /\ \A k \in 1..Len(steps) : steps[k] \in Puts /\ steps[k] \in Ops("put", Block(v, to).view)
      BY <3>1, OnePut
    <3>4. Then(steps)
      BY <2>1, <3>2
    <3> HIDE DEF steps
    <3>. QED  BY <3>3, <3>4 DEF Ops
  <2>4. M2ts => delayBlk[v] = <<>>
    <3>1. Head(todo) \in Ops("rest", v)
      BY <1>0, <1>6, <1>v DEF FlushRest, At, Ops
    <3>. QED  BY <1>0, <3>1, HeadExposed DEF PlanInv, StampRule, Rule, Stamped
  <2>5. ASSUME NEW w \in Views PROVE ShutKept(w) /\ GoneKept(w)
    <3>1. made' = made /\ delayBlk' = delayBlk
      BY <1>6 DEF FlushRest
    <3>2. CASE w = v
      <4>1. sent'[v] = to
        BY <1>3, <2>1
      <4>. QED  BY <1>0, <1>1, <2>2, <2>4, <3>1, <3>2, <4>1 DEF ShutKept, GoneKept, Clean
    <3>3. CASE w # v
      <4>1. sent'[w] = sent[w] /\ Head(todo) \notin Ops("rest", w)
        BY <1>3, <1>v, <2>1, <2>5, <3>3 DEF Ops
      <4>. QED  BY <1>0, <1>1, <3>1, <4>1 DEF ShutKept, GoneKept, Clean
    <3>. QED  BY <3>2, <3>3
  <2>6. Head(todo) \in Live
    BY <1>1, <1>6 DEF FlushRest, At
  <2> HIDE DEF steps
  <2>. QED  BY <1>0, <1>1, <1>2, <2>3, <2>5, <2>6, PutsStep DEF EndKept
<1>. QED  BY <1>4, <1>5, <1>6

(* A block is queued or held back.                                         *)
LEMMA PutBlockLast ==
  ASSUME TypeOK, PlanInv, LastInv, result = "running", PutBlock
  PROVE  LastInv'
<1>1. todo # <<>> /\ Head(todo).op \in {"put", "queue"}
  BY DEF PutBlock, At
<1>2. CASE result' # "running"
  BY <1>2 DEF LastInv
<1>3. CASE result' = "running"
  <2>1. Then(<<>>)
    BY <1>3 DEF PutBlock, AsyncWriteBuffer, AsyncWriteBlock, Throw
  <2>2. Head(todo) \notin Closing /\ \A w : /\ Head(todo) \notin Ops("rest", w)
                                           /\ Head(todo) \notin Ops("close", w)
    BY <1>1 DEF Closing, Ops
  <2>3. ending' = ending /\ sent' = sent /\ made' = made /\ delayBlk' = delayBlk /\ closedOk' = closedOk
    BY DEF PutBlock
  <2>4. \A w : Clean(w)' <=> Clean(w)
    BY <2>3 DEF Clean
  <2>5. EndKept
    BY <2>2, <2>3, <2>4 DEF EndKept, ShutKept, GoneKept, IdleKept
  <2>. QED  BY <1>1, <2>1, <2>3, <2>5, PoppedStep
<1>. QED  BY <1>2, <1>3

(* The steps that are only taken while there are sources.                  *)
LEMMA PartsLast ==
  ASSUME TypeOK, PlanInv, PlaceInv, LastInv, result = "running",
         MuxBlockFinished \/ FlushTSBuffer \/ GotoNextFile
  PROVE  LastInv'
<1>1. /\ todo # <<>> /\ Head(todo).op \in {"blockDone", "tail", "next"}
      /\ Head(todo).view \in Views /\ ending' = ending
  BY HeadOfTodo DEF MuxBlockFinished, FlushTSBuffer, GotoNextFile, At
<1>2. ~ending /\ Head(todo) \notin Closing \cup Puts
  <2>1. ~Late(Head(todo)) /\ Head(todo) \notin Closing \cup Puts
    BY <1>1 DEF Late, EndOps, Closing, Puts
  <2>. QED  BY <1>1, <2>1, HeadWhen
<1>3. CASE result' # "running"
  BY <1>3 DEF LastInv
<1>4. CASE Then(<<>>)
  BY <1>1, <1>2, <1>4, PoppedStep
<1>5. CASE Then(PutAll("queue", held))
  <2> DEFINE steps == PutAll("queue", held)
  <2>1. steps \in Seq(Steps) /\ \A k \in 1..Len(steps) : steps[k] \in Puts /\ steps[k].op = "queue"
    <3>1. held \in Seq(Blocks)
      BY DEF TypeOK
    <3>2. steps \in Seq(Steps)
          /\ \A k \in 1..Len(steps) : steps[k] \in Puts /\ steps[k] \in Ops("queue", held[k].view)
      BY <3>1, PutAllPuts
    <3> HIDE DEF steps
    <3>. QED  BY <3>2 DEF Ops
  <2>2. Then(steps)
    BY <1>5
  <2> HIDE DEF steps
  <2>. QED  BY <1>1, <1>2, <2>1, <2>2, PutsStep
<1>6. result' # "running" \/ Then(<<>>) \/ Then(PutAll("queue", held))
  BY DEF MuxBlockFinished, FlushTSBuffer, GotoNextFile, Throw
<1>. QED  BY <1>3, <1>4, <1>5, <1>6

(* The last steps of a job.                                                *)
LEMMA ClosingLast ==
  ASSUME TypeOK, PlanInv, LastInv, result = "running", HeldOut \/ WaitForWriting \/ CloseMuxer
  PROVE  LastInv'
<1>1. /\ todo # <<>> /\ Head(todo).op \in {"heldOut", "wait", "close"} /\ Head(todo) \in Steps
      /\ Head(todo).view \in Views /\ ending' = ending
      /\ UNCHANGED <<made, delayBlk, queue>>
  BY HeadOfTodo DEF HeldOut, WaitForWriting, CloseMuxer, At
<1>2. /\ \A w : Head(todo) \notin Ops("rest", w) /\ Head(todo) \notin Puts
      /\ Head(todo).op = "heldOut" => Head(todo) \notin Closing
  BY <1>1 DEF Ops, Puts, Closing
<1>3. CASE HeldOut
  <2> DEFINE steps == PutAll("queue", held)
  <2>1. steps \in Seq(Steps) /\ \A k \in 1..Len(steps) : steps[k] \in Puts /\ steps[k].op = "queue"
    <3>1. held \in Seq(Blocks)
      BY DEF TypeOK
    <3>2. steps \in Seq(Steps)
          /\ \A k \in 1..Len(steps) : steps[k] \in Puts /\ steps[k] \in Ops("queue", held[k].view)
      BY <3>1, PutAllPuts
    <3> HIDE DEF steps
    <3>. QED  BY <3>2 DEF Ops
  <2>2. Then(steps) /\ Head(todo).op = "heldOut"
    BY <1>3 DEF HeldOut, At
  <2>3. sent' = sent /\ closedOk' = closedOk /\ \A w : Clean(w)' <=> Clean(w)
    BY <1>3 DEF HeldOut, Clean
  <2>4. \A w : Head(todo) \notin Ops("close", w)
    BY <2>2 DEF Ops
  <2>5. EndKept
    BY <1>1, <1>2, <2>2, <2>3, <2>4 DEF EndKept, ShutKept, GoneKept, IdleKept
  <2> HIDE DEF steps
  <2>. QED  BY <1>1, <1>2, <2>1, <2>2, <2>5, PutsStep
<1>4. CASE WaitForWriting
  <2>1. Then(<<>>) /\ sent' = sent /\ closedOk' = closedOk /\ queue = <<>> /\ Head(todo).op = "wait"
    BY <1>4 DEF WaitForWriting, At, WriterIdle
  <2>2. \A w : (Clean(w)' <=> Clean(w)) /\ Head(todo) \notin Ops("close", w)
    BY <1>1, <2>1 DEF Clean, Ops
  <2>3. EndKept
    BY <1>1, <1>2, <2>1, <2>2 DEF EndKept, ShutKept, GoneKept, IdleKept
  <2>. QED  BY <1>1, <2>1, <2>3, PoppedStep
<1>5. CASE CloseMuxer
  <2>1. CASE result' # "running"
    BY <2>1 DEF LastInv
  <2>2. CASE result' = "running"
    <3>v. PICK v \in Views : v = Head(todo).view
      BY <1>1
    <3>1. /\ Then(<<>>)
          /\ \/ sent' = [sent EXCEPT ![v] = made[v]] /\ closedOk' = closedOk
             \/ sent' = sent /\ closedOk' = FALSE
      BY <1>5, <2>2, <3>v DEF CloseMuxer, Throw
    <3>2. sent \in [Views -> Nat]
      BY DEF TypeOK
    <3>3. ASSUME NEW w \in Views PROVE ShutKept(w) /\ GoneKept(w)
      <4>1. Head(todo) \in Ops("close", w) => w = v
        BY <3>v DEF Ops
      <4>2. sent'[w] = sent[w] \/ (sent'[w] = made[w])
        BY <3>1, <3>2
      <4>3. w = v => sent'[w] = made[w] \/ closedOk' = FALSE
        BY <3>1, <3>2
      <4>4. closedOk = FALSE => closedOk' = FALSE
        BY <3>1
      <4>5. closedOk \in BOOLEAN
        BY DEF TypeOK
      <4>. QED  BY <1>1, <1>2, <4>1, <4>2, <4>3, <4>4, <4>5 DEF ShutKept, GoneKept, Clean
    <3>4. IdleKept
      BY <1>1, <1>5 DEF IdleKept, Ops, CloseMuxer, At
    <3>. QED  BY <1>1, <3>1, <3>3, <3>4, PoppedStep DEF EndKept
  <2>. QED  BY <2>1, <2>2
<1>. QED  BY <1>3, <1>4, <1>5

(* What the writer and its destructor do keeps the end in its order.       *)
LEMMA LastSame ==
  ASSUME LastInv, UNCHANGED <<viewVars, partVars, holdVars, todo, endVars>>,
         queue = <<>> => queue' = <<>>
  PROVE  LastInv'
<1> SUFFICES ASSUME result = "running" PROVE LastInv'
  BY DEF LastInv
<1> USE DEF Rule
<1>1. Plan' = Plan /\ Puts' = Puts
  BY DEF Plan, Puts
<1>2. OneKind' /\ (~ending => \A k \in 1..Len(todo) : Early(todo[k])')
      /\ (ending => \A k \in 1..Len(todo) : Late(todo[k])')
  BY <1>1 DEF LastInv, OneKind, Early, Late
<1>3. ASSUME ending PROVE /\ \A v \in Views : ShutRule(v)' /\ GoneRule(v)'
                          /\ VerdictRule' /\ LiveRule' /\ OnceRule'
  <2>1. \A v : Clean(v)' <=> Clean(v)
    BY DEF Clean
  <2>2. \A v \in Views : ShutRule(v)' /\ GoneRule(v)'
    BY <1>1, <1>3, <2>1 DEF LastInv, ShutRule, GoneRule
  <2>3. VerdictRule' /\ LiveRule' /\ OnceRule'
    BY <1>1, <1>3 DEF LastInv, VerdictRule, LiveRule, OnceRule
  <2>. QED  BY <2>2, <2>3
<1>. QED  BY <1>2, <1>3 DEF LastInv

(* Which kinds the last steps are of.                                      *)
LEMMA LateKinds ==
  ASSUME NEW v \in Views, NEW op \in {"stamp", "rest", "heldOut", "wait", "close", "verdict"}
  PROVE  /\ Step(op, v) \in HeldOuts <=> op = "heldOut"
         /\ Step(op, v) \in Verdicts <=> op = "verdict"
         /\ Step(op, v) \in Live <=> op \in {"stamp", "rest"}
         /\ Step(op, v) \in Closing <=> op \in {"wait", "close", "verdict"}
         /\ \A w, o : Step(op, v) \in Ops(o, w) <=> o = op /\ w = v
         /\ Step(op, v) \in Steps
<1>1. Step(op, v) \in Steps /\ Step(op, v).op = op
  BY StepKinds DEF Step
<1>. QED  BY <1>1, StepKinds DEF HeldOuts, Verdicts, Live

(* The end is none of them.                                                *)
LEMMA EndKind ==
  /\ End \notin Steps /\ End \notin HeldOuts /\ End \notin Verdicts /\ End \notin Live
  /\ End \notin Closing /\ \A w, o : End \notin Ops(o, w)
<1>1. End \notin Steps
  BY DEF End, Steps
<1>. QED  BY <1>1 DEF HeldOuts, Verdicts, Live, Closing, Ops

(* The sources are at their end.                                           *)
LEMMA EndOfSourcesLast ==
  ASSUME TypeOK, EndOfSources
  PROVE  LastInv' /\ \E k \in 1..Len(todo') : todo'[k].op = "heldOut"
<1> USE DEF Rule
<1>1. \A D, E, N : \E q : EndOrder(q, D, E, N)
  BY EndChain
<1>2. "main" \in Views /\ (HasSub => "sub" \in Views)
  BY ViewsFact
<1>3. ending' = TRUE
  BY DEF EndOfSources
<1>4. PICK S \in SUBSET Steps :
        /\ todo' \in Seq(S)
        /\ \A s \in S : s.op # "finish" /\ s \notin Puts /\ s.op \in EndOps \cup {"stamp", "rest"}
  BY EndChain
<1>5. OneKind' /\ \A k \in 1..Len(todo') : Late(todo[k])'
  <2>1. \A k \in 1..Len(todo') : todo'[k] \in S
    BY <1>4, ElementOfSeq
  <2>2. Puts' = Puts
    BY DEF Puts
  <2>. QED  BY <1>4, <2>1, <2>2 DEF OneKind, Late
<1>6. ASSUME NEW D, NEW E, NEW N, End \notin N
      PROVE  Ordered(<<End>>, D, E, N) /\ ~Exposed(<<End>>, E, N)
  BY <1>6, EndRule
<1>7. ASSUME NEW w \in Views PROVE ShutRule(w)'
  <2> DEFINE E == Ops("rest", w)
             N == Ops("close", w) \cup Verdicts
  <2>1. PICK q : EndOrder(q, {}, E, N)
    BY <1>1
  <2>2. /\ \A op \in {"stamp", "rest", "heldOut", "wait"} :
             Step(op, "main") \notin N /\ (HasSub => Step(op, "sub") \notin N)
        /\ Step("close", "main") \in N <=> w = "main"
        /\ HasSub => (Step("close", "sub") \in N <=> w = "sub")
        /\ Step("rest", "main") \in E <=> w = "main"
        /\ HasSub => (Step("rest", "sub") \in E <=> w = "sub")
    BY <1>2, LateKinds
  <2>3. ~Exposed(<<End>>, E, N)
    BY <1>6, EndKind
  <2>4. w = "main" \/ (HasSub /\ w = "sub")
    BY ViewsFact DEF Views
  <2> HIDE DEF E, N
  <2>5. ~Exposed(Plan', E, N)
    BY <2>1, <2>2, <2>3, <2>4 DEF EndOrder, Behind
  <2>. QED  BY <2>5 DEF ShutRule, E, N
<1>8. ASSUME NEW w \in Views PROVE GoneRule(w)'
  <2> DEFINE E == Ops("close", w)
             N == Verdicts
  <2>1. PICK q : EndOrder(q, {}, E, N)
    BY <1>1
  <2>2. /\ \A op \in {"stamp", "rest", "heldOut", "wait", "close"} :
             Step(op, "main") \notin N /\ (HasSub => Step(op, "sub") \notin N)
        /\ Step("close", "main") \in E <=> w = "main"
        /\ HasSub => (Step("close", "sub") \in E <=> w = "sub")
    BY <1>2, LateKinds
  <2>3. ~Exposed(<<End>>, E, N)
    BY <1>6, EndKind
  <2>4. w = "main" \/ (HasSub /\ w = "sub")
    BY ViewsFact DEF Views
  <2> HIDE DEF E, N
  <2>5. ~Exposed(Plan', E, N)
    BY <2>1, <2>2, <2>3, <2>4 DEF EndOrder, Behind
  <2>. QED  BY <2>5 DEF GoneRule, E, N
<1>9. VerdictRule'
  <2> DEFINE D == Steps \ Closing
             E == Ops("wait", "main")
             N == Verdicts
  <2>1. PICK q : EndOrder(q, D, E, N)
    BY <1>1
  <2>2. /\ \A op \in {"stamp", "rest", "heldOut", "wait", "close"} :
             Step(op, "main") \notin N /\ (HasSub => Step(op, "sub") \notin N)
        /\ Step("wait", "main") \in E
        /\ Step("wait", "main") \notin D /\ Step("verdict", "main") \notin D
    BY <1>2, LateKinds
  <2>3. Ordered(<<End>>, D, E, N) /\ ~Exposed(<<End>>, E, N)
    BY <1>6, EndKind
  <2> HIDE DEF D, E, N
  <2>4. Ordered(Plan', D, E, N) /\ ~Exposed(Plan', E, N)
    BY <2>1, <2>2, <2>3 DEF EndOrder, Behind
  <2>. QED  BY <2>4 DEF VerdictRule, D, E, N
<1>10. LiveRule'
  <2> DEFINE D == Live
             E == HeldOuts
             N == {End}
  <2>1. PICK q : EndOrder(q, D, E, N)
    BY <1>1
  <2>2. /\ \A op \in {"stamp", "rest", "heldOut", "wait", "close", "verdict"} :
             Step(op, "main") \notin N /\ (HasSub => Step(op, "sub") \notin N)
        /\ Step("heldOut", "main") \in E
        /\ \A op \in {"heldOut", "wait", "close", "verdict"} :
             Step(op, "main") \notin D /\ (HasSub => Step(op, "sub") \notin D)
    BY <1>2, LateKinds, EndKind
  <2>3. Ordered(<<End>>, D, E, N)
    BY EndRule
  <2> HIDE DEF D, E, N
  <2>4. Ordered(Plan', D, E, N)
    BY <2>1, <2>2, <2>3 DEF EndOrder, Behind
  <2>. QED  BY <2>4 DEF LiveRule, D, E, N
<1>11. OnceRule' /\ Exposed(Plan', {}, HeldOuts)
  <2> DEFINE D == HeldOuts \cup Closing
             E == {}
             N == HeldOuts
  <2>1. PICK q : EndOrder(q, D, E, N)
    BY <1>1
  <2>2. /\ \A op \in {"stamp", "rest", "wait", "close", "verdict"} :
             Step(op, "main") \notin N /\ (HasSub => Step(op, "sub") \notin N)
        /\ \A op \in {"stamp", "rest"} :
             Step(op, "main") \notin D /\ (HasSub => Step(op, "sub") \notin D)
        /\ Step("heldOut", "main") \in N /\ \A s : s \notin E
    BY <1>2, LateKinds
  <2>3. Ordered(<<End>>, D, E, N) /\ ~Exposed(<<End>>, E, N)
    BY <1>6, EndKind
  <2> HIDE DEF D, E, N
  <2>4. Ordered(q[5], D, E, N) /\ ~Exposed(q[5], E, N)
    BY <2>1, <2>2, <2>3 DEF EndOrder, Behind
  <2>5. Ordered(q[6], D, E, N) /\ Exposed(q[6], E, N)
    BY <2>1, <2>2, <2>4 DEF EndOrder, Behind
  <2>6. Ordered(q[8], D, E, N) /\ Exposed(q[8], E, N)
    BY <2>1, <2>2, <2>5 DEF EndOrder, Behind
  <2>7. Ordered(Plan', D, E, N) /\ Exposed(Plan', E, N)
    BY <2>1, <2>2, <2>6 DEF EndOrder, Behind
  <2>. QED  BY <2>7 DEF OnceRule, D, E, N
<1>12. \E k \in 1..Len(todo') : todo'[k].op = "heldOut"
  <2>1. PICK k \in 1..Len(Plan') : Plan'[k] \in HeldOuts
    BY <1>11 DEF Exposed
  <2>2. todo' \in Seq(S) /\ Len(todo') \in Nat
    BY <1>4, LenProperties
  <2>3. /\ Len(Plan') = Len(todo') + 1 /\ Plan'[Len(todo') + 1] = End
        /\ \A i \in 1..Len(todo') : Plan'[i] = todo'[i]
    BY <2>2, AppendProperties DEF Plan
  <2>4. k \in 1..Len(todo')
    BY <2>1, <2>2, <2>3, EndKind
  <2>. QED  BY <2>1, <2>3, <2>4 DEF HeldOuts
<1>13. LastInv'
  BY <1>3, <1>5, <1>7, <1>8, <1>9, <1>10, <1>11 DEF LastInv
<1>. QED  BY <1>12, <1>13

(* A packet is handed to a muxer.                                          *)
LEMMA MuxPacketLast ==
  ASSUME TypeOK, NEW v \in Views, MuxPacket(v)
  PROVE  LastInv' /\ \A k \in 1..Len(todo') : todo'[k] \notin Puts
<1> DEFINE S == {Step("packet", v), Step("stamp", v), Step("switch", v)}
<1>1. /\ <<Step("packet", v)>> \in Seq(S) /\ <<Step("stamp", v)>> \in Seq(S) /\ <<>> \in Seq(S)
      /\ <<Step("switch", v), Step("packet", v)>> \in Seq(S)
  OBVIOUS
<1>2. Tables(v) \in Seq(S)
  BY <1>1, ConcatProperties DEF Tables, IfAny
<1>3. IfAny(given[v] = 0, Tables(v)) \in Seq(S)
  BY <1>1, <1>2 DEF IfAny
<1>4. \A s \in S : s \notin Puts
  BY StepKinds
<1>5. \A s \in S : Early(s)
  BY DEF Early, EndOps, Step
<1> HIDE DEF S
<1>6. todo' \in Seq(S)
  BY <1>1, <1>3, ConcatProperties DEF MuxPacket
<1>7. \A k \in 1..Len(todo') : todo'[k] \notin Puts /\ Early(todo'[k])
  BY <1>4, <1>5, <1>6, ElementOfSeq
<1>8. \A k \in 1..Len(todo') : Early(todo[k])'
  BY <1>7 DEF Early
<1>9. Puts' = Puts /\ ~ending'
  BY DEF Puts, MuxPacket
<1>10. OneKind'
  BY <1>7, <1>9 DEF OneKind
<1>. QED  BY <1>7, <1>8, <1>9, <1>10 DEF LastInv

(* At the start nothing is to be done.                                     *)
LEMMA InitLast == Init => LastInv
<1> SUFFICES ASSUME Init PROVE LastInv
  OBVIOUS
<1>1. Len(todo) = 0 /\ ~ending /\ \A k \in 1..0 : FALSE
  BY DEF Init
<1>. QED  BY <1>1 DEF LastInv, OneKind

(* A job that is over is not begun again.                                  *)
LEMMA JobStaysOver ==
  ASSUME WriterInv, result # "running", [Next]_vars
  PROVE  result' = result
BY DEF Next, vars, WriterInv, JobOver, MuxPacket, Stop, EndOfSources, MuxStep, At,
   SwitchBlock, AddPacket, Stamp, FlushRest, PutBlock, FinishFileBlock, MuxBlockFinished,
   FlushTSBuffer, GotoNextFile, HeldOut, WaitForWriting, CloseMuxer, Verdict, WriterThread,
   WriterTest, WriterPeek, WriterExecute, WriterPop, TearDown, Terminate, PushSentinel,
   Join, Drain, DestroyMuxers, AllDone

(* Every step keeps the end in its order.                                  *)
LEMMA NextLast ==
  ASSUME TypeOK, WriterInv, PlanInv, PlaceInv, LastInv, [Next]_vars
  PROVE  LastInv'
<1>1. CASE result # "running"
  BY <1>1, JobStaysOver DEF LastInv
<1>2. CASE result = "running"
  <2>1. ASSUME NEW v \in Views, MuxPacket(v) PROVE LastInv'
    BY <2>1, MuxPacketLast
  <2>2. CASE Stop \/ Verdict
    <3>1. result' # "running"
      BY <2>2 DEF Stop, Verdict
    <3>. QED  BY <3>1 DEF LastInv
  <2>3. CASE EndOfSources
    BY <2>3, EndOfSourcesLast
  <2>4. CASE MuxStep
    BY <1>2, <2>2, <2>4, SwitchLast, PacketsLast, PutBlockLast, PartsLast, ClosingLast DEF MuxStep
  <2>5. CASE WriterThread
    <3>1. UNCHANGED muxVars /\ (queue' = queue \/ queue # <<>>)
      <4>1. WriterPop => queue # <<>>
        BY DEF WriterPop, WriterInv, IdleMeansIdle
      <4>. QED  BY <2>5, <4>1 DEF WriterThread, WriterTest, WriterPeek, WriterExecute, WriterPop
    <3>. QED  BY <3>1, LastSame
  <2>6. CASE TearDown
    <3>1. FALSE
      BY <1>2, <2>6 DEF WriterInv, TearDownAfterJob, TearDown, Terminate, PushSentinel, Join, Drain,
         DestroyMuxers
    <3>. QED  BY <3>1
  <2>7. CASE UNCHANGED vars
    BY <2>7, LastSame DEF vars
  <2>. QED  BY <2>1, <2>2, <2>3, <2>4, <2>5, <2>6, <2>7 DEF Next, AllDone
<1>. QED  BY <1>1, <1>2

-----------------------------------------------------------------------------
(* Sequences of blocks *)

(* What a sequence has of one longer by an element.                        *)
LEMMA ElemsAppend ==
  ASSUME NEW S, NEW s \in Seq(S), NEW x \in S
  PROVE  /\ Elems(Append(s, x)) = Elems(s) \cup {x}
         /\ Rising(s) /\ (\A y \in Elems(s) : Before(y, x)) => Rising(Append(s, x))
<1> DEFINE t == Append(s, x)
           n == Len(s)
<1>1. /\ n \in Nat /\ Len(t) = n + 1 /\ t[n + 1] = x
      /\ \A i \in 1..n : t[i] = s[i]
  BY LenProperties, AppendProperties
<1> HIDE DEF t, n
<1>2. Elems(t) = Elems(s) \cup {x}
  <2>1. \A i \in 1..n + 1 : i \in 1..n \/ i = n + 1
    BY <1>1
  <2>2. \A i \in 1..n : i \in 1..n + 1
    BY <1>1
  <2>3. n + 1 \in 1..n + 1
    BY <1>1
  <2>. QED  BY <1>1, <2>1, <2>2, <2>3 DEF Elems, n
<1>3. ASSUME Rising(s), \A y \in Elems(s) : Before(y, x) PROVE Rising(t)
  <2> SUFFICES ASSUME NEW i \in 1..n + 1, NEW k \in 1..n + 1, i < k PROVE Before(t[i], t[k])
    BY <1>1 DEF Rising
  <2>1. i \in 1..n /\ t[i] = s[i] /\ s[i] \in Elems(s)
    BY <1>1 DEF Elems, n
  <2>2. CASE k = n + 1
    BY <1>1, <1>3, <2>1, <2>2
  <2>3. CASE k # n + 1
    <3>1. k \in 1..n /\ t[k] = s[k]
      BY <1>1, <2>3
    <3>. QED  BY <1>3, <2>1, <3>1 DEF Rising, n
  <2>. QED  BY <2>2, <2>3
<1>. QED  BY <1>2, <1>3 DEF t

(* What a sequence has of its head and its tail.                           *)
LEMMA ElemsTail ==
  ASSUME NEW S, NEW s \in Seq(S), s # <<>>
  PROVE  /\ Elems(s) = {Head(s)} \cup Elems(Tail(s)) /\ Head(s) \in S /\ Tail(s) \in Seq(S)
         /\ Rising(s) => Rising(Tail(s)) /\ \A y \in Elems(Tail(s)) : Before(Head(s), y)
<1> DEFINE t == Tail(s)
           n == Len(s)
<1>1. /\ n \in Nat /\ n > 0 /\ Len(t) = n - 1 /\ s[1] = Head(s) /\ Head(s) \in S /\ t \in Seq(S)
      /\ \A i \in 1..n - 1 : t[i] = s[i + 1]
  <2>1. n \in Nat /\ n # 0
    BY LenProperties, EmptySeq
  <2>2. Head(s) = s[1] /\ Head(s) \in S
    BY <2>1
  <2>. QED  BY <2>1, <2>2, HeadTailProperties
<1> HIDE DEF t, n
<1>2. Elems(s) = {Head(s)} \cup Elems(t)
  <2>1. \A i \in 1..n : i = 1 \/ (i - 1 \in 1..n - 1 /\ s[i] = t[i - 1])
    BY <1>1
  <2>2. \A i \in 1..n - 1 : i + 1 \in 1..n
    BY <1>1
  <2>3. 1 \in 1..n
    BY <1>1
  <2>. QED  BY <1>1, <2>1, <2>2, <2>3 DEF Elems, n
<1>3. ASSUME Rising(s) PROVE Rising(t) /\ \A y \in Elems(t) : Before(Head(s), y)
  <2>1. \A i \in 1..n - 1 : i + 1 \in 1..n /\ 1 \in 1..n /\ 1 < i + 1
    BY <1>1
  <2>2. \A i, k \in 1..n - 1 : i < k => i + 1 < k + 1
    BY <1>1
  <2>. QED  BY <1>1, <1>3, <2>1, <2>2 DEF Rising, Elems, n
<1>. QED  BY <1>1, <1>2, <1>3 DEF t

(* An empty sequence has no element.                                       *)
LEMMA ElemsEmpty == Elems(<<>>) = {} /\ Rising(<<>>)
<1>1. Len(<<>>) = 0 /\ \A i \in 1..0 : FALSE
  OBVIOUS
<1>. QED  BY <1>1 DEF Elems, Rising

(* An element is of the kind of its sequence.                              *)
LEMMA ElemsType ==
  ASSUME NEW S, NEW s \in Seq(S)
  PROVE  Elems(s) \subseteq S
BY ElementOfSeq DEF Elems

-----------------------------------------------------------------------------
(* What the blocks to put out are, after a step *)

(* The blocks of the steps put in and those of the steps left.             *)
LEMMA PutBlocksThen ==
  ASSUME TypeOK, todo # <<>>, NEW steps \in Seq(Steps), Then(steps), NEW op
  PROVE  /\ PutBlocks(op)' = {steps[k].blk : k \in {j \in 1..Len(steps) : steps[j].op = op}}
                             \cup {todo[k].blk : k \in {j \in 2..Len(todo) : todo[j].op = op}}
         /\ PutBlocks(op) = {todo[k].blk : k \in {j \in 2..Len(todo) : todo[j].op = op}}
                            \cup (IF Head(todo).op = op THEN {Head(todo).blk} ELSE {})
<1> DEFINE n == Len(steps)
           m == Len(todo)
           m1 == Len(todo')
<1>1. /\ n \in Nat /\ m \in Nat /\ m1 \in Nat /\ m > 0
      /\ 1 \in 1..m /\ todo[1] = Head(todo)
      /\ \A i \in 2..m : n + i - 1 \in 1..m1 /\ todo'[n + i - 1] = todo[i]
      /\ \A k \in 1..m1 : \/ k \in 1..n /\ todo'[k] = steps[k]
                          \/ k - n + 1 \in 2..m /\ todo'[k] = todo[k - n + 1]
      /\ \A k \in 1..n : k \in 1..m1 /\ todo'[k] = steps[k]
  <2>1. n \in Nat /\ m \in Nat /\ m1 \in Nat
    BY StepsKept
  <2>2. 1 \in 1..m /\ todo[1] = Head(todo)
    BY HeadIsFirst
  <2>3. \A i \in 2..m : i \in 1..m /\ i # 1
    BY <2>1
  <2>. QED  BY <2>1, <2>2, <2>3, StepsKept
<1> HIDE DEF n, m, m1
<1>2. PutBlocks(op)' = {steps[k].blk : k \in {j \in 1..n : steps[j].op = op}}
                       \cup {todo[k].blk : k \in {j \in 2..m : todo[j].op = op}}
  <2>1. PutBlocks(op)' = {todo'[k].blk : k \in {j \in 1..m1 : todo'[j].op = op}}
    BY DEF PutBlocks, m1
  <2>2. ASSUME NEW k \in 1..m1, todo'[k].op = op
        PROVE  \/ \E i \in 1..n : steps[i].op = op /\ todo'[k].blk = steps[i].blk
               \/ \E i \in 2..m : todo[i].op = op /\ todo'[k].blk = todo[i].blk
    BY <1>1, <2>2
  <2>3. ASSUME NEW i \in 1..n, steps[i].op = op
        PROVE  \E k \in 1..m1 : todo'[k].op = op /\ todo'[k].blk = steps[i].blk
    BY <1>1, <2>3
  <2>4. ASSUME NEW i \in 2..m, todo[i].op = op
        PROVE  \E k \in 1..m1 : todo'[k].op = op /\ todo'[k].blk = todo[i].blk
    BY <1>1, <2>4
  <2>. QED  BY <2>1, <2>2, <2>3, <2>4
<1>3. PutBlocks(op) = {todo[k].blk : k \in {j \in 2..m : todo[j].op = op}}
                      \cup (IF Head(todo).op = op THEN {Head(todo).blk} ELSE {})
  <2>1. \A k \in 1..m : k = 1 \/ k \in 2..m
    BY <1>1
  <2>2. \A k \in 2..m : k \in 1..m
    BY <1>1
  <2>. QED  BY <1>1, <2>1, <2>2 DEF PutBlocks, m
<1>. QED  BY <1>2, <1>3 DEF n, m

(* Only steps that put a block out have the kinds that do.                 *)
LEMMA PutKinds ==
  ASSUME TypeOK
  PROVE  /\ \A k \in 1..Len(todo) :
              /\ todo[k] \in Steps /\ (todo[k] \in Puts <=> todo[k].op \in {"put", "queue"})
              /\ todo[k] \in Puts => todo[k].blk \in Blocks
         /\ todo # <<>> => 1 \in 1..Len(todo) /\ todo[1] = Head(todo)
         /\ Len(todo) \in Nat /\ Puts' = Puts
<1>1. todo \in Seq(Steps) /\ Len(todo) \in Nat
  BY LenProperties DEF TypeOK
<1>2. \A k \in 1..Len(todo) : todo[k] \in Steps
  BY <1>1, ElementOfSeq
<1>3. \A s \in Steps : s \in Puts => s.blk \in Blocks
  BY DEF Puts, Steps
<1>4. \A s \in Steps : s \in Puts <=> s.op \in {"put", "queue"}
  BY DEF Puts
<1>5. Puts' = Puts
  BY DEF Puts
<1>. QED  BY <1>1, <1>2, <1>3, <1>4, <1>5, HeadIsFirst

(* No block is to be put out, before the step or after it.                 *)
LEMMA NoPuts ==
  ASSUME TypeOK, PlanInv, result = "running", todo # <<>>, Head(todo) \notin Puts,
         NEW steps \in Seq(Steps), Then(steps), \A k \in 1..Len(steps) : steps[k] \notin Puts
  PROVE  /\ PutBlocks("put") = {} /\ PutBlocks("queue") = {}
         /\ PutBlocks("put")' = {} /\ PutBlocks("queue")' = {} /\ PutsRise'
<1>1. \A k \in 1..Len(todo) : todo[k] \notin Puts
  BY NoPutsLeft
<1>2. \A k \in 1..Len(todo) : todo[k].op \notin {"put", "queue"}
  BY <1>1, PutKinds
<1>3. \A k \in 1..Len(steps) : steps[k].op \notin {"put", "queue"}
  <2>1. \A k \in 1..Len(steps) : steps[k] \in Steps
    BY ElementOfSeq
  <2>. QED  BY <2>1 DEF Puts
<1>4. \A k \in 1..Len(todo') : todo'[k].op \notin {"put", "queue"} /\ todo'[k] \notin Puts
  BY <1>1, <1>2, <1>3, StepsOfTodo
<1>5. PutBlocks("put") = {} /\ PutBlocks("queue") = {}
  BY <1>2 DEF PutBlocks
<1>6. PutBlocks("put")' = {} /\ PutBlocks("queue")' = {}
  BY <1>4 DEF PutBlocks
<1>. QED  BY <1>4, <1>5, <1>6, PutKinds DEF PutsRise

(* The first block to be put out is.                                       *)
LEMMA PutTaken ==
  ASSUME TypeOK, todo # <<>>, Head(todo) \in Puts, Then(<<>>), PutsRise,
         NEW b, b = Head(todo).blk, NEW o, o = Head(todo).op
  PROVE  /\ PutBlocks(o) = PutBlocks(o)' \cup {b}
         /\ \A op \in {"put", "queue"} \ {o} : PutBlocks(op)' = PutBlocks(op)
         /\ \A op \in {"put", "queue"} : \A y \in PutBlocks(op)' : Before(b, y)
         /\ PutsRise' /\ b \in Blocks
<1>1. <<>> \in Seq(Steps) /\ Len(<<>>) = 0 /\ \A k \in 1..0 : FALSE
  BY EmptySeq
<1>2. ASSUME NEW op
      PROVE  /\ PutBlocks(op)' = {todo[k].blk : k \in {j \in 2..Len(todo) : todo[j].op = op}}
             /\ PutBlocks(op) = PutBlocks(op)' \cup (IF Head(todo).op = op THEN {b} ELSE {})
  <2>1. {<<>>[k].blk : k \in {j \in 1..Len(<<>>) : <<>>[j].op = op}} = {}
    BY <1>1
  <2>2. /\ PutBlocks(op)' = {<<>>[k].blk : k \in {j \in 1..Len(<<>>) : <<>>[j].op = op}}
                             \cup {todo[k].blk : k \in {j \in 2..Len(todo) : todo[j].op = op}}
        /\ PutBlocks(op) = {todo[k].blk : k \in {j \in 2..Len(todo) : todo[j].op = op}}
                            \cup (IF Head(todo).op = op THEN {Head(todo).blk} ELSE {})
    BY <1>1, PutBlocksThen
  <2>. QED  BY <2>1, <2>2
<1>3. ASSUME NEW op \in {"put", "queue"}, NEW y \in PutBlocks(op)' PROVE Before(b, y)
  <2>1. PICK k \in 2..Len(todo) : todo[k].op = op /\ y = todo[k].blk
    BY <1>2
  <2>2. k \in 1..Len(todo) /\ 1 \in 1..Len(todo) /\ 1 < k /\ todo[k] \in Puts /\ todo[1] = Head(todo)
    BY <2>1, PutKinds
  <2>3. Before(todo[1].blk, todo[k].blk)
    BY <2>2 DEF PutsRise
  <2>. QED  BY <2>1, <2>2, <2>3
<1>4. PutsRise'
  <2>1. /\ \A k \in 1..Len(todo') : k + 1 \in 1..Len(todo) /\ todo'[k] = todo[k + 1]
        /\ Len(todo') \in Nat
    <3>1. \A k \in 1..Len(todo') :
            \/ k \in 1..Len(<<>>) /\ todo'[k] = <<>>[k]
            \/ /\ k - Len(<<>>) + 1 \in 2..Len(todo)
               /\ todo'[k] = todo[k - Len(<<>>) + 1]
      BY <1>1, StepsKept
    <3>2. Len(todo') \in Nat /\ Len(todo) \in Nat
      BY <1>1, StepsKept
    <3>3. \A k \in 1..Len(todo') : k - 0 + 1 = k + 1
      BY <3>2
    <3>. QED  BY <1>1, <3>1, <3>2, <3>3
  <2>2. \A i, k \in 1..Len(todo') : i < k => i + 1 < k + 1
    BY <2>1
  <2>. QED  BY <2>1, <2>2, PutKinds DEF PutsRise
<1>5. b \in Blocks
  BY PutKinds
<1>. QED  BY <1>2, <1>3, <1>4, <1>5

(* Blocks are to be put out now.                                           *)
LEMMA PutsMade ==
  ASSUME TypeOK, PlanInv, result = "running", todo # <<>>, Head(todo) \notin Puts,
         NEW steps \in Seq(Steps), Then(steps), NEW blocks \in Seq(Blocks),
         Len(steps) = Len(blocks), NEW o \in {"put", "queue"},
         \A k \in 1..Len(steps) : steps[k] \in Puts /\ steps[k].op = o /\ steps[k].blk = blocks[k]
  PROVE  /\ PutBlocks("put") = {} /\ PutBlocks("queue") = {}
         /\ PutBlocks(o)' = Elems(blocks)
         /\ \A op \in {"put", "queue"} \ {o} : PutBlocks(op)' = {}
         /\ Rising(blocks) => PutsRise'
<1>1. \A k \in 1..Len(todo) : todo[k] \notin Puts /\ todo[k].op \notin {"put", "queue"}
  BY NoPutsLeft, PutKinds
<1>2. Len(todo) \in Nat /\ Len(steps) \in Nat /\ Len(todo') \in Nat
  BY StepsKept
<1>3. \A op \in {"put", "queue"} : {todo[k].blk : k \in {j \in 2..Len(todo) : todo[j].op = op}} = {}
  <2>1. \A j \in 2..Len(todo) : j \in 1..Len(todo)
    BY <1>2
  <2>. QED  BY <1>1, <2>1
<1>4. ASSUME NEW op \in {"put", "queue"}
      PROVE  PutBlocks(op)' = {steps[k].blk : k \in {j \in 1..Len(steps) : steps[j].op = op}}
  <2>1. PutBlocks(op)' = {steps[k].blk : k \in {j \in 1..Len(steps) : steps[j].op = op}}
                         \cup {todo[k].blk : k \in {j \in 2..Len(todo) : todo[j].op = op}}
    BY PutBlocksThen
  <2>. QED  BY <1>3, <2>1
<1>5. PutBlocks(o)' = Elems(blocks)
  BY <1>4 DEF Elems
<1>6. \A op \in {"put", "queue"} \ {o} : PutBlocks(op)' = {}
  BY <1>4
<1>7. PutBlocks("put") = {} /\ PutBlocks("queue") = {}
  BY <1>1 DEF PutBlocks
<1>8. ASSUME Rising(blocks) PROVE PutsRise'
  <2>1. \A k \in 1..Len(todo') : todo'[k] \in Puts => k \in 1..Len(steps) /\ todo'[k] = steps[k]
    BY <1>1, StepsOfTodo
  <2>. QED  BY <1>8, <2>1, PutKinds DEF PutsRise, Rising
<1>. QED  BY <1>5, <1>6, <1>7, <1>8

(* Whether the blocks held back are still to be queued.                    *)
LEMMA HeldLiveKept ==
  ASSUME TypeOK, todo # <<>>, NEW steps \in Seq(Steps), Then(steps), ending' = ending,
         Head(todo).op # "heldOut", \A k \in 1..Len(steps) : steps[k].op # "heldOut"
  PROVE  HeldLive' <=> HeldLive
<1>1. todo[1] = Head(todo)
  BY HeadIsFirst
<1>2. \A k \in 1..Len(todo') : todo'[k].op = "heldOut" =>
        \E i \in 1..Len(todo) : todo[i].op = "heldOut"
  BY StepsOfTodo
<1>3. \A i \in 1..Len(todo) : todo[i].op = "heldOut" =>
        \E k \in 1..Len(todo') : todo'[k].op = "heldOut"
  <2>1. \A i \in 1..Len(todo) : i = 1 \/
          (Len(steps) + i - 1 \in 1..Len(todo') /\ todo'[Len(steps) + i - 1] = todo[i])
    BY StepsKept
  <2>. QED  BY <1>1, <2>1
<1>. QED  BY <1>2, <1>3 DEF HeldLive

-----------------------------------------------------------------------------
(* How the line changes *)

(* The stages of the line.                                                 *)
LEMMA LineIs ==
  /\ Line[1] = Landed /\ Line[2] = Waiting /\ Line[3] = PutBlocks("queue")
  /\ Line[4] = Holding /\ Line[5] = PutBlocks("put") /\ Line[6] = Delayed
  /\ Line'[1] = Landed' /\ Line'[2] = Waiting' /\ Line'[3] = PutBlocks("queue")'
  /\ Line'[4] = Holding' /\ Line'[5] = PutBlocks("put")' /\ Line'[6] = Delayed'
BY DEF Line

(* Everything in the line is a block.                                      *)
LEMMA LineType ==
  ASSUME TypeOK
  PROVE  \A k \in 1..6 : Line[k] \subseteq Blocks
<1>1. Landed \subseteq Blocks
  BY ElemsType DEF Landed, TypeOK
<1>2. Waiting \subseteq Blocks
  <2>1. queue \in Seq(Blocks \cup {Sentinel}) /\ wpc \in {"test", "peek", "exec", "pop", "done"}
    BY DEF TypeOK
  <2>2. CASE queue = <<>>
    <3>1. Len(queue) = 0 /\ Tail(queue) = <<>> /\ \A i \in 1..0 : FALSE
      BY <2>2
    <3>. QED  BY <2>2, <3>1 DEF Waiting, WaitLine, Elems
  <2>3. CASE queue # <<>>
    <3>1. WaitLine \in Seq(Blocks \cup {Sentinel})
      BY <2>1, <2>3, ElemsTail DEF WaitLine
    <3>. QED  BY <3>1, ElemsType DEF Waiting
  <2>. QED  BY <2>2, <2>3
<1>3. \A op \in {"put", "queue"} : PutBlocks(op) \subseteq Blocks
  BY PutKinds DEF PutBlocks
<1>4. Holding \subseteq Blocks
  BY ElemsType DEF Holding, TypeOK
<1>5. Delayed \subseteq Blocks
  <2>1. \A v \in Views : Elems(delayBlk[v]) \subseteq Blocks
    BY ElemsType DEF TypeOK
  <2>. QED  BY <2>1 DEF Delayed
<1>6. \A k \in 1..6 : k = 1 \/ k = 2 \/ k = 3 \/ k = 4 \/ k = 5 \/ k = 6
  OBVIOUS
<1>. QED  BY <1>1, <1>2, <1>3, <1>4, <1>5, <1>6, LineIs

\* A failure is not forgotten
Remembered == failed \/ result = "failed" => failed' \/ result' = "failed"

(* Blocks go on from stage i to stage j, past stages without any of theirs. *)
LEMMA LineMove ==
  ASSUME TypeOK, TypeOK', LineInv, EachRises', UNCHANGED <<sent, firstOf>>, Remembered,
         \A v \in Views : stamped[v] <= stamped'[v],
         NEW i \in 1..6, NEW j \in 1..6, j < i, NEW X,
         Line'[j] = Line[j] \cup X, Line[i] = Line'[i] \cup X,
         \A k \in 1..6 : k # i /\ k # j => Line'[k] = Line[k],
         Below(X, Line'[i]), \A k \in 1..6 : j < k /\ k < i => Below(X, Line[k]),
         i = 6 /\ M2ts => \A x \in X : x.last <= stamped'[x.view]
  PROVE  LineInv'
<1> DEFINE A == Line
           B == Line'
<1>0. /\ \A k \in 1..6 : A[k] \subseteq Blocks /\ \A b \in A[k] : Spot(b)
      /\ InLine(A) /\ InTime(A) /\ FirstRises
      /\ ~failed /\ result # "failed" => Covered(A)
      /\ B[j] = A[j] \cup X /\ A[i] = B[i] \cup X
      /\ \A k \in 1..6 : k # i /\ k # j => B[k] = A[k]
      /\ Below(X, B[i]) /\ \A k \in 1..6 : j < k /\ k < i => Below(X, A[k])
  BY LineType DEF LineInv, Spots
<1>t. /\ stamped \in [Views -> Nat] /\ stamped' \in [Views -> Nat]
  BY DEF TypeOK
<1> HIDE DEF A, B
<1>1. InLine(B)
  <2> SUFFICES ASSUME NEW m \in 1..6, NEW k \in 1..6, m < k PROVE Below(B[m], B[k])
    BY DEF InLine
  <2>1. \A p, q \in 1..6 : p < q => Below(A[p], A[q])
    BY <1>0 DEF InLine
  <2>2. \A p \in 1..6 : p # j => B[p] \subseteq A[p]
    BY <1>0
  <2>3. CASE m # j /\ k # j
    BY <2>1, <2>2, <2>3 DEF Below
  <2>4. CASE k = j
    <3>1. Below(A[m], A[j]) /\ Below(A[m], A[i])
      BY <2>1, <2>4
    <3>. QED  BY <1>0, <2>2, <2>4, <3>1 DEF Below
  <2>5. CASE m = j
    <3>1. Below(A[j], A[k])
      BY <2>1, <2>5
    <3>2. Below(X, B[k])
      <4>1. CASE k = i
        BY <1>0, <4>1
      <4>2. CASE k < i
        BY <1>0, <2>5, <4>2
      <4>3. CASE k > i
        <5>1. Below(A[i], A[k])
          BY <2>1, <4>3
        <5>2. X \subseteq A[i] /\ k # i /\ k # j
          BY <1>0, <2>5, <4>3
        <5>3. B[k] = A[k]
          BY <1>0, <5>2
        <5>. QED  BY <5>1, <5>2, <5>3 DEF Below
      <4>. QED  BY <4>1, <4>2, <4>3
    <3>. QED  BY <1>0, <2>2, <2>5, <3>1, <3>2 DEF Below
  <2>. QED  BY <2>3, <2>4, <2>5
<1>2. \A k \in 1..6 : \A b \in B[k] : \E m \in 1..6 : b \in A[m] /\ (k <= 5 => m <= 5 \/ b \in X)
  BY <1>0
<1>3. \A k \in 1..6 : \A b \in A[k] : \E m \in 1..6 : b \in B[m]
  BY <1>0
<1>4. \A k \in 1..6 : \A b \in B[k] : Spot(b)'
  <2>1. \A b : Spot(b)' <=> Spot(b)
    BY DEF Spot, Part
  <2>. QED  BY <1>0, <1>2, <2>1
<1>5. M2ts => \A k \in 1..5 : \A b \in B[k] : b.last <= stamped'[b.view]
  <2> SUFFICES ASSUME M2ts, NEW k \in 1..5, NEW b \in B[k] PROVE b.last <= stamped'[b.view]
    OBVIOUS
  <2>1. PICK m \in 1..6 : b \in A[m] /\ (m <= 5 \/ b \in X)
    BY <1>2
  <2>2. b.view \in Views /\ b.last \in Nat
    BY <1>0, <2>1 DEF Blocks
  <2>3. CASE m <= 5
    <3>1. b.last <= stamped[b.view]
      BY <1>0, <2>1, <2>3 DEF InTime
    <3>. QED  BY <1>t, <2>2, <3>1
  <2>4. CASE b \in X
    <3>1. CASE i = 6
      BY <2>4, <3>1
    <3>2. CASE i # 6
      <4>1. b.last <= stamped[b.view]
        BY <1>0, <2>4, <3>2 DEF InTime
      <4>. QED  BY <1>t, <2>2, <4>1
    <3>. QED  BY <3>1, <3>2
  <2>. QED  BY <2>1, <2>3, <2>4
<1>6. FirstRises'
  BY <1>0 DEF FirstRises, Part
<1>7. ~failed' /\ result' # "failed" =>
        \A v \in Views : \A n \in 1..sent'[v] : \E k \in 1..6 : \E b \in B[k] : Covers(b, v, n)
  <2> SUFFICES ASSUME ~failed', result' # "failed", NEW v \in Views, NEW n \in 1..sent'[v]
               PROVE  \E k \in 1..6 : \E b \in B[k] : Covers(b, v, n)
    OBVIOUS
  <2>1. \E k \in 1..6 : \E b \in A[k] : Covers(b, v, n)
    BY <1>0 DEF Covered, Remembered
  <2>. QED  BY <1>3, <2>1
<1>. QED  BY <1>1, <1>4, <1>5, <1>6, <1>7 DEF LineInv, Spots, InTime, Covered, B

(* The line is as it was.                                                  *)
LEMMA LineSame ==
  ASSUME TypeOK, TypeOK', LineInv, EachRises', UNCHANGED <<sent, firstOf, stamped>>, Remembered,
         \A k \in 1..6 : Line'[k] = Line[k]
  PROVE  LineInv'
<1>1. \A v \in Views : stamped[v] <= stamped'[v]
  BY DEF TypeOK
<1>2. Below({}, Line'[2]) /\ \A k \in 1..6 : Below({}, Line[k])
  BY DEF Below
<1>3. Line'[1] = Line[1] \cup {} /\ Line[2] = Line'[2] \cup {} /\ 2 \in 1..6 /\ 1 \in 1..6
  OBVIOUS
<1>. QED  BY <1>1, <1>2, <1>3, LineMove

(* Blocks are given up when a write has failed.                            *)
LEMMA LineLess ==
  ASSUME TypeOK, LineInv, EachRises', UNCHANGED <<sent, firstOf, stamped>>,
         failed' \/ result' = "failed",
         \A k \in 1..6 : Line'[k] \subseteq Line[k]
  PROVE  LineInv'
<1> DEFINE A == Line
           B == Line'
<1>0. /\ \A k \in 1..6 : B[k] \subseteq A[k] /\ \A b \in A[k] : Spot(b)
      /\ InLine(A) /\ InTime(A) /\ FirstRises
  BY DEF LineInv, Spots
<1> HIDE DEF A, B
<1>1. InLine(B)
  BY <1>0 DEF InLine, Below
<1>2. \A k \in 1..6 : \A b \in B[k] : Spot(b)'
  <2>1. \A b : Spot(b)' <=> Spot(b)
    BY DEF Spot, Part
  <2>. QED  BY <1>0, <2>1
<1>3. M2ts => \A k \in 1..5 : \A b \in B[k] : b.last <= stamped'[b.view]
  BY <1>0 DEF InTime
<1>4. FirstRises'
  BY <1>0 DEF FirstRises, Part
<1>. QED  BY <1>1, <1>2, <1>3, <1>4 DEF LineInv, Spots, InTime, Covered, B

(* A block leaves the muxer, behind all others of its view.                *)
LEMMA LineNew ==
  ASSUME TypeOK, LineInv, EachRises', UNCHANGED <<firstOf, stamped>>, Remembered,
         NEW v \in Views, NEW j \in 1..6, NEW b \in Blocks,
         b.view = v, b.part = Part(v), b.first = sent[v] + 1, sent[v] <= b.last,
         sent' = [sent EXCEPT ![v] = b.last],
         Line'[j] = Line[j] \cup {b}, \A k \in 1..6 : k # j => Line'[k] = Line[k],
         \A k \in 1..6 : k > j => \A y \in Line[k] : y.view # v,
         j # 6 /\ M2ts => b.last <= stamped[v]
  PROVE  LineInv'
<1> DEFINE A == Line
           B == Line'
<1>0. /\ \A k \in 1..6 : A[k] \subseteq Blocks /\ \A x \in A[k] : Spot(x)
      /\ InLine(A) /\ InTime(A) /\ FirstRises
      /\ ~failed /\ result # "failed" => Covered(A)
      /\ B[j] = A[j] \cup {b}
      /\ \A k \in 1..6 : k # j => B[k] = A[k]
      /\ \A k \in 1..6 : k > j => \A y \in A[k] : y.view # v
  BY LineType DEF LineInv, Spots
<1>t. /\ sent \in [Views -> Nat] /\ sent' \in [Views -> Nat] /\ sent'[v] = b.last
      /\ \A w \in Views : w # v => sent'[w] = sent[w]
      /\ b.first \in Nat /\ b.last \in Nat
      /\ firstOf \in [Views -> Seq(Nat)] /\ Part(v) \in Nat
      /\ \A w \in Views : sent[w] <= sent'[w]
  <2>1. sent \in [Views -> Nat] /\ firstOf \in [Views -> Seq(Nat)]
    BY DEF TypeOK
  <2>2. b.first \in Nat /\ b.last \in Nat
    BY DEF Blocks
  <2>3. Part(v) \in Nat
    BY <2>1, LenProperties DEF Part
  <2>. QED  BY <2>1, <2>2, <2>3
<1> HIDE DEF A, B
<1>1. InLine(B)
  <2> SUFFICES ASSUME NEW m \in 1..6, NEW k \in 1..6, m < k PROVE Below(B[m], B[k])
    BY DEF InLine
  <2>1. Below(A[m], A[k])
    BY <1>0 DEF InLine
  <2>2. ASSUME NEW x \in A[m] PROVE Before(x, b)
    <3>1. x.view = v => x.last <= sent[v]
      BY <1>0 DEF Spot
    <3>2. x.last \in Nat
      BY <1>0 DEF Blocks
    <3>. QED  BY <1>t, <3>1, <3>2 DEF Before
  <2>3. k > j => \A y \in A[k] : Before(b, y)
    BY <1>0 DEF Before
  <2>4. B[m] \subseteq A[m] \cup {b} /\ B[k] \subseteq A[k] \cup {b}
        /\ (b \in B[m] => b \in A[m] \/ m = j)
        /\ (m = j => B[k] = A[k])
    BY <1>0
  <2>. QED  BY <2>1, <2>2, <2>3, <2>4 DEF Below
<1>2. \A k \in 1..6 : \A x \in B[k] : x = b \/ x \in A[k]
  BY <1>0
<1>3. \A k \in 1..6 : \A x \in B[k] : Spot(x)'
  <2>1. Part(v)' = Part(v) /\ \A w : Part(w)' = Part(w)
    BY DEF Part
  <2>2. Spot(b)'
    <3>1. Part(v) > 0 /\ firstOf[v][Part(v)] <= sent[v] + 1
      BY <1>0 DEF FirstRises
    <3>. QED  BY <1>t, <2>1, <3>1 DEF Spot
  <2>3. ASSUME NEW k \in 1..6, NEW x \in A[k] PROVE Spot(x)'
    <3>1. Spot(x) /\ x.view \in Views /\ x.last \in Nat
      BY <1>0 DEF Blocks
    <3>2. x.last <= sent'[x.view]
      <4>1. sent[x.view] \in Nat /\ sent'[x.view] \in Nat /\ sent[x.view] <= sent'[x.view]
        BY <1>t, <3>1
      <4>2. x.last <= sent[x.view]
        BY <3>1 DEF Spot
      <4>. QED  BY <3>1, <4>1, <4>2
    <3>. QED  BY <2>1, <3>1, <3>2 DEF Spot
  <2>. QED  BY <1>2, <2>2, <2>3
<1>4. M2ts => \A k \in 1..5 : \A x \in B[k] : x.last <= stamped'[x.view]
  <2> SUFFICES ASSUME M2ts, NEW k \in 1..5, NEW x \in B[k] PROVE x.last <= stamped[x.view]
    OBVIOUS
  <2>1. CASE x \in A[k]
    BY <1>0, <2>1 DEF InTime
  <2>2. CASE x \notin A[k]
    <3>1. k = j /\ x = b
      BY <1>0, <2>2
    <3>. QED  BY <3>1
  <2>. QED  BY <2>1, <2>2
<1>5. FirstRises'
  <2>1. \A w \in Views : firstOf[w][Part(w)] <= sent[w] + 1 => firstOf[w][Part(w)] <= sent'[w] + 1
    <3> SUFFICES ASSUME NEW w \in Views, firstOf[w][Part(w)] <= sent[w] + 1
                 PROVE  firstOf[w][Part(w)] <= sent'[w] + 1
      OBVIOUS
    <3>1. Part(w) > 0 /\ firstOf[w] \in Seq(Nat) /\ Part(w) \in Nat
      BY <1>0, <1>t, LenProperties DEF FirstRises, Part
    <3>2. firstOf[w][Part(w)] \in Nat
      BY <3>1 DEF Part
    <3>3. sent[w] \in Nat /\ sent'[w] \in Nat /\ sent[w] <= sent'[w]
      BY <1>t
    <3>. QED  BY <3>2, <3>3
  <2>2. \A w : Part(w)' = Part(w)
    BY DEF Part
  <2>. QED  BY <1>0, <2>1, <2>2 DEF FirstRises
<1>6. ~failed' /\ result' # "failed" =>
        \A w \in Views : \A n \in 1..sent'[w] : \E k \in 1..6 : \E x \in B[k] : Covers(x, w, n)
  <2> SUFFICES ASSUME ~failed', result' # "failed", NEW w \in Views, NEW n \in 1..sent'[w]
               PROVE  \E k \in 1..6 : \E x \in B[k] : Covers(x, w, n)
    OBVIOUS
  <2>1. CASE n \in 1..sent[w]
    <3>1. \E k \in 1..6 : \E x \in A[k] : Covers(x, w, n)
      BY <1>0, <2>1 DEF Covered, Remembered
    <3>2. \A k \in 1..6 : A[k] \subseteq B[k]
      BY <1>0
    <3>. QED  BY <3>1, <3>2
  <2>2. CASE n \notin 1..sent[w]
    <3>1. w = v /\ b.first <= n /\ n <= b.last
      BY <1>t, <2>2
    <3>. QED  BY <1>0, <3>1 DEF Covers
  <2>. QED  BY <2>1, <2>2
<1>. QED  BY <1>1, <1>3, <1>4, <1>5, <1>6 DEF LineInv, Spots, InTime, Covered, B

-----------------------------------------------------------------------------
(* Steps that leave the line as it is *)

(* What stays where it is when nothing of it changes.                      *)
LEMMA StillParts ==
  ASSUME LineInv
  PROVE  /\ disk' = disk => Landed' = Landed /\ Rising(disk)'
         /\ UNCHANGED <<queue, wpc>> => Waiting' = Waiting /\ Rising(WaitLine)'
         /\ held' = held => Rising(held)' /\ ((HeldLive' <=> HeldLive) => Holding' = Holding)
         /\ delayBlk' = delayBlk => Delayed' = Delayed /\ (\A v \in Views : Rising(delayBlk[v]))'
<1>1. Rising(disk) /\ Rising(WaitLine) /\ Rising(held) /\ \A v \in Views : Rising(delayBlk[v])
  BY DEF LineInv, EachRises
<1>2. disk' = disk => Landed' = Landed /\ Rising(disk)'
  BY <1>1 DEF Landed, Rising, Elems
<1>3. ASSUME UNCHANGED <<queue, wpc>> PROVE Waiting' = Waiting /\ Rising(WaitLine)'
  <2>1. WaitLine' = WaitLine
    BY <1>3 DEF WaitLine
  <2>. QED  BY <1>1, <2>1 DEF Waiting, Rising, Elems, Sentinel
<1>4. held' = held => Rising(held)' /\ ((HeldLive' <=> HeldLive) => Holding' = Holding)
  BY <1>1 DEF Holding, Rising, Elems
<1>5. delayBlk' = delayBlk => Delayed' = Delayed /\ (\A v \in Views : Rising(delayBlk[v]))'
  BY <1>1 DEF Delayed, Rising, Elems
<1>. QED  BY <1>2, <1>3, <1>4, <1>5

(* The stages are the same one by one.                                     *)
LEMMA SixStages ==
  ASSUME Landed' = Landed, Waiting' = Waiting, PutBlocks("queue")' = PutBlocks("queue"),
         Holding' = Holding, PutBlocks("put")' = PutBlocks("put"), Delayed' = Delayed
  PROVE  \A k \in 1..6 : Line'[k] = Line[k]
<1>1. \A k \in 1..6 : k = 1 \/ k = 2 \/ k = 3 \/ k = 4 \/ k = 5 \/ k = 6
  OBVIOUS
<1>. QED  BY <1>1, LineIs

(* Only steps without blocks are taken or put in.                          *)
LEMMA QuietLine ==
  ASSUME TypeOK, TypeOK', LineInv, Remembered,
         UNCHANGED <<sent, firstOf, stamped, disk, queue, wpc, held, delayBlk>>,
         PutBlocks("put")' = PutBlocks("put"), PutBlocks("queue")' = PutBlocks("queue"),
         PutsRise', HeldLive' <=> HeldLive
  PROVE  LineInv'
<1>1. EachRises'
  BY StillParts DEF EachRises
<1>2. \A k \in 1..6 : Line'[k] = Line[k]
  BY StillParts, SixStages
<1>. QED  BY <1>1, <1>2, LineSame

(* A step of the mux thread that does not move a block.                    *)
LEMMA QuietStep ==
  ASSUME TypeOK, TypeOK', PlanInv, LineInv, result = "running", Remembered,
         UNCHANGED <<sent, firstOf, stamped, disk, queue, wpc, held, delayBlk, ending>>,
         todo # <<>>, Head(todo) \notin Puts, Head(todo).op # "heldOut",
         NEW steps \in Seq(Steps), Then(steps),
         \A k \in 1..Len(steps) : steps[k] \notin Puts /\ steps[k].op # "heldOut"
  PROVE  LineInv'
<1>1. /\ PutBlocks("put") = {} /\ PutBlocks("queue") = {}
      /\ PutBlocks("put")' = {} /\ PutBlocks("queue")' = {} /\ PutsRise'
  BY NoPuts
<1>2. HeldLive' <=> HeldLive
  BY HeldLiveKept
<1>. QED  BY <1>1, <1>2, QuietLine

(* Nothing is put in.                                                      *)
LEMMA QuietPop ==
  ASSUME TypeOK, TypeOK', PlanInv, LineInv, result = "running", Remembered,
         UNCHANGED <<sent, firstOf, stamped, disk, queue, wpc, held, delayBlk, ending>>,
         todo # <<>>, Head(todo) \notin Puts, Head(todo).op # "heldOut", Then(<<>>)
  PROVE  LineInv'
BY NoSteps, QuietStep

(* Units and parts are begun or ended, or the writer is waited for.        *)
LEMMA SwitchLine ==
  ASSUME TypeOK, TypeOK', PlanInv, LineInv, result = "running",
         SwitchBlock \/ FinishFileBlock \/ WaitForWriting
  PROVE  LineInv'
<1>1. /\ UNCHANGED <<sent, firstOf, stamped, disk, queue, wpc, held, delayBlk, ending>>
      /\ Remembered
  BY DEF SwitchBlock, FinishFileBlock, WaitForWriting, Remembered
<1>2. CASE WaitForWriting
  <2>1. todo # <<>> /\ Head(todo).op = "wait" /\ Head(todo) \notin Puts /\ Then(<<>>)
    BY <1>2 DEF WaitForWriting, At, Puts
  <2>. QED  BY <1>1, <2>1, QuietPop
<1>3. CASE SwitchBlock \/ FinishFileBlock
  <2>1. PICK steps \in Seq(Steps) :
          Then(steps) /\ \A k \in 1..Len(steps) : steps[k] \notin Puts /\ Early(steps[k])
    BY <1>3, SwitchSequel
  <2>2. todo # <<>> /\ Head(todo).op \in {"switch", "finish"} /\ Head(todo) \notin Puts
    BY <1>3, SwitchSequel
  <2>3. \A k \in 1..Len(steps) : steps[k].op # "heldOut"
    BY <2>1 DEF Early, EndOps
  <2>. QED  BY <1>1, <2>1, <2>2, <2>3, QuietStep
<1>. QED  BY <1>2, <1>3

(* Without a step there is no block to put out.                            *)
LEMMA NothingToDo ==
  ASSUME todo = <<>>
  PROVE  PutBlocks("put") = {} /\ PutBlocks("queue") = {} /\ PutsRise /\ (HeldLive <=> ~ending)
<1>1. Len(todo) = 0 /\ \A k \in 1..0 : FALSE
  OBVIOUS
<1>. QED  BY <1>1 DEF PutBlocks, PutsRise, HeldLive

(* A call of the mux thread begins with nothing to put out.                *)
LEMMA CallsPut ==
  ASSUME TypeOK, TypeOK', PlanInv, (\E v \in Views : MuxPacket(v)) \/ Stop \/ EndOfSources
  PROVE  /\ todo = <<>> /\ result = "running" /\ ~ending
         /\ PutBlocks("put")' = {} /\ PutBlocks("queue")' = {}
         /\ UNCHANGED <<unit, finished, held, delayBlk, disk, queue, wpc>>
<1>1. /\ todo = <<>> /\ result = "running" /\ ~ending
      /\ UNCHANGED <<unit, finished, held, delayBlk, disk, queue, wpc>>
  BY DEF MuxPacket, Stop, EndOfSources
<1>2. \A k \in 1..Len(todo') : todo'[k] \notin Puts
  <2>1. ASSUME NEW v \in Views, MuxPacket(v) PROVE \A k \in 1..Len(todo') : todo'[k] \notin Puts
    BY <2>1, MuxPacketLast
  <2>2. CASE EndOfSources
    <3>1. PICK S \in SUBSET Steps :
            todo' \in Seq(S) /\ \A s \in S : s \notin Puts
      BY <2>2, EndChain
    <3>. QED  BY <3>1, ElementOfSeq
  <2>3. CASE Stop
    <3>1. Len(todo') = 0 /\ \A k \in 1..0 : FALSE
      BY <1>1, <2>3 DEF Stop
    <3>. QED  BY <3>1
  <2>. QED  BY <2>1, <2>2, <2>3
<1>3. PutBlocks("put")' = {} /\ PutBlocks("queue")' = {}
  <2>1. todo' \in Seq(Steps)
    BY DEF TypeOK
  <2>2. \A k \in 1..Len(todo') : todo'[k] \in Steps
    BY <2>1, ElementOfSeq
  <2>3. \A k \in 1..Len(todo') : todo'[k].op \notin {"put", "queue"}
    BY <1>2, <2>2 DEF Puts
  <2>. QED  BY <2>3 DEF PutBlocks
<1>. QED  BY <1>1, <1>3

(* A packet is given to a muxer, or the sources are at their end.          *)
LEMMA CallsLine ==
  ASSUME TypeOK, TypeOK', PlanInv, LineInv,
         (\E v \in Views : MuxPacket(v)) \/ Stop \/ EndOfSources
  PROVE  LineInv'
<1>1. /\ todo = <<>> /\ result = "running" /\ ~ending
      /\ UNCHANGED <<sent, firstOf, stamped, disk, queue, wpc, held, delayBlk, failed>>
      /\ Remembered
  <2>1. ASSUME NEW v \in Views, MuxPacket(v)
        PROVE  /\ todo = <<>> /\ result = "running" /\ ~ending /\ result' = result
               /\ UNCHANGED <<sent, firstOf, stamped, disk, queue, wpc, held, delayBlk, failed>>
    BY <2>1 DEF MuxPacket
  <2>2. ASSUME EndOfSources
        PROVE  /\ todo = <<>> /\ result = "running" /\ ~ending /\ result' = result
               /\ UNCHANGED <<sent, firstOf, stamped, disk, queue, wpc, held, delayBlk, failed>>
    BY <2>2 DEF EndOfSources
  <2>3. ASSUME Stop
        PROVE  /\ todo = <<>> /\ result = "running" /\ ~ending /\ result' = "failed"
               /\ UNCHANGED <<sent, firstOf, stamped, disk, queue, wpc, held, delayBlk, failed>>
    BY <2>3 DEF Stop
  <2>. QED  BY <2>1, <2>2, <2>3 DEF Remembered
<1>2. PutBlocks("put") = {} /\ PutBlocks("queue") = {} /\ HeldLive
  BY <1>1, NothingToDo
<1>3. HeldLive'
  <2>1. CASE EndOfSources
    BY <2>1, EndOfSourcesLast DEF HeldLive
  <2>2. CASE ~EndOfSources
    <3>1. ~ending'
      BY <1>1, <2>2 DEF MuxPacket, Stop
    <3>. QED  BY <3>1 DEF HeldLive
  <2>. QED  BY <2>1, <2>2
<1>4. PutBlocks("put")' = {} /\ PutBlocks("queue")' = {} /\ PutsRise'
  <2>1. PutBlocks("put")' = {} /\ PutBlocks("queue")' = {}
    BY CallsPut
  <2>2. \A k \in 1..Len(todo') : todo'[k] \in Puts => todo'[k].op \in {"put", "queue"}
    BY DEF Puts
  <2>3. \A k \in 1..Len(todo') : todo'[k] \notin Puts
    BY <2>1, <2>2 DEF PutBlocks
  <2>. QED  BY <2>1, <2>3, PutKinds DEF PutsRise
<1>. QED  BY <1>1, <1>2, <1>3, <1>4, QuietLine

-----------------------------------------------------------------------------
(* Blocks leave the muxers *)

(* The stages but one are the same one by one.                             *)
LEMMA StagesBut ==
  ASSUME NEW j \in 1..6,
         j # 1 => Landed' = Landed, j # 2 => Waiting' = Waiting,
         j # 3 => PutBlocks("queue")' = PutBlocks("queue"), j # 4 => Holding' = Holding,
         j # 5 => PutBlocks("put")' = PutBlocks("put"), j # 6 => Delayed' = Delayed
  PROVE  \A k \in 1..6 : k # j => Line'[k] = Line[k]
<1>1. \A k \in 1..6 : k = 1 \/ k = 2 \/ k = 3 \/ k = 4 \/ k = 5 \/ k = 6
  OBVIOUS
<1>. QED  BY <1>1, LineIs

(* A single block.                                                         *)
LEMMA OneBlock ==
  ASSUME NEW b \in Blocks
  PROVE  <<b>> \in Seq(Blocks) /\ Len(<<b>>) = 1 /\ Elems(<<b>>) = {b} /\ Rising(<<b>>)
<1>1. <<b>> \in Seq(Blocks) /\ Len(<<b>>) = 1 /\ <<b>>[1] = b /\ \A k \in 1..1 : k = 1
  OBVIOUS
<1>2. 1 \in 1..1
  OBVIOUS
<1>. QED  BY <1>1, <1>2 DEF Elems, Rising

(* A block goes from a muxer to the step that puts it out.                 *)
LEMMA PutOutLine ==
  ASSUME TypeOK, TypeOK', PlanInv, LineInv, result = "running", Remembered,
         UNCHANGED <<firstOf, stamped, disk, queue, wpc, held, delayBlk, ending>>,
         todo # <<>>, Head(todo) \notin Puts, Head(todo).op # "heldOut",
         NEW v \in Views, NEW to \in Nat, sent[v] <= to,
         sent' = [sent EXCEPT ![v] = to], Then(<<PutStep("put", Block(v, to))>>),
         \A y \in Delayed : y.view # v, M2ts => to <= stamped[v]
  PROVE  LineInv'
<1>1. PICK b \in Blocks : b = Block(v, to)
  BY BlockType
<1>2. b.view = v /\ b.part = Part(v) /\ b.first = sent[v] + 1 /\ b.last = to
  BY <1>1 DEF Block
<1>3. PICK steps \in Seq(Steps) :
        /\ Then(steps) /\ Len(steps) = Len(<<b>>)
        /\ \A k \in 1..Len(steps) : steps[k] \in Puts /\ steps[k].op = "put" /\ steps[k].blk = <<b>>[k]
  <2>1. PutStep("put", b) \in Puts /\ PutStep("put", b) \in Steps
    BY <1>2 DEF Puts, Steps, PutStep
  <2>2. PutStep("put", b).op = "put" /\ PutStep("put", b).blk = b
    BY DEF PutStep
  <2>3. PICK x \in Steps : x = PutStep("put", b)
    BY <2>1
  <2>4. <<x>> \in Seq(Steps) /\ Len(<<x>>) = 1 /\ <<x>>[1] = x /\ \A k \in 1..1 : k = 1
    OBVIOUS
  <2>5. <<b>>[1] = b
    OBVIOUS
  <2>6. Then(<<x>>)
    BY <1>1, <2>3, Zenon
  <2>. QED  BY <2>1, <2>2, <2>3, <2>4, <2>5, <2>6, OneBlock
<1>4. /\ PutBlocks("put") = {} /\ PutBlocks("queue") = {} /\ PutBlocks("queue")' = {}
      /\ PutBlocks("put")' = {b} /\ PutsRise'
  <2> DEFINE blocks == <<b>>
  <2>1. blocks \in Seq(Blocks) /\ Elems(blocks) = {b} /\ Rising(blocks)
    BY OneBlock
  <2>2. /\ Len(steps) = Len(blocks)
        /\ \A k \in 1..Len(steps) : steps[k] \in Puts /\ steps[k].op = "put" /\ steps[k].blk = blocks[k]
    BY <1>3
  <2> HIDE DEF blocks
  <2>3. "queue" \in {"put", "queue"} \ {"put"}
    OBVIOUS
  <2>. QED  BY <1>3, <2>1, <2>2, <2>3, PutsMade
<1>5. HeldLive' <=> HeldLive
  <2>1. \A k \in 1..Len(steps) : steps[k].op # "heldOut"
    BY <1>3
  <2>. QED  BY <1>3, <2>1, HeldLiveKept
<1>6. EachRises'
  BY <1>4, StillParts DEF EachRises
<1>7. \A k \in 1..6 : k # 5 => Line'[k] = Line[k]
  <2>1. /\ Landed' = Landed /\ Waiting' = Waiting /\ Holding' = Holding /\ Delayed' = Delayed
        /\ PutBlocks("queue")' = PutBlocks("queue")
    BY <1>4, <1>5, StillParts
  <2>2. PICK j \in 1..6 : j = 5
    OBVIOUS
  <2>3. \A k \in 1..6 : k # j => Line'[k] = Line[k]
    BY <2>1, <2>2, StagesBut
  <2>. QED  BY <2>2, <2>3
<1>8. Line'[5] = Line[5] \cup {b} /\ Line[6] = Delayed
  BY <1>4, LineIs
<1>9. \A k \in 1..6 : k > 5 => \A y \in Line[k] : y.view # v
  <2>1. \A k \in 1..6 : k > 5 => k = 6
    OBVIOUS
  <2>. QED  BY <1>8, <2>1
<1>10. PICK j \in 1..6 : j = 5
  OBVIOUS
<1>11. /\ Line'[j] = Line[j] \cup {b} /\ \A k \in 1..6 : k # j => Line'[k] = Line[k]
       /\ \A k \in 1..6 : k > j => \A y \in Line[k] : y.view # v
       /\ j # 6 /\ M2ts => b.last <= stamped[v]
  BY <1>2, <1>7, <1>8, <1>9, <1>10
<1>12. sent' = [sent EXCEPT ![v] = b.last] /\ sent[v] <= b.last
  BY <1>2
<1>. QED  BY <1>2, <1>6, <1>11, <1>12, LineNew

(* The blocks that wait for their arrival times are of their view.         *)
LEMMA DelayedViews ==
  ASSUME TypeOK, PlaceInv, result = "running"
  PROVE  /\ \A v \in Views : \A y \in Elems(delayBlk[v]) : y.view = v
         /\ \A y \in Delayed : y.view \in Views /\ y \in Elems(delayBlk[y.view])
<1>1. \A v \in Views : \A y \in Elems(delayBlk[v]) : y.view = v
  BY DEF PlaceInv, BlocksHere, Elems
<1>. QED  BY <1>1 DEF Delayed

(* A packet is put into the buffer of its muxer, which may be full then.   *)
LEMMA AddPacketLine ==
  ASSUME TypeOK, TypeOK', PlanInv, PlaceInv, LineInv, result = "running", AddPacket
  PROVE  LineInv'
<1> DEFINE u == Head(todo).view
           n == made[u] + 1
           b == Block(u, n)
           full == n - sent[u] = BlockLimit
           go == full /\ MayGoOut(u, n)
<1>0. /\ todo # <<>> /\ Head(todo).op = "packet" /\ Head(todo) \notin Puts /\ u \in Views
      /\ Head(todo).op # "heldOut"
  BY HeadOfTodo DEF AddPacket, At, Puts
<1>1. /\ made \in [Views -> Nat] /\ sent \in [Views -> Nat] /\ sent[u] <= made[u]
      /\ delayBlk \in [Views -> Seq(Blocks)]
      /\ n \in Nat /\ sent[u] <= n /\ b \in Blocks
      /\ b.view = u /\ b.part = Part(u) /\ b.first = sent[u] + 1 /\ b.last = n
  <2>1. /\ made \in [Views -> Nat] /\ sent \in [Views -> Nat] /\ sent[u] <= made[u]
        /\ delayBlk \in [Views -> Seq(Blocks)]
    BY <1>0 DEF TypeOK
  <2>2. n \in Nat /\ sent[u] <= n
    BY <1>0, <2>1
  <2>. QED  BY <1>0, <2>1, <2>2, BlockType DEF Block
<1>2. /\ UNCHANGED <<firstOf, stamped, disk, queue, wpc, held, ending, failed, result>>
      /\ sent' = IF full THEN [sent EXCEPT ![u] = n] ELSE sent
      /\ delayBlk' = IF full /\ ~MayGoOut(u, n)
                       THEN [delayBlk EXCEPT ![u] = Append(@, b)] ELSE delayBlk
      /\ Then(IfAny(full /\ MayGoOut(u, n), <<PutStep("put", b)>>))
  BY DEF AddPacket
<1>3. Remembered
  BY <1>2 DEF Remembered
<1> HIDE DEF n, full
<1>4. CASE ~full
  <2>1. Then(<<>>) /\ sent' = sent /\ delayBlk' = delayBlk
    BY <1>2, <1>4 DEF IfAny
  <2>. QED  BY <1>0, <1>2, <1>3, <2>1, QuietPop
<1>5. CASE full /\ MayGoOut(u, n)
  <2>1. /\ Then(<<PutStep("put", Block(u, n))>>) /\ sent' = [sent EXCEPT ![u] = n]
        /\ delayBlk' = delayBlk
    BY <1>2, <1>5 DEF IfAny
  <2>2. delayBlk[u] = <<>> /\ (M2ts => n <= stamped[u])
    BY <1>0, <1>5 DEF MayGoOut, PlaceInv
  <2>3. \A y \in Delayed : y.view # u
    BY <1>0, <2>2, ElemsEmpty, DelayedViews
  <2> HIDE DEF u
  <2>. QED  BY <1>0, <1>1, <1>2, <1>3, <2>1, <2>2, <2>3, PutOutLine
<1>6. CASE full /\ ~MayGoOut(u, n)
  <2>1. /\ Then(<<>>) /\ sent' = [sent EXCEPT ![u] = b.last]
        /\ delayBlk' = [delayBlk EXCEPT ![u] = Append(@, b)]
    BY <1>1, <1>2, <1>6 DEF IfAny
  <2>2. /\ PutBlocks("put") = {} /\ PutBlocks("queue") = {}
        /\ PutBlocks("put")' = {} /\ PutBlocks("queue")' = {} /\ PutsRise'
    BY <1>0, <2>1, NoSteps, NoPuts
  <2>3. HeldLive' <=> HeldLive
    BY <1>0, <1>2, <2>1, NoSteps, HeldLiveKept
  <2> HIDE DEF u, b
  <2>4. delayBlk'[u] = Append(delayBlk[u], b) /\ \A w \in Views : w # u => delayBlk'[w] = delayBlk[w]
    BY <1>0, <1>1, <2>1
  <2>5. /\ Elems(delayBlk'[u]) = Elems(delayBlk[u]) \cup {b} /\ Rising(delayBlk'[u])
    <3>1. ASSUME NEW y \in Elems(delayBlk[u]) PROVE Before(y, b)
      <4>1. y \in Line[6]
        BY <1>0, <3>1, LineIs DEF Delayed
      <4>2. Spot(y) /\ y \in Blocks
        BY <4>1, LineType DEF LineInv, Spots
      <4>3. y.last \in Nat /\ sent[u] \in Nat
        BY <1>0, <1>1, <4>2 DEF Blocks
      <4>4. y.view = u => y.last <= sent[u]
        BY <4>2 DEF Spot
      <4>. QED  BY <1>1, <4>3, <4>4 DEF Before
    <3>2. Rising(delayBlk[u]) /\ delayBlk[u] \in Seq(Blocks)
      BY <1>0, <1>1 DEF LineInv, EachRises
    <3>. QED  BY <1>1, <2>4, <3>1, <3>2, ElemsAppend
  <2>6. Delayed' = Delayed \cup {b}
    <3>1. Delayed' = UNION {Elems(delayBlk'[w]) : w \in Views}
      BY DEF Delayed, Elems
    <3>2. \A w \in Views : Elems(delayBlk'[w]) = Elems(delayBlk[w]) \cup (IF w = u THEN {b} ELSE {})
      BY <2>4, <2>5
    <3>3. Delayed = UNION {Elems(delayBlk[w]) : w \in Views}
      BY DEF Delayed
    <3>. QED  BY <1>0, <3>1, <3>2, <3>3
  <2>7. EachRises'
    <3>1. \A w \in Views : Rising(delayBlk'[w])
      <4>1. \A w \in Views : Rising(delayBlk[w])
        BY DEF LineInv, EachRises
      <4>. QED  BY <2>4, <2>5, <4>1
    <3>2. (\A w \in Views : Rising(delayBlk[w]))'
      BY <3>1 DEF Rising
    <3>. QED  BY <1>2, <2>2, <3>2, StillParts DEF EachRises
  <2>8. PICK j \in 1..6 : j = 6
    OBVIOUS
  <2>9. \A k \in 1..6 : k # j => Line'[k] = Line[k]
    <3>1. /\ Landed' = Landed /\ Waiting' = Waiting /\ Holding' = Holding
          /\ PutBlocks("queue")' = PutBlocks("queue") /\ PutBlocks("put")' = PutBlocks("put")
      BY <1>2, <2>2, <2>3, StillParts
    <3>. QED  BY <2>8, <3>1, StagesBut
  <2>10. /\ Line'[j] = Line[j] \cup {b}
         /\ \A k \in 1..6 : k > j => \A y \in Line[k] : y.view # u
         /\ j # 6 /\ M2ts => b.last <= stamped[u]
    BY <2>6, <2>8, LineIs
  <2>11. UNCHANGED <<firstOf, stamped>> /\ sent[u] <= b.last
    BY <1>1, <1>2
  <2>. QED  BY <1>0, <1>1, <1>3, <2>1, <2>7, <2>9, <2>10, <2>11, LineNew
<1>. QED  BY <1>4, <1>5, <1>6

(* The stages but two are the same one by one.                             *)
LEMMA StagesButTwo ==
  ASSUME NEW i \in 1..6, NEW j \in 1..6,
         i # 1 /\ j # 1 => Landed' = Landed, i # 2 /\ j # 2 => Waiting' = Waiting,
         i # 3 /\ j # 3 => PutBlocks("queue")' = PutBlocks("queue"),
         i # 4 /\ j # 4 => Holding' = Holding,
         i # 5 /\ j # 5 => PutBlocks("put")' = PutBlocks("put"),
         i # 6 /\ j # 6 => Delayed' = Delayed
  PROVE  \A k \in 1..6 : k # i /\ k # j => Line'[k] = Line[k]
<1>1. \A k \in 1..6 : k = 1 \/ k = 2 \/ k = 3 \/ k = 4 \/ k = 5 \/ k = 6
  OBVIOUS
<1>. QED  BY <1>1, LineIs

(* The arrival times are known: the blocks that waited for them go out.    *)
LEMMA StampLine ==
  ASSUME TypeOK, TypeOK', PlanInv, PlaceInv, LineInv, result = "running", Stamp
  PROVE  LineInv'
<1>0. /\ todo # <<>> /\ Head(todo).op = "stamp" /\ Head(todo) \notin Puts
      /\ Head(todo).view \in Views /\ Head(todo).op # "heldOut"
  BY HeadOfTodo DEF Stamp, At, Puts
<1>v. PICK v \in Views : v = Head(todo).view
  BY <1>0
<1>1. /\ UNCHANGED <<sent, firstOf, disk, queue, wpc, held, ending, failed, result>>
      /\ stamped' = [stamped EXCEPT ![v] = made[v]]
      /\ delayBlk' = [delayBlk EXCEPT ![v] = <<>>]
      /\ Then(PutAll("put", delayBlk[v]))
  BY <1>v DEF Stamp
<1>2. /\ made \in [Views -> Nat] /\ stamped \in [Views -> Nat] /\ sent \in [Views -> Nat]
      /\ \A w \in Views : sent[w] <= made[w] /\ stamped[w] <= made[w]
      /\ delayBlk \in [Views -> Seq(Blocks)] /\ delayBlk[v] \in Seq(Blocks)
  BY DEF TypeOK
<1>3. Remembered
  BY <1>1 DEF Remembered
<1> DEFINE X == Elems(delayBlk[v])
           steps == PutAll("put", delayBlk[v])
           blocks == delayBlk[v]
<1>4. /\ steps \in Seq(Steps) /\ Len(steps) = Len(blocks) /\ Then(steps)
      /\ \A k \in 1..Len(steps) : steps[k] \in Puts /\ steps[k].op = "put" /\ steps[k].blk = blocks[k]
  BY <1>1, <1>2, PutAllPuts DEF Ops
<1> HIDE DEF steps
<1>5. /\ PutBlocks("put") = {} /\ PutBlocks("queue") = {} /\ PutBlocks("queue")' = {}
      /\ PutBlocks("put")' = X /\ PutsRise'
  <2>1. "queue" \in {"put", "queue"} \ {"put"}
    OBVIOUS
  <2>2. Rising(blocks) /\ blocks \in Seq(Blocks)
    BY <1>2 DEF LineInv, EachRises
  <2> HIDE DEF blocks
  <2>. QED  BY <1>0, <1>4, <2>1, <2>2, PutsMade DEF blocks
<1>6. HeldLive' <=> HeldLive
  <2>1. \A k \in 1..Len(steps) : steps[k].op # "heldOut"
    BY <1>4
  <2>. QED  BY <1>0, <1>1, <1>4, <2>1, HeldLiveKept
<1> HIDE DEF X
<1>7. \A w \in Views : Elems(delayBlk'[w]) = IF w = v THEN {} ELSE Elems(delayBlk[w])
  <2>1. \A w \in Views : delayBlk'[w] = IF w = v THEN <<>> ELSE delayBlk[w]
    BY <1>1, <1>2
  <2>. QED  BY <2>1, ElemsEmpty
<1>8. Delayed = Delayed' \cup X /\ \A y \in Delayed' : y.view # v
  <2>1. Delayed' = UNION {Elems(delayBlk'[w]) : w \in Views}
    BY DEF Delayed, Elems
  <2>2. Delayed = UNION {Elems(delayBlk[w]) : w \in Views}
    BY DEF Delayed
  <2>3. \A w \in Views : \A y \in Elems(delayBlk[w]) : y.view = w
    BY DelayedViews
  <2>. QED  BY <1>7, <2>1, <2>2, <2>3 DEF X
<1>9. EachRises'
  <2>1. \A w \in Views : Rising(delayBlk'[w])
    <3>1. \A w \in Views : Rising(delayBlk[w])
      BY DEF LineInv, EachRises
    <3>2. \A w \in Views : delayBlk'[w] = IF w = v THEN <<>> ELSE delayBlk[w]
      BY <1>1, <1>2
    <3>. QED  BY <3>1, <3>2, ElemsEmpty
  <2>2. (\A w \in Views : Rising(delayBlk[w]))'
    BY <2>1 DEF Rising
  <2>. QED  BY <1>1, <1>5, <2>2, StillParts DEF EachRises
<1>10. PICK i \in 1..6 : i = 6
  OBVIOUS
<1>11. PICK j \in 1..6 : j = 5
  OBVIOUS
<1>12. \A k \in 1..6 : k # i /\ k # j => Line'[k] = Line[k]
  <2>1. /\ Landed' = Landed /\ Waiting' = Waiting /\ Holding' = Holding
        /\ PutBlocks("queue")' = PutBlocks("queue")
    BY <1>1, <1>5, <1>6, StillParts
  <2>. QED  BY <1>10, <1>11, <2>1, StagesButTwo
<1>13. Line'[j] = Line[j] \cup X /\ Line[i] = Line'[i] \cup X
  BY <1>5, <1>8, <1>10, <1>11, LineIs
<1>14. \A x \in X : x.view = v /\ x.last <= stamped'[x.view]
  <2> SUFFICES ASSUME NEW x \in X PROVE x.view = v /\ x.last <= stamped'[x.view]
    OBVIOUS
  <2>1. x.view = v /\ x \in Blocks /\ Spot(x)
    <3>1. x \in Line[6] /\ 6 \in 1..6
      BY <1>8, LineIs
    <3>. QED  BY <3>1, LineType, DelayedViews DEF X, LineInv, Spots
  <2>2. x.last <= sent[v] /\ sent[v] <= made[v] /\ stamped'[v] = made[v]
        /\ sent[v] \in Nat /\ made[v] \in Nat /\ x.last \in Nat
    BY <1>1, <1>2, <2>1 DEF Spot, Blocks
  <2>. QED  BY <2>1, <2>2
<1>15. Below(X, Line'[i])
  BY <1>8, <1>10, <1>14, LineIs DEF Below, Before
<1>16. \A k \in 1..6 : j < k /\ k < i => Below(X, Line[k])
  BY <1>10, <1>11
<1>17. \A w \in Views : stamped[w] <= stamped'[w]
  BY <1>1, <1>2
<1>18. j < i /\ UNCHANGED <<sent, firstOf>>
  BY <1>1, <1>10, <1>11
<1>. QED  BY <1>3, <1>9, <1>12, <1>13, <1>14, <1>15, <1>16, <1>17, <1>18, LineMove

(* What is left in the buffer of a muxer goes out.                         *)
LEMMA FlushRestLine ==
  ASSUME TypeOK, TypeOK', PlanInv, PlaceInv, LineInv, result = "running", FlushRest
  PROVE  LineInv'
<1>0. /\ todo # <<>> /\ Head(todo).op = "rest" /\ Head(todo) \notin Puts
      /\ Head(todo).view \in Views /\ Head(todo).op # "heldOut"
  BY HeadOfTodo DEF FlushRest, At, Puts
<1>v. PICK v \in Views : v = Head(todo).view
  BY <1>0
<1>1. UNCHANGED <<firstOf, stamped, disk, queue, wpc, held, delayBlk, ending, failed, result>>
  BY DEF FlushRest
<1>2. PICK to \in IF M2ts THEN {made[v]} ELSE sent[v]..made[v] :
        /\ sent' = [sent EXCEPT ![v] = to]
        /\ Then(<<PutStep("put", Block(v, to))>>)
  BY <1>v DEF FlushRest
<1>3. /\ made \in [Views -> Nat] /\ sent \in [Views -> Nat] /\ stamped \in [Views -> Nat]
      /\ sent[v] <= made[v]
  BY DEF TypeOK
<1>4. to \in Nat /\ sent[v] <= to /\ (M2ts => to = made[v])
  BY <1>2, <1>3
<1>5. delayBlk[v] = <<>> /\ (M2ts => stamped[v] = made[v])
  <2>1. CASE M2ts
    <3>1. Head(todo) \in Ops("rest", v)
      BY <1>0, <1>v, HeadOfTodo DEF Ops
    <3>. QED  BY <1>0, <2>1, <3>1, HeadExposed DEF PlanInv, StampRule, Rule, Stamped
  <2>2. CASE ~M2ts
    BY <2>2 DEF PlaceInv
  <2>. QED  BY <2>1, <2>2
<1>6. \A y \in Delayed : y.view # v
  BY <1>5, ElemsEmpty, DelayedViews
<1>7. M2ts => to <= stamped[v]
  BY <1>3, <1>4, <1>5
<1>8. Remembered
  BY <1>1 DEF Remembered
<1>. QED  BY <1>0, <1>1, <1>2, <1>4, <1>6, <1>7, <1>8, PutOutLine

-----------------------------------------------------------------------------
(* Blocks are held back or queued *)

(* A block is queued behind those that wait.                               *)
LEMMA Queueing ==
  ASSUME TypeOK, WriterInv, wpc' = wpc, NEW b \in Blocks \cup {Sentinel},
         queue' = Append(queue, b)
  PROVE  WaitLine' = Append(WaitLine, b) /\ WaitLine \in Seq(Blocks \cup {Sentinel})
<1>1. queue \in Seq(Blocks \cup {Sentinel})
  BY DEF TypeOK
<1>2. CASE wpc # "pop"
  BY <1>1, <1>2 DEF WaitLine
<1>3. CASE wpc = "pop"
  <2>1. queue # <<>>
    BY <1>3 DEF WriterInv, IdleMeansIdle
  <2>2. Tail(Append(queue, b)) = Append(Tail(queue), b)
    BY <1>1, <2>1
  <2>3. Tail(queue) \in Seq(Blocks \cup {Sentinel})
    BY <1>1, <2>1, ElemsTail
  <2>. QED  BY <1>3, <2>2, <2>3 DEF WaitLine
<1>. QED  BY <1>2, <1>3

(* The sentinel of the queue is no block.                                  *)
LEMMA SentinelNoBlock ==
  /\ Sentinel \notin Blocks
  /\ \A x : Before(x, Sentinel) /\ Before(Sentinel, x)
<1>1. Sentinel.view = "none" /\ "none" \notin Views
  BY DEF Sentinel, Views
<1>. QED  BY <1>1 DEF Blocks, Before

(* What a view's first block behind another's means for a sequence.        *)
LEMMA JoinsRising ==
  ASSUME TypeOK, LineInv, NEW j \in 1..6, NEW i \in 1..6, j < i, NEW b \in Line[i]
  PROVE  \A y \in Line[j] : Before(y, b)
BY DEF LineInv, InLine, Below

(* The first view's block is held back for the second view.                *)
LEMMA HoldBackLine ==
  ASSUME TypeOK, TypeOK', LineInv, HeldLive, UNCHANGED <<ending, failed, result>>,
         UNCHANGED <<sent, firstOf, stamped, disk, queue, wpc, delayBlk>>,
         todo # <<>>, Head(todo) \in Puts, Head(todo).op = "put",
         held' = Append(held, Head(todo).blk), Then(<<>>)
  PROVE  LineInv'
<1>1. PICK b : b = Head(todo).blk
  OBVIOUS
<1>2. PutsRise
  BY DEF LineInv, EachRises
<1>3. PICK o : o = Head(todo).op
  OBVIOUS
<1>4. /\ PutBlocks("put") = PutBlocks("put")' \cup {b}
      /\ PutBlocks("queue")' = PutBlocks("queue")
      /\ \A y \in PutBlocks("put")' : Before(b, y)
      /\ PutsRise' /\ b \in Blocks
  <2>1. /\ PutBlocks(o) = PutBlocks(o)' \cup {b}
        /\ \A op \in {"put", "queue"} \ {o} : PutBlocks(op)' = PutBlocks(op)
        /\ \A op \in {"put", "queue"} : \A y \in PutBlocks(op)' : Before(b, y)
        /\ PutsRise' /\ b \in Blocks
    BY <1>1, <1>2, <1>3, PutTaken
  <2>2. o = "put"
    BY <1>3
  <2>. QED  BY <2>1, <2>2
<1>5. HeldLive'
  BY NoSteps, HeldLiveKept
<1>6. Holding' = Holding \cup {b} /\ Rising(held)'
  <2>1. held \in Seq(Blocks) /\ held' = Append(held, b) /\ Rising(held)
    BY <1>1 DEF TypeOK, LineInv, EachRises
  <2>2. \A y \in Elems(held) : Before(y, b)
    <3>1. Elems(held) = Line[4] /\ b \in Line[5] /\ 4 \in 1..6 /\ 5 \in 1..6
      BY <1>4, LineIs DEF Holding
    <3>2. \A y \in Line[4] : Before(y, b)
      BY <3>1, JoinsRising
    <3>. QED  BY <3>1, <3>2
  <2>3. Elems(Append(held, b)) = Elems(held) \cup {b} /\ Rising(Append(held, b))
    BY <1>4, <2>1, <2>2, ElemsAppend
  <2>4. Elems(held') = Elems(held) \cup {b} /\ Rising(held')
    BY <2>1, <2>3
  <2>5. Elems(held)' = Elems(held') /\ (Rising(held)' <=> Rising(held'))
    BY DEF Elems, Rising
  <2>. QED  BY <1>5, <2>4, <2>5 DEF Holding
<1>7. EachRises'
  BY <1>4, <1>6, StillParts DEF EachRises
<1>8. PICK i \in 1..6 : i = 5
  OBVIOUS
<1>9. PICK j \in 1..6 : j = 4
  OBVIOUS
<1>10. \A k \in 1..6 : k # i /\ k # j => Line'[k] = Line[k]
  <2>1. /\ Landed' = Landed /\ Waiting' = Waiting /\ Delayed' = Delayed
        /\ PutBlocks("queue")' = PutBlocks("queue")
    BY <1>4, StillParts
  <2>. QED  BY <1>8, <1>9, <2>1, StagesButTwo
<1> DEFINE X == {b}
<1>11. Line'[j] = Line[j] \cup X /\ Line[i] = Line'[i] \cup X
  BY <1>4, <1>6, <1>8, <1>9, LineIs
<1>12. Below(X, Line'[i])
  BY <1>4, <1>8, LineIs DEF Below
<1> HIDE DEF X
<1>13. \A k \in 1..6 : j < k /\ k < i => Below(X, Line[k])
  BY <1>8, <1>9
<1>14. j < i /\ i # 6 /\ Remembered /\ UNCHANGED <<sent, firstOf>>
  BY <1>8, <1>9 DEF Remembered
<1>15. \A w \in Views : stamped[w] <= stamped'[w]
  BY DEF TypeOK
<1>. QED  BY <1>7, <1>10, <1>11, <1>12, <1>13, <1>14, <1>15, LineMove

(* A block goes into the write queue; none of its view is held back or to  *)
(* be queued before it.                                                    *)
LEMMA QueueLine ==
  ASSUME TypeOK, TypeOK', WriterInv, LineInv, UNCHANGED <<ending, failed, result>>,
         UNCHANGED <<sent, firstOf, stamped, disk, wpc, held, delayBlk>>,
         todo # <<>>, Head(todo) \in Puts, Head(todo).op \in {"put", "queue"},
         queue' = Append(queue, Head(todo).blk), Then(<<>>),
         Head(todo).op = "put" => /\ PutBlocks("queue") = {}
                                  /\ \A y \in Holding : y.view # Head(todo).blk.view
  PROVE  LineInv'
<1>1. PICK b : b = Head(todo).blk
  OBVIOUS
<1>2. PICK o \in {"put", "queue"} : o = Head(todo).op
  OBVIOUS
<1>3. PutsRise
  BY DEF LineInv, EachRises
<1>4. /\ PutBlocks(o) = PutBlocks(o)' \cup {b}
      /\ \A op \in {"put", "queue"} \ {o} : PutBlocks(op)' = PutBlocks(op)
      /\ \A y \in PutBlocks(o)' : Before(b, y)
      /\ PutsRise' /\ b \in Blocks
  BY <1>1, <1>2, <1>3, PutTaken
<1>5. HeldLive' <=> HeldLive
  <2>1. Head(todo).op # "heldOut"
    OBVIOUS
  <2>. QED  BY <2>1, NoSteps, HeldLiveKept
<1>6. PICK i \in 1..6 : i = IF o = "put" THEN 5 ELSE 3
  OBVIOUS
<1>7. PICK j \in 1..6 : j = 2
  OBVIOUS
<1>8. Line[i] = PutBlocks(o) /\ Line'[i] = PutBlocks(o)' /\ b \in Line[i]
  <2>1. Line[i] = PutBlocks(o)
    BY <1>2, <1>6, LineIs
  <2>2. Line'[i] = PutBlocks(o)'
    <3>1. CASE o = "put"
      BY <1>6, <3>1, LineIs
    <3>2. CASE o = "queue"
      BY <1>6, <3>2, LineIs
    <3>. QED  BY <1>2, <3>1, <3>2
  <2>. QED  BY <1>4, <2>1, <2>2
<1>9. Waiting' = Waiting \cup {b} /\ Rising(WaitLine)'
  <2>1. WaitLine' = Append(WaitLine, b) /\ WaitLine \in Seq(Blocks \cup {Sentinel})
    BY <1>1, <1>4, Queueing
  <2>2. \A y \in Elems(WaitLine) : Before(y, b)
    <3>1. \A y \in Line[2] : Before(y, b)
      BY <1>6, <1>8, JoinsRising
    <3>2. \A y \in Elems(WaitLine) : y \in Line[2] \/ y = Sentinel
      BY LineIs DEF Waiting
    <3>. QED  BY <3>1, <3>2, SentinelNoBlock
  <2>3. Rising(WaitLine)
    BY DEF LineInv, EachRises
  <2>4. Elems(Append(WaitLine, b)) = Elems(WaitLine) \cup {b} /\ Rising(Append(WaitLine, b))
    BY <1>4, <2>1, <2>2, <2>3, ElemsAppend
  <2>5. Elems(WaitLine') = Elems(WaitLine) \cup {b} /\ Rising(WaitLine')
    BY <2>1, <2>4
  <2>6. Waiting' = Elems(WaitLine') \ {Sentinel} /\ (Rising(WaitLine)' <=> Rising(WaitLine'))
    BY DEF Waiting, Elems, Rising, Sentinel
  <2>. QED  BY <1>4, <2>5, <2>6, SentinelNoBlock DEF Waiting
<1>10. EachRises'
  BY <1>4, <1>9, StillParts DEF EachRises
<1>11. \A k \in 1..6 : k # i /\ k # j => Line'[k] = Line[k]
  <2>1. Landed' = Landed /\ Holding' = Holding /\ Delayed' = Delayed
    BY <1>5, StillParts
  <2>2. /\ i # 3 => PutBlocks("queue")' = PutBlocks("queue")
        /\ i # 5 => PutBlocks("put")' = PutBlocks("put")
    BY <1>2, <1>4, <1>6
  <2>. QED  BY <1>7, <2>1, <2>2, StagesButTwo
<1> DEFINE X == {b}
<1>12. Line'[j] = Line[j] \cup X /\ Line[i] = Line'[i] \cup X
  BY <1>4, <1>7, <1>8, <1>9, LineIs
<1>13. Below(X, Line'[i])
  BY <1>4, <1>8 DEF Below
<1>14. \A k \in 1..6 : j < k /\ k < i => Below(X, Line[k])
  <2>1. CASE i = 3
    BY <1>7, <2>1
  <2>2. CASE i # 3
    <3>1. Line[3] = {} /\ \A y \in Line[4] : y.view # b.view
      BY <1>1, <1>2, <1>6, <2>2, LineIs
    <3>2. Below(X, Line[3]) /\ Below(X, Line[4])
      BY <3>1 DEF Below, Before
    <3>3. \A k \in 1..6 : j < k /\ k < i => k = 3 \/ k = 4
      BY <1>6, <1>7, <2>2
    <3>. QED  BY <3>2, <3>3
  <2>. QED  BY <2>1, <2>2
<1> HIDE DEF X
<1>15. j < i /\ i # 6 /\ Remembered /\ UNCHANGED <<sent, firstOf>>
  BY <1>6, <1>7 DEF Remembered
<1>16. \A w \in Views : stamped[w] <= stamped'[w]
  BY DEF TypeOK
<1>. QED  BY <1>10, <1>11, <1>12, <1>13, <1>14, <1>15, <1>16, LineMove

(* A step throws: what was to be put out is given up.                      *)
LEMMA ThrowLine ==
  ASSUME TypeOK, LineInv, todo' = <<>>, result' = "failed",
         UNCHANGED <<sent, firstOf, stamped, disk, queue, wpc, held, delayBlk, ending>>
  PROVE  LineInv'
<1>1. Len(todo') = 0 /\ \A k \in 1..0 : FALSE
  OBVIOUS
<1>2. PutBlocks("put")' = {} /\ PutBlocks("queue")' = {} /\ PutsRise' /\ (HeldLive' => ~ending)
  BY <1>1 DEF PutBlocks, PutsRise, HeldLive
<1>3. Holding' \subseteq Holding
  <2>1. ~ending => HeldLive
    BY DEF HeldLive
  <2>2. Elems(held)' = Elems(held)
    BY DEF Elems
  <2>. QED  BY <1>2, <2>1, <2>2 DEF Holding
<1>4. Landed' = Landed /\ Waiting' = Waiting /\ Delayed' = Delayed /\ EachRises'
  BY <1>2, StillParts DEF EachRises
<1>5. \A k \in 1..6 : k = 1 \/ k = 2 \/ k = 3 \/ k = 4 \/ k = 5 \/ k = 6
  OBVIOUS
<1>6. \A k \in 1..6 : Line'[k] \subseteq Line[k]
  BY <1>2, <1>3, <1>4, <1>5, LineIs
<1>. QED  BY <1>4, <1>6, LineLess

(* A put that is not the first view's finds nothing of its view held back. *)
LEMMA HeldOfOther ==
  ASSUME TypeOK, PlaceInv, result = "running", todo # <<>>, Head(todo) \in Puts,
         ~HeldBack(Head(todo).blk.view)
  PROVE  \A y \in Holding : y.view # Head(todo).blk.view
<1>1. CASE ~Interleave
  <2>1. held = <<>>
    BY <1>1 DEF PlaceInv
  <2>. QED  BY <2>1, ElemsEmpty DEF Holding
<1>2. CASE Interleave
  <2>1. Head(todo).blk.view # "main"
    BY <1>2 DEF HeldBack
  <2>2. \A y \in Elems(held) : y.view = "main"
    BY DEF PlaceInv, BlocksHere, Elems
  <2>. QED  BY <2>1, <2>2 DEF Holding
<1>3. Interleave \in BOOLEAN
  BY MuxWriterAssumption
<1>. QED  BY <1>1, <1>2, <1>3

(* While blocks of the first view may be put out, those held back have     *)
(* still to be queued.                                                     *)
LEMMA HeldStillLive ==
  ASSUME TypeOK, LastInv, result = "running", todo # <<>>, Head(todo) \in Live
  PROVE  HeldLive
<1>1. CASE ~ending
  BY <1>1 DEF HeldLive
<1>2. CASE ending
  <2>1. Ordered(Plan, Live, HeldOuts, {End})
    BY <1>2 DEF LastInv, LiveRule
  <2>2. todo \in Seq(Steps) /\ Len(todo) \in Nat /\ 1 \in 1..Len(todo) /\ todo[1] = Head(todo)
    BY HeadIsFirst, LenProperties DEF TypeOK
  <2>3. /\ Len(Plan) = Len(todo) + 1 /\ Plan[Len(todo) + 1] = End
        /\ \A i \in 1..Len(todo) : Plan[i] = todo[i]
    BY <2>2, AppendProperties DEF Plan
  <2>4. PICK j \in 1 + 1..(Len(todo) + 1) - 1 : Plan[j] \in HeldOuts
    <3>1. 1 \in 1..Len(Plan) /\ Len(todo) + 1 \in 1..Len(Plan) /\ 1 < Len(todo) + 1
          /\ Plan[1] \in Live /\ Plan[Len(todo) + 1] \in {End}
      BY <2>2, <2>3
    <3>. QED  BY <2>1, <3>1 DEF Ordered
  <2>5. j \in 1..Len(todo) /\ todo[j] \in HeldOuts
    BY <2>2, <2>3, <2>4
  <2>. QED  BY <2>5 DEF HeldLive, HeldOuts
<1>3. ending \in BOOLEAN
  BY DEF TypeOK
<1>. QED  BY <1>1, <1>2, <1>3

(* A block is put out.                                                     *)
LEMMA PutBlockLine ==
  ASSUME TypeOK, TypeOK', WriterInv, PlanInv, PlaceInv, LastInv, LineInv, result = "running",
         PutBlock
  PROVE  LineInv'
<1>0. /\ todo # <<>> /\ Head(todo).op \in {"put", "queue"} /\ Head(todo) \in Puts
      /\ Head(todo).blk \in Blocks
      /\ UNCHANGED <<sent, firstOf, stamped, disk, wpc, delayBlk, ending, failed>>
  <2>1. todo # <<>> /\ Head(todo).op \in {"put", "queue"}
    BY DEF PutBlock, At
  <2>2. Head(todo) \in Puts /\ Head(todo).blk \in Blocks
    BY <2>1, PutKinds
  <2>. QED  BY <2>1, <2>2 DEF PutBlock
<1>1. CASE AsyncWriteBlock(Head(todo).blk) /\ (At("queue") \/ ~HeldBack(Head(todo).blk.view))
  <2>1. CASE HasError
    <3>1. todo' = <<>> /\ result' = "failed" /\ queue' = queue /\ held' = held
      BY <1>1, <2>1 DEF AsyncWriteBlock, Throw
    <3>. QED  BY <1>0, <3>1, ThrowLine
  <2>2. CASE ~HasError
    <3>1. Then(<<>>) /\ result' = result /\ held' = held
      BY <1>1, <2>2 DEF AsyncWriteBlock
    <3>2. queue' = Append(queue, Head(todo).blk)
      <4>1. RoomInQueue /\ Len(queue) \in Nat
        BY <1>1, LenProperties DEF AsyncWriteBlock, TypeOK
      <4>2. ~(Len(queue) >= QueueMax)
        BY <4>1, MuxWriterAssumption DEF RoomInQueue
      <4>. QED  BY <1>1, <2>2, <4>2 DEF AsyncWriteBlock
    <3>3. ASSUME Head(todo).op = "put"
          PROVE  PutBlocks("queue") = {} /\ \A y \in Holding : y.view # Head(todo).blk.view
      <4>1. ~HeldBack(Head(todo).blk.view)
        BY <1>1, <3>3 DEF At
      <4>2. \A k \in 1..Len(todo) : todo[k].op # "queue"
        <5>1. OneKind
          BY DEF LastInv
        <5>. QED  BY <1>0, <3>3, <5>1, PutKinds DEF OneKind
      <4>. QED  BY <1>0, <4>1, <4>2, HeldOfOther DEF PutBlocks
    <3>. QED  BY <1>0, <3>1, <3>2, <3>3, QueueLine
  <2>. QED  BY <2>1, <2>2
<1>2. CASE At("put") /\ HeldBack(Head(todo).blk.view) /\ AsyncWriteBuffer(Head(todo).blk)
  <2>1. /\ held' = Append(held, Head(todo).blk) /\ Then(<<>>) /\ UNCHANGED <<queue, result>>
        /\ Head(todo).op = "put"
    BY <1>2 DEF AsyncWriteBuffer, At
  <2>2. HeldLive
    <3>1. Head(todo) \in Live
      BY <1>0, <2>1 DEF Live, Puts
    <3>. QED  BY <1>0, <3>1, HeldStillLive
  <2>. QED  BY <1>0, <2>1, <2>2, HoldBackLine
<1>. QED  BY <1>1, <1>2 DEF PutBlock, AsyncWriteBuffer

(* The blocks held back are to be queued now.                              *)
LEMMA ReleaseLine ==
  ASSUME TypeOK, TypeOK', PlanInv, LineInv, result = "running", UNCHANGED <<failed, result>>,
         UNCHANGED <<sent, firstOf, stamped, disk, queue, wpc, delayBlk>>,
         todo # <<>>, Head(todo) \notin Puts, Then(PutAll("queue", held)),
         HeldLive, held' = <<>> \/ (held' = held /\ ~HeldLive')
  PROVE  LineInv'
<1> DEFINE X == Elems(held)
           steps == PutAll("queue", held)
<1>0. held \in Seq(Blocks) /\ Rising(held)
  BY DEF TypeOK, LineInv, EachRises
<1>1. PICK blocks \in Seq(Blocks) : blocks = held
  BY <1>0
<1>2. /\ steps \in Seq(Steps) /\ Len(steps) = Len(blocks) /\ Then(steps)
      /\ \A k \in 1..Len(steps) : steps[k] \in Puts /\ steps[k].op = "queue" /\ steps[k].blk = blocks[k]
  BY <1>1, PutAllPuts DEF Ops
<1> HIDE DEF steps
<1>3. /\ PutBlocks("put") = {} /\ PutBlocks("queue") = {} /\ PutBlocks("put")' = {}
      /\ PutBlocks("queue")' = X /\ PutsRise'
  <2>1. "put" \in {"put", "queue"} \ {"queue"}
    OBVIOUS
  <2>2. Rising(blocks) /\ X = Elems(blocks)
    BY <1>0, <1>1
  <2> HIDE DEF X
  <2>. QED  BY <1>1, <1>2, <2>1, <2>2, PutsMade
<1>4. Holding = X /\ Holding' = {} /\ Rising(held)'
  <2>1. Elems(held)' = Elems(held') /\ (Rising(held)' <=> Rising(held'))
    BY DEF Elems, Rising
  <2>. QED  BY <1>0, <2>1, ElemsEmpty DEF Holding
<1> HIDE DEF X
<1>5. EachRises'
  BY <1>3, <1>4, StillParts DEF EachRises
<1>6. PICK i \in 1..6 : i = 4
  OBVIOUS
<1>7. PICK j \in 1..6 : j = 3
  OBVIOUS
<1>8. \A k \in 1..6 : k # i /\ k # j => Line'[k] = Line[k]
  <2>1. /\ Landed' = Landed /\ Waiting' = Waiting /\ Delayed' = Delayed
        /\ PutBlocks("put")' = PutBlocks("put")
    BY <1>3, StillParts
  <2>. QED  BY <1>6, <1>7, <2>1, StagesButTwo
<1>9. Line'[j] = Line[j] \cup X /\ Line[i] = Line'[i] \cup X
  BY <1>3, <1>4, <1>6, <1>7, LineIs
<1>10. Below(X, Line'[i])
  BY <1>4, <1>6, LineIs DEF Below
<1>11. \A k \in 1..6 : j < k /\ k < i => Below(X, Line[k])
  BY <1>6, <1>7
<1>12. j < i /\ i # 6 /\ Remembered /\ UNCHANGED <<sent, firstOf>>
  BY <1>6, <1>7 DEF Remembered
<1>13. \A w \in Views : stamped[w] <= stamped'[w]
  BY DEF TypeOK
<1>. QED  BY <1>5, <1>8, <1>9, <1>10, <1>11, <1>12, <1>13, LineMove

(* A unit of a view is over.                                               *)
LEMMA MuxBlockFinishedLine ==
  ASSUME TypeOK, TypeOK', PlanInv, LastInv, LineInv, result = "running", MuxBlockFinished
  PROVE  LineInv'
<1>1. /\ todo # <<>> /\ Head(todo).op = "blockDone" /\ Head(todo) \notin Puts
      /\ UNCHANGED <<sent, firstOf, stamped, disk, queue, wpc, delayBlk, ending, failed, result>>
  BY DEF MuxBlockFinished, At, Puts
<1>2. ~ending
  <2>1. ~Late(Head(todo))
    BY <1>1 DEF Late, EndOps
  <2>. QED  BY <1>1, <2>1, HeadWhen
<1>3. CASE held' = held /\ Then(<<>>)
  <2>1. Head(todo).op # "heldOut" /\ Remembered
    BY <1>1 DEF Remembered
  <2>. QED  BY <1>1, <1>3, <2>1, QuietPop
<1>4. CASE held' = <<>> /\ Then(PutAll("queue", held))
  <2>1. HeldLive
    BY <1>2 DEF HeldLive
  <2>. QED  BY <1>1, <1>4, <2>1, ReleaseLine
<1>. QED  BY <1>3, <1>4 DEF MuxBlockFinished, AfterRelease

(* What is still held back at the end is not held back any more.           *)
LEMMA HeldOutOnce ==
  ASSUME TypeOK, LastInv, result = "running", HeldOut
  PROVE  HeldLive /\ ~HeldLive'
<1>1. /\ todo # <<>> /\ Head(todo).op = "heldOut" /\ ending' = ending /\ Then(PutAll("queue", held))
  BY DEF HeldOut, At
<1>2. ending
  <2>1. ~Early(Head(todo)) /\ ending \in BOOLEAN
    BY <1>1 DEF Early, EndOps, TypeOK
  <2>. QED  BY <1>1, <2>1, HeadWhen
<1>3. HeldLive
  BY <1>1, HeadIsFirst DEF HeldLive
<1>4. ~HeldLive'
  <2>1. ASSUME NEW i \in 1..Len(todo), i # 1, todo[i].op = "heldOut" PROVE FALSE
    <3>1. Ordered(Plan, HeldOuts \cup Closing, {}, HeldOuts)
      BY <1>2 DEF LastInv, OnceRule
    <3>2. todo \in Seq(Steps) /\ Len(todo) \in Nat /\ 1 \in 1..Len(todo) /\ todo[1] = Head(todo)
      BY <1>1, HeadIsFirst, LenProperties DEF TypeOK
    <3>3. /\ Len(Plan) = Len(todo) + 1 /\ \A k \in 1..Len(todo) : Plan[k] = todo[k]
      BY <3>2, AppendProperties DEF Plan
    <3>4. todo[1] \in HeldOuts /\ todo[i] \in HeldOuts
      BY <1>1, <2>1, <3>2, ElementOfSeq DEF HeldOuts
    <3>5. 1 \in 1..Len(Plan) /\ i \in 1..Len(Plan) /\ 1 < i /\ Plan[1] \in HeldOuts /\ Plan[i] \in HeldOuts
      BY <2>1, <3>2, <3>3, <3>4
    <3>. QED  BY <3>1, <3>5 DEF Ordered
  <2> DEFINE steps == PutAll("queue", held)
  <2>2. steps \in Seq(Steps) /\ Then(steps) /\ \A k \in 1..Len(steps) : steps[k].op # "heldOut"
    <3>1. held \in Seq(Blocks)
      BY DEF TypeOK
    <3>2. steps \in Seq(Steps) /\ \A k \in 1..Len(steps) : steps[k] \in Puts
      BY <3>1, PutAllPuts
    <3>. QED  BY <1>1, <3>2 DEF Puts
  <2> HIDE DEF steps
  <2>3. ASSUME NEW k \in 1..Len(todo'), todo'[k].op = "heldOut" PROVE FALSE
    <3>1. k - Len(steps) + 1 \in 2..Len(todo) /\ todo'[k] = todo[k - Len(steps) + 1]
      BY <1>1, <2>2, <2>3, StepsKept
    <3>2. \A m \in 2..Len(todo) : m \in 1..Len(todo) /\ m # 1
      BY <1>1, <2>2, StepsKept
    <3>. QED  BY <2>1, <2>3, <3>1, <3>2
  <2>. QED  BY <1>1, <1>2, <2>3 DEF HeldLive
<1>. QED  BY <1>3, <1>4

(* What is still held back at the end is queued, once.                     *)
LEMMA HeldOutLine ==
  ASSUME TypeOK, TypeOK', PlanInv, LastInv, LineInv, result = "running", HeldOut
  PROVE  LineInv'
<1>1. /\ todo # <<>> /\ Head(todo).op = "heldOut" /\ Head(todo) \notin Puts
      /\ UNCHANGED <<sent, firstOf, stamped, disk, queue, wpc, delayBlk, ending, failed, result, held>>
      /\ Then(PutAll("queue", held))
  BY DEF HeldOut, At, Puts
<1>2. HeldLive /\ ~HeldLive'
  BY HeldOutOnce
<1>. QED  BY <1>1, <1>2, ReleaseLine

-----------------------------------------------------------------------------
(* The ends of parts and of the job *)

(* With the queue empty a TS has nothing on its way.                       *)
LEMMA NothingOnItsWay ==
  ASSUME TypeOK, WriterInv, PlanInv, PlaceInv, result = "running", todo # <<>>,
         Head(todo) \notin Puts, queue = <<>>, ~M2ts
  PROVE  \A k \in 2..6 : Line[k] = {}
<1>1. Waiting = {}
  <2>1. WaitLine = <<>>
    BY DEF WaitLine, WriterInv, IdleMeansIdle
  <2>. QED  BY <2>1, ElemsEmpty DEF Waiting
<1>2. Holding = {}
  <2>1. held = <<>>
    BY MuxWriterAssumption DEF PlaceInv
  <2>. QED  BY <2>1, ElemsEmpty DEF Holding
<1>3. Delayed = {}
  <2>1. \A v \in Views : delayBlk[v] = <<>>
    BY DEF PlaceInv
  <2>. QED  BY <2>1, ElemsEmpty DEF Delayed
<1>4. PutBlocks("put") = {} /\ PutBlocks("queue") = {}
  <2>1. \A k \in 1..Len(todo) : todo[k].op \notin {"put", "queue"}
    BY NoPutsLeft, PutKinds
  <2>. QED  BY <2>1 DEF PutBlocks
<1>5. \A k \in 2..6 : k = 2 \/ k = 3 \/ k = 4 \/ k = 5 \/ k = 6
  OBVIOUS
<1>. QED  BY <1>1, <1>2, <1>3, <1>4, <1>5, LineIs

(* The mux thread itself writes what is left.                              *)
LEMMA LandLine ==
  ASSUME TypeOK, TypeOK', WriterInv, PlanInv, PlaceInv, LineInv, result = "running", Remembered,
         UNCHANGED <<firstOf, stamped, queue, wpc, held, delayBlk, ending>>, queue = <<>>, ~M2ts,
         todo # <<>>, Head(todo) \notin Puts, Head(todo).op # "heldOut", Then(<<>>),
         NEW v \in Views, sent' = [sent EXCEPT ![v] = made[v]],
         disk' = Append(disk, Block(v, made[v]))
  PROVE  LineInv'
<1>1. /\ made \in [Views -> Nat] /\ sent \in [Views -> Nat] /\ sent[v] <= made[v] /\ made[v] \in Nat
      /\ disk \in Seq(Blocks)
  BY DEF TypeOK
<1>2. PICK b \in Blocks : b = Block(v, made[v])
  BY <1>1, BlockType
<1>3. /\ b.view = v /\ b.part = Part(v) /\ b.first = sent[v] + 1 /\ b.last = made[v]
      /\ sent[v] <= b.last /\ sent' = [sent EXCEPT ![v] = b.last]
  BY <1>1, <1>2 DEF Block
<1>4. \A k \in 2..6 : Line[k] = {}
  BY NothingOnItsWay
<1>5. /\ PutBlocks("put") = {} /\ PutBlocks("queue") = {}
      /\ PutBlocks("put")' = {} /\ PutBlocks("queue")' = {} /\ PutsRise'
  BY NoSteps, NoPuts
<1>6. HeldLive' <=> HeldLive
  BY NoSteps, HeldLiveKept
<1>7. Landed' = Landed \cup {b} /\ Rising(disk)'
  <2>1. \A y \in Elems(disk) : Before(y, b)
    <3> SUFFICES ASSUME NEW y \in Elems(disk) PROVE Before(y, b)
      OBVIOUS
    <3>1. Spot(y) /\ y \in Blocks
      <4>1. y \in Line[1] /\ 1 \in 1..6
        BY LineIs DEF Landed
      <4>. QED  BY <4>1, LineType DEF LineInv, Spots
    <3>2. y.last \in Nat /\ sent[v] \in Nat /\ (y.view = v => y.last <= sent[v])
      BY <1>1, <3>1 DEF Blocks, Spot
    <3>. QED  BY <1>3, <3>2 DEF Before
  <2>2. Rising(disk)
    BY DEF LineInv, EachRises
  <2>3. Elems(Append(disk, b)) = Elems(disk) \cup {b} /\ Rising(Append(disk, b))
    BY <1>1, <2>1, <2>2, ElemsAppend
  <2>4. disk' = Append(disk, b)
    BY <1>2
  <2>5. Landed' = Elems(disk') /\ (Rising(disk)' <=> Rising(disk'))
    BY DEF Landed, Elems, Rising
  <2>. QED  BY <2>3, <2>4, <2>5 DEF Landed
<1>8. EachRises'
  BY <1>5, <1>7, StillParts DEF EachRises
<1>9. PICK j \in 1..6 : j = 1
  OBVIOUS
<1>10. \A k \in 1..6 : k # j => Line'[k] = Line[k]
  <2>1. /\ Waiting' = Waiting /\ Holding' = Holding /\ Delayed' = Delayed
        /\ PutBlocks("queue")' = PutBlocks("queue") /\ PutBlocks("put")' = PutBlocks("put")
    BY <1>5, <1>6, StillParts
  <2>. QED  BY <1>9, <2>1, StagesBut
<1>11. /\ Line'[j] = Line[j] \cup {b}
       /\ \A k \in 1..6 : k > j => \A y \in Line[k] : y.view # v
       /\ j # 6 /\ M2ts => b.last <= stamped[v]
  <2>1. \A k \in 1..6 : k > 1 => k \in 2..6
    OBVIOUS
  <2>. QED  BY <1>4, <1>7, <1>9, <2>1, LineIs
<1>12. UNCHANGED <<firstOf, stamped>>
  OBVIOUS
<1>13. /\ sent[v] <= b.last /\ sent' = [sent EXCEPT ![v] = b.last]
       /\ b.view = v /\ b.part = Part(v) /\ b.first = sent[v] + 1
  BY <1>3
<1>. QED  BY <1>8, <1>10, <1>11, <1>12, <1>13, LineNew, Zenon

(* What doFlush left of a TS is appended to the part.                      *)
LEMMA FlushTSBufferLine ==
  ASSUME TypeOK, TypeOK', WriterInv, PlanInv, PlaceInv, LastInv, LineInv, result = "running",
         FlushTSBuffer
  PROVE  LineInv'
<1>1. /\ todo # <<>> /\ Head(todo).op = "tail" /\ Head(todo) \notin Puts
      /\ Head(todo).view \in Views /\ queue = <<>>
      /\ UNCHANGED <<firstOf, stamped, queue, wpc, held, delayBlk, ending, failed>>
  BY HeadOfTodo DEF FlushTSBuffer, At, Puts, WriterIdle
<1>v. PICK v \in Views : v = Head(todo).view
  BY <1>1
<1>2. ~M2ts
  <2>1. ~Late(Head(todo))
    BY <1>1 DEF Late, EndOps
  <2>2. ~ending => Early(Head(todo))
    BY <1>1, HeadWhen
  <2>3. ending \in BOOLEAN
    BY DEF TypeOK
  <2>. QED  BY <1>1, <2>1, <2>2, <2>3, HeadWhen DEF Early
<1>3. CASE todo' = <<>> /\ result' = "failed" /\ UNCHANGED <<sent, disk>>
  BY <1>1, <1>3, ThrowLine
<1>4. CASE /\ Write(Block(v, made[v])) /\ sent' = [sent EXCEPT ![v] = made[v]]
           /\ Then(<<>>) /\ UNCHANGED <<open, result>>
  <2>1. File(v) \in open
    <3>1. Head(todo) \notin Closing
      BY <1>1 DEF Closing
    <3>. QED  BY <1>1, <3>1, FileInUse
  <2>2. disk' = Append(disk, Block(v, made[v]))
    BY <1>4, <2>1, BlockHere DEF Write
  <2>3. Remembered /\ Head(todo).op # "heldOut"
    BY <1>1, <1>4 DEF Remembered
  <2>. QED  BY <1>1, <1>2, <1>4, <2>2, <2>3, LandLine
<1>. QED  BY <1>3, <1>4, <1>v DEF FlushTSBuffer, Throw

(* The next part is begun once all packets have left the muxer.            *)
LEMMA GotoNextFileLine ==
  ASSUME TypeOK, TypeOK', PlanInv, LineInv, result = "running", GotoNextFile
  PROVE  LineInv'
<1>1. /\ todo # <<>> /\ Head(todo).op = "next" /\ Head(todo) \notin Puts
      /\ Head(todo) \in Steps /\ Head(todo).view \in Views
      /\ UNCHANGED <<sent, stamped, disk, queue, wpc, held, delayBlk, ending, failed>>
  BY HeadOfTodo DEF GotoNextFile, At, Puts
<1>v. PICK v \in Views : v = Head(todo).view
  BY <1>1
<1>2. CASE todo' = <<>> /\ result' = "failed" /\ firstOf' = firstOf
  BY <1>1, <1>2, ThrowLine
<1>3. CASE firstOf' = [firstOf EXCEPT ![v] = Append(@, made[v] + 1)] /\ Then(<<>>) /\ result' = result
  <2>1. sent[v] = made[v]
    <3>1. Head(todo) \in Ops("next", v)
      BY <1>1, <1>v DEF Ops
    <3>. QED  BY <1>1, <3>1, HeadExposed DEF PlanInv, CleanRule, Rule, Clean
  <2>2. /\ PutBlocks("put") = {} /\ PutBlocks("queue") = {}
        /\ PutBlocks("put")' = {} /\ PutBlocks("queue")' = {} /\ PutsRise'
    BY <1>1, <1>3, NoSteps, NoPuts
  <2>3. HeldLive' <=> HeldLive
    <3>1. Head(todo).op # "heldOut"
      BY <1>1
    <3>. QED  BY <1>1, <1>3, <3>1, NoSteps, HeldLiveKept
  <2> DEFINE A == Line
  <2>4. \A k \in 1..6 : Line'[k] = A[k]
    BY <1>1, <2>2, <2>3, StillParts, SixStages
  <2>5. EachRises'
    BY <1>1, <2>2, StillParts DEF EachRises
  <2>6. /\ InLine(A) /\ InTime(A) /\ FirstRises /\ \A k \in 1..6 : \A b \in A[k] : Spot(b) /\ b \in Blocks
        /\ ~failed /\ result # "failed" => Covered(A)
    BY LineType DEF LineInv, Spots
  <2> HIDE DEF A
  <2>7. /\ firstOf \in [Views -> Seq(Nat)] /\ made \in [Views -> Nat] /\ sent \in [Views -> Nat]
    BY DEF TypeOK
  <2>8. /\ Part(v) \in Nat /\ Part(v)' = Part(v) + 1 /\ firstOf'[v][Part(v) + 1] = made[v] + 1
        /\ \A p \in 1..Part(v) : firstOf'[v][p] = firstOf[v][p]
        /\ \A w \in Views : w # v => firstOf'[w] = firstOf[w] /\ Part(w)' = Part(w)
    <3>1. firstOf[v] \in Seq(Nat) /\ made[v] + 1 \in Nat
      BY <2>7
    <3>2. firstOf'[v] = Append(firstOf[v], made[v] + 1) /\ \A w \in Views : w # v => firstOf'[w] = firstOf[w]
      BY <1>3, <2>7
    <3>3. /\ Len(Append(firstOf[v], made[v] + 1)) = Len(firstOf[v]) + 1
          /\ Append(firstOf[v], made[v] + 1)[Len(firstOf[v]) + 1] = made[v] + 1
          /\ \A p \in 1..Len(firstOf[v]) : Append(firstOf[v], made[v] + 1)[p] = firstOf[v][p]
          /\ Len(firstOf[v]) \in Nat
      BY <3>1, AppendProperties, LenProperties
    <3>. QED  BY <3>2, <3>3 DEF Part
  <2>9. \A k \in 1..6 : \A b \in A[k] : Spot(b)'
    <3> SUFFICES ASSUME NEW k \in 1..6, NEW b \in A[k] PROVE Spot(b)'
      OBVIOUS
    <3>1. Spot(b) /\ b \in Blocks /\ b.view \in Views
      BY <2>6 DEF Blocks
    <3>2. CASE b.view # v
      <4>1. firstOf'[b.view] = firstOf[b.view] /\ Part(b.view)' = Part(b.view)
        BY <2>8, <3>1, <3>2
      <4>. QED  BY <1>1, <3>1, <4>1 DEF Spot
    <3>3. CASE b.view = v
      <4>1. /\ b.part \in 1..Part(v) /\ firstOf[v][b.part] <= b.first /\ b.first <= b.last + 1
            /\ b.last <= sent[v] /\ (b.part < Part(v) => b.last < firstOf[v][b.part + 1])
        BY <3>1, <3>3 DEF Spot
      <4>2. b.part \in 1..Part(v) + 1 /\ firstOf'[v][b.part] = firstOf[v][b.part]
        BY <2>8, <4>1
      <4>3. b.last < firstOf'[v][b.part + 1]
        <5>1. CASE b.part < Part(v)
          <6>1. b.part + 1 \in 1..Part(v)
            BY <2>8, <4>1, <5>1
          <6>. QED  BY <2>8, <4>1, <5>1, <6>1
        <5>2. CASE ~(b.part < Part(v))
          <6>1. b.part = Part(v) /\ b.last \in Nat /\ made[v] \in Nat
            BY <2>7, <2>8, <3>1, <4>1, <5>2 DEF Blocks
          <6>. QED  BY <2>1, <2>8, <4>1, <6>1
        <5>. QED  BY <5>1, <5>2
      <4>4. Part(b.view)' = Part(v) + 1 /\ sent'[b.view] = sent[v]
        BY <1>1, <2>8, <3>3
      <4>. QED  BY <3>1, <3>3, <4>1, <4>2, <4>3, <4>4 DEF Spot
    <3>. QED  BY <3>2, <3>3
  <2>10. FirstRises'
    <3>1. ASSUME NEW w \in Views
          PROVE  /\ Part(w)' > 0 /\ firstOf'[w][1] = 1 /\ firstOf'[w][Part(w)'] <= sent[w] + 1
                 /\ \A p, q \in 1..Part(w)' : p <= q => firstOf'[w][p] <= firstOf'[w][q]
      <4>1. /\ Part(w) > 0 /\ firstOf[w][1] = 1 /\ firstOf[w][Part(w)] <= sent[w] + 1
            /\ \A p, q \in 1..Part(w) : p <= q => firstOf[w][p] <= firstOf[w][q]
        BY <2>6 DEF FirstRises
      <4>2. CASE w # v
        BY <2>8, <4>1, <4>2
      <4>3. CASE w = v
        <5>1. Part(v)' = Part(v) + 1 /\ 1 \in 1..Part(v) /\ Part(v) \in 1..Part(v) /\ sent[v] \in Nat
          BY <2>7, <2>8, <4>1, <4>3
        <5>2. firstOf'[v][1] = 1 /\ firstOf'[v][Part(v)'] <= sent[v] + 1
          BY <2>1, <2>8, <4>1, <4>3, <5>1
        <5>3. ASSUME NEW p \in 1..Part(v) + 1, NEW q \in 1..Part(v) + 1, p <= q
              PROVE  firstOf'[v][p] <= firstOf'[v][q]
          <6>1. CASE q \in 1..Part(v)
            <7>1. p \in 1..Part(v)
              BY <2>8, <5>3, <6>1
            <7>. QED  BY <2>8, <4>1, <4>3, <5>3, <6>1, <7>1
          <6>2. CASE q = Part(v) + 1 /\ p \in 1..Part(v)
            <7>1. firstOf[v][p] <= firstOf[v][Part(v)]
              BY <2>8, <4>1, <4>3, <5>1, <6>2
            <7>2. firstOf[v][p] \in Nat /\ firstOf[v][Part(v)] \in Nat
              BY <2>7, <5>1, <6>2, ElementOfSeq DEF Part
            <7>3. firstOf'[v][p] = firstOf[v][p] /\ firstOf'[v][q] = made[v] + 1
              BY <2>8, <6>2
            <7>4. firstOf[v][Part(v)] <= made[v] + 1 /\ made[v] \in Nat
              BY <2>1, <2>7, <4>1, <4>3
            <7>. QED  BY <7>1, <7>2, <7>3, <7>4
          <6>3. CASE q = Part(v) + 1 /\ p = Part(v) + 1
            BY <2>7, <2>8, <6>3
          <6>. QED  BY <2>8, <5>3, <6>1, <6>2, <6>3
        <5>4. 1..Part(v)' = 1..Part(v) + 1
          BY <2>8
        <5>. QED  BY <2>8, <4>3, <5>1, <5>2, <5>3, <5>4
      <4>. QED  BY <4>2, <4>3
    <3>. QED  BY <1>1, <3>1 DEF FirstRises
  <2>11. InLine(Line') /\ (M2ts => \A k \in 1..5 : \A b \in Line'[k] : b.last <= stamped'[b.view])
    BY <1>1, <2>4, <2>6 DEF InLine, InTime
  <2>12. ~failed' /\ result' # "failed" =>
           \A w \in Views : \A n \in 1..sent'[w] : \E k \in 1..6 : \E b \in Line'[k] : Covers(b, w, n)
    BY <1>1, <1>3, <2>4, <2>6 DEF Covered
  <2>13. \A k \in 1..6 : \A b \in Line'[k] : Spot(b)'
    BY <2>4, <2>9
  <2>. QED  BY <2>5, <2>10, <2>11, <2>12, <2>13 DEF LineInv, Spots, InTime, Covered
<1>. QED  BY <1>2, <1>3, <1>v DEF GotoNextFile, Throw

(* A part is closed for good.                                              *)
LEMMA CloseMuxerLine ==
  ASSUME TypeOK, TypeOK', WriterInv, PlanInv, PlaceInv, LastInv, LineInv, result = "running",
         CloseMuxer
  PROVE  LineInv'
<1>1. /\ todo # <<>> /\ Head(todo).op = "close" /\ Head(todo) \notin Puts /\ Head(todo) \in Steps
      /\ Head(todo).view \in Views /\ Head(todo).op # "heldOut"
      /\ UNCHANGED <<firstOf, stamped, queue, wpc, held, delayBlk, ending, failed>>
  BY HeadOfTodo DEF CloseMuxer, At, Puts
<1>v. PICK v \in Views : v = Head(todo).view
  BY <1>1
<1>2. Head(todo) \in Closes /\ Head(todo) \in Ops("close", v)
  BY <1>1, <1>v DEF Closes, Ops
<1>3. queue = <<>>
  BY <1>1, <1>2, HeadExposed DEF PlanInv, IdleRule, Rule
<1>4. ending
  <2>1. ~Early(Head(todo)) /\ ending \in BOOLEAN
    BY <1>1 DEF Early, EndOps, TypeOK
  <2>. QED  BY <1>1, <2>1, HeadWhen
<1>5. M2ts => sent[v] = made[v]
  <2>1. Exposed(Plan, Ops("rest", v), Ops("close", v) \cup Verdicts)
    BY <1>1, <1>2, HeadExposed
  <2>. QED  BY <1>1, <1>4, <2>1 DEF LastInv, ShutRule, Clean
<1>6. sent \in [Views -> Nat] /\ made \in [Views -> Nat] /\ sent[v] <= made[v]
  BY DEF TypeOK
<1>7. CASE todo' = <<>> /\ result' = "failed" /\ UNCHANGED <<sent, disk>>
  BY <1>1, <1>7, ThrowLine
<1>8. CASE Then(<<>>) /\ result' = result /\ UNCHANGED <<sent, disk>>
  <2>1. Remembered
    BY <1>1, <1>8 DEF Remembered
  <2>. QED  BY <1>1, <1>8, <2>1, QuietPop
<1>9. CASE /\ sent[v] < made[v] /\ Write(Block(v, made[v])) /\ sent' = [sent EXCEPT ![v] = made[v]]
           /\ Then(<<>>) /\ result' = result
  <2>1. File(v) \in open
    BY <1>1, <1>2, FileInUse
  <2>2. disk' = Append(disk, Block(v, made[v]))
    BY <1>9, <2>1, BlockHere DEF Write
  <2>3. Remembered /\ ~M2ts
    BY <1>1, <1>5, <1>6, <1>9 DEF Remembered
  <2>. QED  BY <1>1, <1>3, <1>9, <2>2, <2>3, LandLine
<1>10. CASE /\ ~(sent[v] < made[v]) /\ disk' = disk /\ sent' = [sent EXCEPT ![v] = made[v]]
            /\ Then(<<>>) /\ result' = result
  <2>1. sent' = sent
    <3>1. sent[v] = made[v]
      BY <1>6, <1>10
    <3>. QED  BY <1>6, <1>10, <3>1
  <2>. QED  BY <1>8, <1>10, <2>1
<1>11. LET tail == sent[v] < made[v] IN
       \/ /\ IF tail THEN Write(Block(v, made[v])) ELSE UNCHANGED diskVars
          /\ sent' = [sent EXCEPT ![v] = made[v]]
          /\ Then(<<>>) /\ UNCHANGED <<closedOk, result>>
       \/ /\ Faulty /\ closedOk' = FALSE /\ Then(<<>>)
          /\ UNCHANGED <<sent, diskVars, result>>
       \/ /\ Faulty /\ tail /\ Throw
          /\ UNCHANGED <<sent, diskVars, closedOk>>
  BY <1>v DEF CloseMuxer
<1>. QED  BY <1>7, <1>8, <1>9, <1>10, <1>11 DEF Throw

(* What is on its way is settled when the verdict is next.                 *)
LEMMA VerdictClean ==
  ASSUME TypeOK, WriterInv, PlanInv, PlaceInv, LastInv, result = "running", Verdict
  PROVE  /\ ending /\ \A k \in 2..6 : Line[k] = {}
         /\ ~HeldLive /\ PutBlocks("put") = {} /\ PutBlocks("queue") = {}
         /\ closedOk => \A v \in Views : sent[v] = made[v]
<1>1. /\ todo # <<>> /\ Head(todo).op = "verdict" /\ Head(todo) \notin Puts /\ Head(todo) \in Steps
      /\ Head(todo) \in Verdicts /\ Head(todo) \in Closing
  BY HeadOfTodo DEF Verdict, At, Puts, Verdicts, Closing
<1>2. ending
  <2>1. ~Early(Head(todo)) /\ ending \in BOOLEAN
    BY <1>1 DEF Early, EndOps, TypeOK
  <2>. QED  BY <1>1, <2>1, HeadWhen
<1>3. queue = <<>>
  BY <1>1, <1>2, HeadExposed DEF LastInv, VerdictRule, Rule
<1>4. closedOk => \A v \in Views : sent[v] = made[v]
  <2>1. \A v \in Views : Exposed(Plan, Ops("close", v), Verdicts)
    BY <1>1, HeadExposed
  <2>. QED  BY <1>1, <1>2, <2>1 DEF LastInv, GoneRule
<1>5. \A v \in Views : delayBlk[v] = <<>>
  <2> SUFFICES ASSUME NEW v \in Views PROVE delayBlk[v] = <<>>
    OBVIOUS
  <2>1. CASE M2ts
    <3>1. Exposed(Plan, Ops("rest", v), Ops("close", v) \cup Verdicts)
      BY <1>1, HeadExposed
    <3>. QED  BY <1>1, <1>2, <2>1, <3>1 DEF LastInv, ShutRule, Clean
  <2>2. CASE ~M2ts
    BY <2>2 DEF PlaceInv
  <2>. QED  BY <2>1, <2>2
<1>6. ~HeldLive
  <2>1. ASSUME NEW i \in 1..Len(todo), todo[i].op = "heldOut" PROVE FALSE
    <3>1. Ordered(Plan, HeldOuts \cup Closing, {}, HeldOuts)
      BY <1>1, <1>2 DEF LastInv, OnceRule
    <3>2. todo \in Seq(Steps) /\ Len(todo) \in Nat /\ 1 \in 1..Len(todo) /\ todo[1] = Head(todo)
      BY <1>1, HeadIsFirst, LenProperties DEF TypeOK
    <3>3. /\ Len(Plan) = Len(todo) + 1 /\ \A k \in 1..Len(todo) : Plan[k] = todo[k]
      BY <3>2, AppendProperties DEF Plan
    <3>4. todo[1] \in Closing /\ todo[i] \in HeldOuts /\ i # 1
      BY <1>1, <2>1, <3>2, ElementOfSeq DEF HeldOuts
    <3>5. 1 \in 1..Len(Plan) /\ i \in 1..Len(Plan) /\ 1 < i
          /\ Plan[1] \in HeldOuts \cup Closing /\ Plan[i] \in HeldOuts
      BY <2>1, <3>2, <3>3, <3>4
    <3>. QED  BY <3>1, <3>5 DEF Ordered
  <2>. QED  BY <1>2, <2>1 DEF HeldLive
<1>7. PutBlocks("put") = {} /\ PutBlocks("queue") = {}
  <2>1. \A k \in 1..Len(todo) : todo[k].op \notin {"put", "queue"}
    BY <1>1, NoPutsLeft, PutKinds
  <2>. QED  BY <2>1 DEF PutBlocks
<1>8. \A k \in 2..6 : Line[k] = {}
  <2>1. Waiting = {}
    <3>1. WaitLine = <<>>
      BY <1>3 DEF WaitLine, WriterInv, IdleMeansIdle
    <3>. QED  BY <3>1, ElemsEmpty DEF Waiting
  <2>2. Holding = {}
    BY <1>6 DEF Holding
  <2>3. Delayed = {}
    BY <1>5, ElemsEmpty DEF Delayed
  <2>4. \A k \in 2..6 : k = 2 \/ k = 3 \/ k = 4 \/ k = 5 \/ k = 6
    OBVIOUS
  <2>. QED  BY <1>7, <2>1, <2>2, <2>3, <2>4, LineIs
<1>. QED  BY <1>2, <1>4, <1>6, <1>7, <1>8

(* The job is over.                                                        *)
LEMMA VerdictLine ==
  ASSUME TypeOK, TypeOK', WriterInv, PlanInv, PlaceInv, LastInv, LineInv, result = "running",
         Verdict
  PROVE  LineInv'
<1>1. /\ todo' = <<>> /\ UNCHANGED <<sent, firstOf, stamped, disk, queue, wpc, held, delayBlk, ending>>
      /\ UNCHANGED failed
  BY DEF Verdict
<1>2. Len(todo') = 0 /\ \A k \in 1..0 : FALSE
  BY <1>1
<1>3. PutBlocks("put")' = {} /\ PutBlocks("queue")' = {} /\ PutsRise'
  BY <1>2 DEF PutBlocks, PutsRise
<1>4. PutBlocks("put") = {} /\ PutBlocks("queue") = {} /\ ~HeldLive /\ ending
  BY VerdictClean
<1>5. ~HeldLive'
  BY <1>1, <1>2, <1>4 DEF HeldLive
<1>6. Remembered
  BY <1>1 DEF Remembered
<1>. QED  BY <1>1, <1>3, <1>4, <1>5, <1>6, QuietLine

-----------------------------------------------------------------------------
(* The writer and its destructor *)

\* What the writer leaves to the mux thread
MuxKept == UNCHANGED <<sent, firstOf, stamped, held, delayBlk, todo, ending>>

(* The writer moves no block that has not been queued.                     *)
LEMMA MuxStages ==
  ASSUME TypeOK, LineInv, MuxKept
  PROVE  /\ PutBlocks("put")' = PutBlocks("put") /\ PutBlocks("queue")' = PutBlocks("queue")
         /\ Holding' = Holding /\ Delayed' = Delayed /\ PutsRise' /\ Rising(held)'
         /\ (\A v \in Views : Rising(delayBlk[v]))'
         /\ \A v \in Views : stamped[v] <= stamped'[v]
<1> USE DEF MuxKept
<1>1. PutBlocks("put")' = PutBlocks("put") /\ PutBlocks("queue")' = PutBlocks("queue")
  BY DEF PutBlocks
<1>2. HeldLive' <=> HeldLive
  BY DEF HeldLive
<1>3. PutsRise'
  <2>1. PutsRise
    BY DEF LineInv, EachRises
  <2>. QED  BY <2>1, PutKinds DEF PutsRise
<1>4. \A v \in Views : stamped[v] <= stamped'[v]
  BY DEF TypeOK
<1>. QED  BY <1>1, <1>2, <1>3, <1>4, StillParts

(* The queue is as it was, but for the block the writer has done.          *)
LEMMA WaitLineSame ==
  ASSUME TypeOK, TypeOK', LineInv, MuxKept, Remembered, disk' = disk, WaitLine' = WaitLine
  PROVE  LineInv'
<1>1. Waiting' = Waiting /\ Rising(WaitLine)'
  <2>1. Rising(WaitLine)
    BY DEF LineInv, EachRises
  <2>2. (Rising(WaitLine)' <=> Rising(WaitLine')) /\ Waiting' = Elems(WaitLine') \ {Sentinel}
    BY DEF Rising, Waiting, Elems, Sentinel
  <2>3. Rising(WaitLine') /\ Elems(WaitLine') = Elems(WaitLine)
    BY <2>1
  <2>. QED  BY <2>2, <2>3 DEF Waiting
<1>2. EachRises'
  BY <1>1, MuxStages, StillParts DEF EachRises
<1>3. \A k \in 1..6 : Line'[k] = Line[k]
  <2>1. /\ Landed' = Landed /\ Holding' = Holding /\ Delayed' = Delayed
        /\ PutBlocks("put")' = PutBlocks("put") /\ PutBlocks("queue")' = PutBlocks("queue")
    BY MuxStages, StillParts
  <2>. QED  BY <1>1, <2>1, SixStages
<1>4. UNCHANGED <<sent, firstOf, stamped>>
  BY DEF MuxKept
<1>. QED  BY <1>2, <1>3, <1>4, LineSame

(* The first block of the queue is done with.                              *)
LEMMA FirstOfQueue ==
  ASSUME TypeOK, LineInv, queue # <<>>, WaitLine = queue, WaitLine' = Tail(queue)
  PROVE  /\ Waiting = Waiting' \cup ({Head(queue)} \ {Sentinel}) /\ Rising(WaitLine)'
         /\ \A y \in Waiting' : Before(Head(queue), y)
         /\ Head(queue) \in Blocks \cup {Sentinel}
<1>1. queue \in Seq(Blocks \cup {Sentinel}) /\ Rising(queue)
  BY DEF TypeOK, LineInv, EachRises
<1>2. /\ Elems(queue) = {Head(queue)} \cup Elems(Tail(queue)) /\ Head(queue) \in Blocks \cup {Sentinel}
      /\ Rising(Tail(queue)) /\ \A y \in Elems(Tail(queue)) : Before(Head(queue), y)
  BY <1>1, ElemsTail
<1>3. (Rising(WaitLine)' <=> Rising(WaitLine')) /\ Waiting' = Elems(WaitLine') \ {Sentinel}
  BY DEF Rising, Waiting, Elems, Sentinel
<1>4. Rising(WaitLine') /\ Elems(WaitLine') = Elems(Tail(queue)) /\ Elems(WaitLine) = Elems(queue)
  BY <1>2
<1>. QED  BY <1>2, <1>3, <1>4 DEF Waiting

(* It is written.                                                          *)
LEMMA WrittenLine ==
  ASSUME TypeOK, TypeOK', LineInv, MuxKept, Remembered, queue # <<>>,
         WaitLine = queue, WaitLine' = Tail(queue),
         disk' = IF Head(queue) = Sentinel THEN disk ELSE Append(disk, Head(queue))
  PROVE  LineInv'
<1>1. PICK b \in Blocks \cup {Sentinel} : b = Head(queue)
  BY FirstOfQueue
<1> DEFINE X == {b} \ {Sentinel}
<1>2. Waiting = Waiting' \cup X /\ Rising(WaitLine)' /\ \A y \in Waiting' : Before(b, y)
  BY <1>1, FirstOfQueue
<1>3. Landed' = Landed \cup X /\ Rising(disk)'
  <2>1. disk \in Seq(Blocks) /\ Rising(disk)
    BY DEF TypeOK, LineInv, EachRises
  <2>2. (Rising(disk)' <=> Rising(disk')) /\ Landed' = Elems(disk')
    BY DEF Rising, Landed, Elems
  <2>3. CASE b = Sentinel
    <3>1. disk' = disk /\ X = {}
      BY <1>1, <2>3
    <3>. QED  BY <2>1, <2>2, <3>1 DEF Landed
  <2>4. CASE b # Sentinel
    <3>1. disk' = Append(disk, b) /\ X = {b} /\ b \in Blocks
      BY <1>1, <2>4
    <3>2. \A y \in Elems(disk) : Before(y, b)
      <4>1. b \in Line[2] /\ Elems(disk) = Line[1] /\ 1 \in 1..6 /\ 2 \in 1..6
        BY <1>2, <3>1, LineIs DEF Landed
      <4>2. \A y \in Line[1] : Before(y, b)
        BY <4>1, JoinsRising
      <4>. QED  BY <4>1, <4>2
    <3>3. Elems(Append(disk, b)) = Elems(disk) \cup {b} /\ Rising(Append(disk, b))
      BY <2>1, <3>1, <3>2, ElemsAppend
    <3>. QED  BY <2>2, <3>1, <3>3 DEF Landed
  <2>. QED  BY <2>3, <2>4
<1>4. Below(X, Waiting')
  BY <1>2 DEF Below
<1> HIDE DEF X
<1>5. EachRises'
  BY <1>2, <1>3, MuxStages DEF EachRises
<1>6. PICK i \in 1..6 : i = 2
  OBVIOUS
<1>7. PICK j \in 1..6 : j = 1
  OBVIOUS
<1>8. \A k \in 1..6 : k # i /\ k # j => Line'[k] = Line[k]
  BY <1>6, <1>7, MuxStages, StagesButTwo
<1>9. Line'[j] = Line[j] \cup X /\ Line[i] = Line'[i] \cup X
  BY <1>2, <1>3, <1>6, <1>7, LineIs
<1>10. Below(X, Line'[i]) /\ \A k \in 1..6 : j < k /\ k < i => Below(X, Line[k])
  BY <1>4, <1>6, <1>7, LineIs
<1>11. j < i /\ i # 6 /\ UNCHANGED <<sent, firstOf>>
  BY <1>6, <1>7 DEF MuxKept
<1>. QED  BY <1>5, <1>8, <1>9, <1>10, <1>11, MuxStages, LineMove

(* It could not be written.                                                *)
LEMMA DroppedLine ==
  ASSUME TypeOK, LineInv, MuxKept, queue # <<>>, failed' \/ result' = "failed",
         WaitLine = queue, WaitLine' = Tail(queue), disk' = disk
  PROVE  LineInv'
<1>1. Waiting' \subseteq Waiting /\ Rising(WaitLine)'
  BY FirstOfQueue
<1>2. /\ Landed' = Landed /\ Holding' = Holding /\ Delayed' = Delayed /\ Rising(disk)'
      /\ PutBlocks("put")' = PutBlocks("put") /\ PutBlocks("queue")' = PutBlocks("queue")
  BY MuxStages, StillParts
<1>3. EachRises'
  BY <1>1, <1>2, MuxStages DEF EachRises
<1>4. \A k \in 1..6 : k = 1 \/ k = 2 \/ k = 3 \/ k = 4 \/ k = 5 \/ k = 6
  OBVIOUS
<1>5. \A k \in 1..6 : Line'[k] \subseteq Line[k]
  BY <1>1, <1>2, <1>4, LineIs
<1>6. UNCHANGED <<sent, firstOf, stamped>>
  BY DEF MuxKept
<1>. QED  BY <1>3, <1>5, <1>6, LineLess

(* A block that is executed goes to the file that is open for it.          *)
LEMMA ExecutedDisk ==
  ASSUME TypeOK, PlaceInv, queue # <<>>, Execute(Head(queue))
  PROVE  disk' = IF Head(queue) = Sentinel THEN disk ELSE Append(disk, Head(queue))
<1>1. queue \in Seq(Blocks \cup {Sentinel}) /\ Len(queue) \in Nat
  BY LenProperties DEF TypeOK
<1>2. 1 \in 1..Len(queue) /\ queue[1] = Head(queue)
  BY <1>1
<1>3. Head(queue) # Sentinel => <<Head(queue).view, Head(queue).part>> \in open
  BY <1>2 DEF PlaceInv
<1>. QED  BY <1>3 DEF Execute, Write

(* The sentinel is queued when the job is over.                            *)
LEMMA SentinelWaits ==
  ASSUME TypeOK, TypeOK', WriterInv, LineInv, wpc' = wpc, queue' = Append(queue, Sentinel)
  PROVE  Waiting' = Waiting /\ Rising(WaitLine)'
<1>1. WaitLine' = Append(WaitLine, Sentinel) /\ WaitLine \in Seq(Blocks \cup {Sentinel})
  BY Queueing
<1>2. Rising(WaitLine) /\ \A y \in Elems(WaitLine) : Before(y, Sentinel)
  BY SentinelNoBlock DEF LineInv, EachRises
<1>3. /\ Elems(Append(WaitLine, Sentinel)) = Elems(WaitLine) \cup {Sentinel}
      /\ Rising(Append(WaitLine, Sentinel))
  <2>1. Sentinel \in Blocks \cup {Sentinel}
    OBVIOUS
  <2>. QED  BY <1>1, <1>2, <2>1, ElemsAppend
<1>4. (Rising(WaitLine)' <=> Rising(WaitLine')) /\ Waiting' = Elems(WaitLine') \ {Sentinel}
  BY DEF Rising, Waiting, Elems, Sentinel
<1>5. Elems(WaitLine') = Elems(WaitLine) \cup {Sentinel} /\ Rising(WaitLine')
  BY <1>1, <1>3
<1>. QED  BY <1>4, <1>5 DEF Waiting

(* It is not a block.                                                      *)
LEMMA SentinelLine ==
  ASSUME TypeOK, TypeOK', WriterInv, LineInv, MuxKept, Remembered, wpc' = wpc, disk' = disk,
         queue' = Append(queue, Sentinel)
  PROVE  LineInv'
<1>1. Waiting' = Waiting /\ Rising(WaitLine)'
  BY SentinelWaits
<1>2. EachRises'
  BY <1>1, MuxStages, StillParts DEF EachRises
<1>3. \A k \in 1..6 : Line'[k] = Line[k]
  <2>1. /\ Landed' = Landed /\ Holding' = Holding /\ Delayed' = Delayed
        /\ PutBlocks("put")' = PutBlocks("put") /\ PutBlocks("queue")' = PutBlocks("queue")
    BY MuxStages, StillParts
  <2>. QED  BY <1>1, <2>1, SixStages
<1>4. UNCHANGED <<sent, firstOf, stamped>>
  BY DEF MuxKept
<1>. QED  BY <1>2, <1>3, <1>4, LineSame

(* The writer's thread and its destructor keep the line.                   *)
LEMMA WriterLine ==
  ASSUME TypeOK, TypeOK', WriterInv, PlaceInv, LineInv, EndInv, WriterThread \/ TearDown
  PROVE  LineInv'
<1>1. MuxKept /\ result' = result
  BY DEF WriterThread, WriterTest, WriterPeek, WriterExecute, WriterPop, TearDown, Terminate,
     PushSentinel, Join, Drain, DestroyMuxers, MuxKept
<1>2. CASE WriterTest \/ WriterPeek \/ Terminate \/ Join \/ DestroyMuxers
  <2>1. disk' = disk /\ failed' = failed /\ queue' = queue
    BY <1>2 DEF WriterTest, WriterPeek, Terminate, Join, DestroyMuxers
  <2>2. wpc' = wpc \/ (wpc # "pop" /\ wpc' # "pop")
    BY <1>2 DEF WriterTest, WriterPeek, Terminate, Join, DestroyMuxers
  <2>3. WaitLine' = WaitLine /\ Remembered
    BY <1>1, <2>1, <2>2 DEF WaitLine, Remembered
  <2>. QED  BY <1>1, <2>1, <2>3, WaitLineSame
<1>3. CASE WriterExecute
  <2>1. wpc = "exec" /\ wpc' = "pop" /\ queue' = queue /\ queue # <<>>
    BY <1>3 DEF WriterExecute, AfterExecute, WriterInv, IdleMeansIdle
  <2>2. WaitLine = queue /\ WaitLine' = Tail(queue)
    BY <2>1 DEF WaitLine
  <2>3. CASE ~failed /\ Execute(Head(queue)) /\ failed' = failed
    <3>1. Remembered
      BY <1>1, <2>3 DEF Remembered
    <3>. QED  BY <1>1, <2>1, <2>2, <2>3, <3>1, ExecutedDisk, WrittenLine
  <2>4. CASE failed' = TRUE /\ disk' = disk
    BY <1>1, <2>1, <2>2, <2>4, DroppedLine
  <2>5. CASE failed /\ failed' = failed /\ disk' = disk
    BY <1>1, <2>1, <2>2, <2>5, DroppedLine
  <2>. QED  BY <1>3, <2>3, <2>4, <2>5 DEF WriterExecute
<1>4. CASE WriterPop
  <2>1. WaitLine' = WaitLine /\ disk' = disk /\ Remembered
    BY <1>1, <1>4 DEF WriterPop, WaitLine, Remembered
  <2>. QED  BY <1>1, <2>1, WaitLineSame
<1>5. CASE PushSentinel
  <2>1. wpc' = wpc /\ disk' = disk /\ Remembered
    BY <1>1, <1>5 DEF PushSentinel, Remembered
  <2>2. CASE queue' = queue
    <3>1. WaitLine' = WaitLine
      BY <2>1, <2>2 DEF WaitLine
    <3>. QED  BY <1>1, <2>1, <3>1, WaitLineSame
  <2>3. CASE queue' = Append(queue, Sentinel)
    BY <1>1, <2>1, <2>3, SentinelLine
  <2>. QED  BY <1>5, <2>2, <2>3 DEF PushSentinel
<1>6. CASE Drain
  <2>1. /\ td = "drain" /\ queue # <<>> /\ queue' = Tail(queue) /\ wpc' = wpc /\ failed' = failed
        /\ Execute(Head(queue)) \/ disk' = disk
    BY <1>6 DEF Drain
  <2>2. WaitLine = queue /\ WaitLine' = Tail(queue) /\ result # "running"
    BY <2>1 DEF WriterInv, DrainAfterThread, TearDownAfterJob, WaitLine
  <2>3. Remembered
    BY <1>1, <2>1 DEF Remembered
  <2>4. CASE Execute(Head(queue))
    BY <1>1, <2>1, <2>2, <2>3, <2>4, ExecutedDisk, WrittenLine
  <2>5. CASE disk' = disk /\ result = "failed"
    BY <1>1, <2>1, <2>2, <2>5, DroppedLine
  <2>6. CASE disk' = disk /\ result # "failed"
    <3>1. Line[2] = {}
      <4>1. result = "ok" /\ 2 \in 2..6
        BY <2>2, <2>6 DEF TypeOK
      <4>. QED  BY <4>1 DEF EndInv
    <3>2. Head(queue) = Sentinel
      BY <2>1, <2>2, <3>1, FirstOfQueue, LineIs
    <3>. QED  BY <1>1, <2>1, <2>2, <2>3, <2>6, <3>2, WrittenLine
  <2>. QED  BY <2>1, <2>4, <2>5, <2>6
<1>. QED  BY <1>2, <1>3, <1>4, <1>5, <1>6 DEF WriterThread, TearDown

-----------------------------------------------------------------------------
(* The line is kept *)

(* At the start the line is empty.                                         *)
LEMMA InitLine == Init => LineInv /\ WholeInv /\ EndInv
<1> SUFFICES ASSUME Init PROVE LineInv /\ WholeInv /\ EndInv
  OBVIOUS
<1>1. /\ todo = <<>> /\ held = <<>> /\ queue = <<>> /\ disk = <<>> /\ wpc = "test"
      /\ result = "running" /\ \A v \in Views : delayBlk[v] = <<>> /\ sent[v] = 0
      /\ \A v \in Views : firstOf[v] = <<1>>
  BY DEF Init
<1>2. \A v \in Views : Part(v) = 1 /\ firstOf[v][1] = 1
  <2>1. Len(<<1>>) = 1 /\ <<1>>[1] = 1
    OBVIOUS
  <2>. QED  BY <1>1, <2>1 DEF Part
<1>3. WaitLine = <<>> /\ Elems(<<>>) = {}
  BY <1>1, ElemsEmpty DEF WaitLine
<1>4. PutBlocks("put") = {} /\ PutBlocks("queue") = {} /\ PutsRise
  BY <1>1, NothingToDo
<1>5. Landed = {} /\ Waiting = {} /\ Holding = {} /\ Delayed = {}
  BY <1>1, <1>3 DEF Landed, Waiting, Holding, Delayed
<1>6. \A k \in 1..6 : Line[k] = {}
  <2>1. \A k \in 1..6 : k = 1 \/ k = 2 \/ k = 3 \/ k = 4 \/ k = 5 \/ k = 6
    OBVIOUS
  <2>. QED  BY <1>4, <1>5, <2>1, LineIs
<1>7. Rising(<<>>)
  <2>1. Len(<<>>) = 0 /\ \A i \in 1..0 : FALSE
    OBVIOUS
  <2>. QED  BY <2>1 DEF Rising
<1>8. EachRises
  BY <1>1, <1>3, <1>4, <1>7 DEF EachRises
<1>9. FirstRises
  <2>1. \A p \in 1..1 : p = 1
    OBVIOUS
  <2>. QED  BY <1>1, <1>2, <2>1 DEF FirstRises
<1>10. InLine(Line) /\ Spots(Line) /\ InTime(Line)
  BY <1>6 DEF InLine, Below, Spots, InTime
<1>11. Covered(Line) /\ WholeInv
  <2>1. \A n \in 1..0 : FALSE
    OBVIOUS
  <2>2. \A v \in Views : firstOf[v][Part(v)] - 1 = 0
    BY <1>2
  <2>. QED  BY <1>1, <2>1, <2>2 DEF Covered, WholeInv
<1>. QED  BY <1>1, <1>8, <1>9, <1>10, <1>11 DEF LineInv, EndInv

(* Every step keeps the line.                                              *)
LEMMA NextLine ==
  ASSUME TypeOK, TypeOK', WriterInv, PlanInv, PlaceInv, LastInv, LineInv, EndInv, [Next]_vars
  PROVE  LineInv'
<1>1. CASE WriterThread \/ TearDown
  BY <1>1, WriterLine
<1>2. CASE UNCHANGED vars
  <2>1. MuxKept /\ disk' = disk /\ UNCHANGED <<queue, wpc, failed, result>>
    BY <1>2 DEF vars, MuxKept
  <2>2. WaitLine' = WaitLine /\ Remembered
    BY <2>1 DEF WaitLine, Remembered
  <2>. QED  BY <2>1, <2>2, WaitLineSame
<1>3. ASSUME (\E v \in Views : MuxPacket(v)) \/ Stop \/ EndOfSources PROVE LineInv'
  BY <1>3, CallsLine
<1>4. CASE MuxStep
  <2>1. result = "running"
    BY <1>4 DEF WriterInv, JobOver, MuxStep, At, SwitchBlock, AddPacket, Stamp, FlushRest, PutBlock,
       FinishFileBlock, MuxBlockFinished, FlushTSBuffer, GotoNextFile, HeldOut, WaitForWriting,
       CloseMuxer, Verdict
  <2>. QED  BY <1>4, <2>1, SwitchLine, AddPacketLine, StampLine, FlushRestLine, PutBlockLine,
            MuxBlockFinishedLine, FlushTSBufferLine, GotoNextFileLine, HeldOutLine,
            CloseMuxerLine, VerdictLine DEF MuxStep
<1>. QED  BY <1>1, <1>2, <1>3, <1>4 DEF Next, AllDone

(* The writer adds no block to the queue, and only fails with one.         *)
LEMMA WriterWaits ==
  ASSUME TypeOK, TypeOK', WriterInv, LineInv, WriterThread \/ TearDown
  PROVE  /\ MuxKept /\ UNCHANGED <<result, made, firstOf>> /\ Waiting' \subseteq Waiting
         /\ failed' = failed \/ \E b : b \in Waiting
<1>1. MuxKept /\ UNCHANGED <<result, made, firstOf>>
  BY DEF WriterThread, WriterTest, WriterPeek, WriterExecute, WriterPop, TearDown, Terminate,
     PushSentinel, Join, Drain, DestroyMuxers, MuxKept
<1>2. WaitLine' = WaitLine => Waiting' = Waiting
  BY DEF Waiting, Elems, Sentinel
<1>3. CASE WriterTest \/ WriterPeek \/ Terminate \/ Join \/ DestroyMuxers
  <2>1. failed' = failed /\ queue' = queue /\ (wpc' = wpc \/ (wpc # "pop" /\ wpc' # "pop"))
    BY <1>3 DEF WriterTest, WriterPeek, Terminate, Join, DestroyMuxers
  <2>2. WaitLine' = WaitLine
    BY <2>1 DEF WaitLine
  <2>. QED  BY <1>1, <1>2, <2>1, <2>2
<1>4. CASE WriterExecute
  <2>1. wpc = "exec" /\ wpc' = "pop" /\ queue' = queue /\ queue # <<>>
    BY <1>4 DEF WriterExecute, AfterExecute, WriterInv, IdleMeansIdle
  <2>2. WaitLine = queue /\ WaitLine' = Tail(queue)
    BY <2>1 DEF WaitLine
  <2>3. Waiting = Waiting' \cup ({Head(queue)} \ {Sentinel})
    BY <2>1, <2>2, FirstOfQueue
  <2>4. failed' = failed \/ Head(queue) # Sentinel
    BY <1>4 DEF WriterExecute
  <2>. QED  BY <1>1, <2>3, <2>4
<1>5. CASE WriterPop
  <2>1. WaitLine' = WaitLine /\ failed' = failed
    BY <1>5 DEF WriterPop, WaitLine
  <2>. QED  BY <1>1, <1>2, <2>1
<1>6. CASE PushSentinel
  <2>1. wpc' = wpc /\ failed' = failed
    BY <1>6 DEF PushSentinel
  <2>2. CASE queue' = queue
    <3>1. WaitLine' = WaitLine
      BY <2>1, <2>2 DEF WaitLine
    <3>. QED  BY <1>1, <1>2, <2>1, <3>1
  <2>3. CASE queue' = Append(queue, Sentinel)
    BY <1>1, <2>1, <2>3, SentinelWaits
  <2>. QED  BY <1>6, <2>2, <2>3 DEF PushSentinel
<1>7. CASE Drain
  <2>1. td = "drain" /\ queue # <<>> /\ queue' = Tail(queue) /\ wpc' = wpc /\ failed' = failed
    BY <1>7 DEF Drain
  <2>2. WaitLine = queue /\ WaitLine' = Tail(queue)
    BY <2>1 DEF WriterInv, DrainAfterThread, WaitLine
  <2>. QED  BY <1>1, <2>1, <2>2, FirstOfQueue
<1>. QED  BY <1>3, <1>4, <1>5, <1>6, <1>7 DEF WriterThread, TearDown

(* A job that ended well keeps all it has written.                         *)
LEMMA NextEnd ==
  ASSUME TypeOK, TypeOK', WriterInv, PlanInv, PlaceInv, LastInv, LineInv, EndInv, [Next]_vars
  PROVE  EndInv'
<1> SUFFICES ASSUME result' = "ok"
             PROVE  /\ ending' /\ ~failed' /\ \A v \in Views : sent'[v] = made'[v]
                    /\ \A k \in 2..6 : Line'[k] = {}
  BY DEF EndInv
<1>5. \A k \in 2..6 : k = 2 \/ k = 3 \/ k = 4 \/ k = 5 \/ k = 6
  OBVIOUS
<1>1. CASE result = "running" /\ ~Verdict
  <2>1. FALSE
    BY <1>1 DEF Next, vars, WriterInv, TearDownAfterJob, MuxPacket, Stop, EndOfSources, MuxStep, At,
       SwitchBlock, AddPacket, Stamp, FlushRest, PutBlock, FinishFileBlock, MuxBlockFinished,
       FlushTSBuffer, GotoNextFile, HeldOut, WaitForWriting, CloseMuxer, WriterThread,
       WriterTest, WriterPeek, WriterExecute, WriterPop, TearDown, Terminate, PushSentinel,
       Join, Drain, DestroyMuxers, AllDone, AsyncWriteBlock, AsyncWriteBuffer, Throw
  <2>. QED  BY <2>1
<1>2. CASE result = "running" /\ Verdict
  <2>1. /\ todo' = <<>> /\ UNCHANGED <<sent, made, queue, wpc, held, delayBlk, ending, failed>>
        /\ closedOk /\ ~failed
    BY <1>2 DEF Verdict, HasError
  <2>2. /\ ending /\ ~HeldLive /\ \A k \in 2..6 : Line[k] = {}
        /\ \A v \in Views : sent[v] = made[v]
    BY <1>2, <2>1, VerdictClean
  <2>3. Len(todo') = 0 /\ \A k \in 1..0 : FALSE
    BY <2>1
  <2>4. PutBlocks("put")' = {} /\ PutBlocks("queue")' = {}
    BY <2>3 DEF PutBlocks
  <2>5. ~HeldLive'
    BY <2>1, <2>2, <2>3 DEF HeldLive
  <2>6. Waiting' = Waiting /\ Holding' = {} /\ Delayed' = Delayed
    BY <2>1, <2>5, StillParts DEF Holding
  <2>7. 2 \in 2..6 /\ 6 \in 2..6
    OBVIOUS
  <2>8. Waiting = {} /\ Delayed = {}
    BY <2>2, <2>7, LineIs
  <2>. QED  BY <1>5, <2>1, <2>2, <2>4, <2>6, <2>8, LineIs
<1>3. CASE result # "running" /\ (WriterThread \/ TearDown)
  <2>1. /\ MuxKept /\ UNCHANGED <<result, made, firstOf>> /\ Waiting' \subseteq Waiting
        /\ failed' = failed \/ \E b : b \in Waiting
    BY <1>3, WriterWaits
  <2>2. ending /\ ~failed /\ (\A v \in Views : sent[v] = made[v]) /\ \A k \in 2..6 : Line[k] = {}
    BY <2>1 DEF EndInv
  <2>3. ending' /\ \A v \in Views : sent'[v] = made'[v]
    BY <2>1, <2>2 DEF MuxKept
  <2>4. /\ PutBlocks("put")' = PutBlocks("put") /\ PutBlocks("queue")' = PutBlocks("queue")
        /\ Holding' = Holding /\ Delayed' = Delayed
    BY <2>1, MuxStages
  <2>5. Waiting = {}
    <3>1. 2 \in 2..6
      OBVIOUS
    <3>. QED  BY <2>2, <3>1, LineIs
  <2>6. \A k \in 2..6 : Line'[k] = {}
    BY <1>5, <2>1, <2>2, <2>4, <2>5, LineIs
  <2>. QED  BY <2>1, <2>2, <2>3, <2>5, <2>6
<1>4. CASE result # "running" /\ ~(WriterThread \/ TearDown)
  <2>1. UNCHANGED vars
    BY <1>4 DEF Next, WriterInv, JobOver, MuxPacket, Stop, EndOfSources, MuxStep, At,
       SwitchBlock, AddPacket, Stamp, FlushRest, PutBlock, FinishFileBlock, MuxBlockFinished,
       FlushTSBuffer, GotoNextFile, HeldOut, WaitForWriting, CloseMuxer, Verdict, AllDone
  <2>2. /\ MuxKept /\ UNCHANGED <<result, failed, made, queue, wpc>>
    BY <2>1 DEF vars, MuxKept
  <2>3. ending /\ ~failed /\ (\A v \in Views : sent[v] = made[v]) /\ \A k \in 2..6 : Line[k] = {}
    BY <2>2 DEF EndInv
  <2>4. /\ PutBlocks("put")' = PutBlocks("put") /\ PutBlocks("queue")' = PutBlocks("queue")
        /\ Holding' = Holding /\ Delayed' = Delayed /\ Waiting' = Waiting
    BY <2>2, MuxStages, StillParts
  <2>5. \A k \in 2..6 : Line'[k] = {}
    BY <1>5, <2>3, <2>4, LineIs
  <2>. QED  BY <2>2, <2>3, <2>5 DEF MuxKept
<1>. QED  BY <1>1, <1>2, <1>3, <1>4

-----------------------------------------------------------------------------
(* What is on the disk *)

(* Nothing that was written is taken back.                                 *)
LEMMA DiskGrows ==
  ASSUME TypeOK, WriterInv, [Next]_vars
  PROVE  /\ Elems(disk) \subseteq Elems(disk')
         /\ ~failed' => ~failed
<1>1. \A v \in Views : Block(v, made[v]) \in Blocks
  BY BlockType DEF TypeOK
<1>2. queue # <<>> => Head(queue) \in Blocks \cup {Sentinel}
  <2>1. queue \in Seq(Blocks \cup {Sentinel})
    BY DEF TypeOK
  <2>. QED  BY <2>1, ElemsTail
<1>3. disk' = disk \/ \E b \in Blocks : disk' = Append(disk, b)
  <2>1. ASSUME NEW b \in Blocks, Write(b) PROVE disk' = disk \/ disk' = Append(disk, b)
    BY <2>1 DEF Write
  <2>2. ASSUME queue # <<>>, Execute(Head(queue))
        PROVE  disk' = disk \/ \E b \in Blocks : disk' = Append(disk, b)
    BY <1>2, <2>1, <2>2 DEF Execute
  <2>3. CASE FlushTSBuffer \/ CloseMuxer
    <3>1. Head(todo).view \in Views
      BY <2>3, HeadOfTodo DEF FlushTSBuffer, CloseMuxer, At
    <3>2. PICK b \in Blocks : b = Block(Head(todo).view, made[Head(todo).view])
      BY <1>1, <3>1
    <3>3. disk' = disk \/ Write(b)
      BY <2>3, <3>2 DEF FlushTSBuffer, CloseMuxer
    <3>. QED  BY <2>1, <3>3
  <2>4. CASE WriterExecute \/ Drain
    <3>1. queue # <<>> /\ (disk' = disk \/ Execute(Head(queue)))
      BY <2>4 DEF WriterExecute, Drain, WriterInv, IdleMeansIdle
    <3>. QED  BY <2>2, <3>1
  <2>5. CASE ~(FlushTSBuffer \/ CloseMuxer \/ WriterExecute \/ Drain)
    BY <2>5 DEF Next, vars, MuxPacket, Stop, EndOfSources, MuxStep, SwitchBlock, AddPacket, Stamp,
       FlushRest, PutBlock, FinishFileBlock, MuxBlockFinished, GotoNextFile, HeldOut,
       WaitForWriting, Verdict, WriterThread, WriterTest, WriterPeek, WriterPop, TearDown,
       Terminate, PushSentinel, Join, DestroyMuxers, AllDone
  <2>. QED  BY <2>3, <2>4, <2>5
<1>4. Elems(disk) \subseteq Elems(disk')
  <2>1. disk \in Seq(Blocks)
    BY DEF TypeOK
  <2>2. ASSUME NEW b \in Blocks PROVE Elems(disk) \subseteq Elems(Append(disk, b))
    BY <2>1, ElemsAppend
  <2>. QED  BY <1>3, <2>2
<1>5. ~failed' => ~failed
  BY DEF Next, vars, MuxPacket, Stop, EndOfSources, MuxStep, SwitchBlock, AddPacket, Stamp,
     FlushRest, PutBlock, FinishFileBlock, MuxBlockFinished, FlushTSBuffer, GotoNextFile, HeldOut,
     WaitForWriting, CloseMuxer, Verdict, WriterThread, WriterTest, WriterPeek, WriterExecute,
     WriterPop, TearDown, Terminate, PushSentinel, Join, Drain, DestroyMuxers, AllDone
<1>. QED  BY <1>4, <1>5

(* When a part is over, all packets of its view are on the disk.           *)
LEMMA PartIsOver ==
  ASSUME TypeOK, WriterInv, PlanInv, PlaceInv, LineInv, result = "running", ~failed,
         GotoNextFile
  PROVE  LET v == Head(todo).view IN
           \A n \in 1..made[v] : \E b \in Elems(disk) : Covers(b, v, n)
<1>1. /\ todo # <<>> /\ Head(todo).op = "next" /\ Head(todo) \notin Puts
      /\ Head(todo) \in Steps /\ Head(todo).view \in Views /\ queue = <<>>
  BY HeadOfTodo DEF GotoNextFile, At, Puts, WriterIdle
<1>v. PICK v \in Views : v = Head(todo).view
  BY <1>1
<1>2. Head(todo) \in Ops("next", v)
  BY <1>1, <1>v DEF Ops
<1>3. Clean(v)
  BY <1>1, <1>2, HeadExposed DEF PlanInv, CleanRule, Rule
<1>4. Waiting = {}
  <2>1. WaitLine = <<>>
    BY <1>1 DEF WaitLine, WriterInv, IdleMeansIdle
  <2>. QED  BY <2>1, ElemsEmpty DEF Waiting
<1>5. PutBlocks("put") = {} /\ PutBlocks("queue") = {}
  <2>1. \A k \in 1..Len(todo) : todo[k].op \notin {"put", "queue"}
    BY <1>1, NoPutsLeft, PutKinds
  <2>. QED  BY <2>1 DEF PutBlocks
<1>6. \A b \in Delayed : b.view # v
  BY <1>3, ElemsEmpty, DelayedViews DEF Clean
<1>7. \A b \in Holding : b.view # v
  <2>1. ASSUME NEW b \in Elems(held), b.view = v PROVE FALSE
    <3>1. held # <<>> /\ b.view = "main"
      BY <2>1, ElemsEmpty DEF PlaceInv, BlocksHere, Elems
    <3>2. Interleave /\ Head(todo) \in Ops("next", "main")
      BY <1>2, <2>1, <3>1 DEF PlaceInv
    <3>3. held = <<>>
      BY <1>1, <3>2, HeadExposed DEF PlanInv, HeldRule, Rule
    <3>. QED  BY <3>1, <3>3
  <2>. QED  BY <2>1 DEF Holding
<1>8. ASSUME NEW n \in 1..made[v] PROVE \E b \in Elems(disk) : Covers(b, v, n)
  <2>1. PICK k \in 1..6 : \E b \in Line[k] : Covers(b, v, n)
    BY <1>3, <1>8 DEF LineInv, Covered, Clean
  <2>2. PICK b \in Line[k] : Covers(b, v, n)
    BY <2>1
  <2>3. b.view = v
    BY <2>2 DEF Covers
  <2>4. k = 1 \/ k = 2 \/ k = 3 \/ k = 4 \/ k = 5 \/ k = 6
    OBVIOUS
  <2>5. b \in Landed
    BY <1>4, <1>5, <1>6, <1>7, <2>2, <2>3, <2>4, LineIs
  <2>. QED  BY <2>2, <2>5 DEF Landed
<1>. QED  BY <1>v, <1>8

(* Every step leaves the parts before the last whole.                      *)
LEMMA NextWhole ==
  ASSUME TypeOK, TypeOK', WriterInv, PlanInv, PlaceInv, LineInv, WholeInv, [Next]_vars
  PROVE  WholeInv'
<1> SUFFICES ASSUME ~failed', result' = "running", NEW w \in Views,
                    NEW n \in 1..firstOf'[w][Part(w)'] - 1
             PROVE  \E b \in Elems(disk') : Covers(b, w, n)
  <2>1. Elems(disk') = Elems(disk)'
    BY DEF Elems
  <2>2. \A b, v, m : Covers(b, v, m)' <=> Covers(b, v, m)
    BY DEF Covers
  <2>. QED  BY <2>1, <2>2 DEF WholeInv
<1>1. result = "running" /\ ~failed /\ Elems(disk) \subseteq Elems(disk')
  BY JobStaysOver, DiskGrows
<1>2. CASE firstOf'[w] = firstOf[w]
  <2>1. n \in 1..firstOf[w][Part(w)] - 1
    BY <1>2 DEF Part
  <2>. QED  BY <1>1, <2>1 DEF WholeInv
<1>3. CASE firstOf'[w] # firstOf[w]
  <2>1. GotoNextFile
    BY <1>3 DEF Next, vars, MuxPacket, Stop, EndOfSources, MuxStep, SwitchBlock, AddPacket, Stamp,
     FlushRest, PutBlock, FinishFileBlock, MuxBlockFinished, FlushTSBuffer, HeldOut,
     WaitForWriting, CloseMuxer, Verdict, WriterThread, WriterTest, WriterPeek, WriterExecute,
     WriterPop, TearDown, Terminate, PushSentinel, Join, Drain, DestroyMuxers, AllDone
  <2>2. PICK v \in Views : v = Head(todo).view
    BY <2>1, HeadOfTodo DEF GotoNextFile, At
  <2>3. firstOf' = [firstOf EXCEPT ![v] = Append(@, made[v] + 1)]
    BY <1>3, <2>1, <2>2 DEF GotoNextFile
  <2>4. /\ firstOf \in [Views -> Seq(Nat)] /\ made[v] \in Nat
    BY DEF TypeOK
  <2>5. w = v /\ firstOf'[v] = Append(firstOf[v], made[v] + 1)
    BY <1>3, <2>3, <2>4
  <2>6. firstOf'[v][Part(v)'] = made[v] + 1
    <3>1. firstOf[v] \in Seq(Nat) /\ made[v] + 1 \in Nat
      BY <2>4
    <3>2. /\ Len(Append(firstOf[v], made[v] + 1)) = Len(firstOf[v]) + 1
          /\ Append(firstOf[v], made[v] + 1)[Len(firstOf[v]) + 1] = made[v] + 1
      BY <3>1, AppendProperties
    <3>. QED  BY <2>5, <3>2 DEF Part
  <2>7. n \in 1..made[v]
    <3>1. n \in 1..firstOf'[v][Part(v)'] - 1
      BY <2>5 DEF Part
    <3>. QED  BY <2>6, <3>1, <2>4
  <2>8. \E b \in Elems(disk) : Covers(b, v, n)
    BY <1>1, <2>1, <2>2, <2>7, PartIsOver
  <2>. QED  BY <1>1, <2>5, <2>8
<1>. QED  BY <1>2, <1>3

(* The line and what comes of it, together with what they rest on.         *)
LEMMA OrderInductive ==
  ASSUME ~LateSub
  PROVE  Spec => [](/\ TypeOK /\ WriterInv /\ PlanInv /\ PlaceInv
                    /\ LastInv /\ LineInv /\ WholeInv /\ EndInv)
<1> DEFINE IInv == /\ TypeOK /\ WriterInv /\ PlanInv /\ PlaceInv
                   /\ LastInv /\ LineInv /\ WholeInv /\ EndInv
<1>1. Init => IInv
  BY InitTypeOK, InitWriterInv, InitPlan, InitPlace, InitLast, InitLine
<1>2. IInv /\ [Next]_vars => IInv'
  <2> SUFFICES ASSUME IInv, [Next]_vars PROVE IInv'
    OBVIOUS
  <2>1. TypeOK' /\ WriterInv' /\ PlanInv' /\ PlaceInv'
    BY NextTypeOK, NextWriterInv, NextPlan, NextPlace
  <2>2. LastInv' /\ LineInv' /\ WholeInv' /\ EndInv'
    BY <2>1, NextLast, NextLine, NextWhole, NextEnd
  <2>. QED  BY <2>1, <2>2
<1>. QED  BY <1>1, <1>2, PTL DEF Spec

-----------------------------------------------------------------------------
(* What the line shows of the parts *)

(* The parts of a view begin one after the other, the first with the first *)
(* packet.                                                                 *)
LEMMA PartsRise ==
  ASSUME TypeOK, LineInv, NEW v \in Views, NEW p \in 1..Part(v)
  PROVE  /\ Part(v) \in Nat /\ firstOf[v][p] \in Nat /\ firstOf[v][p] >= 1
         /\ firstOf[v][p] <= firstOf[v][Part(v)] /\ Part(v) \in 1..Part(v)
<1>1. firstOf[v] \in Seq(Nat)
  BY DEF TypeOK
<1>2. Part(v) \in Nat /\ firstOf[v][p] \in Nat
  BY <1>1, LenProperties, ElementOfSeq DEF Part
<1>3. firstOf[v][1] = 1 /\ \A q, r \in 1..Part(v) : q <= r => firstOf[v][q] <= firstOf[v][r]
  BY DEF LineInv, FirstRises
<1>4. 1 \in 1..Part(v) /\ Part(v) \in 1..Part(v) /\ 1 <= p /\ p <= Part(v)
  BY <1>2
<1>5. firstOf[v][1] <= firstOf[v][p] /\ firstOf[v][p] <= firstOf[v][Part(v)]
  BY <1>3, <1>4
<1>. QED  BY <1>2, <1>3, <1>4, <1>5

(* A block that was written is in its place.                               *)
LEMMA OnTheDisk ==
  ASSUME TypeOK, LineInv, NEW i \in 1..Len(disk)
  PROVE  /\ disk[i] \in Line[1] /\ disk[i] \in Blocks /\ Spot(disk[i])
         /\ M2ts => disk[i].last <= stamped[disk[i].view]
         /\ disk[i].view \in Views /\ disk[i].part \in 1..Part(disk[i].view)
         /\ disk[i].first \in Nat /\ disk[i].last \in Nat
<1>1. disk[i] \in Line[1] /\ 1 \in 1..6 /\ 1 \in 1..5
  BY LineIs DEF Landed, Elems
<1>2. disk[i] \in Blocks
  BY <1>1, LineType
<1>3. Spot(disk[i]) /\ (M2ts => disk[i].last <= stamped[disk[i].view])
  BY <1>1 DEF LineInv, Spots, InTime
<1>. QED  BY <1>1, <1>2, <1>3 DEF Spot, Blocks

(* It holds packets of its part.                                           *)
LEMMA PacketsHere ==
  ASSUME TypeOK, LineInv, NEW i \in 1..Len(disk)
  PROVE  disk[i].first..disk[i].last \subseteq PacketsOf(disk[i].view, disk[i].part)
<1>1. PICK b \in Blocks : b = disk[i]
  BY OnTheDisk
<1>2. PICK v \in Views : v = b.view
  BY <1>1, OnTheDisk
<1>3. PICK p \in 1..Part(v) : p = b.part
  BY <1>1, <1>2, OnTheDisk
<1>4. /\ firstOf[v][p] <= b.first /\ b.last <= sent[v]
      /\ p < Part(v) => b.last < firstOf[v][p + 1]
      /\ b.first \in Nat /\ b.last \in Nat
  BY <1>1, <1>2, <1>3, OnTheDisk DEF Spot
<1>5. sent[v] <= made[v] /\ sent[v] \in Nat /\ made[v] \in Nat
  BY DEF TypeOK
<1>6. Part(v) \in Nat /\ firstOf[v][p] \in Nat
  BY PartsRise
<1>7. CASE p = Part(v)
  <2>1. PacketsOf(v, p) = firstOf[v][p]..made[v]
    BY <1>7 DEF PacketsOf
  <2>2. b.first..b.last \subseteq firstOf[v][p]..made[v]
    BY <1>4, <1>5, <1>6
  <2>. QED  BY <1>1, <1>2, <1>3, <2>1, <2>2
<1>8. CASE p # Part(v)
  <2>1. PacketsOf(v, p) = firstOf[v][p]..firstOf[v][p + 1] - 1
    BY <1>8 DEF PacketsOf
  <2>2. p + 1 \in 1..Part(v) /\ p < Part(v)
    BY <1>6, <1>8
  <2>3. firstOf[v][p + 1] \in Nat
    BY <2>2, PartsRise
  <2>4. b.first..b.last \subseteq firstOf[v][p]..firstOf[v][p + 1] - 1
    BY <1>4, <1>6, <2>2, <2>3
  <2>. QED  BY <1>1, <1>2, <1>3, <2>1, <2>4
<1>. QED  BY <1>7, <1>8

(* As long as nothing fails, a block that does not begin its part follows  *)
(* one of that part.                                                       *)
LEMMA NoGap ==
  ASSUME TypeOK, LineInv, ~failed, result # "failed", NEW i \in 1..Len(disk),
         NEW v \in Views, NEW p \in 1..Part(v), disk[i].view = v, disk[i].part = p,
         disk[i].first # firstOf[v][p]
  PROVE  \E j \in 1..Len(disk) :
           j < i /\ disk[j].view = v /\ disk[j].part = p /\ disk[i].first = disk[j].last + 1
<1>1. PICK b \in Line[1] : b = disk[i]
  BY OnTheDisk
<1>2. b \in Blocks /\ b.view = v /\ b.part = p /\ Spot(b) /\ b.first # firstOf[v][p]
  BY <1>1, OnTheDisk
<1>3. PICK x \in Nat : x = b.first
  BY <1>2 DEF Blocks
<1>4. PICK y \in Nat : y = b.last
  BY <1>2 DEF Blocks
<1>5. PICK f \in Nat : f = firstOf[v][p]
  BY PartsRise
<1>6. PICK m \in Nat : m = sent[v]
  BY DEF TypeOK
<1>7. f >= 1
  BY <1>5, PartsRise
<1>8. f <= x /\ x <= y + 1 /\ y <= m
  BY <1>2, <1>3, <1>4, <1>5, <1>6 DEF Spot
<1>9. f # x
  BY <1>2, <1>3, <1>5
<1>10. PICK n \in 1..m : n = x - 1
  BY <1>7, <1>8, <1>9
<1>11. PICK k \in 1..6 : \E c \in Line[k] : Covers(c, v, n)
  BY <1>6 DEF LineInv, Covered
<1>12. PICK c \in Line[k] : Covers(c, v, n)
  BY <1>11
<1>13. c \in Blocks /\ c.view = v
  BY <1>12, LineType DEF Covers
<1>14. PICK g \in Nat : g = c.first
  BY <1>13 DEF Blocks
<1>15. PICK h \in Nat : h = c.last
  BY <1>13 DEF Blocks
<1>16. g <= n /\ n <= h
  BY <1>12, <1>14, <1>15 DEF Covers
<1>17. ~(y < g)
  BY <1>8, <1>10, <1>16
<1>18. ~Before(b, c)
  BY <1>2, <1>4, <1>13, <1>14, <1>17 DEF Before
<1>19. k = 1
  <2>1. 1 \in 1..6 /\ (k # 1 => 1 < k)
    OBVIOUS
  <2>. QED  BY <1>12, <1>18, <2>1 DEF LineInv, InLine, Below
<1>20. PICK j \in 1..Len(disk) : c = disk[j]
  BY <1>12, <1>19, LineIs DEF Landed, Elems
<1>21. g # x
  BY <1>10, <1>16
<1>22. j < i
  <2>1. i \in Nat /\ j \in Nat
    OBVIOUS
  <2>2. j # i
    BY <1>1, <1>3, <1>14, <1>20, <1>21
  <2>3. ~(i < j)
    BY <1>1, <1>18, <1>20 DEF LineInv, EachRises, Rising
  <2>. QED  BY <2>1, <2>2, <2>3
<1>23. h < x
  <2>1. Before(c, b)
    BY <1>1, <1>20, <1>22 DEF LineInv, EachRises, Rising
  <2>. QED  BY <1>2, <1>3, <1>13, <1>15, <2>1 DEF Before
<1>24. x = h + 1
  BY <1>10, <1>16, <1>23
<1>25. PICK q \in 1..Part(v) : q = c.part
  BY <1>13, <1>20, OnTheDisk
<1>26. firstOf[v][q] <= c.first /\ (q < Part(v) => c.last < firstOf[v][q + 1])
  BY <1>13, <1>20, <1>25, OnTheDisk DEF Spot
<1>27. PICK N \in Nat : N = Part(v)
  BY PartsRise
<1>28. p \in 1..N /\ q \in 1..N
  BY <1>27
<1>29. \A r, s \in 1..N : r <= s => firstOf[v][r] <= firstOf[v][s]
  BY <1>27 DEF LineInv, FirstRises
<1>30. ASSUME q < p PROVE FALSE
  <2>1. q + 1 \in 1..N /\ q < N /\ q + 1 <= p
    BY <1>28, <1>30
  <2>2. PICK t \in Nat : t = firstOf[v][q + 1]
    BY <1>27, <2>1, PartsRise
  <2>3. t <= f
    BY <1>5, <1>28, <1>29, <2>1, <2>2
  <2>4. h < t
    BY <1>15, <1>26, <1>27, <2>1, <2>2
  <2>. QED  BY <1>8, <1>9, <1>24, <2>3, <2>4
<1>31. ASSUME p < q PROVE FALSE
  <2>1. p + 1 \in 1..N /\ p < N /\ p + 1 <= q
    BY <1>28, <1>31
  <2>2. PICK t \in Nat : t = firstOf[v][p + 1]
    BY <1>27, <2>1, PartsRise
  <2>3. PICK u \in Nat : u = firstOf[v][q]
    BY PartsRise
  <2>4. t <= u
    BY <1>28, <1>29, <2>1, <2>2, <2>3
  <2>5. u <= g
    BY <1>14, <1>26, <2>3
  <2>6. y < t
    BY <1>2, <1>4, <1>27, <2>1, <2>2 DEF Spot
  <2>. QED  BY <1>17, <2>4, <2>5, <2>6
<1>32. q = p
  BY <1>28, <1>30, <1>31
<1>33. disk[i].first = disk[j].last + 1
  BY <1>1, <1>3, <1>15, <1>20, <1>24
<1>. QED  BY <1>13, <1>20, <1>22, <1>25, <1>32, <1>33

(* The line keeps every part in order.                                     *)
LEMMA LineGivesOrder == TypeOK /\ LineInv => PartsInOrder
<1> SUFFICES ASSUME TypeOK, LineInv PROVE PartsInOrder
  OBVIOUS
<1>1. M2ts => \A i \in 1..Len(disk) : disk[i].last <= stamped[disk[i].view]
  BY OnTheDisk
<1>2. ASSUME NEW v \in Views, NEW p \in 1..Part(v), NEW i \in OnDisk(v, p)
      PROVE  LET before == {j \in OnDisk(v, p) : j < i} IN
               /\ disk[i].first..disk[i].last \subseteq PacketsOf(v, p)
               /\ \A j \in before : disk[j].last < disk[i].first
               /\ ~failed /\ result # "failed" =>
                    \/ before = {} /\ disk[i].first = firstOf[v][p]
                    \/ \E j \in before : disk[i].first = disk[j].last + 1
  <2> DEFINE before == {j \in OnDisk(v, p) : j < i}
  <2>1. /\ i \in 1..Len(disk) /\ disk[i].view = v /\ disk[i].part = p
        /\ \A j : j \in before <=> /\ j \in 1..Len(disk) /\ j < i
                                   /\ disk[j].view = v /\ disk[j].part = p
    BY DEF OnDisk
  <2> HIDE DEF before
  <2>2. disk[i].first..disk[i].last \subseteq PacketsOf(v, p)
    BY <2>1, PacketsHere
  <2>3. \A j \in before : disk[j].last < disk[i].first
    <3> SUFFICES ASSUME NEW j \in before PROVE disk[j].last < disk[i].first
      OBVIOUS
    <3>1. Before(disk[j], disk[i])
      BY <2>1 DEF LineInv, EachRises, Rising
    <3>. QED  BY <2>1, <3>1 DEF Before
  <2>4. ASSUME ~failed, result # "failed"
        PROVE  \/ before = {} /\ disk[i].first = firstOf[v][p]
               \/ \E j \in before : disk[i].first = disk[j].last + 1
    <3>1. CASE disk[i].first # firstOf[v][p]
      <4>1. PICK j \in 1..Len(disk) :
              j < i /\ disk[j].view = v /\ disk[j].part = p /\ disk[i].first = disk[j].last + 1
        BY <2>1, <2>4, <3>1, NoGap
      <4>. QED  BY <2>1, <4>1
    <3>2. CASE disk[i].first = firstOf[v][p] /\ before # {}
      <4>1. PICK j \in before : TRUE
        BY <3>2
      <4>2. firstOf[v][p] <= disk[j].first /\ disk[j].first <= disk[j].last + 1
        BY <2>1, <4>1, OnTheDisk DEF Spot
      <4>3. disk[j].last < disk[i].first
        BY <2>3, <4>1
      <4>4. /\ disk[j].first \in Nat /\ disk[j].last \in Nat /\ disk[i].first \in Nat
            /\ firstOf[v][p] \in Nat
        BY <2>1, <4>1, OnTheDisk, PartsRise
      <4>. QED  BY <3>2, <4>1, <4>2, <4>3, <4>4
    <3>. QED  BY <3>1, <3>2
  <2>. QED  BY <2>2, <2>3, <2>4 DEF before
<1>. QED  BY <1>1, <1>2 DEF PartsInOrder, EachPartInOrder

(* What a block on the disk covers is written.                             *)
LEMMA CoveredIsWritten ==
  ASSUME NEW v \in Views, NEW n \in Nat, NEW b \in Elems(disk), Covers(b, v, n)
  PROVE  b \in Blocks => n \in Written(v)
<1>1. PICK i \in 1..Len(disk) : b = disk[i]
  BY DEF Elems
<1>2. disk[i].view = v /\ (b \in Blocks => n \in disk[i].first..disk[i].last)
  BY <1>1 DEF Covers, Blocks
<1>. QED  BY <1>1, <1>2 DEF Written

(* Every part of the output holds packets of that part only, in the order  *)
(* they were made, without a gap or a repetition as long as nothing fails; *)
(* and a block of an M2TS is not written before its packets have their     *)
(* arrival times (writeOutBuffer, processM2TSPCR, asyncWriteBuffer,        *)
(* flushTSBuffer, close).                                                  *)
THEOREM PartsAreInOrder == ~LateSub => (Spec => []PartsInOrder)
<1> SUFFICES ASSUME ~LateSub PROVE Spec => []PartsInOrder
  OBVIOUS
<1>. QED  BY LineGivesOrder, OrderInductive, PTL

(* A view never begins a new part while a packet of the old one is still   *)
(* held back, queued or in the writer's hand (gotoNextFile,                *)
(* finishFileBlock), as long as no write failed.                           *)
THEOREM ClosedPartsAreWhole == ~LateSub => (Spec => []ClosedPartIsWhole)
<1> SUFFICES ASSUME ~LateSub PROVE Spec => []ClosedPartIsWhole
  OBVIOUS
<1>1. TypeOK /\ LineInv /\ WholeInv => ClosedPartIsWhole
  <2> SUFFICES ASSUME TypeOK, LineInv, WholeInv, ~failed, result = "running",
                      NEW v \in Views, NEW p \in 1..Part(v) - 1, NEW n \in PacketsOf(v, p)
               PROVE  n \in Written(v)
    BY DEF ClosedPartIsWhole
  <2>1. Part(v) \in Nat
    BY LenProperties DEF TypeOK, Part
  <2>2. p \in 1..Part(v) /\ p + 1 \in 1..Part(v) /\ p # Part(v)
    BY <2>1
  <2>3. /\ firstOf[v][p] \in Nat /\ firstOf[v][p] >= 1 /\ firstOf[v][p + 1] \in Nat
        /\ firstOf[v][p + 1] <= firstOf[v][Part(v)] /\ firstOf[v][Part(v)] \in Nat
    BY <2>2, PartsRise
  <2>4. n \in firstOf[v][p]..firstOf[v][p + 1] - 1
    BY <2>2 DEF PacketsOf
  <2>5. n \in 1..firstOf[v][Part(v)] - 1 /\ n \in Nat
    BY <2>3, <2>4
  <2>6. PICK b \in Elems(disk) : Covers(b, v, n)
    BY <2>5 DEF WholeInv
  <2>7. b \in Blocks
    BY ElemsType DEF TypeOK
  <2>. QED  BY <2>5, <2>6, <2>7, CoveredIsWritten
<1>. QED  BY <1>1, OrderInductive, PTL

(* A job that ends without an error has written every packet it made       *)
(* (MuxerManager::doMux): no failure of the writer, of a tail or of a      *)
(* close is passed over.                                                   *)
THEOREM SuccessMeansComplete == ~LateSub => (Spec => []SuccessIsComplete)
<1> SUFFICES ASSUME ~LateSub PROVE Spec => []SuccessIsComplete
  OBVIOUS
<1>1. TypeOK /\ LineInv /\ EndInv => SuccessIsComplete
  <2> SUFFICES ASSUME TypeOK, LineInv, EndInv, result = "ok", NEW v \in Views
               PROVE  Written(v) = 1..made[v]
    BY DEF SuccessIsComplete
  <2>1. /\ sent[v] = made[v] /\ ~failed /\ made[v] \in Nat /\ \A k \in 2..6 : Line[k] = {}
    BY DEF EndInv, TypeOK
  <2>2. ASSUME NEW n \in Written(v) PROVE n \in 1..made[v]
    <3>1. PICK i \in 1..Len(disk) : disk[i].view = v /\ n \in disk[i].first..disk[i].last
      BY <2>2 DEF Written
    <3>2. PICK p \in 1..Part(v) : p = disk[i].part
      BY <3>1, OnTheDisk
    <3>3. /\ disk[i].first \in Nat /\ disk[i].last \in Nat /\ firstOf[v][p] <= disk[i].first
          /\ disk[i].last <= sent[v]
      BY <3>1, <3>2, OnTheDisk DEF Spot
    <3>4. firstOf[v][p] \in Nat /\ firstOf[v][p] >= 1
      BY PartsRise
    <3>. QED  BY <2>1, <3>1, <3>3, <3>4
  <2>3. ASSUME NEW n \in 1..made[v] PROVE n \in Written(v)
    <3>1. PICK k \in 1..6 : \E b \in Line[k] : Covers(b, v, n)
      BY <2>1 DEF LineInv, Covered
    <3>2. PICK b \in Line[k] : Covers(b, v, n)
      BY <3>1
    <3>3. k = 1
      <4>1. k = 1 \/ k \in 2..6
        OBVIOUS
      <4>. QED  BY <2>1, <3>2, <4>1
    <3>4. b \in Elems(disk) /\ b \in Blocks
      BY <3>2, <3>3, LineIs, LineType DEF Landed
    <3>. QED  BY <3>2, <3>4, CoveredIsWritten
  <2>. QED  BY <2>2, <2>3
<1>. QED  BY <1>1, OrderInductive, PTL

-----------------------------------------------------------------------------
(* The units of the two views *)

\* The unit the other view is in, which the switching view may have ended already
Turn == unit[Second]

\* Steps no view takes between the ends of the two views' units
Breaks == Switches \cup Finishes(Switcher)
            \cup Ops("blockDone", Switcher) \cup Ops("rest", Switcher)
\* After step n the other view ends its unit with step m, and the switching
\* view makes no more than a packet of tables before
Window(n, m) ==
  /\ todo[m] \in DoneOf(Second)
  /\ \A k \in n + 1..m - 1 : todo[k] \notin Breaks
  /\ \A i, k \in n + 1..m - 1 :
       todo[i] \in Ops("packet", Switcher) /\ todo[k] \in Ops("packet", Switcher) => i = k
NoPacket(m) == \A k \in 1..m - 1 : todo[k] \notin Ops("packet", Switcher)
\* The switching view has ended its unit, and the other one will
Between ==
  Switcher \in finished =>
    \E m \in 1..Len(todo) :
      Window(0, m) /\ (sent[Switcher] # made[Switcher] => NoPacket(m))
\* A view ends its unit behind a flush
Flushed(k, v) ==
  \/ k > 1 /\ todo[k - 1] \in Ops("rest", v)
  \/ Clean(v) /\ \A j \in 1..k - 1 : todo[j] \in Puts
WindowInv == result = "running" =>
  /\ \A n \in 1..Len(todo) : todo[n] \in Ops("blockDone", Switcher) =>
       \E m \in n + 1..Len(todo) : Window(n, m)
  /\ Between
  /\ \A v \in Views : \A k \in 1..Len(todo) : todo[k] \in Ops("blockDone", v) => Flushed(k, v)

\* Blocks that have not been queued belong to the unit that is written
TurnInv ==
  /\ unit[Switcher] = IF Switcher \in finished THEN Turn + 1 ELSE Turn
  /\ result = "running" =>
       /\ \A b \in PutBlocks("put") \cup Delayed : b.unit = Turn /\ b.view \notin finished
       /\ \A b \in Elems(held) : b.unit = Turn

\* y may come behind x on the disc
Follows(x, y) ==
  x.view \in Views /\ y.view \in Views =>
    \/ x.unit < y.unit
    \/ x.unit = y.unit /\ (x.view = "main" => y.view = "main")
Alternating(s) == \A i, k \in 1..Len(s) : i < k => Follows(s[i], s[k])
Leads(X, Y) == \A x \in X, y \in Y : Follows(x, y)
QueuedAlternate ==
  \A i, k \in 1..Len(todo) : i < k /\ todo[i].op = "queue" /\ todo[k].op = "queue"
    => Follows(todo[i].blk, todo[k].blk)
\* The first view's blocks of the unit that is written are still held back
InTurn(b) == b.unit < Turn \/ (b.unit = Turn /\ b.view = "sub")
UnitInv ==
  /\ Alternating(disk) /\ Alternating(WaitLine) /\ QueuedAlternate
  /\ Leads(Landed, Waiting) /\ Leads(Landed \cup Waiting, PutBlocks("queue"))
  /\ HeldLive => \A b \in Landed \cup Waiting \cup PutBlocks("queue") : InTurn(b)
AlternateInv == Interleave => WindowInv /\ TurnInv /\ UnitInv

-----------------------------------------------------------------------------
(* Where the steps of an ended unit are, after a step *)

(* A pair of views, the blocks of which are kept apart; a 3D disc is M2TS. *)
LEMMA Apart ==
  ASSUME Interleave
  PROVE  /\ HasSub /\ M2ts /\ Second \in Views /\ Switcher \in Views /\ Second # Switcher
         /\ \A v \in Views : v = Switcher \/ v = Second
         /\ Views = {"main", "sub"} /\ \A v : HeldBack(v) <=> v = "main"
BY MuxWriterAssumption, TwoViews DEF Views, HeldBack

(* The ends of units are no other steps.                                   *)
LEMMA BreakKinds ==
  ASSUME NEW s \in Steps
  PROVE  /\ s \in Breaks <=>
              \/ s.op = "switch" \/ (s.op = "finish" /\ (s.view = Switcher \/ s.recursive))
              \/ s.op \in {"blockDone", "rest"} /\ s.view = Switcher
         /\ s \in DoneOf(Second) <=> s.op \in {"blockDone", "finish"} /\ s.view = Second
         /\ \A op, v : s \in Ops(op, v) <=> s.op = op /\ s.view = v
         /\ s \in Puts <=> s.op \in {"put", "queue"}
BY DEF Breaks, Switches, Finishes, Ops, DoneOf, Puts

(* What is behind the step taken stays together.                           *)
LEMMA LaterWindow ==
  ASSUME TypeOK, todo # <<>>, NEW steps \in Seq(Steps), Then(steps),
         NEW n \in 1..Len(todo), NEW m \in n + 1..Len(todo), Window(n, m),
         NEW j, j = Len(steps) + n - 1
  PROVE  \E h \in j + 1..Len(todo') : Window(j, h)' /\ h = Len(steps) + m - 1
<1> DEFINE L == Len(steps)
           h == L + m - 1
<1>1. /\ \A i \in 1..Len(todo) : i = 1 \/ (L + i - 1 \in 1..Len(todo') /\ todo'[L + i - 1] = todo[i])
      /\ L \in Nat /\ Len(todo') \in Nat /\ Len(todo) \in Nat
  BY StepsKept
<1> HIDE DEF L
<1>2. Breaks' = Breaks /\ DoneOf(Second)' = DoneOf(Second) /\ \A op, v : Ops(op, v)' = Ops(op, v)
  BY DEF Breaks, Switches, Finishes, DoneOf, Ops
<1>3. m \in 2..Len(todo) /\ h \in j + 1..Len(todo') /\ todo'[h] = todo[m] /\ j = L + n - 1
  BY <1>1 DEF L
<1>4. ASSUME NEW k \in j + 1..h - 1
      PROVE  k - L + 1 \in n + 1..m - 1 /\ todo'[k] = todo[k - L + 1]
  <2>1. k - L + 1 \in n + 1..m - 1 /\ k - L + 1 \in 1..Len(todo) /\ k - L + 1 # 1
    BY <1>1, <1>3, <1>4
  <2>2. L + (k - L + 1) - 1 = k
    BY <1>1, <1>3, <1>4
  <2>3. todo'[L + (k - L + 1) - 1] = todo[k - L + 1]
    BY <1>1, <2>1
  <2>. QED  BY <2>1, <2>2, <2>3
<1> HIDE DEF h
<1>5. todo'[h] \in DoneOf(Second)
  BY <1>3 DEF Window
<1>6. \A k \in j + 1..h - 1 : todo'[k] \notin Breaks
  BY <1>4 DEF Window
<1>7. ASSUME NEW i \in j + 1..h - 1, NEW k \in j + 1..h - 1,
             todo'[i] \in Ops("packet", Switcher), todo'[k] \in Ops("packet", Switcher)
      PROVE  i = k
  <2>1. /\ i - L + 1 \in n + 1..m - 1 /\ todo'[i] = todo[i - L + 1]
        /\ k - L + 1 \in n + 1..m - 1 /\ todo'[k] = todo[k - L + 1]
    BY <1>4
  <2>2. i - L + 1 = k - L + 1
    BY <1>7, <2>1 DEF Window
  <2>3. i \in Int /\ k \in Int
    BY <1>1, <1>3
  <2>. QED  BY <1>1, <2>2, <2>3
<1>8. Window(j, h)'
  BY <1>2, <1>5, <1>6, <1>7 DEF Window
<1>. QED  BY <1>3, <1>8 DEF h, L

(* A unit that ends behind a flush still does.                             *)
LEMMA LaterFlush ==
  ASSUME TypeOK, todo # <<>>, NEW steps \in Seq(Steps), Then(steps),
         NEW k \in 1..Len(todo), NEW v \in Views, k > 2, todo[k - 1] \in Ops("rest", v)
  PROVE  Flushed(Len(steps) + k - 1, v)'
<1>1. /\ Len(steps) + (k - 1) - 1 \in 1..Len(todo') /\ todo'[Len(steps) + (k - 1) - 1] = todo[k - 1]
      /\ Len(steps) \in Nat
  <2>1. k - 1 \in 1..Len(todo) /\ k - 1 # 1
    OBVIOUS
  <2>. QED  BY <2>1, StepsKept
<1>2. (Len(steps) + k - 1) - 1 = Len(steps) + (k - 1) - 1 /\ Len(steps) + k - 1 > 1
  BY <1>1
<1>3. Ops("rest", v)' = Ops("rest", v)
  BY DEF Ops
<1>4. todo'[(Len(steps) + k - 1) - 1] \in Ops("rest", v)'
  BY <1>1, <1>2, <1>3
<1>. QED  BY <1>2, <1>4 DEF Flushed

(* A step of the mux thread that ends no unit leaves those after it where  *)
(* they were: the other view still ends its unit, with a packet of tables  *)
(* of the switching view at most before.                                   *)
LEMMA WindowKept ==
  ASSUME Interleave, TypeOK, WindowInv, result = "running", todo # <<>>,
         NEW steps \in Seq(Steps), Then(steps), finished' = finished,
         \A k \in 1..Len(steps) : steps[k].op # "blockDone",
         Head(todo).op \notin {"blockDone", "finish"},
         Switcher \in finished => \A k \in 1..Len(steps) : steps[k] \in Puts,
         sent[Switcher] = made[Switcher] /\ Head(todo) \notin Ops("packet", Switcher)
           => sent'[Switcher] = made'[Switcher],
         Head(todo).op \in {"put", "queue", "rest"} => \A k \in 1..Len(steps) : steps[k] \in Puts,
         \A v \in Views : (Head(todo) \in Puts /\ Clean(v)) \/ Head(todo) \in Ops("rest", v)
           => Clean(v)'
  PROVE  WindowInv'
<1> DEFINE L == Len(steps)
<1>1. /\ \A i \in 1..Len(todo) : i = 1 \/ (L + i - 1 \in 1..Len(todo') /\ todo'[L + i - 1] = todo[i])
      /\ \A k \in 1..Len(todo') :
           \/ k \in 1..L /\ todo'[k] = steps[k]
           \/ k - L + 1 \in 2..Len(todo) /\ todo'[k] = todo[k - L + 1]
      /\ \A k \in 1..L : k \in 1..Len(todo') /\ todo'[k] = steps[k]
      /\ L \in Nat /\ Len(todo') \in Nat /\ Len(todo) \in Nat
  BY StepsKept
<1>2. /\ 1 \in 1..Len(todo) /\ todo[1] = Head(todo) /\ Head(todo) \in Steps
      /\ \A k \in 1..Len(todo) : todo[k] \in Steps
      /\ \A k \in 1..Len(steps) : steps[k] \in Steps
  BY PutKinds, HeadOfTodo, ElementOfSeq DEF TypeOK
<1> HIDE DEF L
<1>3. /\ Breaks' = Breaks /\ DoneOf(Second)' = DoneOf(Second) /\ Puts' = Puts
      /\ \A op, v : Ops(op, v)' = Ops(op, v)
  BY DEF Breaks, Switches, Finishes, DoneOf, Puts, Ops
<1>4. ASSUME NEW n \in 1..Len(todo'), todo'[n] \in Ops("blockDone", Switcher)
      PROVE  \E m \in n + 1..Len(todo') : Window(n, m)'
  <2>1. n \notin 1..L
    BY <1>1, <1>2, <1>4 DEF L, Ops
  <2>2. PICK n0 \in 2..Len(todo) : n0 = n - L + 1 /\ todo[n0] = todo'[n]
    BY <1>1, <2>1
  <2>3. n0 \in 1..Len(todo) /\ todo[n0] \in Ops("blockDone", Switcher)
    BY <1>4, <2>2
  <2>4. PICK m0 \in n0 + 1..Len(todo) : Window(n0, m0)
    BY <2>3 DEF WindowInv
  <2>5. n = Len(steps) + n0 - 1
    BY <1>1, <2>2 DEF L
  <2>. QED  BY <2>3, <2>4, <2>5, LaterWindow
<1>5. ASSUME Switcher \in finished'
      PROVE  \E m \in 1..Len(todo') : (Window(0, m) /\ (sent[Switcher] # made[Switcher] => NoPacket(m)))'
  <2>1. PICK m0 \in 1..Len(todo) :
          Window(0, m0) /\ (sent[Switcher] # made[Switcher] => NoPacket(m0))
    BY <1>5 DEF WindowInv, Between
  <2>2. m0 # 1
    BY <1>2, <2>1, BreakKinds DEF Window
  <2>3. PICK m \in 1..Len(todo') : m = L + m0 - 1 /\ todo'[m] = todo[m0]
    BY <1>1, <2>1, <2>2
  <2>4. \A k \in 1..L : steps[k] \in Puts
    BY <1>5 DEF L
  <2>5. ASSUME NEW k \in 1..m - 1
        PROVE  \/ todo'[k] \in Puts
               \/ k - L + 1 \in 2..m0 - 1 /\ todo'[k] = todo[k - L + 1]
    <3>1. k \in 1..Len(todo')
      BY <1>1, <2>3
    <3>2. CASE k \in 1..L
      BY <1>1, <2>4, <3>2
    <3>3. CASE k \notin 1..L
      <4>1. todo'[k] = todo[k - L + 1] /\ k - L + 1 \in 2..Len(todo)
        BY <1>1, <3>1, <3>3
      <4>. QED  BY <1>1, <2>1, <2>3, <2>5, <4>1
    <3>. QED  BY <3>2, <3>3
  <2>6. \A s \in Puts : s \notin Breaks /\ s \notin Ops("packet", Switcher)
    BY DEF Puts, Breaks, Switches, Finishes, Ops
  <2>7. todo'[m] \in DoneOf(Second)
    BY <2>1, <2>3 DEF Window
  <2>8. ASSUME NEW k \in 1..m - 1 PROVE todo'[k] \notin Breaks
    <3>1. \A i \in 2..m0 - 1 : todo[i] \notin Breaks
      BY <2>1 DEF Window
    <3>. QED  BY <2>5, <2>6, <2>8, <3>1
  <2>9. ASSUME NEW i \in 1..m - 1, NEW k \in 1..m - 1,
               todo'[i] \in Ops("packet", Switcher), todo'[k] \in Ops("packet", Switcher)
        PROVE  i = k
    <3>1. /\ i - L + 1 \in 2..m0 - 1 /\ todo'[i] = todo[i - L + 1]
          /\ k - L + 1 \in 2..m0 - 1 /\ todo'[k] = todo[k - L + 1]
      BY <2>5, <2>6, <2>9
    <3>2. i - L + 1 \in 1..m0 - 1 /\ k - L + 1 \in 1..m0 - 1
      BY <2>1, <3>1
    <3>3. i - L + 1 = k - L + 1
      BY <2>1, <2>9, <3>1, <3>2 DEF Window
    <3>. QED  BY <1>1, <3>3
  <2>10. ASSUME sent'[Switcher] # made'[Switcher], NEW k \in 1..m - 1
         PROVE  todo'[k] \notin Ops("packet", Switcher)
    <3>1. \/ sent[Switcher] # made[Switcher]
          \/ Head(todo) \in Ops("packet", Switcher)
      BY <2>10
    <3>2. ASSUME NEW i \in 2..m0 - 1 PROVE todo[i] \notin Ops("packet", Switcher)
      <4>1. i \in 1..m0 - 1 /\ 1 \in 1..m0 - 1 /\ i # 1
        BY <2>1, <3>2
      <4>2. CASE sent[Switcher] # made[Switcher]
        BY <2>1, <4>1, <4>2 DEF NoPacket
      <4>3. CASE Head(todo) \in Ops("packet", Switcher)
        BY <1>2, <2>1, <4>1, <4>3 DEF Window
      <4>. QED  BY <3>1, <4>2, <4>3
    <3>. QED  BY <2>5, <2>6, <3>2
  <2>11. Window(0, m)'
    BY <1>3, <2>7, <2>8, <2>9 DEF Window
  <2>12. (sent[Switcher] # made[Switcher] => NoPacket(m))'
    BY <1>3, <2>10 DEF NoPacket
  <2>. QED  BY <2>11, <2>12
<1>6. ASSUME NEW v \in Views, NEW k \in 1..Len(todo'), todo'[k] \in Ops("blockDone", v)
      PROVE  Flushed(k, v)'
  <2>1. k \notin 1..L
    BY <1>1, <1>2, <1>6 DEF L, Ops
  <2>2. PICK k0 \in 2..Len(todo) : k0 = k - L + 1 /\ todo[k0] = todo'[k]
    BY <1>1, <2>1
  <2>3. Flushed(k0, v)
    BY <1>6, <2>2 DEF WindowInv
  <2>4. CASE k0 > 2 /\ todo[k0 - 1] \in Ops("rest", v)
    <3>1. k = Len(steps) + k0 - 1 /\ k0 \in 1..Len(todo) /\ k0 > 2
      <4>1. k = L + k0 - 1 /\ k0 \in 1..Len(todo)
        BY <1>1, <2>2
      <4>. QED  BY <2>4, <4>1 DEF L
    <3>2. Flushed(Len(steps) + k0 - 1, v)'
      BY <1>6, <2>4, <3>1, LaterFlush
    <3>. QED  BY <3>1, <3>2
  <2>5. CASE k0 = 2 /\ todo[k0 - 1] \in Ops("rest", v)
    <3>1. Head(todo) \in Ops("rest", v) /\ k = L + 1
      BY <1>1, <1>2, <2>2, <2>5
    <3>2. Clean(v)' /\ \A j \in 1..L : steps[j] \in Puts
      BY <1>6, <3>1 DEF Ops, L
    <3>3. \A j \in 1..k - 1 : todo'[j] \in Puts
      BY <1>1, <3>1, <3>2
    <3>. QED  BY <1>3, <3>2, <3>3 DEF Flushed
  <2>6. CASE Clean(v) /\ \A j \in 1..k0 - 1 : todo[j] \in Puts
    <3>1. Head(todo) \in Puts
      BY <1>2, <2>2, <2>6
    <3>2. Clean(v)' /\ \A j \in 1..L : steps[j] \in Puts
      BY <1>6, <2>6, <3>1 DEF Puts, L
    <3>3. ASSUME NEW j \in 1..k - 1 PROVE todo'[j] \in Puts
      <4>1. CASE j \in 1..L
        BY <1>1, <3>2, <4>1
      <4>2. CASE j \notin 1..L
        <5>1. j \in 1..Len(todo') /\ j - L + 1 \in 1..k0 - 1
          BY <1>1, <2>2, <4>2
        <5>. QED  BY <1>1, <2>6, <4>2, <5>1
      <4>. QED  BY <4>1, <4>2
    <3>. QED  BY <1>3, <3>2, <3>3 DEF Flushed
  <2>. QED  BY <2>2, <2>3, <2>4, <2>5, <2>6 DEF Flushed
<1>. QED  BY <1>4, <1>5, <1>6 DEF WindowInv, Between

(* While the switching view has ended its unit and the other has not, no   *)
(* other unit begins or ends, and the packet of tables the switching view  *)
(* makes is the only one in its buffer.                                    *)
LEMMA BetweenEnds ==
  ASSUME Interleave, TypeOK, PlanInv, WindowInv, result = "running", Switcher \in finished
  PROVE  /\ todo # <<>> /\ Head(todo) \notin Breaks
         /\ Head(todo) \in Ops("packet", Switcher) => sent[Switcher] = made[Switcher]
<1>1. PICK m \in 1..Len(todo) :
        Window(0, m) /\ (sent[Switcher] # made[Switcher] => NoPacket(m))
  BY DEF WindowInv, Between
<1>2. Len(todo) \in Nat /\ todo \in Seq(Steps)
  BY LenProperties DEF TypeOK
<1>3. todo # <<>>
  BY <1>1, <1>2
<1>4. todo[1] = Head(todo) /\ Head(todo) \in Steps /\ 1 \in 1..Len(todo)
  BY <1>3, PutKinds, HeadOfTodo
<1>5. Second # Switcher
  BY Apart
<1>6. CASE m = 1
  <2>1. Head(todo) \in DoneOf(Second)
    BY <1>1, <1>4, <1>6 DEF Window
  <2>2. Head(todo).op = "finish" => ~Head(todo).recursive
    <3>1. Head(todo).view = Second
      BY <2>1, <1>4, BreakKinds
    <3>. QED  BY <1>4, <1>5, <3>1 DEF PlanInv, FinishViews
  <2>. QED  BY <1>3, <1>4, <1>5, <2>1, <2>2, BreakKinds
<1>7. CASE m # 1
  <2>1. 1 \in 1..m - 1
    BY <1>1, <1>7
  <2>. QED  BY <1>1, <1>3, <1>4, <2>1 DEF Window, NoPacket
<1>. QED  BY <1>6, <1>7

(* A step that only puts blocks out, or nothing.                           *)
LEMMA PutsWindow ==
  ASSUME Interleave, TypeOK, WindowInv, result = "running", todo # <<>>,
         NEW steps \in Seq(Steps), Then(steps), \A k \in 1..Len(steps) : steps[k] \in Puts,
         finished' = finished, Head(todo).op \notin {"blockDone", "finish"},
         sent[Switcher] = made[Switcher] /\ Head(todo) \notin Ops("packet", Switcher)
           => sent'[Switcher] = made'[Switcher],
         \A v \in Views : (Head(todo) \in Puts /\ Clean(v)) \/ Head(todo) \in Ops("rest", v)
           => Clean(v)'
  PROVE  WindowInv'
<1>1. \A k \in 1..Len(steps) : steps[k].op # "blockDone"
  BY DEF Puts
<1>. QED  BY <1>1, WindowKept

(* The steps that make, stamp and flush packets.                           *)
LEMMA PacketsWindow ==
  ASSUME Interleave, TypeOK, PlanInv, WindowInv, result = "running", AddPacket \/ Stamp \/ FlushRest
  PROVE  WindowInv'
<1>0. /\ todo # <<>> /\ Head(todo).op \in {"packet", "stamp", "rest"} /\ Head(todo).view \in Views
      /\ finished' = finished /\ Head(todo) \in Steps
  BY HeadOfTodo DEF AddPacket, Stamp, FlushRest, At
<1>v. PICK v \in Views : v = Head(todo).view
  BY <1>0
<1>1. /\ Switcher \in Views /\ made \in [Views -> Nat] /\ sent \in [Views -> Nat]
      /\ delayBlk[v] \in Seq(Blocks)
  BY ViewsFact DEF TypeOK
<1>2. CASE AddPacket
  <2> DEFINE n == made[v] + 1
             b == Block(v, n)
             full == n - sent[v] = BlockLimit
             steps == IfAny(full /\ MayGoOut(v, n), <<PutStep("put", b)>>)
  <2>1. n \in Nat /\ b \in Blocks
    BY <1>1, BlockType
  <2>2. steps \in Seq(Steps) /\ Then(steps) /\ \A k \in 1..Len(steps) : steps[k] \in Puts
    BY <1>2, <1>v, <2>1, OnePut DEF AddPacket, MayGoOut
  <2> HIDE DEF steps
  <2>3. Head(todo).op = "packet"
    BY <1>2 DEF AddPacket, At
  <2>4. ASSUME Head(todo) \notin Ops("packet", Switcher)
        PROVE  sent'[Switcher] = sent[Switcher] /\ made'[Switcher] = made[Switcher]
    <3>1. v # Switcher
      BY <1>0, <1>v, <2>3, <2>4 DEF Ops
    <3>. QED  BY <1>1, <1>2, <1>v, <3>1 DEF AddPacket
  <2>5. Head(todo) \notin Puts /\ \A w : Head(todo) \notin Ops("rest", w)
    BY <2>3 DEF Puts, Ops
  <2>. QED  BY <1>0, <2>2, <2>3, <2>4, <2>5, PutsWindow
<1>3. CASE Stamp
  <2> DEFINE steps == PutAll("put", delayBlk[v])
  <2>1. Then(steps) /\ sent' = sent /\ made' = made /\ Head(todo).op = "stamp"
    BY <1>3, <1>v DEF Stamp, At
  <2>2. steps \in Seq(Steps) /\ \A k \in 1..Len(steps) : steps[k] \in Puts
    BY <1>1, PutAllPuts
  <2> HIDE DEF steps
  <2>3. Head(todo) \notin Puts /\ \A w : Head(todo) \notin Ops("rest", w)
    BY <2>1 DEF Puts, Ops
  <2>. QED  BY <1>0, <2>1, <2>2, <2>3, PutsWindow
<1>4. CASE FlushRest
  <2>1. M2ts
    BY Apart
  <2>2. /\ sent' = [sent EXCEPT ![v] = made[v]] /\ made' = made /\ delayBlk' = delayBlk
        /\ Then(<<PutStep("put", Block(v, made[v]))>>) /\ Head(todo).op = "rest"
    BY <1>4, <1>v, <2>1 DEF FlushRest, At
  <2> DEFINE steps == IfAny(TRUE, <<PutStep("put", Block(v, made[v]))>>)
  <2>3. steps \in Seq(Steps) /\ Then(steps) /\ \A k \in 1..Len(steps) : steps[k] \in Puts
    <3>1. Block(v, made[v]) \in Blocks /\ TRUE \in BOOLEAN
      BY <1>1, BlockType
    <3>2. steps = <<PutStep("put", Block(v, made[v]))>>
      BY DEF IfAny
    <3>3. steps \in Seq(Steps) /\ \A k \in 1..Len(steps) : steps[k] \in Puts
      BY <3>1, OnePut
    <3>. QED  BY <2>2, <3>2, <3>3
  <2> HIDE DEF steps
  <2>4. Head(todo) \in Ops("rest", v) /\ \A w : Head(todo) \in Ops("rest", w) => w = v
    BY <1>0, <1>v, <2>2 DEF Ops
  <2>5. Clean(v)'
    <3>1. Stamped(v)
      BY <1>0, <2>1, <2>4, HeadExposed DEF PlanInv, StampRule, Rule
    <3>. QED  BY <1>1, <2>2, <3>1 DEF Stamped, Clean
  <2>6. sent[Switcher] = made[Switcher] => sent'[Switcher] = made'[Switcher]
    BY <1>1, <2>2
  <2>7. Head(todo) \notin Puts
    BY <2>2 DEF Puts
  <2>. QED  BY <1>0, <2>2, <2>3, <2>4, <2>5, <2>6, <2>7, PutsWindow
<1>. QED  BY <1>2, <1>3, <1>4

(* Blocks are put out, the writer is waited for, files are closed.         *)
LEMMA OutWindow ==
  ASSUME Interleave, TypeOK, PlanInv, WindowInv, result = "running",
         PutBlock \/ GotoNextFile \/ HeldOut \/ WaitForWriting \/ CloseMuxer \/ Verdict
  PROVE  WindowInv'
<1>1. CASE result' # "running"
  BY <1>1 DEF WindowInv
<1>2. CASE result' = "running"
  <2>1. /\ todo # <<>> /\ Head(todo) \in Steps /\ finished' = finished /\ made' = made
        /\ delayBlk' = delayBlk
        /\ Head(todo).op \in {"put", "queue", "next", "heldOut", "wait", "close"}
    BY <1>2, HeadOfTodo
       DEF PutBlock, GotoNextFile, HeldOut, WaitForWriting, CloseMuxer, Verdict, At
  <2>2. \A w : Head(todo) \notin Ops("rest", w) /\ Head(todo) \notin Ops("packet", w)
    BY <2>1 DEF Ops
  <2>3. sent' = sent \/ Head(todo) \notin Puts
    BY DEF PutBlock, GotoNextFile, HeldOut, WaitForWriting, CloseMuxer, Verdict, At, Puts
  <2>4. \A w \in Views : sent[w] = made[w] => sent'[w] = made[w]
    <3>1. CASE CloseMuxer
      BY <3>1 DEF CloseMuxer, TypeOK
    <3>2. CASE ~CloseMuxer
      BY <3>2 DEF PutBlock, GotoNextFile, HeldOut, WaitForWriting, Verdict
    <3>. QED  BY <3>1, <3>2
  <2>5. \E steps \in Seq(Steps) : Then(steps) /\ \A k \in 1..Len(steps) : steps[k] \in Puts
    <3>1. CASE HeldOut
      <4>1. held \in Seq(Blocks)
        BY DEF TypeOK
      <4>. QED  BY <3>1, <4>1, PutAllPuts DEF HeldOut
    <3>2. CASE ~HeldOut
      <4>1. Then(<<>>)
        BY <1>2, <3>2 DEF PutBlock, AsyncWriteBuffer, AsyncWriteBlock, Throw, GotoNextFile,
           WaitForWriting, CloseMuxer, Verdict
      <4>. QED  BY <4>1, NoSteps
    <3>. QED  BY <3>1, <3>2
  <2>6. PICK steps \in Seq(Steps) : Then(steps) /\ \A k \in 1..Len(steps) : steps[k] \in Puts
    BY <2>5
  <2>7. \A w \in Views : (Head(todo) \in Puts /\ Clean(w)) => Clean(w)'
    BY <2>1, <2>3 DEF Clean
  <2>8. Switcher \in Views
    BY ViewsFact
  <2>. QED  BY <2>1, <2>2, <2>4, <2>6, <2>7, <2>8, PutsWindow
<1>. QED  BY <1>1, <1>2

(* Where a packet comes in, a unit or a part may end; neither does between *)
(* the ends of the two views.                                              *)
LEMMA SwitchWindow ==
  ASSUME Interleave, TypeOK, PlanInv, WindowInv, result = "running", SwitchBlock
  PROVE  WindowInv'
<1>1. /\ todo # <<>> /\ Head(todo).op = "switch" /\ Head(todo) \in Steps /\ Head(todo).view \in Views
      /\ finished' = finished /\ sent' = sent /\ made' = made
  BY HeadOfTodo DEF SwitchBlock, At
<1>2. Switcher \notin finished
  BY <1>1, BetweenEnds, BreakKinds
<1> DEFINE S == {s \in Steps : s.op # "blockDone"}
<1>3. \E steps \in Seq(S) : Then(steps)
  <2>v. PICK v \in Views : v = Head(todo).view
    BY <1>1
  <2>1. \A c \in BOOLEAN, r \in BOOLEAN : Finish(v, c, r) \in S
    BY DEF Finish, Steps
  <2>2. \A op \in {"packet", "stamp"} : Step(op, v) \in S
    BY DEF Step, Steps
  <2>3. <<>> \in Seq(S) /\ <<Step("packet", v)>> \in Seq(S) /\ <<Step("stamp", v)>> \in Seq(S)
        /\ <<Finish(v, TRUE, TRUE)>> \in Seq(S) /\ <<Finish(v, FALSE, TRUE)>> \in Seq(S)
    <3>1. /\ Step("packet", v) \in S /\ Step("stamp", v) \in S
          /\ Finish(v, TRUE, TRUE) \in S /\ Finish(v, FALSE, TRUE) \in S
      BY <2>1, <2>2
    <3>2. \A s \in S : <<s>> \in Seq(S)
      OBVIOUS
    <3>3. <<>> \in Seq(S)
      BY EmptySeq
    <3> HIDE DEF S
    <3>. QED  BY <3>1, <3>2, <3>3
  <2>4. Tables(v) \in Seq(S)
    <3>1. IfAny(M2ts, <<Step("stamp", v)>>) \in Seq(S)
      BY <2>3 DEF IfAny
    <3> HIDE DEF S
    <3>. QED  BY <2>3, <3>1, ConcatProperties DEF Tables
  <2>5. \/ Then(<<Finish(v, TRUE, TRUE)>>) \/ Then(<<Finish(v, FALSE, TRUE)>>)
        \/ Then(Tables(v)) \/ Then(<<>>)
    BY <2>v DEF SwitchBlock
  <2>. QED  BY <2>3, <2>4, <2>5
<1>4. PICK steps \in Seq(S) : Then(steps)
  BY <1>3
<1>5. steps \in Seq(Steps) /\ \A k \in 1..Len(steps) : steps[k].op # "blockDone"
  <2>1. \A k \in 1..Len(steps) : steps[k] \in S
    BY ElementOfSeq
  <2>2. steps \in Seq(Steps)
    BY SeqDef
  <2>. QED  BY <2>1, <2>2
<1>6. Head(todo) \notin Puts /\ \A w : Head(todo) \notin Ops("rest", w)
  BY <1>1 DEF Puts, Ops
<1>. QED  BY <1>1, <1>2, <1>4, <1>5, <1>6, WindowKept

(* Lists put together, element by element.                                 *)
LEMMA JoinsTo ==
  ASSUME NEW S, NEW p \in Seq(S), NEW q \in Seq(S), NEW r \in Seq(S),
         Len(r) = Len(p) + Len(q), \A k \in 1..Len(p) : r[k] = p[k],
         \A k \in 1..Len(q) : r[Len(p) + k] = q[k]
  PROVE  p \o q = r
<1>1. /\ Len(p) \in Nat /\ Len(q) \in Nat /\ p \o q \in Seq(S) /\ Len(p \o q) = Len(p) + Len(q)
      /\ \A k \in 1..Len(p) : (p \o q)[k] = p[k]
      /\ \A k \in 1..Len(q) : (p \o q)[Len(p) + k] = q[k]
      /\ \A k \in 1..Len(p \o q) : k \in 1..Len(p) \/ k - Len(p) \in 1..Len(q)
  BY JoinedSteps
<1>2. ASSUME NEW k \in 1..Len(r) PROVE (p \o q)[k] = r[k]
  <2>1. CASE k \in 1..Len(p)
    BY <1>1, <2>1
  <2>2. CASE k \notin 1..Len(p)
    <3>1. k - Len(p) \in 1..Len(q) /\ Len(p) + (k - Len(p)) = k
      BY <1>1, <1>2, <2>2
    <3>2. /\ (p \o q)[Len(p) + (k - Len(p))] = q[k - Len(p)]
          /\ r[Len(p) + (k - Len(p))] = q[k - Len(p)]
      BY <1>1, <3>1
    <3>. QED  BY <3>1, <3>2
  <2>. QED  BY <2>1, <2>2
<1> DEFINE s == p \o q
<1>3. s \in Seq(S) /\ Len(s) = Len(r) /\ \A k \in 1..Len(s) : s[k] = r[k]
  BY <1>1, <1>2
<1> HIDE DEF s
<1>4. s = r
  BY <1>3, SeqEqual
<1>. QED  BY <1>4 DEF s

(* The lists that the end of a unit is made of.                            *)
LEMMA Join1And1 ==
  ASSUME NEW a \in Steps, NEW b \in Steps
  PROVE  <<a>> \o <<b>> = <<a, b>>
<1>1. <<a>> \in Seq(Steps) /\ <<b>> \in Seq(Steps) /\ <<a, b>> \in Seq(Steps)
  OBVIOUS
<1>2. Len(<<a, b>>) = Len(<<a>>) + Len(<<b>>)
  OBVIOUS
<1>3. \A k \in 1..Len(<<a>>) : <<a, b>>[k] = <<a>>[k]
  OBVIOUS
<1>4. \A k \in 1..Len(<<b>>) : <<a, b>>[Len(<<a>>) + k] = <<b>>[k]
  OBVIOUS
<1>. QED  BY <1>1, <1>2, <1>3, <1>4, JoinsTo

(* A list of two and one more.                                             *)
LEMMA Join2And1 ==
  ASSUME NEW a \in Steps, NEW b \in Steps, NEW c \in Steps
  PROVE  <<a, b>> \o <<c>> = <<a, b, c>>
<1>1. <<a, b>> \in Seq(Steps) /\ <<c>> \in Seq(Steps) /\ <<a, b, c>> \in Seq(Steps)
  OBVIOUS
<1>2. Len(<<a, b, c>>) = Len(<<a, b>>) + Len(<<c>>)
  OBVIOUS
<1>3. \A k \in 1..Len(<<a, b>>) : <<a, b, c>>[k] = <<a, b>>[k]
  OBVIOUS
<1>4. \A k \in 1..Len(<<c>>) : <<a, b, c>>[Len(<<a, b>>) + k] = <<c>>[k]
  OBVIOUS
<1>. QED  BY <1>1, <1>2, <1>3, <1>4, JoinsTo

(* A list of three and one more.                                           *)
LEMMA Join3And1 ==
  ASSUME NEW a \in Steps, NEW b \in Steps, NEW c \in Steps, NEW d \in Steps
  PROVE  <<a, b, c>> \o <<d>> = <<a, b, c, d>>
<1>1. <<a, b, c>> \in Seq(Steps) /\ <<d>> \in Seq(Steps) /\ <<a, b, c, d>> \in Seq(Steps)
  OBVIOUS
<1>2. Len(<<a, b, c, d>>) = Len(<<a, b, c>>) + Len(<<d>>)
  OBVIOUS
<1>3. \A k \in 1..Len(<<a, b, c>>) : <<a, b, c, d>>[k] = <<a, b, c>>[k]
  OBVIOUS
<1>4. \A k \in 1..Len(<<d>>) : <<a, b, c, d>>[Len(<<a, b, c>>) + k] = <<d>>[k]
  OBVIOUS
<1>. QED  BY <1>1, <1>2, <1>3, <1>4, JoinsTo

(* A list of four and one more.                                            *)
LEMMA Join4And1 ==
  ASSUME NEW a \in Steps, NEW b \in Steps, NEW c \in Steps, NEW d \in Steps, NEW e \in Steps
  PROVE  <<a, b, c, d>> \o <<e>> = <<a, b, c, d, e>>
<1>1. <<a, b, c, d>> \in Seq(Steps) /\ <<e>> \in Seq(Steps) /\ <<a, b, c, d, e>> \in Seq(Steps)
  OBVIOUS
<1>2. Len(<<a, b, c, d, e>>) = Len(<<a, b, c, d>>) + Len(<<e>>)
  OBVIOUS
<1>3. \A k \in 1..Len(<<a, b, c, d>>) : <<a, b, c, d, e>>[k] = <<a, b, c, d>>[k]
  OBVIOUS
<1>4. \A k \in 1..Len(<<e>>) : <<a, b, c, d, e>>[Len(<<a, b, c, d>>) + k] = <<e>>[k]
  OBVIOUS
<1>. QED  BY <1>1, <1>2, <1>3, <1>4, JoinsTo

(* A list of three and two more.                                           *)
LEMMA Join3And2 ==
  ASSUME NEW a \in Steps, NEW b \in Steps, NEW c \in Steps, NEW d \in Steps, NEW e \in Steps
  PROVE  <<a, b, c>> \o <<d, e>> = <<a, b, c, d, e>>
<1>1. <<a, b, c>> \in Seq(Steps) /\ <<d, e>> \in Seq(Steps) /\ <<a, b, c, d, e>> \in Seq(Steps)
  OBVIOUS
<1>2. Len(<<a, b, c, d, e>>) = Len(<<a, b, c>>) + Len(<<d, e>>)
  OBVIOUS
<1>3. \A k \in 1..Len(<<a, b, c>>) : <<a, b, c, d, e>>[k] = <<a, b, c>>[k]
  OBVIOUS
<1>4. \A k \in 1..Len(<<d, e>>) : <<a, b, c, d, e>>[Len(<<a, b, c>>) + k] = <<d, e>>[k]
  OBVIOUS
<1>. QED  BY <1>1, <1>2, <1>3, <1>4, JoinsTo

(* A list of four and two more.                                            *)
LEMMA Join4And2 ==
  ASSUME NEW a \in Steps, NEW b \in Steps, NEW c \in Steps, NEW d \in Steps, NEW e \in Steps,
         NEW f \in Steps
  PROVE  <<a, b, c, d>> \o <<e, f>> = <<a, b, c, d, e, f>>
<1>1. <<a, b, c, d>> \in Seq(Steps) /\ <<e, f>> \in Seq(Steps) /\ <<a, b, c, d, e, f>> \in Seq(Steps)
  OBVIOUS
<1>2. Len(<<a, b, c, d, e, f>>) = Len(<<a, b, c, d>>) + Len(<<e, f>>)
  OBVIOUS
<1>3. \A k \in 1..Len(<<a, b, c, d>>) : <<a, b, c, d, e, f>>[k] = <<a, b, c, d>>[k]
  OBVIOUS
<1>4. \A k \in 1..Len(<<e, f>>) : <<a, b, c, d, e, f>>[Len(<<a, b, c, d>>) + k] = <<e, f>>[k]
  OBVIOUS
<1>. QED  BY <1>1, <1>2, <1>3, <1>4, JoinsTo

(* A list of five and two more.                                            *)
LEMMA Join5And2 ==
  ASSUME NEW a \in Steps, NEW b \in Steps, NEW c \in Steps, NEW d \in Steps, NEW e \in Steps,
         NEW f \in Steps, NEW g \in Steps
  PROVE  <<a, b, c, d, e>> \o <<f, g>> = <<a, b, c, d, e, f, g>>
<1>1. <<a, b, c, d, e>> \in Seq(Steps) /\ <<f, g>> \in Seq(Steps) /\ <<a, b, c, d, e, f, g>> \in Seq(Steps)
  OBVIOUS
<1>2. Len(<<a, b, c, d, e, f, g>>) = Len(<<a, b, c, d, e>>) + Len(<<f, g>>)
  OBVIOUS
<1>3. \A k \in 1..Len(<<a, b, c, d, e>>) : <<a, b, c, d, e, f, g>>[k] = <<a, b, c, d, e>>[k]
  OBVIOUS
<1>4. \A k \in 1..Len(<<f, g>>) : <<a, b, c, d, e, f, g>>[Len(<<a, b, c, d, e>>) + k] = <<f, g>>[k]
  OBVIOUS
<1>. QED  BY <1>1, <1>2, <1>3, <1>4, JoinsTo

(* A list of five and one more.                                            *)
LEMMA Join5And1 ==
  ASSUME NEW a \in Steps, NEW b \in Steps, NEW c \in Steps, NEW d \in Steps, NEW e \in Steps,
         NEW f \in Steps
  PROVE  <<a, b, c, d, e>> \o <<f>> = <<a, b, c, d, e, f>>
<1>1. <<a, b, c, d, e>> \in Seq(Steps) /\ <<f>> \in Seq(Steps) /\ <<a, b, c, d, e, f>> \in Seq(Steps)
  OBVIOUS
<1>2. Len(<<a, b, c, d, e, f>>) = Len(<<a, b, c, d, e>>) + Len(<<f>>)
  OBVIOUS
<1>3. \A k \in 1..Len(<<a, b, c, d, e>>) : <<a, b, c, d, e, f>>[k] = <<a, b, c, d, e>>[k]
  OBVIOUS
<1>4. \A k \in 1..Len(<<f>>) : <<a, b, c, d, e, f>>[Len(<<a, b, c, d, e>>) + k] = <<f>>[k]
  OBVIOUS
<1>. QED  BY <1>1, <1>2, <1>3, <1>4, JoinsTo

(* A list of six and one more.                                             *)
LEMMA Join6And1 ==
  ASSUME NEW a \in Steps, NEW b \in Steps, NEW c \in Steps, NEW d \in Steps, NEW e \in Steps,
         NEW f \in Steps, NEW g \in Steps
  PROVE  <<a, b, c, d, e, f>> \o <<g>> = <<a, b, c, d, e, f, g>>
<1>1. <<a, b, c, d, e, f>> \in Seq(Steps) /\ <<g>> \in Seq(Steps) /\ <<a, b, c, d, e, f, g>> \in Seq(Steps)
  OBVIOUS
<1>2. Len(<<a, b, c, d, e, f, g>>) = Len(<<a, b, c, d, e, f>>) + Len(<<g>>)
  OBVIOUS
<1>3. \A k \in 1..Len(<<a, b, c, d, e, f>>) : <<a, b, c, d, e, f, g>>[k] = <<a, b, c, d, e, f>>[k]
  OBVIOUS
<1>4. \A k \in 1..Len(<<g>>) : <<a, b, c, d, e, f, g>>[Len(<<a, b, c, d, e, f>>) + k] = <<g>>[k]
  OBVIOUS
<1>. QED  BY <1>1, <1>2, <1>3, <1>4, JoinsTo

(* What an ended unit unfolds into: a flush, its end, and what follows,    *)
(* with the end of the other view's unit where the switching view's ends.  *)
LEMMA EndOfUnit ==
  ASSUME Interleave, TypeOK, PlanInv, result = "running", FinishFileBlock,
         NEW v \in Views, v = Head(todo).view
  PROVE  \E steps \in Seq(Steps) :
           /\ Then(steps) /\ Len(steps) \in 5..7
           /\ steps[1] = Step("stamp", v) /\ steps[2] = Step("rest", v)
           /\ steps[3] = Step("blockDone", v)
           /\ \A k \in 4..Len(steps) : steps[k].op # "blockDone"
           /\ v = Switcher => \E m \in 4..Len(steps) :
                /\ steps[m] \in DoneOf(Second)
                /\ \A k \in 4..m - 1 : steps[k] \notin Breaks
                /\ \A i, k \in 4..m - 1 : steps[i] \in Ops("packet", v) /\ steps[k] \in Ops("packet", v)
                     => i = k
<1> DEFINE f == Head(todo)
           o == Finish(Other(v), f.change, FALSE)
           a == Step("stamp", v)
           b == Step("rest", v)
           c == Step("blockDone", v)
           n == Step("next", v)
           p == Step("packet", v)
<1>1. /\ todo # <<>> /\ f \in Steps /\ f.op = "finish" /\ f.change \in BOOLEAN
      /\ f.recursive \in BOOLEAN /\ processed \in [Views -> Nat]
  BY HeadOfTodo, StepCarries DEF FinishFileBlock, At, TypeOK
<1>2. /\ HasSub /\ M2ts /\ Second \in Views /\ Switcher \in Views /\ Second # Switcher
      /\ Other(v) \in Views /\ (v = Switcher => Other(v) = Second)
      /\ (v = Switcher \/ v = Second)
  BY Apart, ViewsFact DEF Second
<1>3. /\ f.recursive <=> v = Switcher
  BY <1>1, <1>2, HeadIsFirst DEF PlanInv, FinishViews
<1>4. processed[v] > 0
  <2>1. f \in Finishes(v)
    BY <1>1 DEF Finishes
  <2>. QED  BY <1>1, <2>1, HeadExposed DEF PlanInv, FinishRule, Rule
<1>5. a \in Steps /\ b \in Steps /\ c \in Steps /\ n \in Steps /\ p \in Steps /\ o \in Steps
  BY <1>1, <1>2 DEF Step, Finish, Steps
<1>6. /\ a.op = "stamp" /\ b.op = "rest" /\ c.op = "blockDone" /\ n.op = "next" /\ p.op = "packet"
      /\ o.op = "finish" /\ o.view = Other(v) /\ o.recursive = FALSE
      /\ c \in Ops("blockDone", v)
  BY <1>5 DEF Step, Finish, Ops
<1>7. /\ a \notin Breaks /\ n \notin Breaks /\ p \notin Breaks
      /\ a \notin Ops("packet", v) /\ n \notin Ops("packet", v)
      /\ v = Switcher => o \in DoneOf(Second)
  <2>1. a \notin Breaks /\ n \notin Breaks /\ p \notin Breaks
    BY <1>5, <1>6, BreakKinds
  <2>2. a \notin Ops("packet", v) /\ n \notin Ops("packet", v)
    BY <1>6 DEF Ops
  <2>3. v = Switcher => o.view = Second
    BY <1>2, <1>6
  <2>4. v = Switcher => o \in DoneOf(Second)
    BY <1>5, <1>6, <2>3, BreakKinds
  <2>. QED  BY <2>1, <2>2, <2>4
<1>8. Flush(v) \o <<c>> \o IfAny(~M2ts, <<Step("tail", v)>>) = <<a, b, c>>
  <2>1. Flush(v) = <<a, b>>
    <3>1. <<a>> \o <<b>> = <<a, b>>
      BY <1>5, Join1And1
    <3>. QED  BY <1>2, <3>1 DEF Flush, IfAny
  <2>2. <<a, b>> \o <<c>> = <<a, b, c>> /\ <<a, b, c>> \in Seq(Steps)
    <3>1. <<a, b>> \o <<c>> = <<a, b, c>>
      BY <1>5, Join2And1
    <3>2. <<a, b, c>> \in Seq(Steps)
      BY <1>5
    <3>. QED  BY <3>1, <3>2
  <2>3. IfAny(~M2ts, <<Step("tail", v)>>) = <<>> /\ <<a, b, c>> \o <<>> = <<a, b, c>>
    BY <1>2, <2>2, ConcatEmptySeq DEF IfAny
  <2>. QED  BY <2>1, <2>2, <2>3
<1>9. Tables(v) = <<p, a>>
  <2>1. <<p>> \o <<a>> = <<p, a>>
    BY <1>5, Join1And1
  <2>. QED  BY <1>2, <2>1 DEF Tables, IfAny
<1> DEFINE before == OtherFirst(v, f.change, f.recursive)
           x == IfAny(before, <<o>>)
           y == IfAny(f.change, <<n>>)
           z == IfAny(HasSub /\ f.recursive /\ ~before, <<o>>)
<1>10. Then(<<a, b, c>> \o x \o y \o <<p, a>> \o z)
  BY <1>4, <1>8, <1>9 DEF FinishFileBlock, IfAny
<1>18. /\ before => x = <<o>> /\ z = <<>>
       /\ ~before => x = <<>>
       /\ HasSub /\ f.recursive /\ ~before => z = <<o>>
       /\ ~f.recursive => z = <<>>
       /\ f.change => y = <<n>>
       /\ ~f.change => y = <<>>
  BY DEF IfAny
<1> HIDE DEF f, a, b, c, n, p, o
<1>17. /\ <<a, b, c>> \o <<o>> = <<a, b, c, o>>
       /\ <<a, b, c, o>> \o <<n>> = <<a, b, c, o, n>>
       /\ <<a, b, c, o, n>> \o <<p, a>> = <<a, b, c, o, n, p, a>>
       /\ <<a, b, c>> \o <<n>> = <<a, b, c, n>>
       /\ <<a, b, c, n>> \o <<p, a>> = <<a, b, c, n, p, a>>
       /\ <<a, b, c, n, p, a>> \o <<o>> = <<a, b, c, n, p, a, o>>
       /\ <<a, b, c>> \o <<p, a>> = <<a, b, c, p, a>>
       /\ <<a, b, c, p, a>> \o <<o>> = <<a, b, c, p, a, o>>
  <2>1. <<a, b, c>> \o <<o>> = <<a, b, c, o>>
    BY <1>5, Join3And1
  <2>2. <<a, b, c, o>> \o <<n>> = <<a, b, c, o, n>>
    BY <1>5, Join4And1
  <2>3. <<a, b, c, o, n>> \o <<p, a>> = <<a, b, c, o, n, p, a>>
    BY <1>5, Join5And2
  <2>4. <<a, b, c>> \o <<n>> = <<a, b, c, n>>
    BY <1>5, Join3And1
  <2>5. <<a, b, c, n>> \o <<p, a>> = <<a, b, c, n, p, a>>
    BY <1>5, Join4And2
  <2>6. <<a, b, c, n, p, a>> \o <<o>> = <<a, b, c, n, p, a, o>>
    BY <1>5, Join6And1
  <2>7. <<a, b, c>> \o <<p, a>> = <<a, b, c, p, a>>
    BY <1>5, Join3And2
  <2>8. <<a, b, c, p, a>> \o <<o>> = <<a, b, c, p, a, o>>
    BY <1>5, Join5And1
  <2>. QED  BY <2>1, <2>2, <2>3, <2>4, <2>5, <2>6, <2>7, <2>8
<1>11. before => f.change /\ f.recursive
  BY DEF OtherFirst
<1> HIDE DEF before, x, y, z
<1>12. \A s \in Seq(Steps) : s \o <<>> = s
  BY ConcatEmptySeq
<1>13. /\ <<a, b, c>> \in Seq(Steps) /\ <<a, b, c, n>> \in Seq(Steps)
       /\ <<a, b, c, p, a>> \in Seq(Steps) /\ <<a, b, c, n, p, a>> \in Seq(Steps)
       /\ <<a, b, c, p, a, o>> \in Seq(Steps) /\ <<a, b, c, n, p, a, o>> \in Seq(Steps)
       /\ <<a, b, c, o, n, p, a>> \in Seq(Steps)
  BY <1>5
<1>14. CASE before
  <2>1. Then(<<a, b, c, o, n, p, a>>)
    <3>1. x = <<o>> /\ y = <<n>> /\ z = <<>>
      BY <1>11, <1>14, <1>18
    <3>2. <<a, b, c>> \o x \o y \o <<p, a>> = <<a, b, c, o, n, p, a>>
      BY <3>1, <1>17
    <3>3. <<a, b, c>> \o x \o y \o <<p, a>> \o z = <<a, b, c, o, n, p, a>>
      BY <1>12, <1>13, <3>1, <3>2
    <3>. QED  BY <1>10, <3>3
  <2> DEFINE s == <<a, b, c, o, n, p, a>>
  <2>2. /\ Len(s) = 7 /\ s[1] = a /\ s[2] = b /\ s[3] = c /\ s[4] = o
        /\ \A k \in 4..Len(s) : s[k] \in {o, n, p, a}
    OBVIOUS
  <2> HIDE DEF s
  <2>3. v = Switcher => \E m \in 4..Len(s) :
          /\ s[m] \in DoneOf(Second) /\ \A k \in 4..m - 1 : s[k] \notin Breaks
          /\ \A i, k \in 4..m - 1 : s[i] \in Ops("packet", v) /\ s[k] \in Ops("packet", v) => i = k
    <3>1. 4 \in 4..Len(s) /\ 4..4 - 1 = {}
      BY <2>2
    <3>. QED  BY <1>7, <2>2, <3>1
  <2>4. s \in Seq(Steps) /\ Then(s)
    BY <1>13, <2>1 DEF s
  <2>5. \A k \in 4..Len(s) : s[k].op # "blockDone"
    BY <1>6, <2>2
  <2>6. /\ Len(s) \in 5..7
        /\ s[1] = Step("stamp", v) /\ s[2] = Step("rest", v) /\ s[3] = Step("blockDone", v)
    BY <2>2 DEF a, b, c
  <2>. QED  BY <2>3, <2>4, <2>5, <2>6
<1>15. CASE ~before /\ f.recursive
  <2>1. CASE f.change
    <3>1. Then(<<a, b, c, n, p, a, o>>)
      <4>1. x = <<>> /\ y = <<n>> /\ z = <<o>>
        BY <1>2, <1>15, <1>18, <2>1
      <4>2. <<a, b, c>> \o x = <<a, b, c>>
        BY <1>12, <1>13, <4>1
      <4>3. <<a, b, c>> \o x \o y \o <<p, a>> \o z = <<a, b, c, n, p, a, o>>
        BY <1>17, <4>1, <4>2
      <4>. QED  BY <1>10, <4>3
    <3> DEFINE s == <<a, b, c, n, p, a, o>>
    <3>2. /\ Len(s) = 7 /\ s[1] = a /\ s[2] = b /\ s[3] = c /\ s[7] = o
          /\ s[4] = n /\ s[5] = p /\ s[6] = a
      OBVIOUS
    <3> HIDE DEF s
    <3>3. 7 \in 4..Len(s) /\ \A k \in 4..7 - 1 : k = 4 \/ k = 5 \/ k = 6
      BY <3>2
    <3>4. \A k \in 4..Len(s) : k = 4 \/ k = 5 \/ k = 6 \/ k = 7
      BY <3>2
    <3>5. v = Switcher => s[7] \in DoneOf(Second) /\ \A k \in 4..7 - 1 : s[k] \notin Breaks
      BY <1>7, <3>2, <3>3
    <3>6. \A k \in 4..7 - 1 : s[k] \in Ops("packet", v) => k = 5
      BY <1>7, <3>2, <3>3
    <3>7. s \in Seq(Steps) /\ Then(s)
      BY <1>13, <3>1 DEF s
    <3>8. \A k \in 4..Len(s) : s[k].op # "blockDone"
      BY <1>6, <3>2, <3>4
    <3>. QED  BY <3>2, <3>3, <3>5, <3>6, <3>7, <3>8 DEF a, b, c
  <2>2. CASE ~f.change
    <3>1. Then(<<a, b, c, p, a, o>>)
      <4>1. x = <<>> /\ y = <<>> /\ z = <<o>>
        BY <1>2, <1>15, <1>18, <2>2
      <4>2. <<a, b, c>> \o x \o y = <<a, b, c>>
        BY <1>12, <1>13, <4>1
      <4>3. <<a, b, c>> \o x \o y \o <<p, a>> \o z = <<a, b, c, p, a, o>>
        BY <1>17, <4>1, <4>2
      <4>. QED  BY <1>10, <4>3
    <3> DEFINE s == <<a, b, c, p, a, o>>
    <3>2. /\ Len(s) = 6 /\ s[1] = a /\ s[2] = b /\ s[3] = c /\ s[6] = o
          /\ s[4] = p /\ s[5] = a
      OBVIOUS
    <3> HIDE DEF s
    <3>3. 6 \in 4..Len(s) /\ \A k \in 4..6 - 1 : k = 4 \/ k = 5
      BY <3>2
    <3>4. \A k \in 4..Len(s) : k = 4 \/ k = 5 \/ k = 6
      BY <3>2
    <3>5. v = Switcher => s[6] \in DoneOf(Second) /\ \A k \in 4..6 - 1 : s[k] \notin Breaks
      BY <1>7, <3>2, <3>3
    <3>6. \A k \in 4..6 - 1 : s[k] \in Ops("packet", v) => k = 4
      BY <1>7, <3>2, <3>3
    <3>7. s \in Seq(Steps) /\ Then(s)
      BY <1>13, <3>1 DEF s
    <3>8. \A k \in 4..Len(s) : s[k].op # "blockDone"
      BY <1>6, <3>2, <3>4
    <3>. QED  BY <3>2, <3>3, <3>5, <3>6, <3>7, <3>8 DEF a, b, c
  <2>. QED  BY <1>1, <2>1, <2>2
<1>16. CASE ~f.recursive
  <2>1. x = <<>> /\ z = <<>>
    BY <1>11, <1>16, <1>18
  <2>2. v # Switcher
    BY <1>3, <1>16
  <2>3. CASE f.change
    <3> DEFINE s == <<a, b, c, n, p, a>>
    <3>1. Then(s)
      <4>1. y = <<n>>
        BY <1>18, <2>3
      <4>2. <<a, b, c>> \o x = <<a, b, c>>
        BY <1>12, <1>13, <2>1
      <4>3. <<a, b, c>> \o x \o y \o <<p, a>> = <<a, b, c, n, p, a>>
        BY <1>17, <4>1, <4>2
      <4>4. <<a, b, c>> \o x \o y \o <<p, a>> \o z = <<a, b, c, n, p, a>>
        BY <1>12, <1>13, <2>1, <4>3
      <4>. QED  BY <1>10, <4>4
    <3>2. /\ Len(s) = 6 /\ s[1] = a /\ s[2] = b /\ s[3] = c
          /\ \A k \in 4..Len(s) : s[k] \in {n, p, a}
      OBVIOUS
    <3>3. s \in Seq(Steps)
      BY <1>13
    <3> HIDE DEF s
    <3>4. \A k \in 4..Len(s) : s[k].op # "blockDone"
      BY <1>6, <3>2
    <3>. QED  BY <2>2, <3>1, <3>2, <3>3, <3>4 DEF a, b, c
  <2>4. CASE ~f.change
    <3> DEFINE s == <<a, b, c, p, a>>
    <3>1. Then(s)
      <4>1. y = <<>>
        BY <1>18, <2>4
      <4>2. <<a, b, c>> \o x \o y = <<a, b, c>>
        BY <1>12, <1>13, <2>1, <4>1
      <4>3. <<a, b, c>> \o x \o y \o <<p, a>> = <<a, b, c, p, a>>
        BY <1>17, <4>2
      <4>4. <<a, b, c>> \o x \o y \o <<p, a>> \o z = <<a, b, c, p, a>>
        BY <1>12, <1>13, <2>1, <4>3
      <4>. QED  BY <1>10, <4>4
    <3>2. /\ Len(s) = 5 /\ s[1] = a /\ s[2] = b /\ s[3] = c
          /\ \A k \in 4..Len(s) : s[k] \in {p, a}
      OBVIOUS
    <3>3. s \in Seq(Steps)
      BY <1>13
    <3> HIDE DEF s
    <3>4. \A k \in 4..Len(s) : s[k].op # "blockDone"
      BY <1>6, <3>2
    <3>. QED  BY <2>2, <3>1, <3>2, <3>3, <3>4 DEF a, b, c
  <2>. QED  BY <1>1, <2>3, <2>4
<1>. QED  BY <1>1, <1>14, <1>15, <1>16

(* The end of a unit comes in: the other view's follows the switcher's.    *)
LEMMA FinishWindow ==
  ASSUME Interleave, TypeOK, PlanInv, WindowInv, result = "running", FinishFileBlock
  PROVE  WindowInv'
<1>1. /\ todo # <<>> /\ Head(todo).op = "finish" /\ Head(todo) \in Steps /\ Head(todo).view \in Views
      /\ finished' = finished /\ sent' = sent /\ made' = made /\ delayBlk' = delayBlk
      /\ 1 \in 1..Len(todo) /\ todo[1] = Head(todo)
  BY HeadOfTodo, PutKinds DEF FinishFileBlock, At
<1>2. PICK v \in Views : v = Head(todo).view
  BY <1>1
<1>3. PICK steps \in Seq(Steps) :
        /\ Then(steps) /\ Len(steps) \in 5..7
        /\ steps[1] = Step("stamp", v) /\ steps[2] = Step("rest", v)
        /\ steps[3] = Step("blockDone", v)
        /\ \A k \in 4..Len(steps) : steps[k].op # "blockDone"
        /\ v = Switcher => \E m \in 4..Len(steps) :
             /\ steps[m] \in DoneOf(Second)
             /\ \A k \in 4..m - 1 : steps[k] \notin Breaks
             /\ \A i, k \in 4..m - 1 : steps[i] \in Ops("packet", v) /\ steps[k] \in Ops("packet", v)
                  => i = k
  BY <1>2, EndOfUnit
<1> DEFINE L == Len(steps)
<1>4. /\ \A i \in 1..Len(todo) : i = 1 \/ (L + i - 1 \in 1..Len(todo') /\ todo'[L + i - 1] = todo[i])
      /\ \A k \in 1..Len(todo') :
           \/ k \in 1..L /\ todo'[k] = steps[k]
           \/ k - L + 1 \in 2..Len(todo) /\ todo'[k] = todo[k - L + 1]
      /\ \A k \in 1..L : k \in 1..Len(todo') /\ todo'[k] = steps[k]
      /\ L \in Nat /\ Len(todo') \in Nat /\ Len(todo) \in Nat
  BY <1>1, <1>3, StepsKept
<1>5. /\ Breaks' = Breaks /\ DoneOf(Second)' = DoneOf(Second) /\ Puts' = Puts
      /\ \A op, w : Ops(op, w)' = Ops(op, w)
  BY DEF Breaks, Switches, Finishes, DoneOf, Puts, Ops
<1>6. L \in 5..7 /\ 1 \in 1..L /\ 2 \in 1..L /\ 3 \in 1..L
  BY <1>3
<1>7. /\ todo'[1] = Step("stamp", v) /\ todo'[2] = Step("rest", v) /\ todo'[3] = Step("blockDone", v)
      /\ 3 \in 1..Len(todo')
  BY <1>3, <1>4, <1>6
<1>8. /\ Step("stamp", v) \in Steps /\ Step("stamp", v).op = "stamp"
      /\ Step("rest", v) \in Ops("rest", v) /\ Step("rest", v) \in Steps /\ Step("rest", v).op = "rest"
      /\ Step("rest", v).view = v
      /\ Step("blockDone", v) \in Steps /\ Step("blockDone", v).view = v
      /\ Step("blockDone", v).op = "blockDone"
  BY DEF Step, Steps, Ops
<1>9. ASSUME NEW k \in 1..L, steps[k].op = "blockDone"
      PROVE  k = 3
  <2>1. k = 1 \/ k = 2 \/ k = 3 \/ k \in 4..L
    BY <1>6
  <2>. QED  BY <1>3, <1>8, <1>9, <2>1
<1>10. ASSUME NEW n \in 1..Len(todo'), todo'[n] \in Ops("blockDone", Switcher)
       PROVE  \E m \in n + 1..Len(todo') : Window(n, m)'
  <2>1. CASE n \in 1..L
    <3>1. n = 3 /\ v = Switcher
      <4>1. steps[n].op = "blockDone" /\ steps[n].view = Switcher
        BY <1>4, <1>10, <2>1 DEF Ops
      <4>. QED  BY <1>3, <1>8, <1>9, <2>1, <4>1
    <3>2. PICK m \in 4..L :
            /\ steps[m] \in DoneOf(Second)
            /\ \A k \in 4..m - 1 : steps[k] \notin Breaks
            /\ \A i, k \in 4..m - 1 : steps[i] \in Ops("packet", v) /\ steps[k] \in Ops("packet", v)
                 => i = k
      BY <1>3, <3>1
    <3>3. m \in 1..L /\ m \in n + 1..Len(todo') /\ todo'[m] = steps[m]
      BY <1>4, <3>1, <3>2
    <3>4. \A k \in n + 1..m - 1 : k \in 4..m - 1 /\ todo'[k] = steps[k]
      BY <1>4, <3>1, <3>2
    <3>5. todo'[m] \in DoneOf(Second)
      BY <3>2, <3>3
    <3>6. \A k \in n + 1..m - 1 : todo'[k] \notin Breaks
      BY <3>2, <3>4
    <3>7. \A i, k \in n + 1..m - 1 :
            todo'[i] \in Ops("packet", Switcher) /\ todo'[k] \in Ops("packet", Switcher) => i = k
      BY <3>1, <3>2, <3>4
    <3>8. Window(n, m)'
      BY <1>5, <3>5, <3>6, <3>7 DEF Window
    <3>. QED  BY <3>3, <3>8
  <2>2. CASE n \notin 1..L
    <3>1. PICK n0 \in 2..Len(todo) : n0 = n - L + 1 /\ todo[n0] = todo'[n]
      BY <1>4, <2>2
    <3>2. n0 \in 1..Len(todo) /\ todo[n0] \in Ops("blockDone", Switcher)
      BY <1>10, <3>1
    <3>3. PICK m0 \in n0 + 1..Len(todo) : Window(n0, m0)
      BY <3>2 DEF WindowInv
    <3>4. n = Len(steps) + n0 - 1
      BY <1>4, <3>1
    <3>. QED  BY <1>1, <1>3, <3>2, <3>3, <3>4, LaterWindow
  <2>. QED  BY <2>1, <2>2
<1>11. ASSUME Switcher \in finished'
       PROVE  \E m \in 1..Len(todo') : (Window(0, m) /\ (sent[Switcher] # made[Switcher] => NoPacket(m)))'
  <2>1. v = Second
    <3>1. Head(todo) \notin Breaks
      BY <1>1, <1>11, BetweenEnds
    <3>2. v # Switcher
      BY <1>1, <1>2, <3>1, BreakKinds
    <3>. QED  BY <3>2, Apart
  <2>2. Second # Switcher
    BY Apart
  <2>3. todo'[3] \in DoneOf(Second)
    BY <1>7, <1>8, <2>1, BreakKinds
  <2>4. /\ Step("stamp", v) \notin Breaks /\ Step("rest", v) \notin Breaks
        /\ Step("stamp", v) \notin Ops("packet", Switcher) /\ Step("rest", v) \notin Ops("packet", Switcher)
    BY <1>8, <2>1, <2>2, BreakKinds
  <2>5. \A k \in 1..3 - 1 : todo'[k] \notin Breaks /\ todo'[k] \notin Ops("packet", Switcher)
    <3>1. \A k \in 1..3 - 1 : k = 1 \/ k = 2
      OBVIOUS
    <3>. QED  BY <1>7, <2>4, <3>1
  <2>6. \A k \in 0 + 1..3 - 1 : k \in 1..3 - 1
    OBVIOUS
  <2>7. Window(0, 3)'
    BY <1>5, <2>3, <2>5, <2>6 DEF Window
  <2>8. NoPacket(3)'
    BY <1>5, <2>5 DEF NoPacket
  <2>. QED  BY <1>7, <2>7, <2>8
<1>12. ASSUME NEW w \in Views, NEW k \in 1..Len(todo'), todo'[k] \in Ops("blockDone", w)
       PROVE  Flushed(k, w)'
  <2>1. CASE k \in 1..L
    <3>1. k = 3 /\ w = v
      <4>1. steps[k].op = "blockDone" /\ steps[k].view = w
        BY <1>4, <1>12, <2>1 DEF Ops
      <4>. QED  BY <1>3, <1>8, <1>9, <2>1, <4>1
    <3>2. k - 1 = 2 /\ k > 1
      BY <3>1
    <3>. QED  BY <1>5, <1>7, <1>8, <3>1, <3>2 DEF Flushed
  <2>2. CASE k \notin 1..L
    <3>1. PICK k0 \in 2..Len(todo) : k0 = k - L + 1 /\ todo[k0] = todo'[k]
      BY <1>4, <2>2
    <3>2. k0 \in 1..Len(todo) /\ todo[k0] \in Ops("blockDone", w)
      BY <1>12, <3>1
    <3>3. Flushed(k0, w)
      BY <3>2 DEF WindowInv
    <3>4. Head(todo) \notin Puts /\ Head(todo) \notin Ops("rest", w)
      BY <1>1 DEF Puts, Ops
    <3>5. 1 \in 1..k0 - 1
      BY <3>1
    <3>6. k0 > 2 /\ todo[k0 - 1] \in Ops("rest", w)
      <4>1. todo[k0 - 1] \in Ops("rest", w)
        BY <1>1, <3>3, <3>4, <3>5 DEF Flushed
      <4>2. k0 # 2
        BY <1>1, <3>4, <4>1
      <4>. QED  BY <3>1, <4>1, <4>2
    <3>7. k = Len(steps) + k0 - 1
      BY <1>4, <3>1
    <3>8. Flushed(Len(steps) + k0 - 1, w)'
      BY <1>1, <1>3, <3>2, <3>6, LaterFlush
    <3>. QED  BY <3>7, <3>8
  <2>. QED  BY <2>1, <2>2
<1>. QED  BY <1>10, <1>11, <1>12 DEF WindowInv, Between

(* A unit ends: the second end releases what is held back, and the first,  *)
(* the switching view's, leaves the other one to come.                     *)
LEMMA DoneCases ==
  ASSUME Interleave, TypeOK, PlanInv, PlaceInv, WindowInv, result = "running", MuxBlockFinished,
         NEW v, v = Head(todo).view
  PROVE  /\ v = Switcher => /\ Switcher \notin finished /\ finished' = {Switcher}
                            /\ Then(<<>>) /\ held' = held
         /\ v # Switcher => /\ v = Second /\ finished = {Switcher} /\ finished' = {}
                            /\ Then(PutAll("queue", held)) /\ held' = <<>>
         /\ Clean(v) /\ v \in Views /\ Head(todo) \in Ops("blockDone", v) /\ todo # <<>>
<1>1. /\ todo # <<>> /\ Head(todo).op = "blockDone" /\ Head(todo) \in Steps /\ v \in Views
      /\ 1 \in 1..Len(todo) /\ todo[1] = Head(todo) /\ Head(todo) \in Ops("blockDone", v)
  BY HeadOfTodo, PutKinds DEF MuxBlockFinished, At, Ops
<1>2. finished \subseteq {Switcher}
  BY DEF PlaceInv
<1>3. Switcher # Second /\ Views = {"main", "sub"} /\ Switcher \in Views /\ Second \in Views
  BY Apart
<1>4. Flushed(1, v)
  BY <1>1 DEF WindowInv
<1>5. Clean(v)
  BY <1>4 DEF Flushed
<1>6. CASE v = Switcher
  <2>1. Switcher \notin finished
    BY <1>1, <1>6, BetweenEnds, BreakKinds
  <2>2. finished \cup {v} = {Switcher} /\ {Switcher} # {"main", "sub"}
    BY <1>2, <1>3, <1>6, <2>1
  <2>. QED  BY <1>1, <1>5, <1>6, <2>1, <2>2 DEF MuxBlockFinished, BothFinished
<1>7. CASE v # Switcher
  <2>1. v = Second
    BY <1>1, <1>7, Apart
  <2>2. Head(todo) \in DoneOf(Second)
    BY <1>1, <2>1 DEF DoneOf
  <2>3. Switcher \in finished
    BY <1>1, <2>2, HeadExposed, Apart DEF PlanInv, BothRule, Rule
  <2>4. finished = {Switcher} /\ finished \cup {v} = {"main", "sub"}
    BY <1>2, <1>3, <2>1, <2>3
  <2>. QED  BY <1>1, <1>5, <1>7, <2>1, <2>4 DEF MuxBlockFinished, BothFinished, AfterRelease
<1>. QED  BY <1>6, <1>7

(* When a unit has ended in one view, the other's end is near or has come. *)
LEMMA DoneWindow ==
  ASSUME Interleave, TypeOK, PlanInv, PlaceInv, WindowInv, result = "running", MuxBlockFinished
  PROVE  WindowInv'
<1> DEFINE v == Head(todo).view
<1>1. /\ v = Switcher => /\ Switcher \notin finished /\ finished' = {Switcher}
                         /\ Then(<<>>) /\ held' = held
      /\ v # Switcher => /\ v = Second /\ finished = {Switcher} /\ finished' = {}
                         /\ Then(PutAll("queue", held)) /\ held' = <<>>
      /\ Clean(v) /\ v \in Views /\ Head(todo) \in Ops("blockDone", v) /\ todo # <<>>
  BY DoneCases
<1>2. /\ Head(todo).op = "blockDone" /\ 1 \in 1..Len(todo) /\ todo[1] = Head(todo)
      /\ sent' = sent /\ made' = made /\ delayBlk' = delayBlk
  BY <1>1, PutKinds DEF MuxBlockFinished, At
<1> HIDE DEF v
<1>3. \E steps \in Seq(Steps) :
        /\ Then(steps) /\ \A k \in 1..Len(steps) : steps[k] \in Puts
        /\ v = Switcher => Len(steps) = 0
  <2>1. CASE v = Switcher
    BY <1>1, <2>1, NoSteps
  <2>2. CASE v # Switcher
    <3>1. held \in Seq(Blocks) /\ "queue" \in {"put", "queue"}
      BY DEF TypeOK
    <3>2. PutAll("queue", held) \in Seq(Steps)
          /\ \A k \in 1..Len(PutAll("queue", held)) : PutAll("queue", held)[k] \in Puts
      BY <3>1, PutAllPuts
    <3>. QED  BY <1>1, <2>2, <3>2
  <2>. QED  BY <2>1, <2>2
<1>4. PICK steps \in Seq(Steps) :
        /\ Then(steps) /\ \A k \in 1..Len(steps) : steps[k] \in Puts
        /\ v = Switcher => Len(steps) = 0
  BY <1>3
<1> DEFINE L == Len(steps)
<1>5. /\ \A i \in 1..Len(todo) : i = 1 \/ (L + i - 1 \in 1..Len(todo') /\ todo'[L + i - 1] = todo[i])
      /\ \A k \in 1..Len(todo') :
           \/ k \in 1..L /\ todo'[k] = steps[k]
           \/ k - L + 1 \in 2..Len(todo) /\ todo'[k] = todo[k - L + 1]
      /\ \A k \in 1..L : k \in 1..Len(todo') /\ todo'[k] = steps[k]
      /\ L \in Nat /\ Len(todo') \in Nat /\ Len(todo) \in Nat
  BY <1>1, <1>4, StepsKept
<1>6. /\ Breaks' = Breaks /\ DoneOf(Second)' = DoneOf(Second) /\ Puts' = Puts
      /\ \A op, w : Ops(op, w)' = Ops(op, w)
  BY DEF Breaks, Switches, Finishes, DoneOf, Puts, Ops
<1>7. ASSUME NEW w \in Views, NEW k \in 1..Len(todo'), todo'[k] \in Ops("blockDone", w)
      PROVE  \E k0 \in 2..Len(todo) :
               /\ k = Len(steps) + k0 - 1 /\ todo[k0] \in Ops("blockDone", w) /\ k0 \in 1..Len(todo)
  <2>1. k \notin 1..L
    BY <1>4, <1>5, <1>7 DEF Puts, Ops
  <2>2. PICK k0 \in 2..Len(todo) : k0 = k - L + 1 /\ todo[k0] = todo'[k]
    BY <1>5, <2>1
  <2>3. k = Len(steps) + k0 - 1
    BY <1>5, <2>2
  <2>. QED  BY <1>7, <2>2, <2>3
<1>8. ASSUME NEW n \in 1..Len(todo'), todo'[n] \in Ops("blockDone", Switcher)
      PROVE  \E m \in n + 1..Len(todo') : Window(n, m)'
  <2>0. Switcher \in Views
    BY Apart
  <2>1. PICK n0 \in 2..Len(todo) :
          /\ n = Len(steps) + n0 - 1 /\ todo[n0] \in Ops("blockDone", Switcher) /\ n0 \in 1..Len(todo)
    BY <1>7, <1>8, <2>0
  <2>2. PICK m0 \in n0 + 1..Len(todo) : Window(n0, m0)
    BY <2>1 DEF WindowInv
  <2>. QED  BY <1>1, <1>4, <2>1, <2>2, LaterWindow
<1>9. ASSUME Switcher \in finished'
      PROVE  \E m \in 1..Len(todo') : (Window(0, m) /\ (sent[Switcher] # made[Switcher] => NoPacket(m)))'
  <2>1. v = Switcher /\ Len(steps) = 0
    BY <1>1, <1>4, <1>9
  <2>2. PICK m0 \in 1 + 1..Len(todo) : Window(1, m0)
    BY <1>1, <1>2, <2>1 DEF WindowInv
  <2>3. 0 = Len(steps) + 1 - 1
    BY <2>1
  <2>4. PICK h \in 0 + 1..Len(todo') : Window(0, h)'
    BY <1>1, <1>2, <1>4, <2>2, <2>3, LaterWindow
  <2>5. sent'[Switcher] = made'[Switcher]
    BY <1>1, <1>2, <2>1 DEF Clean
  <2>6. h \in 1..Len(todo')
    BY <1>5, <2>4
  <2>. QED  BY <2>4, <2>5, <2>6
<1>10. ASSUME NEW w \in Views, NEW k \in 1..Len(todo'), todo'[k] \in Ops("blockDone", w)
       PROVE  Flushed(k, w)'
  <2>1. PICK k0 \in 2..Len(todo) :
          /\ k = Len(steps) + k0 - 1 /\ todo[k0] \in Ops("blockDone", w) /\ k0 \in 1..Len(todo)
    BY <1>7, <1>10
  <2>2. Flushed(k0, w)
    BY <2>1 DEF WindowInv
  <2>3. Head(todo) \notin Puts /\ Head(todo) \notin Ops("rest", w)
    BY <1>2 DEF Puts, Ops
  <2>4. 1 \in 1..k0 - 1
    BY <2>1
  <2>5. k0 > 2 /\ todo[k0 - 1] \in Ops("rest", w)
    <3>1. todo[k0 - 1] \in Ops("rest", w)
      BY <1>2, <2>2, <2>3, <2>4 DEF Flushed
    <3>2. k0 # 2
      BY <1>2, <2>3, <3>1
    <3>. QED  BY <2>1, <3>1, <3>2
  <2>6. Flushed(Len(steps) + k0 - 1, w)'
    BY <1>1, <1>4, <1>10, <2>1, <2>5, LaterFlush
  <2>. QED  BY <2>1, <2>6
<1>. QED  BY <1>8, <1>9, <1>10 DEF WindowInv, Between

(* A packet comes in, or the sources are at their end: no unit has ended.  *)
LEMMA CallsWindow ==
  ASSUME Interleave, TypeOK, PlanInv, WindowInv,
         (\E v \in Views : MuxPacket(v)) \/ Stop \/ EndOfSources
  PROVE  WindowInv'
<1>1. result = "running" /\ todo = <<>> /\ finished' = finished
  BY DEF MuxPacket, Stop, EndOfSources
<1>2. Switcher \notin finished
  BY <1>1, BetweenEnds
<1>3. CASE Stop
  BY <1>3 DEF Stop, WindowInv
<1>4. Stop \/ \E S : todo' \in Seq(S) /\ \A s \in S : s.op # "blockDone"
  <2>1. ASSUME NEW v \in Views, MuxPacket(v)
        PROVE  \E S : todo' \in Seq(S) /\ \A s \in S : s.op # "blockDone"
    <3> DEFINE S == {Step("packet", v), Step("stamp", v), Step("switch", v)}
    <3>1. /\ <<Step("packet", v)>> \in Seq(S) /\ <<Step("stamp", v)>> \in Seq(S) /\ <<>> \in Seq(S)
          /\ <<Step("switch", v), Step("packet", v)>> \in Seq(S)
      OBVIOUS
    <3>2. \A s \in S : s.op # "blockDone"
      BY DEF Step
    <3> HIDE DEF S
    <3>3. Tables(v) \in Seq(S)
      BY <3>1, ConcatProperties DEF Tables, IfAny
    <3>4. IfAny(given[v] = 0, Tables(v)) \in Seq(S)
      BY <3>1, <3>3 DEF IfAny
    <3>5. todo' \in Seq(S)
      BY <2>1, <3>1, <3>4, ConcatProperties DEF MuxPacket
    <3>. QED  BY <3>2, <3>5
  <2>2. ASSUME EndOfSources
        PROVE  \E S : todo' \in Seq(S) /\ \A s \in S : s.op # "blockDone"
    <3>1. PICK S \in SUBSET Steps :
            todo' \in Seq(S) /\ \A s \in S : s.op \in EndOps \cup {"stamp", "rest"}
      BY <2>2, EndChain
    <3>. QED  BY <3>1 DEF EndOps
  <2>. QED  BY <2>1, <2>2
<1>5. CASE ~Stop
  <2>1. PICK S : todo' \in Seq(S) /\ \A s \in S : s.op # "blockDone"
    BY <1>4, <1>5
  <2>2. \A k \in 1..Len(todo') : todo'[k].op # "blockDone"
    BY <2>1, ElementOfSeq
  <2>3. \A v : \A k \in 1..Len(todo') : todo'[k] \notin Ops("blockDone", v)'
    BY <2>2 DEF Ops
  <2>. QED  BY <1>1, <1>2, <2>3 DEF WindowInv, Between
<1>. QED  BY <1>3, <1>5

(* What is left in the muxer's buffer is only appended to a TS.            *)
LEMMA NoTail ==
  ASSUME Interleave, TypeOK, LastInv, result = "running", FlushTSBuffer
  PROVE  FALSE
<1>1. todo # <<>> /\ Head(todo).op = "tail"
  BY DEF FlushTSBuffer, At
<1>2. ~Late(Head(todo))
  BY <1>1 DEF Late, EndOps
<1>3. ending \in BOOLEAN /\ M2ts
  BY Apart DEF TypeOK
<1>. QED  BY <1>1, <1>2, <1>3, HeadWhen DEF Early

(* Every step of the mux thread, where it is taken.                        *)
LEMMA MuxRuns ==
  ASSUME WriterInv, MuxStep
  PROVE  result = "running" /\ todo # <<>>
BY DEF WriterInv, JobOver, MuxStep, At, SwitchBlock, AddPacket, Stamp, FlushRest, PutBlock,
   FinishFileBlock, MuxBlockFinished, FlushTSBuffer, GotoNextFile, HeldOut, WaitForWriting,
   CloseMuxer, Verdict

(* The writer does not touch what the mux thread has to do.                *)
LEMMA MuxAsItWas ==
  ASSUME WriterThread \/ TearDown \/ UNCHANGED vars
  PROVE  /\ MuxKept /\ result' = result /\ closedOk' = closedOk
         /\ UNCHANGED <<given, made, processed, unit, finished>>
BY DEF WriterThread, WriterTest, WriterPeek, WriterExecute, WriterPop, TearDown, Terminate,
   PushSentinel, Join, Drain, DestroyMuxers, MuxKept, vars

(* Every step keeps the ends of the two views' units together.             *)
LEMMA NextWindow ==
  ASSUME Interleave, TypeOK, WriterInv, PlanInv, PlaceInv, LastInv, WindowInv, [Next]_vars
  PROVE  WindowInv'
<1>1. CASE WriterThread \/ TearDown \/ UNCHANGED vars
  <2>1. UNCHANGED <<todo, finished, made, sent, delayBlk, result>>
    BY <1>1, MuxAsItWas DEF MuxKept
  <2>. QED  BY <2>1 DEF WindowInv, Between, Window, NoPacket, Flushed, Clean, Breaks, Switches,
            Finishes, DoneOf, Puts, Ops
<1>2. CASE (\E v \in Views : MuxPacket(v)) \/ Stop \/ EndOfSources
  BY <1>2, CallsWindow
<1>3. CASE MuxStep
  <2>1. result = "running"
    BY <1>3, MuxRuns
  <2>. QED  BY <1>3, <2>1, SwitchWindow, PacketsWindow, OutWindow, FinishWindow, DoneWindow, NoTail
            DEF MuxStep
<1>. QED  BY <1>1, <1>2, <1>3 DEF Next, AllDone

-----------------------------------------------------------------------------
(* The unit that is written *)

(* No unit ends, and a block that leaves a muxer is of the unit it is in.  *)
LEMMA TurnKept ==
  ASSUME TurnInv, unit' = unit, finished' = finished,
         result' = "running" =>
           /\ result = "running"
           /\ \A b \in PutBlocks("put")' \cup Delayed' :
                b \in PutBlocks("put") \cup Delayed \/ (b.unit = Turn /\ b.view \notin finished)
           /\ \A b \in Elems(held') : b \in Elems(held) \/ b.unit = Turn
  PROVE  TurnInv'
<1>1. Turn' = Turn
  BY DEF Turn
<1>2. unit'[Switcher] = IF Switcher \in finished' THEN Turn + 1 ELSE Turn
  BY DEF TurnInv
<1>3. Elems(held)' = Elems(held')
  BY DEF Elems
<1>4. ASSUME result' = "running"
      PROVE  /\ \A b \in PutBlocks("put")' \cup Delayed' : b.unit = Turn /\ b.view \notin finished'
             /\ \A b \in Elems(held') : b.unit = Turn
  BY <1>4 DEF TurnInv
<1>. QED  BY <1>1, <1>2, <1>3, <1>4 DEF TurnInv

(* Nothing is put out, and nothing that waits for its arrival times is new.*)
LEMMA TurnQuiet ==
  ASSUME TypeOK, PlanInv, TurnInv, result = "running", todo # <<>>, Head(todo) \notin Puts,
         NEW steps \in Seq(Steps), Then(steps), \A k \in 1..Len(steps) : steps[k].op # "put",
         UNCHANGED <<unit, finished, held, delayBlk>>
  PROVE  TurnInv'
<1>1. PutBlocks("put")' = {}
  <2>1. /\ PutBlocks("put")' = {steps[k].blk : k \in {j \in 1..Len(steps) : steps[j].op = "put"}}
                               \cup {todo[k].blk : k \in {j \in 2..Len(todo) : todo[j].op = "put"}}
        /\ \A k \in 1..Len(todo) : todo[k].op # "put"
        /\ Len(todo) \in Nat
    BY PutBlocksThen, NoPutsLeft, PutKinds
  <2>2. \A k \in 2..Len(todo) : k \in 1..Len(todo)
    BY <2>1
  <2>. QED  BY <2>1, <2>2
<1>2. Delayed' = Delayed /\ Elems(held') = Elems(held)
  BY DEF Delayed, Elems
<1>. QED  BY <1>1, <1>2, TurnKept

(* The unit of a view is the one that is written, but for the time between *)
(* the ends of the switching view's and the other view's.                  *)
LEMMA UnitNow ==
  ASSUME Interleave, PlaceInv, TurnInv, NEW v \in Views, v = Switcher => Switcher \notin finished
  PROVE  unit[v] = Turn /\ v \notin finished
<1>1. CASE v = Switcher
  BY <1>1 DEF TurnInv
<1>2. CASE v # Switcher
  <2>1. v = Second
    BY <1>2, Apart
  <2>. QED  BY <1>2, <2>1 DEF Turn, PlaceInv
<1>. QED  BY <1>1, <1>2

(* A block that leaves its muxer when it is full is of the unit that is    *)
(* written.                                                                *)
LEMMA AddPacketTurn ==
  ASSUME Interleave, TypeOK, PlanInv, PlaceInv, WindowInv, TurnInv, result = "running", AddPacket
  PROVE  TurnInv'
<1>0. /\ todo # <<>> /\ Head(todo).op = "packet" /\ Head(todo) \notin Puts
      /\ Head(todo).view \in Views /\ Head(todo) \in Steps
  BY HeadOfTodo DEF AddPacket, At, Puts
<1>v. PICK v \in Views : v = Head(todo).view
  BY <1>0
<1> DEFINE n == made[v] + 1
           full == n - sent[v] = BlockLimit
           go == full /\ MayGoOut(v, n)
<1>1. /\ UNCHANGED <<unit, finished, held, result>>
      /\ delayBlk' = IF full /\ ~MayGoOut(v, n)
                       THEN [delayBlk EXCEPT ![v] = Append(@, Block(v, n))] ELSE delayBlk
      /\ Then(IfAny(full /\ MayGoOut(v, n), <<PutStep("put", Block(v, n))>>))
  BY <1>v DEF AddPacket
<1>2. /\ made \in [Views -> Nat] /\ sent \in [Views -> Nat] /\ delayBlk \in [Views -> Seq(Blocks)]
      /\ n \in Nat
  BY DEF TypeOK
<1>3. PICK b \in Blocks : b = Block(v, n)
  BY <1>2, BlockType
<1>4. b.unit = unit[v] /\ b.view = v
  BY <1>3 DEF Block
<1>5. full => b.unit = Turn /\ b.view \notin finished
  <2>1. ASSUME full, v = Switcher PROVE Switcher \notin finished
    <3>1. SUFFICES ASSUME Switcher \in finished PROVE FALSE
      OBVIOUS
    <3>2. Head(todo) \in Ops("packet", Switcher)
      BY <1>0, <1>v, <2>1 DEF Ops
    <3>3. sent[v] = made[v]
      BY <2>1, <3>1, <3>2, BetweenEnds
    <3>4. BlockLimit \in Nat /\ BlockLimit > 1
      BY MuxWriterAssumption
    <3>5. sent[v] \in Nat
      BY <1>2
    <3>. QED  BY <2>1, <3>3, <3>4, <3>5
  <2>. QED  BY <1>4, <2>1, UnitNow
<1> HIDE DEF n, full
<1>6. PICK steps \in Seq(Steps) :
        /\ Then(steps) /\ Len(steps) \in 0..1 /\ (Len(steps) = 1 => full)
        /\ \A k \in 1..Len(steps) : steps[k] \in Puts /\ steps[k].op = "put" /\ steps[k].blk = b
  <2>1. CASE go
    <3>1. PutStep("put", b) \in Puts /\ PutStep("put", b) \in Steps
      BY <1>4 DEF Puts, Steps, PutStep
    <3>2. PutStep("put", b).op = "put" /\ PutStep("put", b).blk = b
      BY DEF PutStep
    <3>3. PICK x \in Steps : x = PutStep("put", b)
      BY <3>1
    <3>4. <<x>> \in Seq(Steps) /\ Len(<<x>>) = 1 /\ \A k \in 1..1 : <<x>>[k] = x
      OBVIOUS
    <3>5. Then(<<x>>)
      <4>1. Then(<<PutStep("put", Block(v, n))>>)
        BY <1>1, <2>1 DEF IfAny
      <4>. QED  BY <1>3, <3>3, <4>1, Zenon
    <3>6. PICK steps \in Seq(Steps) : steps = <<x>> /\ Len(steps) = 1 /\ \A k \in 1..1 : steps[k] = x
      BY <3>4
    <3>7. Then(steps)
      BY <3>5, <3>6, Zenon
    <3>8. Len(steps) \in 0..1 /\ full
      BY <2>1, <3>6
    <3>9. \A k \in 1..Len(steps) : steps[k] \in Puts /\ steps[k].op = "put" /\ steps[k].blk = b
      BY <3>1, <3>2, <3>3, <3>6
    <3>. QED  BY <3>7, <3>8, <3>9
  <2>2. CASE ~go
    <3>1. Then(<<>>)
      BY <1>1, <2>2 DEF IfAny
    <3>2. Len(<<>>) \in 0..1 /\ Len(<<>>) # 1
      OBVIOUS
    <3>. QED  BY <3>1, <3>2, NoSteps
  <2>. QED  BY <2>1, <2>2
<1>7. \A y \in PutBlocks("put")' : full /\ y = b
  <2>1. /\ PutBlocks("put")' = {steps[k].blk : k \in {j \in 1..Len(steps) : steps[j].op = "put"}}
                               \cup {todo[k].blk : k \in {j \in 2..Len(todo) : todo[j].op = "put"}}
        /\ \A k \in 1..Len(todo) : todo[k].op # "put"
        /\ Len(todo) \in Nat
    BY <1>0, <1>6, PutBlocksThen, NoPutsLeft, PutKinds
  <2>2. \A k \in 2..Len(todo) : k \in 1..Len(todo)
    BY <2>1
  <2>3. \A k \in 1..Len(steps) : Len(steps) = 1
    BY <1>6
  <2>. QED  BY <1>6, <2>1, <2>2, <2>3
<1>8. \A y \in Delayed' : y \in Delayed \/ (full /\ y = b)
  <2>1. CASE delayBlk' = delayBlk
    BY <2>1 DEF Delayed
  <2>2. CASE full /\ delayBlk' = [delayBlk EXCEPT ![v] = Append(@, b)]
    <3>1. delayBlk'[v] = Append(delayBlk[v], b) /\ \A w \in Views : w # v => delayBlk'[w] = delayBlk[w]
      BY <1>2, <2>2
    <3>2. Elems(Append(delayBlk[v], b)) = Elems(delayBlk[v]) \cup {b}
      <4>1. delayBlk[v] \in Seq(Blocks)
        BY <1>2
      <4>. QED  BY <4>1, ElemsAppend
    <3>3. \A w \in Views : Elems(delayBlk'[w]) \subseteq Elems(delayBlk[w]) \cup {b}
      BY <3>1, <3>2
    <3>4. Delayed' = UNION {Elems(delayBlk'[w]) : w \in Views}
      BY DEF Delayed, Elems
    <3>. QED  BY <2>2, <3>3, <3>4 DEF Delayed
  <2>. QED  BY <1>1, <1>3, <2>1, <2>2
<1>9. Elems(held') = Elems(held)
  BY <1>1
<1>. QED  BY <1>1, <1>5, <1>7, <1>8, <1>9, TurnKept

(* The blocks that waited for their arrival times still are.               *)
LEMMA StampTurn ==
  ASSUME Interleave, TypeOK, PlanInv, PlaceInv, WindowInv, TurnInv, result = "running", Stamp
  PROVE  TurnInv'
<1>0. /\ todo # <<>> /\ Head(todo).op = "stamp" /\ Head(todo) \notin Puts
      /\ Head(todo).view \in Views
  BY HeadOfTodo DEF Stamp, At, Puts
<1>v. PICK v \in Views : v = Head(todo).view
  BY <1>0
<1>1. /\ UNCHANGED <<unit, finished, held, result>>
      /\ delayBlk' = [delayBlk EXCEPT ![v] = <<>>]
      /\ Then(PutAll("put", delayBlk[v]))
  BY <1>v DEF Stamp
<1>2. delayBlk \in [Views -> Seq(Blocks)] /\ delayBlk[v] \in Seq(Blocks)
  BY DEF TypeOK
<1>3. PICK blocks \in Seq(Blocks) : blocks = delayBlk[v]
  BY <1>2
<1> DEFINE steps == PutAll("put", blocks)
<1>4. /\ steps \in Seq(Steps) /\ Len(steps) = Len(blocks) /\ Then(steps)
      /\ \A k \in 1..Len(steps) : steps[k] \in Puts /\ steps[k].op = "put" /\ steps[k].blk = blocks[k]
  BY <1>1, <1>3, PutAllPuts DEF Ops
<1> HIDE DEF steps
<1>5. PutBlocks("put")' = Elems(blocks)
  BY <1>0, <1>4, PutsMade
<1>6. Elems(blocks) \subseteq Delayed
  BY <1>3 DEF Delayed
<1>7. Delayed' \subseteq Delayed
  <2>1. \A w \in Views : delayBlk'[w] = IF w = v THEN <<>> ELSE delayBlk[w]
    BY <1>1, <1>2
  <2>2. \A w \in Views : Elems(delayBlk'[w]) \subseteq Elems(delayBlk[w])
    BY <2>1, ElemsEmpty
  <2>3. Delayed' = UNION {Elems(delayBlk'[w]) : w \in Views}
    BY DEF Delayed, Elems
  <2>. QED  BY <2>2, <2>3 DEF Delayed
<1>8. Elems(held') = Elems(held)
  BY <1>1
<1>. QED  BY <1>1, <1>5, <1>6, <1>7, <1>8, TurnKept

(* What is flushed at the end of a unit belongs to that unit.              *)
LEMMA FlushRestTurn ==
  ASSUME Interleave, TypeOK, PlanInv, PlaceInv, WindowInv, TurnInv, result = "running", FlushRest
  PROVE  TurnInv'
<1>0. /\ todo # <<>> /\ Head(todo).op = "rest" /\ Head(todo) \notin Puts
      /\ Head(todo).view \in Views /\ Head(todo) \in Steps
  BY HeadOfTodo DEF FlushRest, At, Puts
<1>v. PICK v \in Views : v = Head(todo).view
  BY <1>0
<1>1. /\ UNCHANGED <<unit, finished, held, result, delayBlk>>
      /\ Then(<<PutStep("put", Block(v, made[v]))>>)
  BY <1>v, Apart DEF FlushRest
<1>2. made[v] \in Nat
  BY DEF TypeOK
<1>3. PICK b \in Blocks : b = Block(v, made[v])
  BY <1>2, BlockType
<1>4. b.unit = unit[v] /\ b.view = v
  BY <1>3 DEF Block
<1>5. b.unit = Turn /\ b.view \notin finished
  <2>1. ASSUME v = Switcher PROVE Switcher \notin finished
    BY <1>0, <1>v, <2>1, BetweenEnds, BreakKinds
  <2>. QED  BY <1>4, <2>1, UnitNow
<1>6. PutBlocks("put")' = {b}
  <2>1. PutStep("put", b) \in Puts /\ PutStep("put", b) \in Steps
    BY <1>4 DEF Puts, Steps, PutStep
  <2>2. PutStep("put", b).op = "put" /\ PutStep("put", b).blk = b
    BY DEF PutStep
  <2>3. PICK x \in Steps : x = PutStep("put", b)
    BY <2>1
  <2>4. PICK blocks \in Seq(Blocks) : blocks = <<b>> /\ Len(blocks) = 1 /\ Elems(blocks) = {b}
                                      /\ \A k \in 1..1 : blocks[k] = b
    <3>1. \A k \in 1..1 : <<b>>[k] = b
      OBVIOUS
    <3>. QED  BY <3>1, OneBlock
  <2>5. PICK steps \in Seq(Steps) : steps = <<x>> /\ Len(steps) = 1 /\ \A k \in 1..1 : steps[k] = x
    <3>1. <<x>> \in Seq(Steps) /\ Len(<<x>>) = 1 /\ \A k \in 1..1 : <<x>>[k] = x
      OBVIOUS
    <3>. QED  BY <3>1
  <2>6. Then(steps)
    BY <1>1, <1>3, <2>3, <2>5, Zenon
  <2>7. /\ Len(steps) = Len(blocks)
        /\ \A k \in 1..Len(steps) : steps[k] \in Puts /\ steps[k].op = "put" /\ steps[k].blk = blocks[k]
    BY <2>1, <2>2, <2>3, <2>4, <2>5
  <2>. QED  BY <1>0, <2>4, <2>6, <2>7, PutsMade
<1>7. Delayed' = Delayed /\ Elems(held') = Elems(held)
  BY <1>1 DEF Delayed, Elems
<1>. QED  BY <1>1, <1>5, <1>6, <1>7, TurnKept

(* A block is queued or held back in the unit it was made in.              *)
LEMMA PutBlockTurn ==
  ASSUME TypeOK, PlanInv, LineInv, TurnInv, result = "running", PutBlock
  PROVE  TurnInv'
<1>0. /\ todo # <<>> /\ Head(todo).op \in {"put", "queue"} /\ Head(todo) \in Puts
      /\ Head(todo).blk \in Blocks /\ UNCHANGED <<unit, finished, delayBlk>>
  <2>1. todo # <<>> /\ Head(todo).op \in {"put", "queue"}
    BY DEF PutBlock, At
  <2>2. Head(todo) \in Puts /\ Head(todo).blk \in Blocks
    BY <2>1, PutKinds
  <2>. QED  BY <2>1, <2>2 DEF PutBlock
<1>1. CASE result' # "running"
  BY <1>0, <1>1, TurnKept
<1>2. CASE result' = "running"
  <2>1. /\ Then(<<>>)
        /\ \/ held' = held
           \/ held' = Append(held, Head(todo).blk) /\ Head(todo).op = "put"
    BY <1>2 DEF PutBlock, AsyncWriteBuffer, AsyncWriteBlock, Throw, At
  <2>2. PICK b : b = Head(todo).blk
    OBVIOUS
  <2>3. PICK o \in {"put", "queue"} : o = Head(todo).op
    BY <1>0
  <2>4. PutsRise
    BY DEF LineInv, EachRises
  <2>5. /\ PutBlocks(o) = PutBlocks(o)' \cup {b}
        /\ \A op \in {"put", "queue"} \ {o} : PutBlocks(op)' = PutBlocks(op)
    BY <1>0, <2>1, <2>2, <2>3, <2>4, PutTaken
  <2>6. PutBlocks("put")' \subseteq PutBlocks("put") /\ (o = "put" => b \in PutBlocks("put"))
    BY <2>3, <2>5
  <2>7. \A y \in Elems(held') : y \in Elems(held) \/ (o = "put" /\ y = b)
    <3>1. Elems(Append(held, b)) = Elems(held) \cup {b}
      BY <1>0, <2>2, ElemsAppend DEF TypeOK
    <3>2. CASE held' = held
      BY <3>2
    <3>3. CASE held' = Append(held, b) /\ o = "put"
      <4>1. Elems(held') = Elems(held) \cup {b}
        BY <3>1, <3>3
      <4>. QED  BY <3>3, <4>1
    <3>. QED  BY <2>1, <2>2, <2>3, <3>2, <3>3
  <2>8. o = "put" => b.unit = Turn
    BY <2>6 DEF TurnInv
  <2>9. Delayed' = Delayed
    BY <1>0 DEF Delayed
  <2>. QED  BY <1>0, <2>6, <2>7, <2>8, <2>9, TurnKept
<1>. QED  BY <1>1, <1>2

(* The units of both views go on one after the other.                      *)
LEMMA DoneTurn ==
  ASSUME Interleave, TypeOK, PlanInv, PlaceInv, WindowInv, TurnInv, result = "running",
         MuxBlockFinished
  PROVE  TurnInv'
<1>1. PICK v : v = Head(todo).view
  OBVIOUS
<1>2. /\ v = Switcher => /\ Switcher \notin finished /\ finished' = {Switcher}
                         /\ Then(<<>>) /\ held' = held
      /\ v # Switcher => /\ v = Second /\ finished = {Switcher} /\ finished' = {}
                         /\ Then(PutAll("queue", held)) /\ held' = <<>>
      /\ Clean(v) /\ v \in Views /\ Head(todo) \in Ops("blockDone", v) /\ todo # <<>>
  BY <1>1, DoneCases
<1>3. /\ unit' = [unit EXCEPT ![v] = @ + 1] /\ delayBlk' = delayBlk
      /\ Head(todo) \notin Puts /\ unit \in [Views -> Nat] /\ held \in Seq(Blocks)
      /\ Second \in Views /\ Switcher \in Views /\ Second # Switcher
  BY <1>1, <1>2, Apart DEF MuxBlockFinished, TypeOK, At, Puts, Ops
<1>4. Delayed' = Delayed /\ \A y \in Delayed : y.view # v
  <2>1. \A y \in Delayed : y.view # v
    BY <1>2, ElemsEmpty, DelayedViews DEF Clean
  <2>. QED  BY <1>3, <2>1 DEF Delayed
<1>5. PutBlocks("put")' = {}
  <2>1. CASE v = Switcher
    BY <1>2, <1>3, <2>1, NoSteps, NoPuts
  <2>2. CASE v # Switcher
    <3>1. PICK blocks \in Seq(Blocks) : blocks = held
      BY <1>3
    <3> DEFINE steps == PutAll("queue", blocks)
    <3>2. /\ steps \in Seq(Steps) /\ Len(steps) = Len(blocks) /\ Then(steps)
          /\ \A k \in 1..Len(steps) : steps[k] \in Puts /\ steps[k].op = "queue" /\ steps[k].blk = blocks[k]
      BY <1>2, <2>2, <3>1, PutAllPuts DEF Ops
    <3> HIDE DEF steps
    <3>3. "put" \in {"put", "queue"} \ {"queue"}
      OBVIOUS
    <3>. QED  BY <1>2, <1>3, <3>2, <3>3, PutsMade
  <2>. QED  BY <2>1, <2>2
<1>6. Elems(held)' = Elems(held')
  BY DEF Elems
<1>7. unit[Switcher] = (IF Switcher \in finished THEN Turn + 1 ELSE Turn)
      /\ (\A b \in Delayed : b.unit = Turn /\ b.view \notin finished)
      /\ (\A b \in Elems(held) : b.unit = Turn)
  BY DEF TurnInv
<1>8. CASE v = Switcher
  <2>1. Turn' = Turn /\ unit'[Switcher] = Turn + 1
    BY <1>2, <1>3, <1>7, <1>8 DEF Turn
  <2>2. \A b \in Delayed' : b.unit = Turn /\ b.view \notin finished'
    BY <1>2, <1>4, <1>7, <1>8
  <2>3. \A b \in Elems(held') : b.unit = Turn
    BY <1>2, <1>7, <1>8
  <2>. QED  BY <1>2, <1>5, <1>6, <1>8, <2>1, <2>2, <2>3 DEF TurnInv
<1>9. CASE v # Switcher
  <2>1. Turn' = Turn + 1 /\ unit'[Switcher] = Turn + 1
    BY <1>2, <1>3, <1>7, <1>9 DEF Turn
  <2>2. Delayed' = {}
    <3>1. ASSUME NEW y \in Delayed PROVE FALSE
      <4>1. y.view \in Views /\ y.view # Second /\ y.view # Switcher
        BY <1>2, <1>4, <1>7, <1>9, DelayedViews
      <4>. QED  BY <4>1, Apart
    <3>. QED  BY <1>4, <3>1
  <2>3. Elems(held') = {}
    BY <1>2, <1>9, ElemsEmpty
  <2>4. Switcher \notin finished'
    BY <1>2, <1>9
  <2>. QED  BY <1>5, <1>6, <2>1, <2>2, <2>3, <2>4 DEF TurnInv
<1>. QED  BY <1>8, <1>9

(* The steps that put out nothing a muxer made.                            *)
LEMMA QuietTurn ==
  ASSUME TypeOK, PlanInv, TurnInv, result = "running",
         \/ SwitchBlock \/ FinishFileBlock \/ GotoNextFile \/ HeldOut \/ WaitForWriting
         \/ CloseMuxer \/ Verdict
  PROVE  TurnInv'
<1>1. UNCHANGED <<unit, finished, held, delayBlk>>
  BY DEF SwitchBlock, FinishFileBlock, GotoNextFile, HeldOut, WaitForWriting, CloseMuxer, Verdict
<1>2. CASE result' # "running"
  BY <1>1, <1>2, TurnKept
<1>3. CASE result' = "running"
  <2>1. ~Verdict
    BY <1>3 DEF Verdict
  <2>2. todo # <<>> /\ Head(todo) \notin Puts
    BY <2>1 DEF SwitchBlock, FinishFileBlock, GotoNextFile, HeldOut, WaitForWriting, CloseMuxer, At, Puts
  <2>3. \E steps \in Seq(Steps) : Then(steps) /\ \A k \in 1..Len(steps) : steps[k].op # "put"
    <3>1. CASE HeldOut
      <4>1. PICK blocks \in Seq(Blocks) : blocks = held
        BY DEF TypeOK
      <4> DEFINE steps == PutAll("queue", blocks)
      <4>2. /\ steps \in Seq(Steps) /\ Then(steps)
            /\ \A k \in 1..Len(steps) : steps[k].op = "queue"
        BY <3>1, <4>1, PutAllPuts DEF Ops, HeldOut
      <4> HIDE DEF steps
      <4>. QED  BY <4>2
    <3>2. CASE SwitchBlock \/ FinishFileBlock
      <4>1. PICK steps \in Seq(Steps) :
              Then(steps) /\ \A k \in 1..Len(steps) : steps[k] \notin Puts
        BY <3>2, SwitchSequel
      <4>2. \A k \in 1..Len(steps) : steps[k] \in Steps
        BY ElementOfSeq
      <4>3. \A k \in 1..Len(steps) : steps[k].op # "put"
        BY <4>1, <4>2 DEF Puts
      <4>. QED  BY <4>1, <4>3
    <3>3. CASE GotoNextFile \/ WaitForWriting \/ CloseMuxer
      <4>1. Then(<<>>)
        BY <1>3, <3>3 DEF GotoNextFile, WaitForWriting, CloseMuxer, Throw
      <4>. QED  BY <4>1, NoSteps
    <3>. QED  BY <2>1, <3>1, <3>2, <3>3
  <2>4. PICK steps \in Seq(Steps) : Then(steps) /\ \A k \in 1..Len(steps) : steps[k].op # "put"
    BY <2>3
  <2>. QED  BY <1>1, <2>2, <2>4, TurnQuiet
<1>. QED  BY <1>2, <1>3

(* Every step keeps what has not been queued in the unit that is written.  *)
LEMMA NextTurn ==
  ASSUME Interleave, TypeOK, TypeOK', WriterInv, PlanInv, PlaceInv, LastInv, LineInv, WindowInv,
         TurnInv, [Next]_vars
  PROVE  TurnInv'
<1>1. CASE WriterThread \/ TearDown \/ UNCHANGED vars
  <2>1. UNCHANGED <<todo, finished, unit, held, delayBlk, result>>
    BY <1>1, MuxAsItWas DEF MuxKept
  <2>2. PutBlocks("put")' = PutBlocks("put") /\ Delayed' = Delayed
    BY <2>1 DEF PutBlocks, Delayed
  <2>. QED  BY <2>1, <2>2, TurnKept
<1>2. CASE (\E v \in Views : MuxPacket(v)) \/ Stop \/ EndOfSources
  <2>1. /\ result = "running" /\ PutBlocks("put")' = {}
        /\ UNCHANGED <<unit, finished, held, delayBlk>>
    BY <1>2, CallsPut
  <2>2. Delayed' = Delayed
    BY <2>1 DEF Delayed
  <2>. QED  BY <2>1, <2>2, TurnKept
<1>3. CASE MuxStep
  <2>1. result = "running"
    BY <1>3, MuxRuns
  <2>. QED  BY <1>3, <2>1, QuietTurn, AddPacketTurn, StampTurn, FlushRestTurn, PutBlockTurn, DoneTurn,
            NoTail DEF MuxStep
<1>. QED  BY <1>1, <1>2, <1>3 DEF Next, AllDone

-----------------------------------------------------------------------------
(* The order of the units *)

(* A sequence that alternates, with a block more.                          *)
LEMMA AlternateAppend ==
  ASSUME NEW S, NEW s \in Seq(S), NEW x \in S, Alternating(s), \A y \in Elems(s) : Follows(y, x)
  PROVE  Alternating(Append(s, x))
<1> DEFINE t == Append(s, x)
           n == Len(s)
<1>1. /\ n \in Nat /\ Len(t) = n + 1 /\ t[n + 1] = x
      /\ \A i \in 1..n : t[i] = s[i]
  BY LenProperties, AppendProperties
<1> HIDE DEF t, n
<1>2. ASSUME NEW i \in 1..n + 1, NEW k \in 1..n + 1, i < k PROVE Follows(t[i], t[k])
  <2>1. i \in 1..n /\ t[i] = s[i] /\ s[i] \in Elems(s)
    BY <1>1, <1>2 DEF Elems, n
  <2>2. CASE k = n + 1
    BY <1>1, <2>1, <2>2
  <2>3. CASE k # n + 1
    <3>1. k \in 1..n /\ t[k] = s[k]
      BY <1>1, <2>3
    <3>. QED  BY <1>2, <2>1, <3>1 DEF Alternating, n
  <2>. QED  BY <2>2, <2>3
<1>. QED  BY <1>1, <1>2 DEF Alternating, t

(* A sequence that alternates, without its first block.                    *)
LEMMA AlternateTail ==
  ASSUME NEW S, NEW s \in Seq(S), s # <<>>, Alternating(s)
  PROVE  Alternating(Tail(s)) /\ \A y \in Elems(Tail(s)) : Follows(Head(s), y)
<1> DEFINE t == Tail(s)
           n == Len(s)
<1>1. /\ n \in Nat /\ n > 0 /\ Len(t) = n - 1 /\ s[1] = Head(s)
      /\ \A i \in 1..n - 1 : t[i] = s[i + 1]
  <2>1. n \in Nat /\ n # 0
    BY LenProperties, EmptySeq
  <2>. QED  BY <2>1, HeadTailProperties
<1> HIDE DEF t, n
<1>2. \A i \in 1..n - 1 : i + 1 \in 1..n /\ 1 \in 1..n /\ 1 < i + 1
  BY <1>1
<1>3. \A i, k \in 1..n - 1 : i < k => i + 1 < k + 1
  BY <1>1
<1>4. Alternating(t) /\ \A y \in Elems(t) : Follows(Head(s), y)
  BY <1>1, <1>2, <1>3 DEF Alternating, Elems, n
<1>. QED  BY <1>4 DEF t

(* No block comes behind the sentinel, or before it, out of turn.          *)
LEMMA SentinelFollows ==
  \A x : Follows(x, Sentinel) /\ Follows(Sentinel, x)
<1>1. Sentinel.view = "none" /\ "none" \notin Views
  BY DEF Sentinel, Views
<1>. QED  BY <1>1 DEF Follows

(* What is on its way is a block.                                          *)
LEMMA UnitTypes ==
  ASSUME TypeOK
  PROVE  /\ Landed \subseteq Blocks /\ Waiting \subseteq Blocks /\ PutBlocks("queue") \subseteq Blocks
         /\ \A b \in Blocks : b.view \in Views /\ b.unit \in Nat
<1>1. 1 \in 1..6 /\ 2 \in 1..6 /\ 3 \in 1..6
  OBVIOUS
<1>. QED  BY <1>1, LineType, LineIs DEF Blocks

(* The order stays as it is, but for blocks that are gone.                 *)
LEMMA UnitKept ==
  ASSUME UnitInv, disk' = disk, Alternating(WaitLine)', Waiting' \subseteq Waiting,
         PutBlocks("queue")' \subseteq PutBlocks("queue"), QueuedAlternate', HeldLive' => HeldLive,
         Turn' = Turn
  PROVE  UnitInv'
<1>1. Alternating(disk)' /\ Landed' = Landed
  BY DEF UnitInv, Alternating, Follows, Landed, Elems
<1>2. /\ Leads(Landed', Waiting')
      /\ Leads(Landed' \cup Waiting', PutBlocks("queue")')
  BY <1>1 DEF UnitInv, Leads
<1>3. HeldLive' => \A b \in Landed' \cup Waiting' \cup PutBlocks("queue")' : InTurn(b)
  BY <1>1 DEF UnitInv
<1>4. \A b : InTurn(b)' <=> InTurn(b)
  BY DEF InTurn
<1>5. Leads(Landed, Waiting)' /\ Leads(Landed \cup Waiting, PutBlocks("queue"))'
  BY <1>2 DEF Leads, Follows
<1>. QED  BY <1>1, <1>3, <1>4, <1>5 DEF UnitInv

(* The queue is as it was, but for the block the writer has done.          *)
LEMMA WaitStill ==
  ASSUME UnitInv, WaitLine' = WaitLine
  PROVE  Alternating(WaitLine)' /\ Waiting' = Waiting
<1>1. (Alternating(WaitLine)' <=> Alternating(WaitLine')) /\ Waiting' = Elems(WaitLine') \ {Sentinel}
  BY DEF Alternating, Follows, Waiting, Elems, Sentinel
<1>2. Alternating(WaitLine') /\ Elems(WaitLine') = Elems(WaitLine)
  BY DEF UnitInv
<1>. QED  BY <1>1, <1>2 DEF Waiting

(* The order with nothing to queue.                                        *)
LEMMA NothingQueued ==
  ASSUME PutBlocks("queue")' = {}
  PROVE  QueuedAlternate'
<1>1. \A k \in 1..Len(todo') : todo'[k].op = "queue" => todo'[k].blk \in PutBlocks("queue")'
  BY DEF PutBlocks
<1>. QED  BY <1>1 DEF QueuedAlternate

(* A step that queues nothing and puts out nothing that was held back.     *)
LEMMA QuietUnit ==
  ASSUME TypeOK, PlanInv, UnitInv, result = "running", todo # <<>>, Head(todo) \notin Puts,
         Head(todo).op # "heldOut", NEW steps \in Seq(Steps), Then(steps),
         \A k \in 1..Len(steps) : steps[k].op \notin {"queue", "heldOut"},
         UNCHANGED <<disk, queue, wpc, ending>>, Turn' = Turn
  PROVE  UnitInv'
<1>1. PutBlocks("queue")' = {}
  <2>1. /\ PutBlocks("queue")' = {steps[k].blk : k \in {j \in 1..Len(steps) : steps[j].op = "queue"}}
                                 \cup {todo[k].blk : k \in {j \in 2..Len(todo) : todo[j].op = "queue"}}
        /\ \A k \in 1..Len(todo) : todo[k].op # "queue"
        /\ Len(todo) \in Nat
    BY PutBlocksThen, NoPutsLeft, PutKinds
  <2>2. \A k \in 2..Len(todo) : k \in 1..Len(todo)
    BY <2>1
  <2>. QED  BY <2>1, <2>2
<1>2. HeldLive' <=> HeldLive
  BY HeldLiveKept
<1>3. WaitLine' = WaitLine
  BY DEF WaitLine
<1>4. Alternating(WaitLine)' /\ Waiting' = Waiting /\ QueuedAlternate'
  BY <1>1, <1>3, WaitStill, NothingQueued
<1>. QED  BY <1>1, <1>2, <1>4, UnitKept

(* Nothing is to be done any more.                                         *)
LEMMA OverUnit ==
  ASSUME UnitInv, todo' = <<>>, UNCHANGED <<disk, queue, wpc, ending>>, Turn' = Turn
  PROVE  UnitInv'
<1>1. Len(todo') = 0 /\ \A k \in 1..0 : FALSE
  OBVIOUS
<1>2. PutBlocks("queue")' = {} /\ (HeldLive' => HeldLive)
  BY <1>1 DEF PutBlocks, HeldLive
<1>3. WaitLine' = WaitLine
  BY DEF WaitLine
<1>4. Alternating(WaitLine)' /\ Waiting' = Waiting /\ QueuedAlternate'
  BY <1>2, <1>3, WaitStill, NothingQueued
<1>. QED  BY <1>2, <1>4, UnitKept

(* What the muxers put out is not queued yet.                              *)
LEMMA PacketPuts ==
  ASSUME TypeOK, PlaceInv, result = "running", AddPacket \/ Stamp \/ FlushRest
  PROVE  /\ todo # <<>> /\ Head(todo).op \in {"packet", "stamp", "rest"} /\ Head(todo) \notin Puts
         /\ \E steps \in Seq(Steps) : Then(steps) /\ \A k \in 1..Len(steps) : steps[k].op = "put"
<1>0. /\ todo # <<>> /\ Head(todo).op \in {"packet", "stamp", "rest"} /\ Head(todo).view \in Views
  BY HeadOfTodo DEF AddPacket, Stamp, FlushRest, At
<1>1. Head(todo) \notin Puts
  BY <1>0 DEF Puts
<1>v. PICK v \in Views : v = Head(todo).view
  BY <1>0
<1>2. /\ made \in [Views -> Nat] /\ sent \in [Views -> Nat] /\ delayBlk[v] \in Seq(Blocks)
  BY DEF TypeOK
<1>3. ASSUME NEW b \in Blocks, NEW c \in BOOLEAN, Then(IfAny(c, <<PutStep("put", b)>>))
      PROVE  \E steps \in Seq(Steps) : Then(steps) /\ \A k \in 1..Len(steps) : steps[k].op = "put"
  <2> DEFINE steps == IfAny(c, <<PutStep("put", b)>>)
  <2>1. /\ steps \in Seq(Steps) /\ Then(steps)
        /\ \A k \in 1..Len(steps) : steps[k] \in Puts /\ steps[k] \in Ops("put", b.view)
    BY <1>3, OnePut
  <2> HIDE DEF steps
  <2>. QED  BY <2>1 DEF Ops
<1>4. CASE AddPacket
  <2> DEFINE n == made[v] + 1
             c == n - sent[v] = BlockLimit /\ MayGoOut(v, n)
  <2>1. Block(v, n) \in Blocks /\ c \in BOOLEAN
    BY <1>2, BlockType DEF MayGoOut
  <2>2. Then(IfAny(c, <<PutStep("put", Block(v, n))>>))
    BY <1>4, <1>v DEF AddPacket
  <2> HIDE DEF n, c
  <2>. QED  BY <1>0, <1>1, <1>3, <2>1, <2>2
<1>5. CASE Stamp
  <2> DEFINE steps == PutAll("put", delayBlk[v])
  <2>1. steps \in Seq(Steps) /\ \A k \in 1..Len(steps) : steps[k].op = "put"
    <3>1. steps \in Seq(Steps)
          /\ \A k \in 1..Len(steps) : steps[k] \in Puts /\ steps[k] \in Ops("put", delayBlk[v][k].view)
      BY <1>2, PutAllPuts
    <3> HIDE DEF steps
    <3>. QED  BY <3>1 DEF Ops
  <2>2. Then(steps)
    BY <1>5, <1>v DEF Stamp
  <2> HIDE DEF steps
  <2>. QED  BY <1>0, <1>1, <2>1, <2>2
<1>6. CASE FlushRest
  <2>1. PICK to \in IF M2ts THEN {made[v]} ELSE sent[v]..made[v] :
          Then(<<PutStep("put", Block(v, to))>>)
    BY <1>6, <1>v DEF FlushRest
  <2>2. to \in Nat /\ made[v] \in Nat /\ sent[v] \in Nat
    BY <1>2, <2>1
  <2>3. Block(v, to) \in Blocks /\ TRUE \in BOOLEAN
    BY <2>2, BlockType
  <2>4. Then(IfAny(TRUE, <<PutStep("put", Block(v, to))>>))
    BY <2>1 DEF IfAny
  <2>. QED  BY <1>0, <1>1, <1>3, <2>3, <2>4
<1>. QED  BY <1>4, <1>5, <1>6

(* The steps of the mux thread that queue nothing.                         *)
LEMMA StillUnit ==
  ASSUME Interleave, TypeOK, PlanInv, PlaceInv, LastInv, UnitInv, result = "running",
         \/ SwitchBlock \/ FinishFileBlock \/ AddPacket \/ Stamp \/ FlushRest
         \/ GotoNextFile \/ WaitForWriting \/ CloseMuxer \/ Verdict
  PROVE  UnitInv'
<1>1. UNCHANGED <<queue, wpc, ending, unit>> /\ Turn' = Turn
  BY DEF SwitchBlock, FinishFileBlock, AddPacket, Stamp, FlushRest, GotoNextFile, WaitForWriting,
     CloseMuxer, Verdict, Turn
<1>2. disk' = disk
  <2>1. CASE CloseMuxer
    <3>1. /\ todo # <<>> /\ Head(todo).op = "close" /\ Head(todo) \in Steps /\ Head(todo).view \in Views
      BY <2>1, HeadOfTodo DEF CloseMuxer, At
    <3>2. PICK v \in Views : v = Head(todo).view
      BY <3>1
    <3>3. ending
      <4>1. ~Early(Head(todo)) /\ ending \in BOOLEAN
        BY <3>1 DEF Early, EndOps, TypeOK
      <4>. QED  BY <3>1, <4>1, HeadWhen
    <3>4. sent[v] = made[v]
      <4>1. Head(todo) \in Ops("close", v)
        BY <3>1, <3>2 DEF Ops
      <4>2. Exposed(Plan, Ops("rest", v), Ops("close", v) \cup Verdicts)
        BY <3>1, <4>1, HeadExposed
      <4>. QED  BY <3>3, <4>2, Apart DEF LastInv, ShutRule, Clean
    <3>5. ~(sent[v] < made[v])
      <4>1. sent[v] \in Nat
        BY DEF TypeOK
      <4>. QED  BY <3>4, <4>1
    <3>. QED  BY <2>1, <3>2, <3>5 DEF CloseMuxer
  <2>2. CASE ~CloseMuxer
    BY <2>2 DEF SwitchBlock, FinishFileBlock, AddPacket, Stamp, FlushRest, GotoNextFile,
       WaitForWriting, Verdict
  <2>. QED  BY <2>1, <2>2
<1>3. CASE todo' = <<>> /\ result' # "running"
  BY <1>1, <1>2, <1>3, OverUnit
<1>4. CASE /\ todo # <<>> /\ Head(todo) \notin Puts /\ Head(todo).op # "heldOut"
           /\ \E steps \in Seq(Steps) :
                Then(steps) /\ \A k \in 1..Len(steps) : steps[k].op \notin {"queue", "heldOut"}
  BY <1>1, <1>2, <1>4, QuietUnit
<1>5. CASE SwitchBlock \/ FinishFileBlock
  <2>1. PICK steps \in Seq(Steps) :
          Then(steps) /\ \A k \in 1..Len(steps) : steps[k] \notin Puts /\ Early(steps[k])
    BY <1>5, SwitchSequel
  <2>2. todo # <<>> /\ Head(todo).op \in {"switch", "finish"} /\ Head(todo) \notin Puts
    BY <1>5, SwitchSequel
  <2>3. \A k \in 1..Len(steps) : steps[k].op \notin {"queue", "heldOut"}
    <3>1. \A k \in 1..Len(steps) : steps[k] \in Steps
      BY ElementOfSeq
    <3>. QED  BY <2>1, <3>1 DEF Early, EndOps, Puts
  <2>. QED  BY <1>4, <2>1, <2>2, <2>3
<1>6. CASE AddPacket \/ Stamp \/ FlushRest
  <2>1. /\ todo # <<>> /\ Head(todo).op \in {"packet", "stamp", "rest"} /\ Head(todo) \notin Puts
        /\ \E steps \in Seq(Steps) : Then(steps) /\ \A k \in 1..Len(steps) : steps[k].op = "put"
    BY <1>6, PacketPuts
  <2>. QED  BY <1>4, <2>1
<1>7. CASE GotoNextFile \/ WaitForWriting \/ CloseMuxer \/ Verdict
  <2>1. CASE result' # "running"
    <3>1. todo' = <<>>
      BY <1>7, <2>1 DEF GotoNextFile, WaitForWriting, CloseMuxer, Verdict, Throw
    <3>. QED  BY <1>3, <2>1, <3>1
  <2>2. CASE result' = "running"
    <3>1. /\ Then(<<>>) /\ todo # <<>> /\ Head(todo).op \in {"next", "wait", "close"}
      BY <1>7, <2>2 DEF GotoNextFile, WaitForWriting, CloseMuxer, Verdict, Throw, At
    <3>2. Head(todo) \notin Puts
      BY <3>1 DEF Puts
    <3>3. \E steps \in Seq(Steps) :
            Then(steps) /\ \A k \in 1..Len(steps) : steps[k].op \notin {"queue", "heldOut"}
      BY <3>1, NoSteps
    <3>. QED  BY <1>4, <3>1, <3>2, <3>3
  <2>. QED  BY <2>1, <2>2
<1>. QED  BY <1>5, <1>6, <1>7

(* A block taken from what is to be done is first among what is left.      *)
LEMMA QueuedLess ==
  ASSUME TypeOK, todo # <<>>, Then(<<>>), QueuedAlternate
  PROVE  /\ QueuedAlternate'
         /\ PutBlocks("queue")' \subseteq PutBlocks("queue")
         /\ Head(todo).op = "queue" =>
              /\ Head(todo).blk \in PutBlocks("queue")
              /\ \A y \in PutBlocks("queue")' : Follows(Head(todo).blk, y)
<1>1. <<>> \in Seq(Steps) /\ Len(<<>>) = 0 /\ \A k \in 1..0 : FALSE
  BY EmptySeq
<1>2. /\ \A k \in 1..Len(todo') : k + 1 \in 2..Len(todo) /\ todo'[k] = todo[k + 1]
      /\ Len(todo') \in Nat /\ Len(todo) \in Nat
  <2>1. \A k \in 1..Len(todo') :
          \/ k \in 1..Len(<<>>) /\ todo'[k] = <<>>[k]
          \/ /\ k - Len(<<>>) + 1 \in 2..Len(todo)
             /\ todo'[k] = todo[k - Len(<<>>) + 1]
    BY <1>1, StepsKept
  <2>2. Len(todo') \in Nat /\ Len(todo) \in Nat
    BY <1>1, StepsKept
  <2>3. \A k \in 1..Len(todo') : k - Len(<<>>) + 1 = k + 1
    BY <1>1, <2>2
  <2>. QED  BY <1>1, <2>1, <2>2, <2>3
<1>3. 1 \in 1..Len(todo) /\ todo[1] = Head(todo)
  BY HeadIsFirst
<1>4. QueuedAlternate'
  <2>1. \A i, k \in 1..Len(todo') : i < k => i + 1 < k + 1 /\ i + 1 \in 1..Len(todo) /\ k + 1 \in 1..Len(todo)
    BY <1>2
  <2>2. \A i, k \in 1..Len(todo') :
          i < k /\ todo'[i].op = "queue" /\ todo'[k].op = "queue" => Follows(todo'[i].blk, todo'[k].blk)
    BY <1>2, <2>1 DEF QueuedAlternate
  <2>. QED  BY <2>2 DEF QueuedAlternate, Follows
<1>5. \A k \in 1..Len(todo') : k + 1 \in 1..Len(todo) /\ 1 < k + 1 /\ todo'[k] = todo[k + 1]
  BY <1>2
<1>6. PutBlocks("queue")' \subseteq PutBlocks("queue")
  BY <1>5 DEF PutBlocks
<1>7. ASSUME Head(todo).op = "queue"
      PROVE  /\ Head(todo).blk \in PutBlocks("queue")
             /\ \A y \in PutBlocks("queue")' : Follows(Head(todo).blk, y)
  <2>1. Head(todo).blk \in PutBlocks("queue")
    BY <1>3, <1>7 DEF PutBlocks
  <2>2. ASSUME NEW k \in 1..Len(todo'), todo'[k].op = "queue"
        PROVE  Follows(Head(todo).blk, todo'[k].blk)
    <3>1. Follows(todo[1].blk, todo[k + 1].blk)
      BY <1>3, <1>5, <1>7, <2>2 DEF QueuedAlternate
    <3>. QED  BY <1>3, <1>5, <3>1
  <2>3. PutBlocks("queue")' = {todo'[k].blk : k \in {j \in 1..Len(todo') : todo'[j].op = "queue"}}
    BY DEF PutBlocks
  <2>. QED  BY <2>1, <2>2, <2>3
<1>. QED  BY <1>4, <1>6, <1>7

(* A block is queued in its turn.                                          *)
LEMMA QueueUnit ==
  ASSUME TypeOK, WriterInv, UnitInv, UNCHANGED <<disk, wpc>>, Turn' = Turn,
         NEW b \in Blocks, queue' = Append(queue, b),
         \A y \in Landed \cup Waiting : Follows(y, b),
         \A y \in PutBlocks("queue")' : Follows(b, y),
         PutBlocks("queue")' \subseteq PutBlocks("queue"), QueuedAlternate',
         HeldLive' => HeldLive /\ InTurn(b)
  PROVE  UnitInv'
<1>1. Alternating(disk)' /\ Landed' = Landed
  BY DEF UnitInv, Alternating, Follows, Landed, Elems
<1>2. WaitLine' = Append(WaitLine, b) /\ WaitLine \in Seq(Blocks \cup {Sentinel})
      /\ b \in Blocks \cup {Sentinel}
  BY Queueing
<1>3. Alternating(WaitLine)' /\ Waiting' = Waiting \cup {b}
  <2>1. (Alternating(WaitLine)' <=> Alternating(WaitLine')) /\ Waiting' = Elems(WaitLine') \ {Sentinel}
    BY DEF Alternating, Follows, Waiting, Elems, Sentinel
  <2>2. \A y \in Elems(WaitLine) : Follows(y, b)
    BY SentinelFollows DEF Waiting
  <2>3. Alternating(WaitLine)
    BY DEF UnitInv
  <2>4. Alternating(Append(WaitLine, b)) /\ Elems(Append(WaitLine, b)) = Elems(WaitLine) \cup {b}
    BY <1>2, <2>2, <2>3, AlternateAppend, ElemsAppend
  <2>5. b # Sentinel
    BY SentinelNoBlock
  <2>. QED  BY <1>2, <2>1, <2>4, <2>5 DEF Waiting
<1>4. /\ Leads(Landed', Waiting')
      /\ Leads(Landed' \cup Waiting', PutBlocks("queue")')
  BY <1>1, <1>3 DEF UnitInv, Leads
<1>5. HeldLive' => \A y \in Landed' \cup Waiting' \cup PutBlocks("queue")' : InTurn(y)
  BY <1>1, <1>3 DEF UnitInv
<1>6. \A y : InTurn(y)' <=> InTurn(y)
  BY DEF InTurn
<1>7. Leads(Landed, Waiting)' /\ Leads(Landed \cup Waiting, PutBlocks("queue"))'
  BY <1>4 DEF Leads, Follows
<1>. QED  BY <1>1, <1>3, <1>5, <1>6, <1>7 DEF UnitInv

(* A block is put out: the second view's goes in front of what is held     *)
(* back of its unit.                                                       *)
LEMMA PutBlockUnit ==
  ASSUME Interleave, TypeOK, WriterInv, PlanInv, LastInv, TurnInv, UnitInv, result = "running",
         PutBlock
  PROVE  UnitInv'
<1>0. /\ todo # <<>> /\ Head(todo).op \in {"put", "queue"} /\ Head(todo) \in Puts
      /\ Head(todo).blk \in Blocks
      /\ UNCHANGED <<disk, wpc, ending>> /\ Turn' = Turn
  <2>1. todo # <<>> /\ Head(todo).op \in {"put", "queue"}
    BY DEF PutBlock, At
  <2>2. Head(todo) \in Puts /\ Head(todo).blk \in Blocks
    BY <2>1, PutKinds
  <2>. QED  BY <2>1, <2>2 DEF PutBlock, Turn
<1>b. PICK b \in Blocks : b = Head(todo).blk
  BY <1>0
<1>1. CASE todo' = <<>> /\ queue' = queue
  BY <1>0, <1>1, OverUnit
<1>2. ASSUME Then(<<>>)
      PROVE  /\ QueuedAlternate' /\ PutBlocks("queue")' \subseteq PutBlocks("queue")
             /\ Head(todo).op = "queue" =>
                  b \in PutBlocks("queue") /\ \A y \in PutBlocks("queue")' : Follows(b, y)
             /\ HeldLive' <=> HeldLive
  <2>1. HeldLive' <=> HeldLive
    BY <1>0, <1>2, NoSteps, HeldLiveKept
  <2>2. QueuedAlternate
    BY DEF UnitInv
  <2>. QED  BY <1>0, <1>b, <1>2, <2>1, <2>2, QueuedLess
<1>3. CASE Then(<<>>) /\ queue' = queue
  <2>1. WaitLine' = WaitLine
    BY <1>0, <1>3 DEF WaitLine
  <2>2. Alternating(WaitLine)' /\ Waiting' = Waiting
    BY <2>1, WaitStill
  <2>. QED  BY <1>0, <1>2, <1>3, <2>2, UnitKept
<1>4. CASE Then(<<>>) /\ queue' = Append(queue, b) /\ Head(todo).op = "queue"
  <2>1. \A y \in Landed \cup Waiting : Follows(y, b)
    BY <1>2, <1>4 DEF UnitInv, Leads
  <2>2. HeldLive => InTurn(b)
    BY <1>2, <1>4 DEF UnitInv
  <2>. QED  BY <1>0, <1>2, <1>4, <2>1, <2>2, QueueUnit
<1>5. CASE Then(<<>>) /\ queue' = Append(queue, b) /\ Head(todo).op = "put" /\ ~HeldBack(b.view)
  <2>1. b.view = "sub"
    BY <1>5, Apart, UnitTypes
  <2>2. b.unit = Turn
    <3>1. b \in PutBlocks("put")
      BY <1>0, <1>b, <1>5, HeadIsFirst DEF PutBlocks
    <3>. QED  BY <3>1 DEF TurnInv
  <2>3. HeldLive
    <3>1. Head(todo) \in Live
      BY <1>0, <1>5 DEF Live, Puts
    <3>. QED  BY <1>0, <3>1, HeldStillLive
  <2>4. InTurn(b)
    BY <2>1, <2>2 DEF InTurn
  <2>5. \A y \in Landed \cup Waiting : Follows(y, b)
    <3>1. \A y \in Landed \cup Waiting : InTurn(y)
      BY <2>3 DEF UnitInv
    <3>. QED  BY <2>1, <2>2, <3>1 DEF InTurn, Follows
  <2>6. PutBlocks("queue")' = {}
    <3>1. OneKind
      BY DEF LastInv
    <3>2. \A k \in 1..Len(todo) : todo[k].op # "queue"
      BY <1>0, <1>5, <3>1, PutKinds DEF OneKind
    <3>3. PutBlocks("queue") = {}
      BY <3>2 DEF PutBlocks
    <3>. QED  BY <1>2, <1>5, <3>3
  <2>. QED  BY <1>0, <1>2, <1>5, <2>3, <2>4, <2>5, <2>6, QueueUnit
<1>6. CASE AsyncWriteBlock(b) /\ (Head(todo).op = "queue" \/ ~HeldBack(b.view))
  <2>1. CASE HasError
    BY <1>1, <1>6, <2>1 DEF AsyncWriteBlock, Throw
  <2>2. CASE ~HasError
    <3>1. Then(<<>>)
      BY <1>6, <2>2 DEF AsyncWriteBlock
    <3>2. queue' = Append(queue, b)
      <4>1. RoomInQueue /\ Len(queue) \in Nat
        BY <1>6, LenProperties DEF AsyncWriteBlock, TypeOK
      <4>2. ~(Len(queue) >= QueueMax)
        BY <4>1, MuxWriterAssumption DEF RoomInQueue
      <4>. QED  BY <1>6, <2>2, <4>2 DEF AsyncWriteBlock
    <3>. QED  BY <1>0, <1>4, <1>5, <1>6, <3>1, <3>2
  <2>. QED  BY <2>1, <2>2
<1>7. CASE HeldBack(b.view) /\ AsyncWriteBuffer(b)
  BY <1>3, <1>7 DEF AsyncWriteBuffer
<1>. QED  BY <1>b, <1>6, <1>7 DEF PutBlock, AsyncWriteBuffer, At

(* What is held back goes behind the second view's blocks of its unit.     *)
LEMMA ReleaseUnit ==
  ASSUME Interleave, TypeOK, PlanInv, PlaceInv, TurnInv, UnitInv, result = "running", HeldLive,
         todo # <<>>, Head(todo) \notin Puts, Then(PutAll("queue", held)),
         UNCHANGED <<disk, queue, wpc>>, ~HeldLive' \/ Turn' = Turn + 1
  PROVE  UnitInv'
<1>1. PICK blocks \in Seq(Blocks) : blocks = held
  BY DEF TypeOK
<1> DEFINE steps == PutAll("queue", blocks)
<1>2. /\ steps \in Seq(Steps) /\ Len(steps) = Len(blocks) /\ Then(steps)
      /\ \A k \in 1..Len(steps) : steps[k] \in Puts /\ steps[k].op = "queue" /\ steps[k].blk = blocks[k]
  BY <1>1, PutAllPuts DEF Ops
<1> HIDE DEF steps
<1>3. PutBlocks("queue")' = Elems(held)
  BY <1>1, <1>2, PutsMade
<1>4. \A b \in Elems(held) : b.unit = Turn /\ b.view = "main"
  <2>1. \A b \in Elems(held) : b.view = "main"
    BY DEF PlaceInv, BlocksHere, Elems
  <2>. QED  BY <2>1 DEF TurnInv
<1>5. Alternating(disk)' /\ Landed' = Landed
  BY DEF UnitInv, Alternating, Follows, Landed, Elems
<1>6. Alternating(WaitLine)' /\ Waiting' = Waiting
  <2>1. WaitLine' = WaitLine
    BY DEF WaitLine
  <2>. QED  BY <2>1, WaitStill
<1>7. \A y \in Landed \cup Waiting : InTurn(y)
  BY DEF UnitInv
<1>8. Leads(Landed, Waiting)'
  BY <1>5, <1>6 DEF UnitInv, Leads, Follows
<1>9. Leads(Landed \cup Waiting, PutBlocks("queue"))'
  <2>1. \A y \in Landed \cup Waiting, b \in Elems(held) : Follows(y, b)
    BY <1>4, <1>7 DEF InTurn, Follows
  <2>2. \A y \in Landed' \cup Waiting', b \in PutBlocks("queue")' : Follows(y, b)
    BY <1>3, <1>5, <1>6, <2>1
  <2>. QED  BY <2>2 DEF Leads, Follows
<1>10. QueuedAlternate'
  <2>1. \A k \in 1..Len(todo') : todo'[k].op = "queue" => todo'[k].blk \in Elems(held)
    BY <1>3 DEF PutBlocks
  <2>. QED  BY <1>4, <2>1 DEF QueuedAlternate, Follows
<1>11. ASSUME HeldLive', NEW b \in Landed' \cup Waiting' \cup PutBlocks("queue")'
       PROVE  InTurn(b)'
  <2>1. Turn \in Nat /\ Turn' = Turn + 1
    BY <1>11, Apart DEF TypeOK, Turn
  <2>2. b \in Landed \cup Waiting \/ b \in Elems(held)
    BY <1>3, <1>5, <1>6
  <2>3. (b.unit < Turn /\ b.unit \in Nat) \/ b.unit = Turn
    <3>1. b \in Landed \cup Waiting => b.unit \in Nat
      BY UnitTypes
    <3>. QED  BY <1>4, <1>7, <2>2, <3>1 DEF InTurn
  <2>4. PICK n : n = b.unit
    OBVIOUS
  <2>5. PICK m : m = Turn
    OBVIOUS
  <2>6. n < m + 1
    BY <2>1, <2>3, <2>4, <2>5
  <2>. QED  BY <2>1, <2>4, <2>5, <2>6 DEF InTurn
<1>. QED  BY <1>5, <1>6, <1>8, <1>9, <1>10, <1>11 DEF UnitInv

(* A unit is over, or the job is: what is held back may be queued.         *)
LEMMA OutUnit ==
  ASSUME Interleave, TypeOK, PlanInv, PlaceInv, LastInv, WindowInv, TurnInv, UnitInv,
         result = "running", MuxBlockFinished \/ HeldOut
  PROVE  UnitInv'
<1>1. CASE HeldOut
  <2>1. /\ todo # <<>> /\ Head(todo).op = "heldOut" /\ Then(PutAll("queue", held))
        /\ UNCHANGED <<disk, queue, wpc>>
    BY <1>1 DEF HeldOut, At
  <2>2. Head(todo) \notin Puts
    BY <2>1 DEF Puts
  <2>3. HeldLive /\ ~HeldLive'
    BY <1>1, HeldOutOnce
  <2>. QED  BY <2>1, <2>2, <2>3, ReleaseUnit
<1>2. CASE MuxBlockFinished
  <2>1. /\ todo # <<>> /\ Head(todo).op = "blockDone" /\ Head(todo) \notin Puts
        /\ UNCHANGED <<disk, queue, wpc, ending>>
        /\ unit' = [unit EXCEPT ![Head(todo).view] = @ + 1]
    BY <1>2 DEF MuxBlockFinished, At, Puts
  <2>2. PICK v : v = Head(todo).view
    OBVIOUS
  <2>3. /\ v = Switcher => Then(<<>>)
        /\ v # Switcher => v = Second /\ Then(PutAll("queue", held))
    BY <1>2, <2>2, DoneCases
  <2>4. unit \in [Views -> Nat] /\ Second \in Views /\ Second # Switcher
    BY Apart DEF TypeOK
  <2>5. CASE v = Switcher
    <3>1. Turn' = Turn
      BY <2>1, <2>2, <2>4, <2>5 DEF Turn
    <3>2. PICK steps \in Seq(Steps) :
            Then(steps) /\ \A k \in 1..Len(steps) : steps[k].op \notin {"queue", "heldOut"}
      BY <2>3, <2>5, NoSteps
    <3>3. Head(todo).op # "heldOut"
      BY <2>1
    <3>. QED  BY <2>1, <3>1, <3>2, <3>3, QuietUnit
  <2>6. CASE v # Switcher
    <3>1. Turn' = Turn + 1
      BY <2>1, <2>2, <2>3, <2>4, <2>6 DEF Turn
    <3>2. HeldLive
      <4>1. ~Late(Head(todo))
        BY <2>1 DEF Late, EndOps
      <4>2. ~ending
        BY <2>1, <4>1, HeadWhen
      <4>. QED  BY <4>2 DEF HeldLive
    <3>. QED  BY <2>1, <2>3, <2>6, <3>1, <3>2, ReleaseUnit
  <2>. QED  BY <2>5, <2>6
<1>. QED  BY <1>1, <1>2

(* The first block of the queue is written, or given up.                   *)
LEMMA TakenUnit ==
  ASSUME TypeOK, LineInv, UnitInv, MuxKept, Turn' = Turn, queue # <<>>,
         WaitLine = queue, WaitLine' = Tail(queue),
         disk' = disk \/ (Head(queue) # Sentinel /\ disk' = Append(disk, Head(queue)))
  PROVE  UnitInv'
<1>1. PICK b \in Blocks \cup {Sentinel} : b = Head(queue)
  BY FirstOfQueue
<1>2. Waiting = Waiting' \cup ({b} \ {Sentinel})
  BY <1>1, FirstOfQueue
<1>3. Alternating(WaitLine)' /\ \A y \in Waiting' : Follows(b, y)
  <2>1. queue \in Seq(Blocks \cup {Sentinel}) /\ Alternating(queue)
    BY DEF TypeOK, UnitInv
  <2>2. Alternating(Tail(queue)) /\ \A y \in Elems(Tail(queue)) : Follows(b, y)
    BY <1>1, <2>1, AlternateTail
  <2>3. (Alternating(WaitLine)' <=> Alternating(WaitLine')) /\ Waiting' = Elems(WaitLine') \ {Sentinel}
    BY DEF Alternating, Follows, Waiting, Elems, Sentinel
  <2>4. Alternating(WaitLine') /\ Elems(WaitLine') = Elems(Tail(queue))
    BY <2>2
  <2>. QED  BY <2>2, <2>3, <2>4
<1>4. Alternating(disk)' /\ Landed' \subseteq Landed \cup ({b} \ {Sentinel})
  <2>1. (Alternating(disk)' <=> Alternating(disk')) /\ Landed' = Elems(disk')
    BY DEF Alternating, Follows, Landed, Elems
  <2>2. disk \in Seq(Blocks) /\ Alternating(disk)
    BY DEF TypeOK, UnitInv
  <2>3. CASE disk' = disk
    <3>1. Alternating(disk') /\ Elems(disk') = Elems(disk)
      BY <2>2, <2>3
    <3>. QED  BY <2>1, <3>1 DEF Landed
  <2>4. CASE b # Sentinel /\ disk' = Append(disk, b)
    <3>1. b \in Blocks /\ b \in Waiting
      BY <1>2, <2>4
    <3>2. \A y \in Elems(disk) : Follows(y, b)
      BY <3>1 DEF UnitInv, Leads, Landed
    <3>3. Alternating(Append(disk, b)) /\ Elems(Append(disk, b)) = Elems(disk) \cup {b}
      BY <2>2, <3>1, <3>2, AlternateAppend, ElemsAppend
    <3>. QED  BY <2>1, <2>4, <3>3 DEF Landed
  <2>. QED  BY <1>1, <2>3, <2>4
<1>5. QueuedAlternate' /\ PutBlocks("queue")' = PutBlocks("queue") /\ (HeldLive' <=> HeldLive)
  BY DEF MuxKept, UnitInv, QueuedAlternate, Follows, PutBlocks, HeldLive
<1>6. Landed' \cup Waiting' \subseteq Landed \cup Waiting
  BY <1>2, <1>4
<1>7. Leads(Landed, Waiting)'
  <2>1. ASSUME NEW x \in Landed', NEW y \in Waiting' PROVE Follows(x, y)
    <3>1. CASE x \in Landed
      BY <1>2, <2>1, <3>1 DEF UnitInv, Leads
    <3>2. CASE x \notin Landed
      <4>1. x = b
        BY <1>4, <2>1, <3>2
      <4>. QED  BY <1>3, <2>1, <4>1
    <3>. QED  BY <3>1, <3>2
  <2>. QED  BY <2>1 DEF Leads, Follows
<1>8. Leads(Landed \cup Waiting, PutBlocks("queue"))'
  <2>1. \A x \in Landed' \cup Waiting', y \in PutBlocks("queue")' : Follows(x, y)
    BY <1>5, <1>6 DEF UnitInv, Leads
  <2>. QED  BY <2>1 DEF Leads, Follows
<1>9. HeldLive' => \A y \in Landed' \cup Waiting' \cup PutBlocks("queue")' : InTurn(y)
  BY <1>5, <1>6 DEF UnitInv
<1>10. \A y : InTurn(y)' <=> InTurn(y)
  BY DEF InTurn
<1>. QED  BY <1>3, <1>4, <1>5, <1>7, <1>8, <1>9, <1>10 DEF UnitInv

(* The writer's thread and its destructor keep the order of the units.     *)
LEMMA WriterUnit ==
  ASSUME TypeOK, TypeOK', WriterInv, PlaceInv, LineInv, UnitInv,
         WriterThread \/ TearDown \/ UNCHANGED vars
  PROVE  UnitInv'
<1>1. MuxKept /\ Turn' = Turn
  <2>1. MuxKept /\ unit' = unit
    BY MuxAsItWas
  <2>. QED  BY <2>1 DEF Turn
<1>2. QueuedAlternate' /\ PutBlocks("queue")' = PutBlocks("queue") /\ (HeldLive' <=> HeldLive)
  BY <1>1 DEF MuxKept, UnitInv, QueuedAlternate, Follows, PutBlocks, HeldLive
<1>3. CASE disk' = disk /\ WaitLine' = WaitLine
  BY <1>1, <1>2, <1>3, WaitStill, UnitKept
<1>4. CASE WriterTest \/ WriterPeek \/ Terminate \/ Join \/ DestroyMuxers \/ UNCHANGED vars
  <2>1. disk' = disk /\ queue' = queue
    BY <1>4 DEF WriterTest, WriterPeek, Terminate, Join, DestroyMuxers, vars
  <2>2. wpc' = wpc \/ (wpc # "pop" /\ wpc' # "pop")
    BY <1>4 DEF WriterTest, WriterPeek, Terminate, Join, DestroyMuxers, vars
  <2>3. WaitLine' = WaitLine
    BY <2>1, <2>2 DEF WaitLine
  <2>. QED  BY <1>3, <2>1, <2>3
<1>5. CASE WriterExecute
  <2>1. wpc = "exec" /\ wpc' = "pop" /\ queue' = queue /\ queue # <<>>
    BY <1>5 DEF WriterExecute, AfterExecute, WriterInv, IdleMeansIdle
  <2>2. WaitLine = queue /\ WaitLine' = Tail(queue)
    BY <2>1 DEF WaitLine
  <2>3. Execute(Head(queue)) \/ disk' = disk
    BY <1>5 DEF WriterExecute
  <2>4. disk' = disk \/ (Head(queue) # Sentinel /\ disk' = Append(disk, Head(queue)))
    BY <2>1, <2>3, ExecutedDisk
  <2>. QED  BY <1>1, <2>1, <2>2, <2>4, TakenUnit
<1>6. CASE WriterPop
  <2>1. WaitLine' = WaitLine /\ disk' = disk
    BY <1>6 DEF WriterPop, WaitLine
  <2>. QED  BY <1>3, <2>1
<1>7. CASE PushSentinel
  <2>1. wpc' = wpc /\ disk' = disk
    BY <1>7 DEF PushSentinel
  <2>2. CASE queue' = queue
    <3>1. WaitLine' = WaitLine
      BY <2>1, <2>2 DEF WaitLine
    <3>. QED  BY <1>3, <2>1, <3>1
  <2>3. CASE queue' = Append(queue, Sentinel)
    <3>1. Waiting' = Waiting
      BY <2>1, <2>3, SentinelWaits
    <3>2. Sentinel \in Blocks \cup {Sentinel}
      OBVIOUS
    <3>3. WaitLine' = Append(WaitLine, Sentinel) /\ WaitLine \in Seq(Blocks \cup {Sentinel})
      BY <2>1, <2>3, <3>2, Queueing
    <3>4. Alternating(Append(WaitLine, Sentinel))
      BY <3>2, <3>3, SentinelFollows, AlternateAppend DEF UnitInv
    <3>5. Alternating(WaitLine)' <=> Alternating(WaitLine')
      BY DEF Alternating, Follows
    <3>6. Alternating(WaitLine)'
      BY <3>3, <3>4, <3>5
    <3>. QED  BY <1>1, <1>2, <2>1, <3>1, <3>6, UnitKept
  <2>. QED  BY <1>7, <2>2, <2>3 DEF PushSentinel
<1>8. CASE Drain
  <2>1. /\ td = "drain" /\ queue # <<>> /\ queue' = Tail(queue) /\ wpc' = wpc
        /\ Execute(Head(queue)) \/ disk' = disk
    BY <1>8 DEF Drain
  <2>2. WaitLine = queue /\ WaitLine' = Tail(queue)
    BY <2>1 DEF WriterInv, DrainAfterThread, WaitLine
  <2>3. disk' = disk \/ (Head(queue) # Sentinel /\ disk' = Append(disk, Head(queue)))
    BY <2>1, ExecutedDisk
  <2>. QED  BY <1>1, <2>1, <2>2, <2>3, TakenUnit
<1>. QED  BY <1>4, <1>5, <1>6, <1>7, <1>8 DEF WriterThread, TearDown

(* Every step keeps the order of the units.                                *)
LEMMA NextUnit ==
  ASSUME Interleave, TypeOK, TypeOK', WriterInv, PlanInv, PlaceInv, LastInv, LineInv, WindowInv,
         TurnInv, UnitInv, [Next]_vars
  PROVE  UnitInv'
<1>1. CASE WriterThread \/ TearDown \/ UNCHANGED vars
  BY <1>1, WriterUnit
<1>2. CASE (\E v \in Views : MuxPacket(v)) \/ Stop \/ EndOfSources
  <2>1. /\ ~ending /\ PutBlocks("queue")' = {}
        /\ UNCHANGED <<unit, disk, queue, wpc>>
    BY <1>2, CallsPut
  <2>2. Turn' = Turn /\ WaitLine' = WaitLine /\ HeldLive
    BY <2>1 DEF Turn, WaitLine, HeldLive
  <2>. QED  BY <2>1, <2>2, WaitStill, NothingQueued, UnitKept
<1>3. CASE MuxStep
  <2>1. result = "running"
    BY <1>3, MuxRuns
  <2>. QED  BY <1>3, <2>1, StillUnit, PutBlockUnit, OutUnit, NoTail DEF MuxStep
<1>. QED  BY <1>1, <1>2, <1>3 DEF Next, AllDone

-----------------------------------------------------------------------------
(* The units of the two views alternate *)

(* At the start nothing has been done.                                     *)
LEMMA InitAlternate == Init => AlternateInv
<1> SUFFICES ASSUME Init, Interleave PROVE WindowInv /\ TurnInv /\ UnitInv
  BY DEF AlternateInv
<1>1. /\ todo = <<>> /\ held = <<>> /\ queue = <<>> /\ disk = <<>> /\ wpc = "test"
      /\ result = "running" /\ finished = {} /\ \A v \in Views : delayBlk[v] = <<>> /\ unit[v] = 1
  BY DEF Init
<1>2. Len(<<>>) = 0 /\ \A k \in 1..0 : FALSE
  OBVIOUS
<1>3. WindowInv
  BY <1>1, <1>2 DEF WindowInv, Between
<1>4. /\ PutBlocks("put") = {} /\ PutBlocks("queue") = {} /\ WaitLine = <<>>
      /\ Elems(<<>>) = {}
  BY <1>1, NothingToDo, ElemsEmpty DEF WaitLine
<1>5. Landed = {} /\ Waiting = {} /\ Delayed = {}
  BY <1>1, <1>4 DEF Landed, Waiting, Delayed
<1>6. TurnInv
  BY <1>1, <1>4, <1>5, Apart DEF TurnInv, Turn
<1>7. Alternating(<<>>) /\ QueuedAlternate
  BY <1>1, <1>2 DEF Alternating, QueuedAlternate
<1>8. UnitInv
  BY <1>1, <1>4, <1>5, <1>7 DEF UnitInv, Leads
<1>. QED  BY <1>3, <1>6, <1>8

(* On a 3D disc the units of the two views alternate, the second view's    *)
(* blocks of a unit first (MuxerManager::asyncWriteBuffer,                 *)
(* muxBlockFinished), however many units, parts and packets there are.     *)
THEOREM UnitsOfViewsAlternate == ~LateSub => (Spec => []UnitsAlternate)
<1> SUFFICES ASSUME ~LateSub PROVE Spec => []UnitsAlternate
  OBVIOUS
<1> DEFINE Found == /\ TypeOK /\ WriterInv /\ PlanInv /\ PlaceInv
                    /\ LastInv /\ LineInv /\ WholeInv /\ EndInv
<1>1. Spec => []Found
  BY OrderInductive
<1>2. Init => AlternateInv
  BY InitAlternate
<1>3. Found /\ Found' /\ AlternateInv /\ [Next]_vars => AlternateInv'
  <2> SUFFICES ASSUME Found, Found', AlternateInv, [Next]_vars, Interleave
               PROVE  WindowInv' /\ TurnInv' /\ UnitInv'
    BY DEF AlternateInv
  <2>. QED  BY NextWindow, NextTurn, NextUnit DEF AlternateInv
<1>4. Found /\ AlternateInv => UnitsAlternate
  <2> SUFFICES ASSUME Found, AlternateInv, Interleave,
                      NEW i \in 1..Len(disk), NEW j \in 1..Len(disk), i < j
               PROVE  \/ disk[i].unit < disk[j].unit
                      \/ /\ disk[i].unit = disk[j].unit
                         /\ disk[i].view = "main" => disk[j].view = "main"
    BY DEF UnitsAlternate
  <2>1. disk[i] \in Blocks /\ disk[j] \in Blocks
    BY ElementOfSeq DEF TypeOK
  <2>2. Follows(disk[i], disk[j])
    BY DEF AlternateInv, UnitInv, Alternating
  <2>. QED  BY <2>1, <2>2 DEF Follows, Blocks
<1>. QED  BY <1>1, <1>2, <1>3, <1>4, PTL DEF Spec
=============================================================================

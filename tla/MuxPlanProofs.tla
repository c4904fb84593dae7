--------------------------- MODULE MuxPlanProofs ----------------------------
(***************************************************************************)
(* Proofs about what reaches the files of MuxWriter: which steps the mux   *)
(* thread still has to take, and in which order, when a file is closed, a  *)
(* part begins and a block is written.  The first view begins no unit or   *)
(* part before the second one has a packet (~LateSub).                     *)
(***************************************************************************)
EXTENDS MuxWriterProofs

USE DEF viewVars, partVars, holdVars, endVars, writeVars, diskVars, muxVars

-----------------------------------------------------------------------------
(* The order of the steps in a list *)

Puts == {s \in Steps : s.op \in {"put", "queue"}}
Ops(op, v) == {s \in Steps : s.op = op /\ s.view = v}
Switches == {s \in Steps : s.op = "switch"}
\* The ends of units and parts that concern view v
Finishes(v) == {s \in Steps : s.op = "finish" /\ (s.view = v \/ s.recursive)}

\* The steps the mux thread will take, up to the end of its call
End == [op |-> "end", view |-> "none"]
Plan == Append(todo, End)

\* Between a step of D and a later one of N there is one of E
Ordered(s, D, E, N) ==
  \A i, k \in 1..Len(s) : i < k /\ s[i] \in D /\ s[k] \in N =>
    \E j \in i + 1..k - 1 : s[j] \in E
\* There is a step of N, and none of E before it
Exposed(s, E, N) ==
  \E k \in 1..Len(s) : s[k] \in N /\ \A j \in 1..k - 1 : s[j] \notin E
\* Whenever a step of N is next, now is true: steps of E establish it, those of D end it
Rule(D, E, N, now) == Ordered(Plan, D, E, N) /\ (Exposed(Plan, E, N) => now)

Second == Other(Switcher)
Makes(v) == Ops("packet", v) \cup Switches \cup Finishes(v)
DoneOf(v) == {s \in Steps : s.op \in {"blockDone", "finish"} /\ s.view = v}
MakesMain == Makes("main") \cup Ops("stamp", "main") \cup Ops("rest", "main") \cup Ops("put", "main")
Closing == {s \in Steps : s.op \in {"wait", "close", "verdict"}}
Closes == {s \in Steps : s.op = "close"}
Uses(v) == (Steps \ Closing) \cup Ops("close", v) \cup (IF ending THEN {} ELSE {End})

Stamped(v) == delayBlk[v] = <<>> /\ stamped[v] = made[v]
Clean(v) == sent[v] = made[v] /\ delayBlk[v] = <<>>

StampRule(v) == M2ts => Rule(Makes(v), Ops("stamp", v), Ops("rest", v), Stamped(v))
CleanRule(v) == Rule(Makes(v), Ops(IF M2ts THEN "rest" ELSE "tail", v), Ops("next", v), Clean(v))
ServedRule(v) ==
  Rule(Ops("blockDone", v), Ops("packet", v) \cup Finishes(v), Switches \cup {End},
       given[v] > 0 => processed[v] > 0)
FinishRule(v) ==
  Rule(Ops("blockDone", v) \cup Finishes(v) \cup Switches, Ops("packet", v), Finishes(v),
       processed[v] > 0)
HeldRule == Interleave => Rule(MakesMain, DoneOf(Second), Ops("next", "main"), held = <<>>)
BothRule ==
  HasSub => Rule(DoneOf(Second) \cup Finishes(Switcher) \cup Switches,
                 Ops("blockDone", Switcher), DoneOf(Second), Switcher \in finished)
PutsFirst == Ordered(Plan, Steps \ Puts, {}, Puts)
IdleRule == Rule(Steps \ Closing, Ops("wait", "main"), Closes, queue = <<>>)
OpenRule(v) == Rule(Ops("close", v), {}, Uses(v), File(v) \in open)
FinishViews ==
  \A k \in 1..Len(todo) : todo[k].op = "finish" =>
    IF todo[k].recursive THEN todo[k].view = Switcher ELSE HasSub /\ todo[k].view = Second

PlanInv == result = "running" =>
  /\ \A v \in Views : StampRule(v) /\ CleanRule(v) /\ ServedRule(v) /\ FinishRule(v) /\ OpenRule(v)
  /\ HeldRule /\ BothRule /\ PutsFirst /\ IdleRule /\ FinishViews

Here(b) == b.view \in Views /\ b.part = Part(b.view)
BlocksHere ==
  /\ \A k \in 1..Len(todo) : todo[k] \in Puts =>
       Here(todo[k].blk) /\ todo[k].blk.view = todo[k].view
  /\ \A v \in Views : \A i \in 1..Len(delayBlk[v]) : Here(delayBlk[v][i]) /\ delayBlk[v][i].view = v
  /\ \A i \in 1..Len(held) : Here(held[i]) /\ held[i].view = "main"
PlaceInv ==
  /\ result = "running" => BlocksHere
  /\ finished \subseteq {Switcher}
  /\ ~M2ts => \A v \in Views : delayBlk[v] = <<>>
  /\ ~Interleave => held = <<>>
  /\ \A i \in 1..Len(queue) : queue[i] # Sentinel => <<queue[i].view, queue[i].part>> \in open
  /\ lost = {}

-----------------------------------------------------------------------------
(* Lists of steps *)

(* The steps of two lists, one after the other.                            *)
LEMMA JoinedSteps ==
  ASSUME NEW S, NEW p \in Seq(S), NEW t \in Seq(S)
  PROVE  /\ Len(p) \in Nat /\ Len(t) \in Nat
         /\ p \o t \in Seq(S) /\ Len(p \o t) = Len(p) + Len(t)
         /\ \A k \in 1..Len(p) : k \in 1..Len(p \o t) /\ (p \o t)[k] = p[k]
         /\ \A k \in 1..Len(t) : Len(p) + k \in 1..Len(p \o t) /\ (p \o t)[Len(p) + k] = t[k]
         /\ \A k \in 1..Len(p \o t) :
              k \in 1..Len(p) \/ (k - Len(p) \in 1..Len(t) /\ (p \o t)[k] = t[k - Len(p)])
<1>1. Len(p) \in Nat /\ Len(t) \in Nat
  BY LenProperties
<1>2. /\ p \o t \in Seq(S) /\ Len(p \o t) = Len(p) + Len(t)
      /\ \A k \in 1..Len(p) + Len(t) :
           (p \o t)[k] = IF k <= Len(p) THEN p[k] ELSE t[k - Len(p)]
  BY ConcatProperties
<1>. QED  BY <1>1, <1>2

(* Putting a list before another: the order is kept when what is put       *)
(* before has no step of D, or none of N where the rest waits for E.       *)
LEMMA PrefixRule ==
  ASSUME NEW S, NEW p \in Seq(S), NEW t \in Seq(S), NEW D, NEW E, NEW N
  PROVE  /\ (\A k \in 1..Len(p) : p[k] \notin N) /\ Exposed(p \o t, E, N)
              => Exposed(t, E, N)
         /\ (\A k \in 1..Len(p) : p[k] \notin D) /\ Ordered(t, D, E, N)
              => Ordered(p \o t, D, E, N)
         /\ (\A k \in 1..Len(p) : p[k] \notin N) /\ ~Exposed(t, E, N) /\ Ordered(t, D, E, N)
              => Ordered(p \o t, D, E, N)
<1> DEFINE q == p \o t
           n == Len(p)
<1>1. /\ n \in Nat /\ Len(t) \in Nat
      /\ \A k \in 1..n : k \in 1..Len(q) /\ q[k] = p[k]
      /\ \A k \in 1..Len(t) : n + k \in 1..Len(q) /\ q[n + k] = t[k]
      /\ \A k \in 1..Len(q) : k \in 1..n \/ (k - n \in 1..Len(t) /\ q[k] = t[k - n])
      /\ Len(q) \in Nat
  BY JoinedSteps
<1> HIDE DEF q, n
<1>2. ASSUME \A k \in 1..n : p[k] \notin N, Exposed(q, E, N)
      PROVE  Exposed(t, E, N)
  <2>1. PICK k \in 1..Len(q) : q[k] \in N /\ \A j \in 1..k - 1 : q[j] \notin E
    BY <1>2 DEF Exposed
  <2>2. k - n \in 1..Len(t) /\ t[k - n] \in N
    BY <1>1, <1>2, <2>1
  <2>3. ASSUME NEW j \in 1..(k - n) - 1 PROVE t[j] \notin E
    <3>1. n + j \in 1..k - 1 /\ j \in 1..Len(t)
      BY <1>1, <2>2
    <3>. QED  BY <1>1, <2>1, <3>1
  <2>. QED  BY <2>2, <2>3 DEF Exposed
<1>3. ASSUME Ordered(t, D, E, N), NEW i \in 1..Len(q), NEW k \in 1..Len(q), i < k,
             q[i] \in D, q[k] \in N, i \notin 1..n
      PROVE  \E j \in i + 1..k - 1 : q[j] \in E
  <2>1. /\ i - n \in 1..Len(t) /\ q[i] = t[i - n]
        /\ k - n \in 1..Len(t) /\ q[k] = t[k - n] /\ i - n < k - n
    BY <1>1, <1>3
  <2>2. PICK j \in (i - n) + 1..(k - n) - 1 : t[j] \in E
    BY <1>3, <2>1 DEF Ordered
  <2>3. j \in 1..Len(t) /\ n + j \in i + 1..k - 1
    <3>1. n \in Int /\ Len(t) \in Int /\ i \in Int /\ k \in Int /\ j \in Int
      BY <1>1, <2>1
    <3>. QED  BY <2>1, <2>2, <3>1
  <2>. QED  BY <1>1, <2>2, <2>3
<1>4. ASSUME \A k \in 1..n : p[k] \notin D, Ordered(t, D, E, N)
      PROVE  Ordered(q, D, E, N)
  <2> SUFFICES ASSUME NEW i \in 1..Len(q), NEW k \in 1..Len(q), i < k, q[i] \in D, q[k] \in N
               PROVE  \E j \in i + 1..k - 1 : q[j] \in E
    BY DEF Ordered
  <2>1. i \notin 1..n
    BY <1>1, <1>4
  <2>. QED  BY <1>3, <1>4, <2>1
<1>5. ASSUME \A k \in 1..n : p[k] \notin N, ~Exposed(t, E, N), Ordered(t, D, E, N)
      PROVE  Ordered(q, D, E, N)
  <2> SUFFICES ASSUME NEW i \in 1..Len(q), NEW k \in 1..Len(q), i < k, q[i] \in D, q[k] \in N
               PROVE  \E j \in i + 1..k - 1 : q[j] \in E
    BY DEF Ordered
  <2>1. CASE i \notin 1..n
    BY <1>3, <1>5, <2>1
  <2>2. CASE i \in 1..n
    <3>1. k - n \in 1..Len(t) /\ t[k - n] \in N
      BY <1>1, <1>5
    <3>2. PICK j \in 1..(k - n) - 1 : t[j] \in E
      BY <1>5, <3>1 DEF Exposed
    <3>3. j \in 1..Len(t) /\ n + j \in i + 1..k - 1
      <4>1. n \in Int /\ Len(t) \in Int /\ i \in Int /\ k \in Int /\ j \in Int
        BY <1>1, <3>1
      <4>. QED  BY <2>2, <3>1, <3>2, <4>1
    <3>. QED  BY <1>1, <3>2, <3>3
  <2>. QED  BY <2>1, <2>2
<1>. QED  BY <1>2, <1>4, <1>5 DEF q, n

(* Putting one step before a list, if c.                                   *)
LEMMA ConsRule ==
  ASSUME NEW S, NEW x \in S, NEW t \in Seq(S), NEW D, NEW E, NEW N
  PROVE  /\ <<x>> \o t \in Seq(S)
         /\ Exposed(<<x>> \o t, E, N) <=> (x \in N \/ (x \notin E /\ Exposed(t, E, N)))
         /\ Ordered(<<x>> \o t, D, E, N) <=>
              (Ordered(t, D, E, N) /\ (x \in D => ~Exposed(t, E, N)))
<1> DEFINE q == <<x>> \o t
<1>1. <<x>> \in Seq(S) /\ Len(<<x>>) = 1 /\ <<x>>[1] = x
  OBVIOUS
<1>2. /\ Len(t) \in Nat /\ q \in Seq(S) /\ Len(q) = 1 + Len(t)
      /\ q[1] = x
      /\ \A k \in 1..Len(t) : 1 + k \in 1..Len(q) /\ q[1 + k] = t[k]
      /\ \A k \in 1..Len(q) : k = 1 \/ (k - 1 \in 1..Len(t) /\ q[k] = t[k - 1])
  <2>1. \A k \in 1..1 : k = 1
    OBVIOUS
  <2>2. 1 \in 1..1
    OBVIOUS
  <2>. QED  BY <1>1, <2>1, <2>2, JoinedSteps
<1> HIDE DEF q
<1>3. ASSUME x \in N PROVE Exposed(q, E, N)
  <2>1. 1 \in 1..Len(q) /\ q[1] \in N /\ \A j \in 1..1 - 1 : q[j] \notin E
    BY <1>2, <1>3
  <2>. QED  BY <2>1 DEF Exposed
<1>4. ASSUME x \notin E, Exposed(t, E, N) PROVE Exposed(q, E, N)
  <2>1. PICK k \in 1..Len(t) : t[k] \in N /\ \A j \in 1..k - 1 : t[j] \notin E
    BY <1>4 DEF Exposed
  <2>2. 1 + k \in 1..Len(q) /\ q[1 + k] \in N
    BY <1>2, <2>1
  <2>3. ASSUME NEW j \in 1..(1 + k) - 1 PROVE q[j] \notin E
    <3>1. CASE j = 1
      BY <1>2, <1>4, <3>1
    <3>2. CASE j # 1
      <4>1. j - 1 \in 1..k - 1 /\ j - 1 \in 1..Len(t) /\ j = 1 + (j - 1)
        BY <1>2, <3>2
      <4>2. q[j] = t[j - 1]
        BY <1>2, <4>1
      <4>. QED  BY <2>1, <4>1, <4>2
    <3>. QED  BY <3>1, <3>2
  <2>. QED  BY <2>2, <2>3 DEF Exposed
<1>5. ASSUME Exposed(q, E, N) PROVE x \in N \/ (x \notin E /\ Exposed(t, E, N))
  <2>1. PICK k \in 1..Len(q) : q[k] \in N /\ \A j \in 1..k - 1 : q[j] \notin E
    BY <1>5 DEF Exposed
  <2>2. CASE k = 1
    BY <1>2, <2>1, <2>2
  <2>3. CASE k # 1
    <3>1. k - 1 \in 1..Len(t) /\ t[k - 1] \in N
      BY <1>2, <2>1, <2>3
    <3>2. x \notin E
      <4>1. 1 \in 1..k - 1
        BY <1>2, <2>3
      <4>. QED  BY <1>2, <2>1, <4>1
    <3>3. ASSUME NEW j \in 1..(k - 1) - 1 PROVE t[j] \notin E
      <4>1. 1 + j \in 1..k - 1 /\ j \in 1..Len(t)
        BY <1>2, <3>1
      <4>. QED  BY <1>2, <2>1, <4>1
    <3>. QED  BY <3>1, <3>2, <3>3 DEF Exposed
  <2>. QED  BY <2>2, <2>3
<1>6. ASSUME Ordered(t, D, E, N), x \in D => ~Exposed(t, E, N)
      PROVE  Ordered(q, D, E, N)
  <2> SUFFICES ASSUME NEW i \in 1..Len(q), NEW k \in 1..Len(q), i < k, q[i] \in D, q[k] \in N
               PROVE  \E j \in i + 1..k - 1 : q[j] \in E
    BY DEF Ordered
  <2>1. k - 1 \in 1..Len(t) /\ q[k] = t[k - 1]
    BY <1>2
  <2>2. \E j \in 1..Len(t) : i < 1 + j /\ 1 + j < k /\ t[j] \in E
    <3>1. CASE i = 1
      <4>1. PICK j \in 1..(k - 1) - 1 : t[j] \in E
        BY <1>2, <1>6, <2>1, <3>1 DEF Exposed
      <4>. QED  BY <1>2, <2>1, <3>1, <4>1
    <3>2. CASE i # 1
      <4>1. i - 1 \in 1..Len(t) /\ q[i] = t[i - 1]
        BY <1>2, <3>2
      <4>2. PICK j \in (i - 1) + 1..(k - 1) - 1 : t[j] \in E
        <5>1. i - 1 < k - 1 /\ t[i - 1] \in D /\ t[k - 1] \in N
          BY <2>1, <4>1
        <5>. QED  BY <1>6, <2>1, <4>1, <5>1 DEF Ordered
      <4>. QED  BY <1>2, <2>1, <4>1, <4>2
    <3>. QED  BY <3>1, <3>2
  <2>3. PICK j \in 1..Len(t) : i < 1 + j /\ 1 + j < k /\ t[j] \in E
    BY <2>2
  <2>4. 1 + j \in i + 1..k - 1 /\ q[1 + j] \in E
    BY <1>2, <2>3
  <2>. QED  BY <2>4
<1>7. ASSUME Ordered(q, D, E, N) PROVE Ordered(t, D, E, N) /\ (x \in D => ~Exposed(t, E, N))
  <2>1. ASSUME NEW i \in 1..Len(t), NEW k \in 1..Len(t), i < k, t[i] \in D, t[k] \in N
        PROVE  \E j \in i + 1..k - 1 : t[j] \in E
    <3>1. /\ 1 + i \in 1..Len(q) /\ 1 + k \in 1..Len(q) /\ 1 + i < 1 + k
          /\ q[1 + i] \in D /\ q[1 + k] \in N
      BY <1>2, <2>1
    <3>2. PICK j \in (1 + i) + 1..(1 + k) - 1 : q[j] \in E
      BY <1>7, <3>1 DEF Ordered
    <3>3. j - 1 \in i + 1..k - 1 /\ j - 1 \in 1..Len(t) /\ q[1 + (j - 1)] = t[j - 1]
      BY <1>2, <3>2
    <3>. QED  BY <3>2, <3>3
  <2>2. ASSUME x \in D, Exposed(t, E, N) PROVE FALSE
    <3>1. PICK k \in 1..Len(t) : t[k] \in N /\ \A j \in 1..k - 1 : t[j] \notin E
      BY <2>2 DEF Exposed
    <3>2. 1 + k \in 1..Len(q) /\ 1 \in 1..Len(q) /\ q[1 + k] \in N /\ q[1] \in D /\ 1 < 1 + k
      BY <1>2, <2>2, <3>1
    <3>3. PICK j \in 1 + 1..(1 + k) - 1 : q[j] \in E
      BY <1>7, <3>2 DEF Ordered
    <3>4. j - 1 \in 1..k - 1 /\ j - 1 \in 1..Len(t) /\ q[1 + (j - 1)] = t[j - 1]
      BY <1>2, <3>3
    <3>. QED  BY <3>1, <3>3, <3>4
  <2>. QED  BY <2>1, <2>2 DEF Ordered
<1>. QED  BY <1>2, <1>3, <1>4, <1>5, <1>6, <1>7 DEF q

-----------------------------------------------------------------------------
(* What is left of the plan after a step *)

PlanSteps == Steps \cup {End}
Rest == Append(Tail(todo), End)

(* The plan is the next step and the rest of it.                           *)
LEMMA PlanIsHeadAndRest ==
  ASSUME TypeOK, todo # <<>>
  PROVE  /\ Head(todo) \in PlanSteps /\ Rest \in Seq(PlanSteps)
         /\ Plan = <<Head(todo)>> \o Rest
<1>1. /\ todo \in Seq(Steps) /\ Tail(todo) \in Seq(Steps) /\ Head(todo) \in Steps
      /\ Len(todo) \in Nat /\ Len(Tail(todo)) = Len(todo) - 1 /\ Len(todo) > 0
      /\ \A i \in 1..Len(Tail(todo)) : Tail(todo)[i] = todo[i + 1]
      /\ Head(todo) = todo[1]
  BY HeadTailProperties, LenProperties DEF TypeOK
<1>2. todo \in Seq(PlanSteps) /\ Tail(todo) \in Seq(PlanSteps) /\ End \in PlanSteps
  BY <1>1 DEF PlanSteps
<1>3. /\ Plan \in Seq(PlanSteps) /\ Len(Plan) = Len(todo) + 1
      /\ \A i \in 1..Len(todo) : Plan[i] = todo[i]
      /\ Plan[Len(todo) + 1] = End
  BY <1>2, AppendProperties DEF Plan
<1>4. /\ Rest \in Seq(PlanSteps) /\ Len(Rest) = Len(todo)
      /\ \A i \in 1..Len(todo) - 1 : Rest[i] = todo[i + 1]
      /\ Rest[Len(todo)] = End
  BY <1>1, <1>2, AppendProperties DEF Rest
<1>5. <<Head(todo)>> \in Seq(PlanSteps) /\ Len(<<Head(todo)>>) = 1 /\ <<Head(todo)>>[1] = todo[1]
  BY <1>1 DEF PlanSteps
<1>6. /\ <<Head(todo)>> \o Rest \in Seq(PlanSteps)
      /\ Len(<<Head(todo)>> \o Rest) = 1 + Len(todo)
      /\ \A i \in 1..1 + Len(todo) : (<<Head(todo)>> \o Rest)[i] =
           IF i <= 1 THEN <<Head(todo)>>[i] ELSE Rest[i - 1]
  BY <1>4, <1>5, ConcatProperties
<1>7. \A i \in 1..Len(todo) + 1 : Plan[i] = (<<Head(todo)>> \o Rest)[i]
  <2> TAKE i \in 1..Len(todo) + 1
  <2>1. CASE i = 1
    <3>1. Plan[1] = todo[1] /\ (<<Head(todo)>> \o Rest)[1] = <<Head(todo)>>[1]
      BY <1>1, <1>3, <1>6
    <3>. QED  BY <1>5, <2>1, <3>1
  <2>2. CASE i \in 2..Len(todo)
    <3>1. (<<Head(todo)>> \o Rest)[i] = Rest[i - 1] /\ i - 1 \in 1..Len(todo) - 1
      BY <1>1, <1>6, <2>2
    <3>2. Plan[i] = todo[i] /\ Rest[i - 1] = todo[(i - 1) + 1] /\ (i - 1) + 1 = i
      BY <1>1, <1>3, <1>4, <2>2, <3>1
    <3>. QED  BY <3>1, <3>2
  <2>3. CASE i = Len(todo) + 1
    <3>1. (<<Head(todo)>> \o Rest)[i] = Rest[Len(todo)]
      BY <1>1, <1>6, <2>3
    <3>. QED  BY <1>3, <1>4, <2>3, <3>1
  <2>4. i = 1 \/ i \in 2..Len(todo) \/ i = Len(todo) + 1
    BY <1>1
  <2>. QED  BY <2>1, <2>2, <2>3, <2>4
<1>8. Plan = <<Head(todo)>> \o Rest
  <2> DEFINE q == <<Head(todo)>> \o Rest
  <2>1. q \in Seq(PlanSteps) /\ Len(q) = Len(todo) + 1
    BY <1>1, <1>6
  <2>2. \A i \in 1..Len(Plan) : Plan[i] = q[i]
    BY <1>3, <1>7
  <2> HIDE DEF q
  <2>3. Plan = q
    BY <1>3, <2>1, <2>2, SeqEqual
  <2>. QED  BY <2>3 DEF q
<1>. QED  BY <1>1, <1>4, <1>8 DEF PlanSteps

(* The steps a step is replaced with come before the rest.                 *)
LEMMA PlanThen ==
  ASSUME TypeOK, todo # <<>>, NEW steps \in Seq(Steps), Then(steps)
  PROVE  Plan' = steps \o Rest /\ steps \in Seq(PlanSteps)
<1>1. Tail(todo) \in Seq(Steps)
  BY HeadTailProperties DEF TypeOK
<1>2. /\ steps \in Seq(PlanSteps) /\ Tail(todo) \in Seq(PlanSteps)
      /\ <<End>> \in Seq(PlanSteps) /\ End \in PlanSteps
  BY <1>1 DEF PlanSteps
<1>3. steps \o Tail(todo) \in Seq(PlanSteps)
  BY <1>2, ConcatProperties
<1>4. /\ Append(steps \o Tail(todo), End) = (steps \o Tail(todo)) \o <<End>>
      /\ Append(Tail(todo), End) = Tail(todo) \o <<End>>
  BY <1>2, <1>3, AppendIsConcat
<1>5. (steps \o Tail(todo)) \o <<End>> = steps \o (Tail(todo) \o <<End>>)
  BY <1>2, ConcatAssociative
<1>. QED  BY <1>2, <1>4, <1>5 DEF Then, Plan, Rest

(* A rule is kept by a step that is replaced with steps that need nothing: *)
(* what is exposed afterwards was exposed before, or needs what the step   *)
(* has established.                                                        *)
LEMMA KeepRule ==
  ASSUME TypeOK, todo # <<>>, NEW steps \in Seq(Steps), Then(steps), NEW D, NEW E, NEW N,
         Ordered(Plan, D, E, N),
         \A k \in 1..Len(steps) : steps[k] \notin D \/ Head(todo) \in D
  PROVE  /\ Head(todo) \in N => Exposed(Plan, E, N)
         /\ (\A k \in 1..Len(steps) : steps[k] \notin D) => Ordered(Plan', D, E, N)
         /\ (\A k \in 1..Len(steps) : steps[k] \notin N) =>
              /\ Ordered(Plan', D, E, N)
              /\ Exposed(Plan', E, N) =>
                   Head(todo) \notin D /\ (Head(todo) \in E \/ Exposed(Plan, E, N))
<1>1. /\ Head(todo) \in PlanSteps /\ Rest \in Seq(PlanSteps)
      /\ Plan = <<Head(todo)>> \o Rest
  BY PlanIsHeadAndRest
<1>2. Plan' = steps \o Rest /\ steps \in Seq(PlanSteps)
  BY PlanThen
<1>3. /\ Exposed(Plan, E, N) <=>
           (Head(todo) \in N \/ (Head(todo) \notin E /\ Exposed(Rest, E, N)))
      /\ Ordered(Rest, D, E, N) /\ (Head(todo) \in D => ~Exposed(Rest, E, N))
  BY <1>1, ConsRule
<1>4. (\A k \in 1..Len(steps) : steps[k] \notin D) => Ordered(Plan', D, E, N)
  BY <1>1, <1>2, <1>3, PrefixRule
<1>5. ASSUME \A k \in 1..Len(steps) : steps[k] \notin N
      PROVE  /\ Ordered(Plan', D, E, N)
             /\ Exposed(Plan', E, N) => Exposed(Rest, E, N)
  <2>1. Exposed(Plan', E, N) => Exposed(Rest, E, N)
    BY <1>1, <1>2, <1>5, PrefixRule
  <2>2. CASE Head(todo) \in D
    BY <1>1, <1>2, <1>3, <1>5, <2>2, PrefixRule
  <2>3. CASE Head(todo) \notin D
    <3>1. \A k \in 1..Len(steps) : steps[k] \notin D
      BY <2>3
    <3>. QED  BY <1>4, <2>1, <3>1
  <2>. QED  BY <2>1, <2>2, <2>3
<1>6. (\A k \in 1..Len(steps) : steps[k] \notin N) =>
        /\ Ordered(Plan', D, E, N)
        /\ Exposed(Plan', E, N) =>
             Head(todo) \notin D /\ (Head(todo) \in E \/ Exposed(Plan, E, N))
  BY <1>3, <1>5
<1>. QED  BY <1>3, <1>4, <1>6

-----------------------------------------------------------------------------
(* The steps that are replaced with blocks to put out, or with nothing *)

(* The step that is taken ends what the rules need only when it may, and   *)
(* establishes what it should.                                             *)
StampKept(v) ==
  M2ts /\ Head(todo) \notin Makes(v) /\ (Head(todo) \in Ops("stamp", v) \/ Stamped(v))
    => Stamped(v)'
CleanKept(v) ==
  Head(todo) \notin Makes(v) /\ (\/ Clean(v)
                                 \/ ~M2ts /\ Head(todo) \in Ops("tail", v)
                                 \/ M2ts /\ Head(todo) \in Ops("rest", v) /\ Stamped(v))
    => Clean(v)'
CountKept(v) ==
  Head(todo) \notin Ops("blockDone", v) /\ (Head(todo) \in Ops("packet", v) \/ processed[v] > 0)
    => processed'[v] > 0
OpenKept(v) == File(v) \in open /\ Head(todo) \notin Ops("close", v) => (File(v) \in open)'
HeldKept ==
  Interleave /\ Head(todo) \notin MakesMain
    /\ (held = <<>> \/ (Head(todo) \in DoneOf(Second) /\ Switcher \in finished))
    => held' = <<>>
BothKept ==
  HasSub /\ Head(todo) \notin DoneOf(Second)
    /\ (Switcher \in finished \/ Head(todo) \in Ops("blockDone", Switcher))
    => Switcher \in finished'
IdleKept ==
  Head(todo) \in Closing /\ (queue = <<>> \/ Head(todo) \in Ops("wait", "main"))
    => queue' = <<>>
NowKept ==
  /\ \A v \in Views : StampKept(v) /\ CleanKept(v) /\ CountKept(v) /\ OpenKept(v)
  /\ HeldKept /\ BothKept /\ IdleKept

(* Blocks to put out are no other steps.                                   *)
LEMMA PutsAreNothingElse ==
  ASSUME NEW s \in Puts, NEW v, NEW op \in {"packet", "stamp", "rest", "blockDone", "tail",
                                            "next", "wait", "close"}
  PROVE  /\ s \in Steps /\ s \notin Ops(op, v) /\ s \notin Switches /\ s \notin Finishes(v)
         /\ s \notin Makes(v) /\ s \notin DoneOf(v) /\ s \notin Closing /\ s \notin Closes
         /\ s # End
         /\ s \in MakesMain => s \in Ops("put", "main")
BY DEF Puts, Ops, Switches, Finishes, Makes, DoneOf, Closing, Closes, End, MakesMain

(* The finishes in the list stay those of the view that may end a part and *)
(* of the other one.                                                       *)
FinishView(s) ==
  s.op = "finish" =>
    IF s.recursive THEN s.view = Switcher ELSE HasSub /\ s.view = Second

(* Ends of units and parts stay those of the views that may have them.     *)
LEMMA FinishViewsKept ==
  ASSUME TypeOK, todo # <<>>, NEW steps \in Seq(Steps), Then(steps), FinishViews,
         \A k \in 1..Len(steps) : FinishView(steps[k])
  PROVE  FinishViews'
<1>1. /\ Tail(todo) \in Seq(Steps) /\ todo' = steps \o Tail(todo)
      /\ \A i \in 1..Len(Tail(todo)) : i + 1 \in 1..Len(todo) /\ Tail(todo)[i] = todo[i + 1]
  <2>1. todo \in Seq(Steps) /\ Len(todo) \in Nat
    BY LenProperties DEF TypeOK
  <2>. QED  BY <2>1, HeadTailProperties DEF Then
<1>2. \A k \in 1..Len(todo') :
        \/ k \in 1..Len(steps) /\ todo'[k] = steps[k]
        \/ \E i \in 1..Len(todo) : todo'[k] = todo[i]
  <2> TAKE k \in 1..Len(todo')
  <2>1. \/ k \in 1..Len(steps) /\ todo'[k] = steps[k]
        \/ k - Len(steps) \in 1..Len(Tail(todo)) /\ todo'[k] = Tail(todo)[k - Len(steps)]
    BY <1>1, JoinedSteps
  <2>. QED  BY <1>1, <2>1
<1>3. \A i \in 1..Len(todo) : FinishView(todo[i])
  BY DEF FinishViews, FinishView
<1>4. \A k \in 1..Len(todo') : FinishView(todo'[k])
  BY <1>2, <1>3
<1>. QED  BY <1>4 DEF FinishViews, FinishView

(* A step that only puts blocks out keeps the order of the plan.           *)
LEMMA SimpleStep ==
  ASSUME TypeOK, todo # <<>>, NEW steps \in Seq(Steps), Then(steps),
         \A k \in 1..Len(steps) : steps[k] \in Puts,
         PlanInv, result = "running", NowKept, given' = given, ending' = ending,
         Head(todo).op \notin {"finish", "switch"},
         \A k \in 1..Len(steps) : steps[k] \in Ops("put", "main") => Head(todo) \in MakesMain,
         Head(todo) \in Closing => steps = <<>>
  PROVE  PlanInv'
<1> USE DEF Rule
<1>a. /\ Head(todo) \in Steps
      /\ \A v : Head(todo) \notin Finishes(v) /\ Head(todo) \notin Switches
  BY HeadOfTodo DEF Finishes, Switches
<1>1. ASSUME NEW v \in Views PROVE StampRule(v)'
  <2>1. CASE M2ts
    <3>1. Ordered(Plan, Makes(v), Ops("stamp", v), Ops("rest", v))
          /\ (Exposed(Plan, Ops("stamp", v), Ops("rest", v)) => Stamped(v))
      BY <1>1, <2>1 DEF PlanInv, StampRule
    <3>2. \A k \in 1..Len(steps) : steps[k] \notin Makes(v) /\ steps[k] \notin Ops("rest", v)
      BY PutsAreNothingElse
    <3>3. /\ Ordered(Plan', Makes(v), Ops("stamp", v), Ops("rest", v))
          /\ Exposed(Plan', Ops("stamp", v), Ops("rest", v)) =>
               Head(todo) \notin Makes(v)
               /\ (Head(todo) \in Ops("stamp", v) \/ Exposed(Plan, Ops("stamp", v), Ops("rest", v)))
      BY <3>1, <3>2, KeepRule
    <3>4. Exposed(Plan', Ops("stamp", v), Ops("rest", v)) => Stamped(v)'
      BY <1>1, <2>1, <3>1, <3>3 DEF NowKept, StampKept
    <3>. QED  BY <3>3, <3>4 DEF StampRule
  <2>. QED  BY <2>1 DEF StampRule
<1>2. ASSUME NEW v \in Views PROVE CleanRule(v)'
  <2> DEFINE E == Ops(IF M2ts THEN "rest" ELSE "tail", v)
  <2>1. Ordered(Plan, Makes(v), E, Ops("next", v)) /\ (Exposed(Plan, E, Ops("next", v)) => Clean(v))
    BY <1>2 DEF PlanInv, CleanRule
  <2>2. \A k \in 1..Len(steps) : steps[k] \notin Makes(v) /\ steps[k] \notin Ops("next", v)
    BY PutsAreNothingElse
  <2>3. /\ Ordered(Plan', Makes(v), E, Ops("next", v))
        /\ Exposed(Plan', E, Ops("next", v)) =>
             Head(todo) \notin Makes(v)
             /\ (Head(todo) \in E \/ Exposed(Plan, E, Ops("next", v)))
    BY <2>1, <2>2, KeepRule
  <2>4. M2ts /\ Head(todo) \in Ops("rest", v) => Stamped(v)
    <3> SUFFICES ASSUME M2ts, Head(todo) \in Ops("rest", v) PROVE Stamped(v)
      OBVIOUS
    <3>1. Ordered(Plan, Makes(v), Ops("stamp", v), Ops("rest", v))
          /\ (Exposed(Plan, Ops("stamp", v), Ops("rest", v)) => Stamped(v))
      BY <1>2 DEF PlanInv, StampRule
    <3>2. \A k \in 1..Len(steps) : steps[k] \notin Makes(v)
      BY PutsAreNothingElse
    <3>. QED  BY <3>1, <3>2, KeepRule
  <2>5. Head(todo) \in E =>
          (~M2ts /\ Head(todo) \in Ops("tail", v)) \/ (M2ts /\ Head(todo) \in Ops("rest", v))
    OBVIOUS
  <2>6. Exposed(Plan', E, Ops("next", v)) => Clean(v)'
    BY <1>2, <2>1, <2>3, <2>4, <2>5 DEF NowKept, CleanKept
  <2>. QED  BY <2>3, <2>6 DEF CleanRule
<1>3. ASSUME NEW v \in Views PROVE ServedRule(v)'
  <2> DEFINE E == Ops("packet", v) \cup Finishes(v)
             N == Switches \cup {End}
  <2>1. Ordered(Plan, Ops("blockDone", v), E, N)
        /\ (Exposed(Plan, E, N) => (given[v] > 0 => processed[v] > 0))
    BY <1>3 DEF PlanInv, ServedRule
  <2>2. \A k \in 1..Len(steps) : steps[k] \notin Ops("blockDone", v) /\ steps[k] \notin N
    BY PutsAreNothingElse
  <2>3. /\ Ordered(Plan', Ops("blockDone", v), E, N)
        /\ Exposed(Plan', E, N) =>
             Head(todo) \notin Ops("blockDone", v) /\ (Head(todo) \in E \/ Exposed(Plan, E, N))
    BY <2>1, <2>2, KeepRule
  <2>4. Exposed(Plan', E, N) => (given[v] > 0 => processed'[v] > 0)
    BY <1>3, <1>a, <2>1, <2>3 DEF NowKept, CountKept
  <2>. QED  BY <2>3, <2>4 DEF ServedRule
<1>4. ASSUME NEW v \in Views PROVE FinishRule(v)'
  <2> DEFINE D == Ops("blockDone", v) \cup Finishes(v) \cup Switches
  <2>1. Ordered(Plan, D, Ops("packet", v), Finishes(v))
        /\ (Exposed(Plan, Ops("packet", v), Finishes(v)) => processed[v] > 0)
    BY <1>4 DEF PlanInv, FinishRule
  <2>2. \A k \in 1..Len(steps) : steps[k] \notin D /\ steps[k] \notin Finishes(v)
    BY PutsAreNothingElse
  <2>3. /\ Ordered(Plan', D, Ops("packet", v), Finishes(v))
        /\ Exposed(Plan', Ops("packet", v), Finishes(v)) =>
             Head(todo) \notin D
             /\ (Head(todo) \in Ops("packet", v) \/ Exposed(Plan, Ops("packet", v), Finishes(v)))
    BY <2>1, <2>2, KeepRule
  <2>4. Exposed(Plan', Ops("packet", v), Finishes(v)) => processed'[v] > 0
    BY <1>4, <2>1, <2>3 DEF NowKept, CountKept
  <2>. QED  BY <2>3, <2>4 DEF FinishRule
<1>5. ASSUME NEW v \in Views PROVE OpenRule(v)'
  <2>1. Ordered(Plan, Ops("close", v), {}, Uses(v)) /\ (Exposed(Plan, {}, Uses(v)) => File(v) \in open)
    BY <1>5 DEF PlanInv, OpenRule
  <2>2. \A k \in 1..Len(steps) : steps[k] \notin Ops("close", v) /\ steps[k] # End
    BY PutsAreNothingElse
  <2>3. Uses(v)' = Uses(v)
    BY DEF Uses
  <2>4. Ordered(Plan', Ops("close", v), {}, Uses(v))
    BY <2>1, <2>2, KeepRule
  <2>5. Exposed(Plan', {}, Uses(v)) =>
          Head(todo) \notin Ops("close", v) /\ Exposed(Plan, {}, Uses(v))
    <3>1. CASE steps = <<>>
      <4>1. \A k \in 1..Len(steps) : steps[k] \notin Uses(v)
        BY <3>1
      <4>. QED  BY <2>1, <2>2, <4>1, KeepRule
    <3>2. CASE steps # <<>>
      <4>1. Head(todo) \notin Closing
        BY <3>2
      <4>2. Head(todo) \in Uses(v) /\ Head(todo) \notin Ops("close", v)
        BY <1>a, <4>1 DEF Uses, Closing, Ops
      <4>. QED  BY <2>1, <2>2, <4>2, KeepRule
    <3>. QED  BY <3>1, <3>2
  <2>6. Exposed(Plan', {}, Uses(v)) => (File(v) \in open)'
    BY <1>5, <2>1, <2>5 DEF NowKept, OpenKept
  <2>. QED  BY <2>3, <2>4, <2>6 DEF OpenRule
<1>6. HeldRule'
  <2>1. CASE Interleave
    <3> DEFINE E == DoneOf(Second)
               N == Ops("next", "main")
    <3>1. Ordered(Plan, MakesMain, E, N) /\ (Exposed(Plan, E, N) => held = <<>>)
      BY <2>1 DEF PlanInv, HeldRule
    <3>2. \A k \in 1..Len(steps) : /\ steps[k] \notin MakesMain \/ Head(todo) \in MakesMain
                                   /\ steps[k] \notin N
      BY PutsAreNothingElse
    <3>3. /\ Ordered(Plan', MakesMain, E, N)
          /\ Exposed(Plan', E, N) =>
               Head(todo) \notin MakesMain /\ (Head(todo) \in E \/ Exposed(Plan, E, N))
      BY <3>1, <3>2, KeepRule
    <3>4. Head(todo) \in E => Switcher \in finished
      <4> DEFINE D == E \cup Finishes(Switcher) \cup Switches
      <4>1. Ordered(Plan, D, Ops("blockDone", Switcher), E)
            /\ (Exposed(Plan, Ops("blockDone", Switcher), E) => Switcher \in finished)
        BY <2>1, MuxWriterAssumption DEF PlanInv, BothRule
      <4>2. \A k \in 1..Len(steps) : steps[k] \notin D
        BY PutsAreNothingElse
      <4>3. Head(todo) \in E => Exposed(Plan, Ops("blockDone", Switcher), E)
        BY <4>1, <4>2, KeepRule
      <4>. QED  BY <4>1, <4>3
    <3>5. Exposed(Plan', E, N) => held' = <<>>
      BY <2>1, <3>1, <3>3, <3>4 DEF NowKept, HeldKept
    <3>. QED  BY <3>3, <3>5 DEF HeldRule
  <2>. QED  BY <2>1 DEF HeldRule
<1>7. BothRule'
  <2>1. CASE HasSub
    <3> DEFINE D == DoneOf(Second) \cup Finishes(Switcher) \cup Switches
               E == Ops("blockDone", Switcher)
               N == DoneOf(Second)
    <3>1. Ordered(Plan, D, E, N) /\ (Exposed(Plan, E, N) => Switcher \in finished)
      BY <2>1 DEF PlanInv, BothRule
    <3>2. \A k \in 1..Len(steps) : steps[k] \notin D /\ steps[k] \notin N
      BY PutsAreNothingElse
    <3>3. /\ Ordered(Plan', D, E, N)
          /\ Exposed(Plan', E, N) =>
               Head(todo) \notin D /\ (Head(todo) \in E \/ Exposed(Plan, E, N))
      BY <3>1, <3>2, KeepRule
    <3>4. Exposed(Plan', E, N) => Switcher \in finished'
      BY <2>1, <3>1, <3>3 DEF NowKept, BothKept
    <3>. QED  BY <3>3, <3>4 DEF BothRule
  <2>. QED  BY <2>1 DEF BothRule
<1>8. PutsFirst'
  <2>1. Ordered(Plan, Steps \ Puts, {}, Puts)
    BY DEF PlanInv, PutsFirst
  <2>2. \A k \in 1..Len(steps) : steps[k] \notin Steps \ Puts
    OBVIOUS
  <2>3. Ordered(Plan', Steps \ Puts, {}, Puts)
    BY <2>1, <2>2, KeepRule
  <2>. QED  BY <2>3 DEF PutsFirst
<1>9. IdleRule'
  <2> DEFINE D == Steps \ Closing
             E == Ops("wait", "main")
  <2>1. Ordered(Plan, D, E, Closes) /\ (Exposed(Plan, E, Closes) => queue = <<>>)
    BY DEF PlanInv, IdleRule
  <2>2. \A k \in 1..Len(steps) : /\ steps[k] \notin D \/ Head(todo) \in D
                                 /\ steps[k] \notin Closes
    BY <1>a, PutsAreNothingElse
  <2>3. /\ Ordered(Plan', D, E, Closes)
        /\ Exposed(Plan', E, Closes) =>
             Head(todo) \notin D /\ (Head(todo) \in E \/ Exposed(Plan, E, Closes))
    BY <2>1, <2>2, KeepRule
  <2>4. Exposed(Plan', E, Closes) => queue' = <<>>
    BY <1>a, <2>1, <2>3 DEF NowKept, IdleKept
  <2>. QED  BY <2>3, <2>4 DEF IdleRule
<1>10. FinishViews'
  <2>1. \A k \in 1..Len(steps) : FinishView(steps[k])
    BY DEF Puts, FinishView
  <2>. QED  BY <2>1, FinishViewsKept DEF PlanInv
<1>. QED  BY <1>1, <1>2, <1>3, <1>4, <1>5, <1>6, <1>7, <1>8, <1>9, <1>10 DEF PlanInv

-----------------------------------------------------------------------------
(* What each step does to what the rules need *)

(* A list of blocks to put out is a list of such steps, of the view if all *)
(* blocks are.                                                             *)
LEMMA PutAllPuts ==
  ASSUME NEW op \in {"put", "queue"}, NEW blocks \in Seq(Blocks)
  PROVE  /\ PutAll(op, blocks) \in Seq(Steps) /\ Len(PutAll(op, blocks)) = Len(blocks)
         /\ \A k \in 1..Len(PutAll(op, blocks)) :
              /\ PutAll(op, blocks)[k] \in Ops(op, blocks[k].view)
              /\ PutAll(op, blocks)[k].blk = blocks[k] /\ PutAll(op, blocks)[k] \in Puts
         /\ blocks = <<>> => PutAll(op, blocks) = <<>>
<1>1. Len(blocks) \in Nat /\ PutAll(op, blocks) \in Seq(Steps)
  BY LenProperties, PutAllType
<1>2. DOMAIN PutAll(op, blocks) = 1..Len(blocks) /\ Len(PutAll(op, blocks)) \in Nat
      /\ DOMAIN PutAll(op, blocks) = 1..Len(PutAll(op, blocks))
  BY <1>1, LenProperties DEF PutAll
<1>3. Len(PutAll(op, blocks)) = Len(blocks)
  BY <1>1, <1>2
<1>4. ASSUME NEW k \in 1..Len(blocks)
      PROVE  /\ PutAll(op, blocks)[k] \in Ops(op, blocks[k].view)
             /\ PutAll(op, blocks)[k].blk = blocks[k] /\ PutAll(op, blocks)[k] \in Puts
  <2>1. PutAll(op, blocks)[k] = PutStep(op, blocks[k]) /\ blocks[k] \in Blocks
    BY <1>4, ElementOfSeq DEF PutAll
  <2>. QED  BY <2>1 DEF PutStep, Ops, Puts, Blocks, Steps
<1>5. blocks = <<>> => PutAll(op, blocks) = <<>>
  BY <1>1, <1>3, EmptySeq
<1>. QED  BY <1>1, <1>3, <1>4, <1>5

(* A block put out, if c.                                                  *)
LEMMA OnePut ==
  ASSUME NEW b \in Blocks, NEW c \in BOOLEAN
  PROVE  LET steps == IfAny(c, <<PutStep("put", b)>>) IN
           /\ steps \in Seq(Steps)
           /\ \A k \in 1..Len(steps) :
                /\ steps[k] \in Puts /\ steps[k] \in Ops("put", b.view)
                /\ steps[k].blk = b
<1>1. PutStep("put", b) \in Steps /\ PutStep("put", b) \in Puts
      /\ PutStep("put", b) \in Ops("put", b.view) /\ PutStep("put", b).blk = b
  BY DEF PutStep, Ops, Puts, Blocks, Steps
<1>2. /\ <<PutStep("put", b)>> \in Seq(Steps) /\ Len(<<PutStep("put", b)>>) = 1
      /\ <<PutStep("put", b)>>[1] = PutStep("put", b)
  BY <1>1
<1>3. \A k \in 1..1 : k = 1
  OBVIOUS
<1>4. \A k \in 1..Len(<<PutStep("put", b)>>) : <<PutStep("put", b)>>[k] = PutStep("put", b)
  BY <1>2, <1>3
<1>5. <<>> \in Seq(Steps) /\ Len(<<>>) = 0 /\ 1..0 = {}
  BY EmptySeq
<1>. QED  BY <1>1, <1>2, <1>4, <1>5 DEF IfAny

(* The rules that look at the files, at what is held back, at the finished *)
(* views and at the queue are kept by a step that changes none of these.   *)
LEMMA QuietNow ==
  ASSUME UNCHANGED <<open, firstOf, held, finished>>, Head(todo) \notin Closing,
         Head(todo).op \notin {"blockDone", "finish"},
         \A v \in Views : StampKept(v) /\ CleanKept(v) /\ CountKept(v)
  PROVE  NowKept
<1>1. \A v : (File(v) \in open)' <=> File(v) \in open
  BY DEF File, Part
<1>2. \A v : Head(todo) \notin DoneOf(v) /\ Head(todo) \notin Ops("blockDone", v)
  BY DEF DoneOf, Ops
<1>3. held' = held /\ finished' = finished
  OBVIOUS
<1>4. \A v \in Views : OpenKept(v)
  BY <1>1 DEF OpenKept
<1>5. HeldKept
  BY <1>2, <1>3 DEF HeldKept
<1>6. BothKept
  BY <1>2, <1>3 DEF BothKept
<1>7. IdleKept
  BY DEF IdleKept
<1>. QED  BY <1>4, <1>5, <1>6, <1>7 DEF NowKept

(* A packet.                                                               *)
LEMMA AddPacketPlan ==
  TypeOK /\ PlanInv /\ result = "running" /\ AddPacket => PlanInv'
<1> SUFFICES ASSUME TypeOK, PlanInv, result = "running", AddPacket PROVE PlanInv'
  OBVIOUS
<1> DEFINE v == Head(todo).view
           n == made[v] + 1
           b == Block(v, n)
           full == n - sent[v] = BlockLimit
           steps == IfAny(full /\ MayGoOut(v, n), <<PutStep("put", b)>>)
<1>1. /\ todo # <<>> /\ Head(todo).op = "packet" /\ Head(todo) \in Steps /\ v \in Views
      /\ made[v] \in Nat /\ processed[v] \in Nat
  BY HeadOfTodo DEF AddPacket, At, TypeOK
<1>2. b \in Blocks /\ b.view = v
  <2>1. n \in Nat
    BY <1>1
  <2>2. Block(v, n).view = v
    BY DEF Block
  <2>. QED  BY <1>1, <2>1, <2>2, BlockType
<1>3. /\ steps \in Seq(Steps) /\ Then(steps)
      /\ \A k \in 1..Len(steps) : steps[k] \in Puts /\ steps[k] \in Ops("put", v)
  BY <1>2, OnePut DEF AddPacket, MayGoOut
<1>4. Head(todo) \in Ops("packet", v) /\ Head(todo) \in Makes(v) /\ Head(todo) \notin Closing
  BY <1>1 DEF Ops, Makes, Closing
<1>5. NowKept
  <2>1. ASSUME NEW w \in Views, w # v
        PROVE  /\ Stamped(w)' = Stamped(w) /\ Clean(w)' = Clean(w) /\ processed'[w] = processed[w]
               /\ Head(todo) \notin Ops("packet", w) /\ Head(todo) \notin Ops("stamp", w)
               /\ Head(todo) \notin Ops("rest", w) /\ Head(todo) \notin Ops("tail", w)
    <3>1. /\ made'[w] = made[w] /\ sent'[w] = sent[w] /\ delayBlk'[w] = delayBlk[w]
          /\ stamped' = stamped /\ processed'[w] = processed[w]
      BY <1>1, <2>1 DEF AddPacket, TypeOK
    <3>. QED  BY <1>1, <2>1, <3>1 DEF Stamped, Clean, Ops
  <2>2. processed'[v] > 0
    BY <1>1 DEF AddPacket, TypeOK
  <2>3. Head(todo).op \notin {"blockDone", "finish"}
    BY <1>1
  <2>4. UNCHANGED <<open, firstOf, held, finished>>
    BY DEF AddPacket
  <2>5. ASSUME NEW w \in Views PROVE StampKept(w) /\ CleanKept(w) /\ CountKept(w)
    BY <1>4, <2>1, <2>2 DEF StampKept, CleanKept, CountKept
  <2>. QED  BY <1>4, <2>3, <2>4, <2>5, QuietNow
<1>6. \A k \in 1..Len(steps) : steps[k] \in Ops("put", "main") => Head(todo) \in MakesMain
  BY <1>3, <1>4 DEF Ops, MakesMain
<1>7. given' = given /\ ending' = ending
  BY DEF AddPacket
<1>. QED  BY <1>1, <1>3, <1>4, <1>5, <1>6, <1>7, SimpleStep

(* With two views, the second one is the other of the one that ends parts. *)
LEMMA TwoViews ==
  ASSUME HasSub
  PROVE  /\ Second \in Views /\ Second # Switcher /\ {Switcher, Second} = {"main", "sub"}
         /\ \A v \in Views : v = Switcher \/ v = Second
BY MuxWriterAssumption DEF Second, Views, Other

(* Nothing is put in place of a step: an empty list of steps.              *)
LEMMA NoSteps ==
  /\ <<>> \in Seq(Steps) /\ Len(<<>>) = 0 /\ \A k \in 1..Len(<<>>) : FALSE
BY EmptySeq

(* The arrival times, with the blocks that waited for them.                *)
LEMMA StampPlan ==
  TypeOK /\ PlaceInv /\ PlanInv /\ result = "running" /\ Stamp => PlanInv'
<1> SUFFICES ASSUME TypeOK, PlaceInv, PlanInv, result = "running", Stamp PROVE PlanInv'
  OBVIOUS
<1>0. todo # <<>> /\ Head(todo).op = "stamp" /\ Head(todo) \in Steps /\ Head(todo).view \in Views
  BY HeadOfTodo DEF Stamp, At
<1>v. PICK v \in Views : v = Head(todo).view
  BY <1>0
<1> DEFINE steps == PutAll("put", delayBlk[v])
<1>1. todo # <<>> /\ Head(todo).op = "stamp" /\ Head(todo) \in Steps /\ v \in Views
      /\ Head(todo).view = v
  BY <1>0, <1>v
<1>2. delayBlk[v] \in Seq(Blocks) /\ delayBlk \in [Views -> Seq(Blocks)] /\ stamped \in [Views -> Nat]
  BY <1>1 DEF TypeOK
<1>3. \A k \in 1..Len(delayBlk[v]) : delayBlk[v][k].view = v
  BY <1>1 DEF PlaceInv, BlocksHere
<1>4. /\ steps \in Seq(Steps) /\ Then(steps)
      /\ \A k \in 1..Len(steps) : steps[k] \in Puts /\ steps[k] \in Ops("put", v)
  <2>1. /\ steps \in Seq(Steps) /\ Len(steps) = Len(delayBlk[v])
        /\ \A k \in 1..Len(steps) : steps[k] \in Ops("put", delayBlk[v][k].view) /\ steps[k] \in Puts
    BY <1>2, PutAllPuts
  <2>2. Then(steps)
    BY <1>1 DEF Stamp
  <2> HIDE DEF steps
  <2>. QED  BY <1>3, <2>1, <2>2
<1>5. Head(todo) \in Ops("stamp", v) /\ Head(todo) \notin Closing
  BY <1>1 DEF Ops, Closing
<1>6. NowKept
  <2>1. ASSUME NEW w \in Views, w # v
        PROVE  /\ Stamped(w)' = Stamped(w) /\ Clean(w)' = Clean(w)
               /\ Head(todo) \notin Ops("stamp", w)
    <3>1. /\ made' = made /\ sent' = sent /\ delayBlk'[w] = delayBlk[w]
          /\ stamped'[w] = stamped[w]
      BY <1>1, <1>2, <2>1 DEF Stamp
    <3>. QED  BY <1>1, <2>1, <3>1 DEF Stamped, Clean, Ops
  <2>2. Stamped(v)' /\ (Clean(v) => Clean(v)')
    <3>1. /\ made' = made /\ sent' = sent /\ delayBlk'[v] = <<>> /\ stamped'[v] = made[v]
      BY <1>1, <1>2 DEF Stamp
    <3>. QED  BY <3>1 DEF Stamped, Clean
  <2>3. processed' = processed /\ \A w : /\ Head(todo) \notin Ops("packet", w)
                                         /\ Head(todo) \notin Ops("tail", w)
                                         /\ Head(todo) \notin Ops("rest", w)
    BY <1>1 DEF Stamp, Ops
  <2>4. ASSUME NEW w \in Views PROVE StampKept(w) /\ CleanKept(w) /\ CountKept(w)
    BY <2>1, <2>2, <2>3 DEF StampKept, CleanKept, CountKept
  <2>. QED  BY <1>1, <1>5, <2>4, QuietNow DEF Stamp
<1>7. \A k \in 1..Len(steps) : steps[k] \in Ops("put", "main") => Head(todo) \in MakesMain
  BY <1>4, <1>5 DEF Ops, MakesMain
<1>8. given' = given /\ ending' = ending
  BY DEF Stamp
<1>. QED  BY <1>1, <1>4, <1>5, <1>6, <1>7, <1>8, SimpleStep

(* The end of doFlush: in an M2TS everything has left the muxer.           *)
LEMMA FlushRestPlan ==
  TypeOK /\ PlanInv /\ result = "running" /\ FlushRest => PlanInv'
<1> SUFFICES ASSUME TypeOK, PlanInv, result = "running", FlushRest PROVE PlanInv'
  OBVIOUS
<1>0. todo # <<>> /\ Head(todo).op = "rest" /\ Head(todo) \in Steps /\ Head(todo).view \in Views
  BY HeadOfTodo DEF FlushRest, At
<1>v. PICK v \in Views : v = Head(todo).view
  BY <1>0
<1>1. todo # <<>> /\ Head(todo).op = "rest" /\ Head(todo) \in Steps /\ v \in Views
      /\ Head(todo).view = v
  BY <1>0, <1>v
<1>2. /\ made \in [Views -> Nat] /\ sent \in [Views -> Nat] /\ sent[v] <= made[v]
  BY <1>1 DEF TypeOK
<1>3. PICK to \in IF M2ts THEN {made[v]} ELSE sent[v]..made[v] :
        /\ sent' = [sent EXCEPT ![v] = to]
        /\ Then(<<PutStep("put", Block(v, to))>>)
  BY <1>1 DEF FlushRest
<1>4. to \in Nat /\ (M2ts \/ sent[v] = made[v] => to = made[v])
  BY <1>1, <1>2, <1>3
<1> DEFINE steps == IfAny(TRUE, <<PutStep("put", Block(v, to))>>)
<1>5. /\ steps \in Seq(Steps) /\ Then(steps)
      /\ \A k \in 1..Len(steps) : steps[k] \in Puts /\ steps[k] \in Ops("put", v)
  <2>1. Block(v, to) \in Blocks /\ Block(v, to).view = v
    BY <1>1, <1>4, BlockType DEF Block
  <2>2. steps = <<PutStep("put", Block(v, to))>>
    BY DEF IfAny
  <2>. QED  BY <1>3, <2>1, <2>2, OnePut
<1>6. Head(todo) \in Ops("rest", v) /\ Head(todo) \notin Closing
  BY <1>1 DEF Ops, Closing
<1>7. NowKept
  <2>1. ASSUME NEW w \in Views, w # v
        PROVE  Clean(w)' = Clean(w) /\ Head(todo) \notin Ops("rest", w)
    <3>1. made' = made /\ sent'[w] = sent[w] /\ delayBlk' = delayBlk
      BY <1>1, <1>2, <1>3, <2>1 DEF FlushRest
    <3>. QED  BY <1>1, <2>1, <3>1 DEF Clean, Ops
  <2>2. (M2ts /\ Stamped(v)) \/ Clean(v) => Clean(v)'
    <3>1. made' = made /\ sent'[v] = to /\ delayBlk' = delayBlk
      BY <1>1, <1>2, <1>3 DEF FlushRest
    <3>. QED  BY <1>4, <3>1 DEF Clean, Stamped
  <2>3. /\ processed' = processed
        /\ \A w : /\ Head(todo) \notin Ops("packet", w) /\ Head(todo) \notin Ops("tail", w)
                  /\ Head(todo) \notin Ops("stamp", w) /\ Stamped(w)' = Stamped(w)
    BY <1>1 DEF FlushRest, Ops, Stamped
  <2>4. ASSUME NEW w \in Views PROVE StampKept(w) /\ CleanKept(w) /\ CountKept(w)
    BY <2>1, <2>2, <2>3 DEF StampKept, CleanKept, CountKept
  <2>. QED  BY <1>1, <1>6, <2>4, QuietNow DEF FlushRest
<1>8. \A k \in 1..Len(steps) : steps[k] \in Ops("put", "main") => Head(todo) \in MakesMain
  BY <1>5, <1>6 DEF Ops, MakesMain
<1>9. given' = given /\ ending' = ending
  BY DEF FlushRest
<1>. QED  BY <1>1, <1>5, <1>6, <1>7, <1>8, <1>9, SimpleStep

(* The first step of the list, as an element of it.                        *)
LEMMA HeadIsFirst ==
  ASSUME TypeOK, todo # <<>>
  PROVE  1 \in 1..Len(todo) /\ todo[1] = Head(todo)
<1>1. todo \in Seq(Steps) /\ Len(todo) \in Nat /\ Len(todo) # 0
  BY EmptySeq, LenProperties DEF TypeOK
<1>. QED  BY <1>1

(* A block is queued or held back.                                         *)
LEMMA PutBlockPlan ==
  TypeOK /\ PlaceInv /\ PlanInv /\ result = "running" /\ PutBlock => PlanInv'
<1> SUFFICES ASSUME TypeOK, PlaceInv, PlanInv, result = "running", PutBlock PROVE PlanInv'
  OBVIOUS
<1>1. todo # <<>> /\ Head(todo).op \in {"put", "queue"} /\ Head(todo) \in Steps
  BY HeadOfTodo DEF PutBlock, At
<1>2. CASE result' # "running"
  BY <1>2 DEF PlanInv
<1>3. CASE result' = "running"
  <2>1. Then(<<>>)
    BY <1>3 DEF PutBlock, AsyncWriteBuffer, AsyncWriteBlock, Throw
  <2>2. Head(todo) \notin Closing /\ \A v : /\ Head(todo) \notin Ops("packet", v)
                                           /\ Head(todo) \notin Ops("tail", v)
                                           /\ Head(todo) \notin Ops("stamp", v)
                                           /\ Head(todo) \notin Ops("rest", v)
                                           /\ Head(todo) \notin Ops("blockDone", v)
                                           /\ Head(todo) \notin DoneOf(v)
    BY <1>1 DEF Closing, Ops, DoneOf
  <2>3. NowKept
    <3>1. \A v \in Views : StampKept(v) /\ CleanKept(v) /\ CountKept(v) /\ OpenKept(v)
      <4>1. UNCHANGED <<viewVars, partVars>>
        BY DEF PutBlock
      <4>2. \A v : Stamped(v)' = Stamped(v) /\ Clean(v)' = Clean(v) /\ File(v)' = File(v)
        BY <4>1 DEF Stamped, Clean, File, Part
      <4>. QED  BY <2>2, <4>1, <4>2 DEF StampKept, CleanKept, CountKept, OpenKept
    <3>2. HeldKept
      <4>1. CASE Head(todo) \in MakesMain
        BY <4>1 DEF HeldKept
      <4>2. CASE Head(todo) \notin MakesMain
        <5>1. Head(todo).op = "put" => ~HeldBack(Head(todo).blk.view)
          <6>1. Head(todo) \in Puts
            BY <1>1 DEF Puts
          <6>2. Head(todo).blk.view = Head(todo).view
            BY <1>1, <6>1, HeadIsFirst DEF PlaceInv, BlocksHere
          <6>. QED  BY <1>1, <4>2, <6>2 DEF HeldBack, MakesMain, Ops
        <5>2. held' = held
          BY <1>1, <5>1 DEF PutBlock, AsyncWriteBuffer, AsyncWriteBlock, At
        <5>. QED  BY <2>2, <5>2 DEF HeldKept
      <4>. QED  BY <4>1, <4>2
    <3>3. BothKept /\ IdleKept
      BY <2>2 DEF PutBlock, BothKept, IdleKept
    <3>. QED  BY <3>1, <3>2, <3>3 DEF NowKept
  <2>4. Head(todo).op \notin {"finish", "switch"} /\ given' = given /\ ending' = ending
    BY <1>1 DEF PutBlock
  <2>. QED  BY <1>1, <2>1, <2>2, <2>3, <2>4, NoSteps, SimpleStep
<1>. QED  BY <1>2, <1>3

(* A unit is over.  What is held back is released by the second view, and  *)
(* the first has then ended its unit.                                      *)
LEMMA MuxBlockFinishedPlan ==
  TypeOK /\ PlaceInv /\ PlanInv /\ result = "running" /\ MuxBlockFinished => PlanInv'
<1> SUFFICES ASSUME TypeOK, PlaceInv, PlanInv, result = "running", MuxBlockFinished
             PROVE PlanInv'
  OBVIOUS
<1>0. todo # <<>> /\ Head(todo).op = "blockDone" /\ Head(todo) \in Steps /\ Head(todo).view \in Views
  BY HeadOfTodo DEF MuxBlockFinished, At
<1>v. PICK v \in Views : v = Head(todo).view
  BY <1>0
<1> DEFINE done == finished \cup {v}
<1>1. finished \subseteq {Switcher}
  BY DEF PlaceInv
<1>2. /\ processed' = [processed EXCEPT ![v] = 0]
      /\ IF BothFinished(done)
         THEN finished' = {} /\ held' = <<>> /\ Then(PutAll("queue", held))
         ELSE finished' = done /\ Then(<<>>) /\ held' = held
      /\ UNCHANGED <<given, made, sent, stamped, delayBlk, firstOf, open, endVars, queue,
                     writeVars, diskVars>>
  BY <1>v DEF MuxBlockFinished, AfterRelease
<1>3. PICK steps \in Seq(Steps) :
        /\ Then(steps)
        /\ \A k \in 1..Len(steps) : steps[k] \in Puts /\ steps[k] \notin Ops("put", "main")
  <2>1. CASE BothFinished(done)
    <3> DEFINE steps == PutAll("queue", held)
    <3>1. held \in Seq(Blocks)
      BY DEF TypeOK
    <3>2. /\ steps \in Seq(Steps)
          /\ \A k \in 1..Len(steps) : steps[k] \in Puts /\ steps[k] \in Ops("queue", held[k].view)
      BY <3>1, PutAllPuts
    <3>3. \A k \in 1..Len(steps) : steps[k] \in Puts /\ steps[k] \notin Ops("put", "main")
      BY <3>2 DEF Ops
    <3>4. Then(steps)
      BY <1>2, <2>1
    <3>. QED  BY <3>2, <3>3, <3>4
  <2>2. CASE ~BothFinished(done)
    BY <1>2, <2>2, NoSteps
  <2>. QED  BY <2>1, <2>2
<1>4. /\ Head(todo) \notin Closing /\ Head(todo) \in DoneOf(v)
      /\ Head(todo).op \notin {"finish", "switch"}
      /\ \A w : /\ Head(todo) \notin Ops("packet", w) /\ Head(todo) \notin Ops("tail", w)
                /\ Head(todo) \notin Ops("stamp", w) /\ Head(todo) \notin Ops("rest", w)
                /\ Head(todo) \in Ops("blockDone", w) <=> w = v
  BY <1>0, <1>v DEF Closing, DoneOf, Ops
<1>5. NowKept
  <2>1. \A w \in Views : StampKept(w) /\ CleanKept(w) /\ CountKept(w) /\ OpenKept(w)
    <3>1. \A w : Stamped(w)' = Stamped(w) /\ Clean(w)' = Clean(w) /\ File(w)' = File(w)
      BY <1>2 DEF Stamped, Clean, File, Part
    <3>2. \A w \in Views : w # v => processed'[w] = processed[w]
      BY <1>2 DEF TypeOK
    <3>. QED  BY <1>2, <1>4, <3>1, <3>2 DEF StampKept, CleanKept, CountKept, OpenKept
  <2>2. HeldKept
    <3>1. CASE HasSub /\ v = Second /\ Switcher \in finished
      <4>1. done = {"main", "sub"}
        BY <1>1, <3>1, TwoViews
      <4>. QED  BY <1>2, <4>1 DEF BothFinished, HeldKept
    <3>2. CASE ~(HasSub /\ v = Second /\ Switcher \in finished)
      <4>1. Interleave /\ Head(todo) \in DoneOf(Second) /\ Switcher \in finished => FALSE
        BY <1>0, <1>v, <3>2, MuxWriterAssumption DEF DoneOf
      <4>2. held = <<>> => held' = <<>>
        BY <1>2
      <4>. QED  BY <4>1, <4>2 DEF HeldKept
    <3>. QED  BY <3>1, <3>2
  <2>3. BothKept
    <3>1. CASE HasSub /\ v # Second
      <4>1. v = Switcher
        BY <3>1, TwoViews
      <4>2. done = {Switcher} /\ done # {"main", "sub"}
        BY <1>1, <3>1, <4>1, TwoViews
      <4>. QED  BY <1>2, <4>2 DEF BothFinished, BothKept
    <3>2. CASE ~HasSub \/ v = Second
      BY <1>4, <3>2 DEF BothKept
    <3>. QED  BY <3>1, <3>2
  <2>4. IdleKept
    BY <1>4 DEF IdleKept
  <2>. QED  BY <2>1, <2>2, <2>3, <2>4 DEF NowKept
<1>. QED  BY <1>0, <1>2, <1>3, <1>4, <1>5, SimpleStep

(* The mux thread appends what is left of a TS, when it does.              *)
LEMMA FlushTSBufferPlan ==
  TypeOK /\ PlaceInv /\ PlanInv /\ result = "running" /\ FlushTSBuffer => PlanInv'
<1> SUFFICES ASSUME TypeOK, PlaceInv, PlanInv, result = "running", FlushTSBuffer
             PROVE PlanInv'
  OBVIOUS
<1>0. todo # <<>> /\ Head(todo).op = "tail" /\ Head(todo) \in Steps /\ Head(todo).view \in Views
  BY HeadOfTodo DEF FlushTSBuffer, At
<1>v. PICK v \in Views : v = Head(todo).view
  BY <1>0
<1>1. CASE result' # "running"
  BY <1>1 DEF PlanInv
<1>2. CASE result' = "running"
  <2>1. /\ sent' = [sent EXCEPT ![v] = made[v]]
        /\ Then(<<>>) /\ open' = open
        /\ UNCHANGED <<given, made, stamped, delayBlk, processed, unit, firstOf, holdVars,
                       ending, closedOk, queue, writeVars>>
    BY <1>v, <1>2 DEF FlushTSBuffer, Throw
  <2>2. /\ Head(todo) \notin Closing /\ Head(todo).op \notin {"finish", "switch", "blockDone"}
        /\ \A w : /\ Head(todo) \notin Ops("packet", w) /\ Head(todo) \notin Ops("rest", w)
                  /\ Head(todo) \notin Ops("stamp", w)
                  /\ Head(todo) \in Ops("tail", w) <=> w = v
    BY <1>0, <1>v DEF Closing, Ops
  <2>3. NowKept
    <3>1. ASSUME NEW w \in Views PROVE StampKept(w) /\ CleanKept(w) /\ CountKept(w)
      <4>1. Stamped(w)' = Stamped(w)
        BY <2>1 DEF Stamped
      <4>2. CASE w = v
        <5>1. Clean(w) \/ ~M2ts => Clean(w)'
          <6>1. sent'[w] = made[w] /\ made' = made /\ delayBlk' = delayBlk
            BY <2>1, <4>2 DEF TypeOK
          <6>2. ~M2ts => delayBlk[w] = <<>>
            BY DEF PlaceInv
          <6>. QED  BY <6>1, <6>2 DEF Clean
        <5>. QED  BY <2>1, <2>2, <4>1, <5>1 DEF StampKept, CleanKept, CountKept
      <4>3. CASE w # v
        <5>1. Clean(w)' = Clean(w)
          BY <2>1, <4>3 DEF Clean, TypeOK
        <5>. QED  BY <2>1, <2>2, <4>1, <4>3, <5>1 DEF StampKept, CleanKept, CountKept
      <4>. QED  BY <4>2, <4>3
    <3>. QED  BY <2>1, <2>2, <3>1, QuietNow
  <2>. QED  BY <1>0, <2>1, <2>2, <2>3, NoSteps, SimpleStep
<1>. QED  BY <1>1, <1>2

(* The next part: the file of the view that begins it is another one.      *)
LEMMA GotoNextFilePlan ==
  TypeOK /\ PlanInv /\ result = "running" /\ GotoNextFile => PlanInv'
<1> SUFFICES ASSUME TypeOK, PlanInv, result = "running", GotoNextFile PROVE PlanInv'
  OBVIOUS
<1>0. todo # <<>> /\ Head(todo).op = "next" /\ Head(todo) \in Steps /\ Head(todo).view \in Views
  BY HeadOfTodo DEF GotoNextFile, At
<1>v. PICK v \in Views : v = Head(todo).view
  BY <1>0
<1>1. CASE result' # "running"
  BY <1>1 DEF PlanInv
<1>2. CASE result' = "running"
  <2>1. /\ open' = (open \ {File(v)}) \cup {<<v, Part(v) + 1>>}
        /\ firstOf' = [firstOf EXCEPT ![v] = Append(@, made[v] + 1)]
        /\ Then(<<>>)
        /\ UNCHANGED <<viewVars, unit, holdVars, ending, closedOk, queue, writeVars, diskVars>>
    BY <1>v, <1>2 DEF GotoNextFile, Throw
  <2>2. /\ Head(todo) \notin Closing /\ Head(todo).op \notin {"finish", "switch", "blockDone"}
        /\ \A w : /\ Head(todo) \notin Ops("packet", w) /\ Head(todo) \notin Ops("rest", w)
                  /\ Head(todo) \notin Ops("stamp", w) /\ Head(todo) \notin Ops("tail", w)
                  /\ Head(todo) \notin DoneOf(w) /\ Head(todo) \notin Ops("blockDone", w)
    BY <1>0 DEF Closing, Ops, DoneOf
  <2>3. NowKept
    <3>1. ASSUME NEW w \in Views PROVE StampKept(w) /\ CleanKept(w) /\ CountKept(w) /\ OpenKept(w)
      <4>1. Stamped(w)' = Stamped(w) /\ Clean(w)' = Clean(w)
        BY <2>1 DEF Stamped, Clean
      <4>2. OpenKept(w)
        <5>1. /\ firstOf \in [Views -> Seq(Nat)] /\ firstOf[v] \in Seq(Nat)
              /\ made[v] + 1 \in Nat
          <6>1. firstOf \in [Views -> Seq(Nat)] /\ made \in [Views -> Nat]
            BY DEF TypeOK
          <6>2. made[v] \in Nat
            BY <6>1
          <6>. QED  BY <6>1, <6>2
        <5>2. CASE w = v
          <6>1. Len(firstOf'[v]) = Len(firstOf[v]) + 1
            <7>1. firstOf'[v] = Append(firstOf[v], made[v] + 1)
              BY <2>1, <5>1
            <7>. QED  BY <5>1, <7>1, AppendProperties
          <6>. QED  BY <2>1, <5>2, <6>1 DEF OpenKept, File, Part
        <5>3. CASE w # v
          <6>1. firstOf'[w] = firstOf[w]
            BY <2>1, <5>1, <5>3
          <6>. QED  BY <2>1, <5>3, <6>1 DEF OpenKept, File, Part
        <5>. QED  BY <5>2, <5>3
      <4>. QED  BY <2>1, <2>2, <4>1, <4>2 DEF StampKept, CleanKept, CountKept
    <3>2. HeldKept /\ BothKept /\ IdleKept
      BY <2>1, <2>2 DEF HeldKept, BothKept, IdleKept
    <3>. QED  BY <3>1, <3>2 DEF NowKept
  <2>. QED  BY <1>0, <2>1, <2>2, <2>3, NoSteps, SimpleStep
<1>. QED  BY <1>1, <1>2

(* What was held back is queued at the end.                                *)
LEMMA HeldOutPlan ==
  TypeOK /\ PlanInv /\ result = "running" /\ HeldOut => PlanInv'
<1> SUFFICES ASSUME TypeOK, PlanInv, result = "running", HeldOut PROVE PlanInv'
  OBVIOUS
<1>0. todo # <<>> /\ Head(todo).op = "heldOut" /\ Head(todo) \in Steps
  BY HeadOfTodo DEF HeldOut, At
<1> DEFINE steps == PutAll("queue", held)
<1>1. /\ steps \in Seq(Steps) /\ Then(steps)
      /\ \A k \in 1..Len(steps) : steps[k] \in Puts /\ steps[k] \notin Ops("put", "main")
  <2>1. held \in Seq(Blocks)
    BY DEF TypeOK
  <2>2. /\ steps \in Seq(Steps)
        /\ \A k \in 1..Len(steps) : steps[k] \in Puts /\ steps[k] \in Ops("queue", held[k].view)
    BY <2>1, PutAllPuts
  <2>3. Then(steps)
    BY DEF HeldOut
  <2>. QED  BY <2>2, <2>3 DEF Ops
<1>2. Head(todo) \notin Closing /\ Head(todo).op \notin {"finish", "switch", "blockDone"}
  BY <1>0 DEF Closing
<1>3. NowKept
  <2>1. ASSUME NEW w \in Views PROVE StampKept(w) /\ CleanKept(w) /\ CountKept(w)
    <3>1. Stamped(w)' = Stamped(w) /\ Clean(w)' = Clean(w) /\ processed' = processed
      BY DEF HeldOut, Stamped, Clean
    <3>2. /\ Head(todo) \notin Ops("packet", w) /\ Head(todo) \notin Ops("rest", w)
          /\ Head(todo) \notin Ops("stamp", w) /\ Head(todo) \notin Ops("tail", w)
      BY <1>0 DEF Ops
    <3>. QED  BY <3>1, <3>2 DEF StampKept, CleanKept, CountKept
  <2>. QED  BY <1>2, <2>1, QuietNow DEF HeldOut
<1>4. given' = given /\ ending' = ending
  BY DEF HeldOut
<1>. QED  BY <1>0, <1>1, <1>2, <1>3, <1>4, SimpleStep

(* The mux thread has found the queue empty.                               *)
LEMMA WaitForWritingPlan ==
  TypeOK /\ PlanInv /\ result = "running" /\ WaitForWriting => PlanInv'
<1> SUFFICES ASSUME TypeOK, PlanInv, result = "running", WaitForWriting PROVE PlanInv'
  OBVIOUS
<1>0. todo # <<>> /\ Head(todo).op = "wait" /\ Head(todo) \in Steps
  BY HeadOfTodo DEF WaitForWriting, At
<1>1. Then(<<>>) /\ UNCHANGED <<viewVars, partVars, holdVars, endVars, queue, writeVars, diskVars>>
  BY DEF WaitForWriting
<1>2. NowKept
  <2>1. ASSUME NEW w \in Views PROVE StampKept(w) /\ CleanKept(w) /\ CountKept(w) /\ OpenKept(w)
    <3>1. Stamped(w)' = Stamped(w) /\ Clean(w)' = Clean(w) /\ File(w)' = File(w)
      BY <1>1 DEF Stamped, Clean, File, Part
    <3>2. /\ Head(todo) \notin Ops("packet", w) /\ Head(todo) \notin Ops("rest", w)
          /\ Head(todo) \notin Ops("stamp", w) /\ Head(todo) \notin Ops("tail", w)
      BY <1>0 DEF Ops
    <3>. QED  BY <1>1, <3>1, <3>2 DEF StampKept, CleanKept, CountKept, OpenKept
  <2>2. Head(todo) \notin DoneOf(Second) /\ Head(todo) \notin Ops("blockDone", Switcher)
    BY <1>0 DEF DoneOf, Ops
  <2>3. queue' = <<>>
    BY <1>1 DEF WaitForWriting, WriterIdle
  <2>. QED  BY <1>1, <2>1, <2>2, <2>3 DEF NowKept, HeldKept, BothKept, IdleKept
<1>3. Head(todo).op \notin {"finish", "switch"}
  BY <1>0
<1>. QED  BY <1>0, <1>1, <1>2, <1>3, NoSteps, SimpleStep

(* The end of a muxer: only its own file is closed.                        *)
LEMMA CloseMuxerPlan ==
  TypeOK /\ PlanInv /\ result = "running" /\ CloseMuxer => PlanInv'
<1> SUFFICES ASSUME TypeOK, PlanInv, result = "running", CloseMuxer PROVE PlanInv'
  OBVIOUS
<1>0. todo # <<>> /\ Head(todo).op = "close" /\ Head(todo) \in Steps /\ Head(todo).view \in Views
  BY HeadOfTodo DEF CloseMuxer, At
<1>v. PICK v \in Views : v = Head(todo).view
  BY <1>0
<1>1. CASE result' # "running"
  BY <1>1 DEF PlanInv
<1>2. CASE result' = "running"
  <2>1. /\ sent' = [sent EXCEPT ![v] = made[v]] \/ sent' = sent
        /\ Then(<<>>) /\ open' = open \ {File(v)}
        /\ UNCHANGED <<given, made, stamped, delayBlk, processed, unit, firstOf, holdVars,
                       ending, queue, writeVars>>
    BY <1>v, <1>2 DEF CloseMuxer, Throw
  <2>2. /\ Head(todo).op \notin {"finish", "switch", "blockDone"}
        /\ \A w : /\ Head(todo) \notin Ops("packet", w) /\ Head(todo) \notin Ops("rest", w)
                  /\ Head(todo) \notin Ops("stamp", w) /\ Head(todo) \notin Ops("tail", w)
                  /\ Head(todo) \notin DoneOf(w) /\ Head(todo) \notin Ops("blockDone", w)
                  /\ Head(todo) \notin Ops("wait", w)
                  /\ Head(todo) \in Ops("close", w) <=> w = v
    BY <1>0, <1>v DEF Ops, DoneOf
  <2>3. NowKept
    <3>1. ASSUME NEW w \in Views PROVE StampKept(w) /\ CleanKept(w) /\ CountKept(w) /\ OpenKept(w)
      <4>1. Stamped(w)' = Stamped(w) /\ File(w)' = File(w)
        BY <2>1 DEF Stamped, File, Part
      <4>2. Clean(w) => Clean(w)'
        BY <2>1 DEF Clean, TypeOK
      <4>3. OpenKept(w)
        BY <2>1, <2>2, <4>1 DEF OpenKept, File
      <4>. QED  BY <2>1, <2>2, <4>1, <4>2, <4>3 DEF StampKept, CleanKept, CountKept
    <3>2. HeldKept /\ BothKept /\ IdleKept
      BY <2>1, <2>2 DEF HeldKept, BothKept, IdleKept
    <3>. QED  BY <3>1, <3>2 DEF NowKept
  <2>. QED  BY <1>0, <2>1, <2>2, <2>3, NoSteps, SimpleStep
<1>. QED  BY <1>1, <1>2

-----------------------------------------------------------------------------
(* The steps that unfold into others *)

(* Which kinds a step of a view is of.                                     *)
LEMMA StepKinds ==
  ASSUME NEW v \in Views,
         NEW op \in {"packet", "stamp", "rest", "switch", "blockDone", "tail", "next",
                     "heldOut", "wait", "close", "verdict"}
  PROVE  /\ Step(op, v) \in Steps /\ Step(op, v) \in PlanSteps /\ Step(op, v) # End
         /\ \A w, o : Step(op, v) \in Ops(o, w) <=> o = op /\ w = v
         /\ Step(op, v) \in Switches <=> op = "switch"
         /\ \A w : /\ Step(op, v) \notin Finishes(w)
                   /\ Step(op, v) \in Makes(w) <=> (op = "switch" \/ (op = "packet" /\ w = v))
                   /\ Step(op, v) \in DoneOf(w) <=> (op = "blockDone" /\ w = v)
         /\ Step(op, v) \in MakesMain <=>
              (op = "switch" \/ (op \in {"packet", "stamp", "rest"} /\ v = "main"))
         /\ Step(op, v) \notin Puts
         /\ Step(op, v) \in Closing <=> op \in {"wait", "close", "verdict"}
         /\ Step(op, v) \in Closes <=> op = "close"
<1>1. Step(op, v) \in Steps /\ Step(op, v).op = op /\ Step(op, v).view = v
  BY DEF Step, Steps
<1>2. Step(op, v) # End
  <2>1. End.op = "end"
    BY DEF End
  <2>. QED  BY <1>1, <2>1
<1>. QED  BY <1>1, <1>2 DEF Ops, Switches, Finishes, Makes, DoneOf, MakesMain, Puts, Closing,
             Closes, PlanSteps

(* Which kinds the end of a unit or part is of.                            *)
LEMMA FinishKinds ==
  ASSUME NEW v \in Views, NEW c \in BOOLEAN, NEW r \in BOOLEAN
  PROVE  LET x == Finish(v, c, r) IN
         /\ x \in Steps /\ x \in PlanSteps /\ x # End
         /\ x.op = "finish" /\ x.view = v /\ x.change = c /\ x.recursive = r
         /\ \A w, o : o # "finish" => x \notin Ops(o, w)
         /\ x \notin Switches /\ x \notin Puts /\ x \notin Closing /\ x \notin Closes
         /\ \A w : /\ x \in Finishes(w) <=> (w = v \/ r)
                   /\ x \in Makes(w) <=> (w = v \/ r)
                   /\ x \in DoneOf(w) <=> w = v
         /\ x \in MakesMain <=> (v = "main" \/ r)
<1> DEFINE x == Finish(v, c, r)
<1>1. /\ x \in Steps /\ x.op = "finish" /\ x.view = v /\ x.change = c /\ x.recursive = r
  BY DEF Finish, Steps
<1>2. x # End
  <2>1. End.op = "end"
    BY DEF End
  <2>. QED  BY <1>1, <2>1
<1> HIDE DEF x
<1>3. /\ x \in Steps /\ x \in PlanSteps /\ x # End
      /\ x.op = "finish" /\ x.view = v /\ x.change = c /\ x.recursive = r
      /\ \A w, o : o # "finish" => x \notin Ops(o, w)
      /\ x \notin Switches /\ x \notin Puts /\ x \notin Closing /\ x \notin Closes
      /\ \A w : /\ x \in Finishes(w) <=> (w = v \/ r)
                /\ x \in Makes(w) <=> (w = v \/ r)
                /\ x \in DoneOf(w) <=> w = v
      /\ x \in MakesMain <=> (v = "main" \/ r)
  BY <1>1, <1>2 DEF Ops, Switches, Finishes, Makes, DoneOf, MakesMain, Puts, Closing,
     Closes, PlanSteps
<1>. QED  BY <1>3 DEF x

(* What putting x before t, if c, does to the order.                       *)
Behind(c, x, q, t, D, E, N) ==
  /\ Exposed(q, E, N) <=> ((c /\ x \in N) \/ (~(c /\ x \in E) /\ Exposed(t, E, N)))
  /\ Ordered(q, D, E, N) <=> (Ordered(t, D, E, N) /\ (c /\ x \in D => ~Exposed(t, E, N)))

(* A step that may be there, in front of a list: what the rule and what is *)
(* exposed become.                                                         *)
LEMMA OptRule ==
  ASSUME NEW c \in BOOLEAN, NEW x, c => x \in PlanSteps, NEW t \in Seq(PlanSteps),
         NEW D, NEW E, NEW N
  PROVE  /\ IfAny(c, <<x>>) \in Seq(PlanSteps)
         /\ IfAny(c, <<x>>) \o t \in Seq(PlanSteps)
         /\ Behind(c, x, IfAny(c, <<x>>) \o t, t, D, E, N)
<1>1. CASE c
  <2>1. x \in PlanSteps /\ <<x>> \in Seq(PlanSteps) /\ IfAny(c, <<x>>) = <<x>>
    BY <1>1 DEF IfAny
  <2>2. /\ <<x>> \o t \in Seq(PlanSteps)
        /\ Exposed(<<x>> \o t, E, N) <=> (x \in N \/ (x \notin E /\ Exposed(t, E, N)))
        /\ Ordered(<<x>> \o t, D, E, N) <=>
             (Ordered(t, D, E, N) /\ (x \in D => ~Exposed(t, E, N)))
    BY <2>1, ConsRule
  <2>. QED  BY <1>1, <2>1, <2>2 DEF Behind
<1>2. CASE ~c
  <2>1. IfAny(c, <<x>>) = <<>> /\ <<>> \in Seq(PlanSteps) /\ <<>> \o t = t
    BY <1>2, EmptySeq, ConcatEmptySeq DEF IfAny
  <2>. QED  BY <1>2, <2>1 DEF Behind
<1>. QED  BY <1>1, <1>2

(* At the end of a call only the end is left.                              *)
LEMMA EndRule ==
  ASSUME NEW D, NEW E, NEW N
  PROVE  /\ <<End>> \in Seq(PlanSteps)
         /\ Ordered(<<End>>, D, E, N) /\ (Exposed(<<End>>, E, N) <=> End \in N)
<1>1. End \in PlanSteps /\ <<End>> \in Seq(PlanSteps) /\ <<>> \in Seq(PlanSteps)
  BY EmptySeq DEF PlanSteps
<1>2. <<End>> \o <<>> = <<End>>
  BY <1>1, ConcatEmptySeq
<1>3. Len(<<>>) = 0 /\ 1..0 = {}
  OBVIOUS
<1>4. Ordered(<<>>, D, E, N) /\ ~Exposed(<<>>, E, N)
  BY <1>3 DEF Ordered, Exposed
<1>5. /\ Exposed(<<End>> \o <<>>, E, N) <=>
           (End \in N \/ (End \notin E /\ Exposed(<<>>, E, N)))
      /\ Ordered(<<End>> \o <<>>, D, E, N) <=>
           (Ordered(<<>>, D, E, N) /\ (End \in D => ~Exposed(<<>>, E, N)))
  BY <1>1, ConsRule
<1>. QED  BY <1>1, <1>2, <1>4, <1>5

(* Where a call has ended, the plan is its end.                            *)
LEMMA PlanOver ==
  ASSUME todo = <<>>
  PROVE  Plan = <<End>>
BY DEF Plan

(* Where a packet comes in, the tables may be due, or a unit or a part     *)
(* ends; a view has packets to end it with when both have begun.           *)
LEMMA SwitchBlockPlan ==
  ~LateSub /\ TypeOK /\ PlanInv /\ result = "running" /\ SwitchBlock => PlanInv'
<1> SUFFICES ASSUME ~LateSub, TypeOK, PlanInv, result = "running", SwitchBlock PROVE PlanInv'
  OBVIOUS
<1> USE DEF Rule
<1>0. todo # <<>> /\ Head(todo).op = "switch" /\ Head(todo) \in Steps /\ Head(todo).view \in Views
  BY HeadOfTodo DEF SwitchBlock, At
<1>v. PICK v \in Views : v = Head(todo).view
  BY <1>0
<1>1. PICK steps \in Seq(Steps) :
        /\ Then(steps)
        /\ \/ \A k \in 1..Len(steps) : steps[k] \in {Step("packet", v), Step("stamp", v)}
           \/ \E c \in BOOLEAN : steps = <<Finish(v, c, TRUE)>> /\ v = Switcher /\ Begun
  <2>1. ASSUME NEW c \in BOOLEAN PROVE <<Finish(v, c, TRUE)>> \in Seq(Steps)
    <3> DEFINE x == Finish(v, c, TRUE)
    <3>1. x \in Steps
      BY FinishKinds
    <3> HIDE DEF x
    <3>2. <<x>> \in Seq(Steps)
      BY <3>1
    <3>. QED  BY <3>2 DEF x
  <2>2. /\ Tables(v) \in Seq(Steps)
        /\ \A k \in 1..Len(Tables(v)) : Tables(v)[k] \in {Step("packet", v), Step("stamp", v)}
    <3> DEFINE S == {Step("packet", v), Step("stamp", v)}
    <3>1. <<Step("packet", v)>> \in Seq(S) /\ <<Step("stamp", v)>> \in Seq(S) /\ <<>> \in Seq(S)
      OBVIOUS
    <3>2. Tables(v) \in Seq(S)
      BY <3>1, ConcatProperties DEF Tables, IfAny
    <3>. QED  BY <3>2, TablesType, ElementOfSeq
  <2>3. \/ v = Switcher /\ Begun /\ \E c \in BOOLEAN : Then(<<Finish(v, c, TRUE)>>)
        \/ Then(Tables(v)) \/ Then(<<>>)
    BY <1>v DEF SwitchBlock, SplitPoint, UnitIsFull
  <2>. QED  BY <2>1, <2>2, <2>3, NoSteps
<1>2. /\ \A w : /\ Head(todo) \in Makes(w) /\ Head(todo) \in Uses(w)
                /\ Head(todo) \notin Ops("blockDone", w) /\ Head(todo) \notin Ops("packet", w)
                /\ Head(todo) \notin Finishes(w)
      /\ Head(todo) \in Switches /\ Head(todo) \in MakesMain
      /\ Head(todo) \in Steps \ Puts /\ Head(todo) \in Steps \ Closing
  BY <1>0 DEF Makes, Uses, Ops, Finishes, Switches, MakesMain, Puts, Closing
<1>3. ASSUME NEW k \in 1..Len(steps)
      PROVE  /\ \A w : /\ steps[k] \notin Ops("rest", w) /\ steps[k] \notin Ops("next", w)
                       /\ steps[k] \notin Ops("blockDone", w) /\ steps[k] \notin Ops("close", w)
             /\ steps[k] \notin Switches /\ steps[k] \notin Puts /\ steps[k] \notin Closes
             /\ steps[k] # End /\ FinishView(steps[k])
             /\ HasSub => steps[k] \notin DoneOf(Second)
  <2>1. CASE steps[k] \in {Step("packet", v), Step("stamp", v)}
    <3>1. steps[k].op # "finish"
      BY <2>1 DEF Step
    <3>. QED  BY <2>1, <3>1, StepKinds DEF FinishView
  <2>2. CASE \E c \in BOOLEAN : steps = <<Finish(v, c, TRUE)>> /\ v = Switcher
    <3>1. PICK c \in BOOLEAN : steps = <<Finish(v, c, TRUE)>>
      BY <2>2
    <3> DEFINE x == Finish(v, c, TRUE)
    <3>a. PICK r \in BOOLEAN : r
      OBVIOUS
    <3>b. x = Finish(v, c, r) /\ x.recursive
      BY <3>a DEF Finish
    <3> HIDE DEF x
    <3>2. /\ x.op = "finish" /\ x.view = v /\ x.recursive
          /\ \A w, o : o # "finish" => x \notin Ops(o, w)
          /\ x \notin Switches /\ x \notin Puts /\ x \notin Closes /\ x # End
          /\ \A w : x \in DoneOf(w) <=> w = v
      BY <3>b, FinishKinds
    <3>3. steps[k] = x
      <4>1. Len(<<x>>) = 1 /\ <<x>>[1] = x /\ \A j \in 1..1 : j = 1
        OBVIOUS
      <4>. QED  BY <3>1, <4>1 DEF x
    <3>4. HasSub => Second # v
      BY <2>2, TwoViews
    <3>5. FinishView(x)
      BY <2>2, <3>2 DEF FinishView
    <3>. QED  BY <3>2, <3>3, <3>4, <3>5
  <2>. QED  BY <1>1, <2>1, <2>2
<1>4. UNCHANGED <<viewVars, partVars, holdVars, endVars, queue>>
  BY DEF SwitchBlock
<1>5. ASSUME NEW w \in Views PROVE StampRule(w)'
  <2>1. CASE M2ts
    <3>1. Ordered(Plan, Makes(w), Ops("stamp", w), Ops("rest", w))
      BY <2>1 DEF PlanInv, StampRule
    <3>2. /\ Ordered(Plan', Makes(w), Ops("stamp", w), Ops("rest", w))
          /\ ~Exposed(Plan', Ops("stamp", w), Ops("rest", w))
      BY <1>0, <1>1, <1>2, <1>3, <3>1, KeepRule
    <3>. QED  BY <3>2 DEF StampRule
  <2>. QED  BY <2>1 DEF StampRule
<1>6. ASSUME NEW w \in Views PROVE CleanRule(w)'
  <2> DEFINE E == Ops(IF M2ts THEN "rest" ELSE "tail", w)
  <2>1. Ordered(Plan, Makes(w), E, Ops("next", w))
    BY DEF PlanInv, CleanRule
  <2>2. Ordered(Plan', Makes(w), E, Ops("next", w)) /\ ~Exposed(Plan', E, Ops("next", w))
    BY <1>0, <1>1, <1>2, <1>3, <2>1, KeepRule
  <2>. QED  BY <2>2 DEF CleanRule
<1>7. ASSUME NEW w \in Views
      PROVE  /\ ServedRule(w)' /\ (given[w] > 0 => processed[w] > 0)
  <2> DEFINE E == Ops("packet", w) \cup Finishes(w)
             N == Switches \cup {End}
  <2>1. Ordered(Plan, Ops("blockDone", w), E, N)
        /\ (Exposed(Plan, E, N) => (given[w] > 0 => processed[w] > 0))
    BY DEF PlanInv, ServedRule
  <2>2. /\ Ordered(Plan', Ops("blockDone", w), E, N)
        /\ Exposed(Plan, E, N)
    BY <1>0, <1>1, <1>2, <1>3, <2>1, KeepRule
  <2>. QED  BY <1>4, <2>1, <2>2 DEF ServedRule
<1>8. ASSUME NEW w \in Views PROVE FinishRule(w)'
  <2> DEFINE D == Ops("blockDone", w) \cup Finishes(w) \cup Switches
             E == Ops("packet", w)
             N == Finishes(w)
  <2>1. Ordered(Plan, D, E, N)
    BY DEF PlanInv, FinishRule
  <2>2. CASE \A k \in 1..Len(steps) : steps[k] \in {Step("packet", v), Step("stamp", v)}
    <3>1. \A k \in 1..Len(steps) : steps[k] \notin N
      BY <2>2, StepKinds
    <3>2. Ordered(Plan', D, E, N) /\ ~Exposed(Plan', E, N)
      BY <1>0, <1>1, <1>2, <2>1, <3>1, KeepRule
    <3>. QED  BY <3>2 DEF FinishRule
  <2>3. CASE \E c \in BOOLEAN : steps = <<Finish(v, c, TRUE)>> /\ Begun
    <3>1. PICK c \in BOOLEAN : steps = <<Finish(v, c, TRUE)>>
      BY <2>3
    <3> DEFINE x == Finish(v, c, TRUE)
    <3>2. x \in PlanSteps /\ x \in N
      BY FinishKinds
    <3> HIDE DEF x
    <3>3. /\ Rest \in Seq(PlanSteps) /\ Head(todo) \in PlanSteps
          /\ Plan = <<Head(todo)>> \o Rest /\ Plan' = <<x>> \o Rest
      BY <1>0, <1>1, <3>1, PlanIsHeadAndRest, PlanThen DEF x
    <3>4. Ordered(Rest, D, E, N) /\ ~Exposed(Rest, E, N)
      BY <1>2, <2>1, <3>3, ConsRule
    <3>5. Ordered(Plan', D, E, N)
      BY <3>2, <3>3, <3>4, ConsRule
    <3>6. processed[w] > 0
      BY <1>7, <2>3 DEF Begun
    <3>. QED  BY <1>4, <3>5, <3>6 DEF FinishRule
  <2>. QED  BY <1>1, <2>2, <2>3
<1>9. ASSUME NEW w \in Views PROVE OpenRule(w)'
  <2>1. Ordered(Plan, Ops("close", w), {}, Uses(w)) /\ (Exposed(Plan, {}, Uses(w)) => File(w) \in open)
    BY DEF PlanInv, OpenRule
  <2>2. Ordered(Plan', Ops("close", w), {}, Uses(w)) /\ Exposed(Plan, {}, Uses(w))
    BY <1>0, <1>1, <1>2, <1>3, <2>1, KeepRule
  <2>3. Uses(w)' = Uses(w) /\ (File(w) \in open)' = (File(w) \in open)
    BY <1>4 DEF Uses, File, Part
  <2>. QED  BY <2>1, <2>2, <2>3 DEF OpenRule
<1>10. HeldRule'
  <2>1. CASE Interleave
    <3>1. Ordered(Plan, MakesMain, DoneOf(Second), Ops("next", "main"))
      BY <2>1 DEF PlanInv, HeldRule
    <3>2. /\ Ordered(Plan', MakesMain, DoneOf(Second), Ops("next", "main"))
          /\ ~Exposed(Plan', DoneOf(Second), Ops("next", "main"))
      BY <1>0, <1>1, <1>2, <1>3, <3>1, KeepRule
    <3>. QED  BY <3>2 DEF HeldRule
  <2>. QED  BY <2>1 DEF HeldRule
<1>11. BothRule'
  <2>1. CASE HasSub
    <3> DEFINE D == DoneOf(Second) \cup Finishes(Switcher) \cup Switches
               E == Ops("blockDone", Switcher)
               N == DoneOf(Second)
    <3>1. Ordered(Plan, D, E, N)
      BY <2>1 DEF PlanInv, BothRule
    <3>2. Head(todo) \in D /\ \A k \in 1..Len(steps) : steps[k] \notin N
      BY <1>2, <1>3, <2>1
    <3>3. Ordered(Plan', D, E, N) /\ ~Exposed(Plan', E, N)
      BY <1>0, <1>1, <3>1, <3>2, KeepRule
    <3>. QED  BY <3>3 DEF BothRule
  <2>. QED  BY <2>1 DEF BothRule
<1>12. PutsFirst'
  <2>1. Ordered(Plan, Steps \ Puts, {}, Puts)
    BY DEF PlanInv, PutsFirst
  <2>2. Ordered(Plan', Steps \ Puts, {}, Puts)
    BY <1>0, <1>1, <1>2, <1>3, <2>1, KeepRule
  <2>. QED  BY <2>2 DEF PutsFirst
<1>13. IdleRule'
  <2>1. Ordered(Plan, Steps \ Closing, Ops("wait", "main"), Closes)
    BY DEF PlanInv, IdleRule
  <2>2. /\ Ordered(Plan', Steps \ Closing, Ops("wait", "main"), Closes)
        /\ ~Exposed(Plan', Ops("wait", "main"), Closes)
    BY <1>0, <1>1, <1>2, <1>3, <2>1, KeepRule
  <2>. QED  BY <2>2 DEF IdleRule
<1>14. FinishViews'
  BY <1>0, <1>1, <1>3, FinishViewsKept DEF PlanInv
<1>. QED  BY <1>5, <1>6, <1>7, <1>8, <1>9, <1>10, <1>11, <1>12, <1>13, <1>14 DEF PlanInv

-----------------------------------------------------------------------------
(* The end of a unit or part *)

(* Lists, one after the other: how they are put together does not matter.  *)
Joined(p, q) == p \o q

(* A list put in front of a list, under a name the solver leaves alone.    *)
LEMMA JoinedType ==
  ASSUME NEW S, NEW p \in Seq(S), NEW q \in Seq(S)
  PROVE  Joined(p, q) \in Seq(S)
BY ConcatProperties DEF Joined

(* How three lists are put together does not matter.                       *)
LEMMA JoinedAssociative ==
  ASSUME NEW S, NEW p \in Seq(S), NEW q \in Seq(S), NEW r \in Seq(S)
  PROVE  Joined(Joined(p, q), r) = Joined(p, Joined(q, r))
BY ConcatAssociative DEF Joined

(* Nor how four lists in front of one are.                                 *)
LEMMA FourLists ==
  ASSUME NEW S, NEW p \in Seq(S), NEW q \in Seq(S), NEW r \in Seq(S), NEW s \in Seq(S)
  PROVE  Joined(Joined(Joined(p, q), r), s) = Joined(p, Joined(q, Joined(r, s)))
<1>1. Joined(p, q) \in Seq(S) /\ Joined(r, s) \in Seq(S)
  BY JoinedType
<1>2. Joined(Joined(Joined(p, q), r), s) = Joined(Joined(p, q), Joined(r, s))
  BY <1>1, JoinedAssociative
<1>3. Joined(Joined(p, q), Joined(r, s)) = Joined(p, Joined(q, Joined(r, s)))
  BY <1>1, JoinedAssociative
<1>. QED  BY <1>2, <1>3

(* What finishFileBlock puts before the rest of the plan, step by step.    *)
\* (b: the other view goes first; x: the end of its unit or part)
FinishOrder(q, v, c, r, b, x, D, E, N) ==
  /\ Behind(HasSub /\ r /\ ~b, x, q[1], Rest, D, E, N)
  /\ Behind(M2ts, Step("stamp", v), q[2], q[1], D, E, N)
  /\ Behind(TRUE, Step("packet", v), q[3], q[2], D, E, N)
  /\ Behind(c, Step("next", v), q[4], q[3], D, E, N)
  /\ Behind(b, x, q[5], q[4], D, E, N)
  /\ Behind(~M2ts, Step("tail", v), q[6], q[5], D, E, N)
  /\ Behind(TRUE, Step("blockDone", v), q[7], q[6], D, E, N)
  /\ Behind(TRUE, Step("rest", v), q[8], q[7], D, E, N)
  /\ Behind(M2ts, Step("stamp", v), Plan', q[8], D, E, N)

(* The steps of finishFileBlock, each in front of those after it.          *)
LEMMA FinishChain ==
  ASSUME TypeOK, FinishFileBlock, NEW v \in Views, NEW c \in BOOLEAN, NEW r \in BOOLEAN,
         v = Head(todo).view, c = Head(todo).change, r = Head(todo).recursive,
         NEW before \in BOOLEAN, before <=> OtherFirst(v, c, r),
         processed[v] > 0, NEW D, NEW E, NEW N
  PROVE  \E q : FinishOrder(q, v, c, r, before, Finish(Other(v), c, FALSE), D, E, N)
<1>0. todo # <<>>
  BY DEF FinishFileBlock, At
<1> DEFINE other == Finish(Other(v), c, FALSE)
           last == IfAny(HasSub /\ r /\ ~before, <<other>>)
           stamp == IfAny(M2ts, <<Step("stamp", v)>>)
           packet == IfAny(TRUE, <<Step("packet", v)>>)
           next == IfAny(c, <<Step("next", v)>>)
           first == IfAny(before, <<other>>)
           tail == IfAny(~M2ts, <<Step("tail", v)>>)
           done == IfAny(TRUE, <<Step("blockDone", v)>>)
           rest == IfAny(TRUE, <<Step("rest", v)>>)
           q1 == Joined(last, Rest)
           q2 == Joined(stamp, q1)
           q3 == Joined(packet, q2)
           q4 == Joined(next, q3)
           q5 == Joined(first, q4)
           q6 == Joined(tail, q5)
           q7 == Joined(done, q6)
           q8 == Joined(rest, q7)
           q9 == Joined(stamp, q8)
<1>1. HasSub \in BOOLEAN /\ M2ts \in BOOLEAN 
  BY MuxWriterAssumption
<1>2. /\ HasSub => other \in Steps
      /\ \A op \in {"stamp", "packet", "next", "tail", "blockDone", "rest"} :
           Step(op, v) \in Steps /\ Step(op, v) \in PlanSteps
  <2>1. HasSub => Other(v) \in Views
    BY ViewsFact
  <2>2. HasSub => other \in Steps
    BY <2>1, FinishKinds
  <2>. QED  BY <2>2, StepKinds
<1>3. HasSub => other \in PlanSteps
  BY <1>2 DEF PlanSteps
<1>4. /\ last \in Seq(Steps) /\ stamp \in Seq(Steps) /\ packet \in Seq(Steps)
      /\ next \in Seq(Steps) /\ first \in Seq(Steps) /\ tail \in Seq(Steps)
      /\ done \in Seq(Steps) /\ rest \in Seq(Steps)
  <2>1. ASSUME NEW b \in BOOLEAN, NEW x, b => x \in Steps PROVE IfAny(b, <<x>>) \in Seq(Steps)
    <3>1. CASE b
      BY <2>1, <3>1 DEF IfAny
    <3>2. CASE ~b
      BY <3>2, EmptySeq DEF IfAny
    <3>. QED  BY <3>1, <3>2
  <2>2. before => HasSub
    BY DEF OtherFirst
  <2>. QED  BY <1>1, <1>2, <2>1, <2>2
<1> DEFINE flush == Joined(Joined(Joined(stamp, rest), done), tail)
           upTo == Joined(Joined(flush, first), next)
           tables == Joined(packet, stamp)
           steps == Joined(Joined(upTo, tables), last)
<1>5. Then(steps)
  <2>1. /\ Flush(v) = stamp \o rest /\ Tables(v) = packet \o stamp
        /\ done = <<Step("blockDone", v)>>
    BY DEF Flush, Tables, IfAny
  <2>3. Then(IfAny(processed[v] > 0, Flush(v) \o <<Step("blockDone", v)>> \o tail)
             \o first \o next \o Tables(v) \o last)
    <3>1. IfAny(before, <<other>>) = IfAny(OtherFirst(v, c, r), <<other>>)
      BY DEF IfAny
    <3>2. IfAny(HasSub /\ r /\ ~before, <<other>>)
            = IfAny(HasSub /\ r /\ ~OtherFirst(v, c, r), <<other>>)
      BY DEF IfAny
    <3>. QED  BY <3>1, <3>2 DEF FinishFileBlock
  <2>4. IfAny(processed[v] > 0, Flush(v) \o <<Step("blockDone", v)>> \o tail)
          = Flush(v) \o <<Step("blockDone", v)>> \o tail
    BY DEF IfAny
  <2>. QED  BY <2>1, <2>3, <2>4, Zenon DEF Joined
<1>6. steps \in Seq(Steps) /\ Plan' = q9
  <2> HIDE DEF last, stamp, packet, next, first, tail, done, rest
  <2>1. Rest \in Seq(PlanSteps)
    BY <1>0, PlanIsHeadAndRest
  <2>2. Seq(Steps) \subseteq Seq(PlanSteps)
    BY DEF PlanSteps
  <2>3. /\ last \in Seq(PlanSteps) /\ stamp \in Seq(PlanSteps) /\ packet \in Seq(PlanSteps)
        /\ next \in Seq(PlanSteps) /\ first \in Seq(PlanSteps) /\ tail \in Seq(PlanSteps)
        /\ done \in Seq(PlanSteps) /\ rest \in Seq(PlanSteps)
    BY <1>4, <2>2
  <2>4. Joined(stamp, rest) \in Seq(Steps) /\ Joined(stamp, rest) \in Seq(PlanSteps)
    BY <1>4, <2>3, JoinedType
  <2>5. flush \in Seq(Steps) /\ flush \in Seq(PlanSteps)
    BY <1>4, <2>3, <2>4, JoinedType
  <2>6. tables \in Seq(Steps) /\ tables \in Seq(PlanSteps)
    BY <1>4, <2>3, JoinedType
  <2> HIDE DEF flush, tables
  <2>7. upTo \in Seq(Steps) /\ upTo \in Seq(PlanSteps)
    BY <1>4, <2>3, <2>5, JoinedType
  <2> HIDE DEF upTo
  <2>8. Joined(upTo, tables) \in Seq(Steps) /\ steps \in Seq(Steps)
    BY <1>4, <2>6, <2>7, JoinedType
  <2>9. Plan' = Joined(steps, Rest)
    <3> HIDE DEF steps
    <3>. QED  BY <1>0, <1>5, <2>8, PlanThen DEF Joined
  <2>10. q1 \in Seq(PlanSteps)
    BY <2>1, <2>3, JoinedType
  <2>11. q2 \in Seq(PlanSteps) /\ q3 \in Seq(PlanSteps)
    <3> HIDE DEF q1
    <3>. QED  BY <2>3, <2>10, JoinedType
  <2>12. q4 \in Seq(PlanSteps) /\ q5 \in Seq(PlanSteps)
    <3> HIDE DEF q3
    <3>. QED  BY <2>3, <2>11, JoinedType
  <2>13. q6 \in Seq(PlanSteps) /\ q7 \in Seq(PlanSteps)
    <3> HIDE DEF q5
    <3>. QED  BY <2>3, <2>12, JoinedType
  <2>14. Joined(steps, Rest) = Joined(upTo, Joined(tables, q1))
    BY <2>1, <2>3, <2>6, <2>7, FourLists
  <2>15. Joined(tables, q1) = q3
    <3> HIDE DEF q1
    <3>. QED  BY <2>3, <2>10, JoinedAssociative DEF tables
  <2>16. Joined(upTo, q3) = Joined(flush, q5)
    <3> HIDE DEF q3
    <3>. QED  BY <2>3, <2>5, <2>11, FourLists DEF upTo
  <2>17. Joined(flush, q5) = Joined(Joined(stamp, rest), q7)
    <3> HIDE DEF q5
    <3>. QED  BY <2>3, <2>4, <2>12, FourLists DEF flush
  <2>18. Joined(Joined(stamp, rest), q7) = q9
    <3> HIDE DEF q7
    <3>. QED  BY <2>3, <2>13, JoinedAssociative
  <2> HIDE DEF steps, q1, q3, q5, q7, q9
  <2>. QED  BY <2>8, <2>9, <2>14, <2>15, <2>16, <2>17, <2>18
<1>7. /\ Behind(HasSub /\ r /\ ~before, other, q1, Rest, D, E, N) /\ q1 \in Seq(PlanSteps)
      /\ Behind(M2ts, Step("stamp", v), q2, q1, D, E, N) /\ q2 \in Seq(PlanSteps)
      /\ Behind(TRUE, Step("packet", v), q3, q2, D, E, N) /\ q3 \in Seq(PlanSteps)
      /\ Behind(c, Step("next", v), q4, q3, D, E, N) /\ q4 \in Seq(PlanSteps)
      /\ Behind(before, other, q5, q4, D, E, N) /\ q5 \in Seq(PlanSteps)
      /\ Behind(~M2ts, Step("tail", v), q6, q5, D, E, N) /\ q6 \in Seq(PlanSteps)
      /\ Behind(TRUE, Step("blockDone", v), q7, q6, D, E, N) /\ q7 \in Seq(PlanSteps)
      /\ Behind(TRUE, Step("rest", v), q8, q7, D, E, N) /\ q8 \in Seq(PlanSteps)
      /\ Behind(M2ts, Step("stamp", v), q9, q8, D, E, N)
  <2> HIDE DEF other, q1, q2, q3, q4, q5, q6, q7, q8, q9
  <2>0. Rest \in Seq(PlanSteps) /\ (before => HasSub)
    BY <1>0, PlanIsHeadAndRest DEF OtherFirst
  <2>a. (HasSub /\ r /\ ~before) \in BOOLEAN /\ (~M2ts) \in BOOLEAN /\ TRUE \in BOOLEAN
    OBVIOUS
  <2>1. Behind(HasSub /\ r /\ ~before, other, q1, Rest, D, E, N) /\ q1 \in Seq(PlanSteps)
    BY <1>3, <2>0, <2>a, OptRule DEF q1, Joined
  <2>2. Behind(M2ts, Step("stamp", v), q2, q1, D, E, N) /\ q2 \in Seq(PlanSteps)
    BY <1>1, <1>2, <2>1, OptRule DEF q2, Joined
  <2>3. Behind(TRUE, Step("packet", v), q3, q2, D, E, N) /\ q3 \in Seq(PlanSteps)
    BY <1>2, <2>2, <2>a, OptRule DEF q3, Joined
  <2>4. Behind(c, Step("next", v), q4, q3, D, E, N) /\ q4 \in Seq(PlanSteps)
    BY <1>2, <2>3, OptRule DEF q4, Joined
  <2>5. Behind(before, other, q5, q4, D, E, N) /\ q5 \in Seq(PlanSteps)
    BY <1>1, <1>3, <2>0, <2>4, OptRule DEF q5, Joined
  <2>6. Behind(~M2ts, Step("tail", v), q6, q5, D, E, N) /\ q6 \in Seq(PlanSteps)
    BY <1>2, <2>5, <2>a, OptRule DEF q6, Joined
  <2>7. Behind(TRUE, Step("blockDone", v), q7, q6, D, E, N) /\ q7 \in Seq(PlanSteps)
    BY <1>2, <2>6, <2>a, OptRule DEF q7, Joined
  <2>8. Behind(TRUE, Step("rest", v), q8, q7, D, E, N) /\ q8 \in Seq(PlanSteps)
    BY <1>2, <2>7, <2>a, OptRule DEF q8, Joined
  <2>9. Behind(M2ts, Step("stamp", v), q9, q8, D, E, N)
    BY <1>1, <1>2, <2>8, OptRule DEF q9, Joined
  <2>. QED  BY <2>1, <2>2, <2>3, <2>4, <2>5, <2>6, <2>7, <2>8, <2>9
<1>8. Behind(M2ts, Step("stamp", v), Plan', q8, D, E, N)
  BY <1>6, <1>7
<1> HIDE DEF q1, q2, q3, q4, q5, q6, q7, q8, q9
<1> DEFINE q == <<q1, q2, q3, q4, q5, q6, q7, q8>>
<1>9. /\ q[1] = q1 /\ q[2] = q2 /\ q[3] = q3 /\ q[4] = q4 /\ q[5] = q5 /\ q[6] = q6
      /\ q[7] = q7 /\ q[8] = q8
  OBVIOUS
<1> HIDE DEF q
<1>10. FinishOrder(q, v, c, r, before, other, D, E, N)
  BY <1>7, <1>8, <1>9 DEF FinishOrder
<1>. QED  BY <1>10

(* What the order of the plan says of the next step and of the rest.       *)
LEMMA HeadRule ==
  ASSUME TypeOK, todo # <<>>, NEW D, NEW E, NEW N
  PROVE  /\ Exposed(Plan, E, N) <=>
              (Head(todo) \in N \/ (Head(todo) \notin E /\ Exposed(Rest, E, N)))
         /\ Ordered(Plan, D, E, N) <=>
              (Ordered(Rest, D, E, N) /\ (Head(todo) \in D => ~Exposed(Rest, E, N)))
<1>1. /\ Head(todo) \in PlanSteps /\ Rest \in Seq(PlanSteps)
      /\ Plan = <<Head(todo)>> \o Rest
  BY PlanIsHeadAndRest
<1>2. /\ Exposed(<<Head(todo)>> \o Rest, E, N) <=>
           (Head(todo) \in N \/ (Head(todo) \notin E /\ Exposed(Rest, E, N)))
      /\ Ordered(<<Head(todo)>> \o Rest, D, E, N) <=>
           (Ordered(Rest, D, E, N) /\ (Head(todo) \in D => ~Exposed(Rest, E, N)))
  BY <1>1, ConsRule
<1>. QED  BY <1>1, <1>2

(* The kinds of the end of the other view's unit or part.                  *)
LEMMA OtherKinds ==
  ASSUME NEW v \in Views, NEW c \in BOOLEAN, HasSub
  PROVE  LET x == Finish(Other(v), c, FALSE) IN
         /\ \A w, o : o # "finish" => x \notin Ops(o, w)
         /\ x # End /\ x \notin Switches /\ x \notin Puts /\ x \notin Closes
         /\ \A w : /\ x \in Finishes(w) <=> w = Other(v)
                   /\ x \in Makes(w) <=> w = Other(v)
                   /\ x \in DoneOf(w) <=> w = Other(v)
         /\ x \in MakesMain <=> Other(v) = "main"
<1> DEFINE x == Finish(Other(v), c, FALSE)
<1>1. PICK r \in BOOLEAN : ~r
  OBVIOUS
<1>2. PICK u \in Views : u = Other(v)
  BY ViewsFact
<1>3. x = Finish(u, c, r)
  BY <1>1, <1>2 DEF Finish
<1> HIDE DEF x
<1>4. /\ \A w, o : o # "finish" => x \notin Ops(o, w)
      /\ x # End /\ x \notin Switches /\ x \notin Puts /\ x \notin Closes
      /\ \A w : /\ x \in Finishes(w) <=> w = u
                /\ x \in Makes(w) <=> w = u
                /\ x \in DoneOf(w) <=> w = u
      /\ x \in MakesMain <=> u = "main"
  BY <1>1, <1>3, FinishKinds
<1>. QED  BY <1>2, <1>4 DEF x

EndOps == {"heldOut", "wait", "close", "verdict"}
\* A step that is taken while there are sources
Early(s) == s.op \notin EndOps /\ (M2ts => s.op # "tail")

(* The ends of units and parts that follow are those of the other view.    *)
LEMMA FinishSequel ==
  ASSUME TypeOK, PlanInv, result = "running", FinishFileBlock
  PROVE  \E steps \in Seq(Steps) :
           /\ Then(steps)
           /\ \A k \in 1..Len(steps) :
                FinishView(steps[k]) /\ steps[k] \notin Puts /\ Early(steps[k])
<1> DEFINE S == {s \in Steps : FinishView(s) /\ s \notin Puts /\ Early(s)}
           f == Head(todo)
           v == f.view
           before == OtherFirst(v, f.change, f.recursive)
           other == <<Finish(Other(v), f.change, FALSE)>>
<1>1. /\ todo # <<>> /\ f \in Steps /\ v \in Views /\ f.op = "finish"
      /\ f.change \in BOOLEAN /\ f.recursive \in BOOLEAN
  BY HeadOfTodo, StepCarries DEF FinishFileBlock, At
<1>2. f.recursive => v = Switcher
  BY <1>1, HeadIsFirst DEF PlanInv, FinishViews
<1>3. ASSUME NEW op \in {"stamp", "packet", "next", "tail", "blockDone", "rest"},
             M2ts => op # "tail"
      PROVE  <<Step(op, v)>> \in Seq(S)
  <2>1. Step(op, v) \in Steps
    BY <1>1, StepKinds
  <2>2. Early(Step(op, v))
    BY <1>3 DEF Early, EndOps, Step
  <2>3. Step(op, v) \in S
    BY <1>1, <2>1, <2>2, StepKinds DEF FinishView, Step
  <2>. QED  BY <2>3
<1>4. HasSub /\ f.recursive => other \in Seq(S)
  <2> SUFFICES ASSUME HasSub, f.recursive PROVE other \in Seq(S)
    OBVIOUS
  <2>1. Other(v) \in Views /\ Other(v) = Second
    BY <1>1, <1>2, ViewsFact DEF Second
  <2>2. Finish(Other(v), f.change, FALSE) \in Steps /\ Finish(Other(v), f.change, FALSE) \notin Puts
    BY <1>1, <2>1, FinishKinds
  <2>3. FinishView(Finish(Other(v), f.change, FALSE)) /\ Early(Finish(Other(v), f.change, FALSE))
    BY <2>1 DEF FinishView, Finish, Early, EndOps
  <2>4. PICK x \in S : x = Finish(Other(v), f.change, FALSE)
    BY <2>2, <2>3
  <2>5. <<x>> \in Seq(S)
    OBVIOUS
  <2>. QED  BY <2>4, <2>5, Zenon
<1>5. <<>> \in Seq(S)
  BY EmptySeq
<1>6. Then(IfAny(processed[v] > 0, Flush(v) \o <<Step("blockDone", v)>>
                                     \o IfAny(~M2ts, <<Step("tail", v)>>))
             \o IfAny(before, other)
             \o IfAny(f.change, <<Step("next", v)>>)
             \o Tables(v)
             \o IfAny(HasSub /\ f.recursive /\ ~before, other))
  BY DEF FinishFileBlock
<1> DEFINE first == IfAny(processed[v] > 0, Flush(v) \o <<Step("blockDone", v)>>
                                              \o IfAny(~M2ts, <<Step("tail", v)>>))
           second == IfAny(before, other)
           third == IfAny(f.change, <<Step("next", v)>>)
           last == IfAny(HasSub /\ f.recursive /\ ~before, other)
<1>7. Tables(v) \in Seq(S) /\ Flush(v) \in Seq(S)
  BY <1>3, <1>5, ConcatProperties DEF Tables, Flush, IfAny
<1>8. first \in Seq(S)
  <2>1. IfAny(~M2ts, <<Step("tail", v)>>) \in Seq(S)
    BY <1>3, <1>5 DEF IfAny
  <2>2. Flush(v) \o <<Step("blockDone", v)>> \in Seq(S)
    BY <1>3, <1>7, ConcatProperties
  <2>3. Flush(v) \o <<Step("blockDone", v)>> \o IfAny(~M2ts, <<Step("tail", v)>>) \in Seq(S)
    BY <2>1, <2>2, ConcatProperties
  <2>. QED  BY <1>5, <2>3 DEF IfAny
<1>9. second \in Seq(S) /\ third \in Seq(S) /\ last \in Seq(S)
  BY <1>3, <1>4, <1>5 DEF IfAny, OtherFirst
<1> DEFINE steps == first \o second \o third \o Tables(v) \o last
<1>10. steps \in Seq(S)
  <2> HIDE DEF first, second, third, last, S
  <2>1. first \o second \in Seq(S)
    BY <1>8, <1>9, ConcatProperties
  <2>2. first \o second \o third \in Seq(S)
    BY <1>9, <2>1, ConcatProperties
  <2>3. first \o second \o third \o Tables(v) \in Seq(S)
    BY <1>7, <2>2, ConcatProperties
  <2>. QED  BY <1>9, <2>3, ConcatProperties
<1>11. steps \in Seq(Steps) /\ \A k \in 1..Len(steps) : steps[k] \in S
  <2> HIDE DEF steps
  <2>1. \A k \in 1..Len(steps) : steps[k] \in S
    BY <1>10, ElementOfSeq
  <2>2. Seq(S) \subseteq Seq(Steps)
    OBVIOUS
  <2>. QED  BY <1>10, <2>1, <2>2
<1>. QED  BY <1>6, <1>11

(* A unit or part of a view ends, and with it that of the other view: both *)
(* have packets, so both are flushed before anything new is made.          *)
LEMMA FinishFileBlockPlan ==
  TypeOK /\ PlanInv /\ result = "running" /\ FinishFileBlock => PlanInv'
<1> SUFFICES ASSUME TypeOK, PlanInv, result = "running", FinishFileBlock PROVE PlanInv'
  OBVIOUS
<1> USE DEF Rule
<1>0. todo # <<>> /\ Head(todo).op = "finish" /\ Head(todo) \in Steps /\ Head(todo).view \in Views
      /\ Head(todo).change \in BOOLEAN /\ Head(todo).recursive \in BOOLEAN
  BY HeadOfTodo, StepCarries DEF FinishFileBlock, At
<1>v. PICK v \in Views : v = Head(todo).view
  BY <1>0
<1>c. PICK c \in BOOLEAN : c = Head(todo).change
  BY <1>0
<1>r. PICK r \in BOOLEAN : r = Head(todo).recursive
  BY <1>0
<1>b. PICK before \in BOOLEAN : before <=> OtherFirst(v, c, r)
  OBVIOUS
<1> DEFINE other == Finish(Other(v), c, FALSE)
           also == HasSub /\ r /\ ~before
<1>1. /\ \A w, o : o # "finish" => Head(todo) \notin Ops(o, w)
      /\ Head(todo) \notin Switches /\ Head(todo) \notin Puts /\ Head(todo) \notin Closing
      /\ Head(todo) \notin Closes
      /\ \A w : /\ Head(todo) \in Finishes(w) <=> (w = v \/ r)
                /\ Head(todo) \in Makes(w) <=> (w = v \/ r)
                /\ Head(todo) \in DoneOf(w) <=> w = v
                /\ Head(todo) \in Uses(w)
      /\ Head(todo) \in MakesMain <=> (v = "main" \/ r)
      /\ Head(todo) # End
  <2>1. Head(todo) # End
    BY <1>0 DEF End
  <2>. QED  BY <1>0, <1>v, <1>r, <2>1 DEF Ops, Switches, Finishes, Makes, DoneOf, MakesMain,
               Puts, Closing, Closes, Uses
<1>2. IF r THEN v = Switcher ELSE HasSub /\ v = Second
  BY <1>0, <1>v, <1>r, HeadIsFirst DEF PlanInv, FinishViews
<1>3. UNCHANGED <<viewVars, partVars, holdVars, endVars, queue>>
  BY DEF FinishFileBlock
<1>4. /\ (before => HasSub /\ r /\ c /\ v = "main")
      /\ (HasSub /\ r => before \/ also)
      /\ (before => ~also) /\ (also => HasSub /\ r)
      /\ (HasSub /\ c /\ r /\ v = "main" => before)
  BY <1>b DEF OtherFirst
<1>5. /\ HasSub => /\ Other(v) \in Views /\ Other(v) # v /\ {v, Other(v)} = {"main", "sub"}
                   /\ \A w \in Views : w = v \/ w = Other(v)
                   /\ r => Other(v) = Second
      /\ ~HasSub => \A w \in Views : w = v
  BY <1>2, MuxWriterAssumption DEF Views, Other, Second
<1>6. \A w \in Views : w = v \/ r => processed[w] > 0
  <2> TAKE w \in Views
  <2> HAVE w = v \/ r
  <2> DEFINE D == Ops("blockDone", w) \cup Finishes(w) \cup Switches
             E == Ops("packet", w)
             N == Finishes(w)
  <2>1. Exposed(Plan, E, N) => processed[w] > 0
    BY DEF PlanInv, FinishRule
  <2>. QED  BY <1>0, <1>1, <2>1, HeadRule
<1>7. \A D, E, N : \E q : FinishOrder(q, v, c, r, before, other, D, E, N)
  BY <1>6, <1>v, <1>c, <1>r, <1>b, FinishChain
<1>8. ASSUME NEW w \in Views PROVE StampRule(w)'
  <2>1. CASE M2ts
    <3> DEFINE D == Makes(w)
               E == Ops("stamp", w)
               N == Ops("rest", w)
    <3>1. Ordered(Plan, D, E, N) /\ (Exposed(Plan, E, N) => Stamped(w))
      BY <2>1 DEF PlanInv, StampRule
    <3>2. PICK q : FinishOrder(q, v, c, r, before, other, D, E, N)
      BY <1>7
    <3>3. Ordered(Plan', D, E, N) /\ (Exposed(Plan', E, N) => Exposed(Plan, E, N))
      <4>1. /\ Exposed(Plan, E, N) <=> Exposed(Rest, E, N)
            /\ Ordered(Rest, D, E, N) /\ (w = v \/ r => ~Exposed(Rest, E, N))
        BY <1>0, <1>1, <3>1, HeadRule
      <4>2. /\ Step("stamp", v) \notin D /\ Step("stamp", v) \notin N
            /\ Step("stamp", v) \in E <=> w = v
            /\ Step("packet", v) \notin E /\ Step("packet", v) \notin N
            /\ Step("packet", v) \in D <=> w = v
            /\ Step("rest", v) \notin D /\ Step("rest", v) \notin E
            /\ Step("rest", v) \in N <=> w = v
            /\ \A op \in {"next", "tail", "blockDone"} : Step(op, v) \notin D \cup E \cup N
        BY StepKinds
      <4>2a. HasSub => other \notin E /\ other \notin N /\ (other \in D => w = Other(v))
        BY OtherKinds
      <4> HIDE DEF D, E, N
      <4>. QED  BY <1>4, <1>5, <2>1, <3>2, <4>1, <4>2, <4>2a DEF FinishOrder, Behind
    <3>4. Stamped(w)' = Stamped(w)
      BY <1>3 DEF Stamped
    <3>. QED  BY <3>1, <3>3, <3>4 DEF StampRule
  <2>. QED  BY <2>1 DEF StampRule
<1>9. ASSUME NEW w \in Views PROVE CleanRule(w)'
  <2> DEFINE D == Makes(w)
             E == Ops(IF M2ts THEN "rest" ELSE "tail", w)
             N == Ops("next", w)
  <2>1. Ordered(Plan, D, E, N) /\ (Exposed(Plan, E, N) => Clean(w))
    BY DEF PlanInv, CleanRule
  <2>2. PICK q : FinishOrder(q, v, c, r, before, other, D, E, N)
    BY <1>7
  <2>3. Ordered(Plan', D, E, N) /\ (Exposed(Plan', E, N) => Exposed(Plan, E, N))
    <3>1. /\ Exposed(Plan, E, N) <=> Exposed(Rest, E, N)
          /\ Ordered(Rest, D, E, N) /\ (w = v \/ r => ~Exposed(Rest, E, N))
      BY <1>0, <1>1, <2>1, HeadRule
    <3>2. /\ Step("next", v) \notin D /\ Step("next", v) \notin E
          /\ Step("next", v) \in N <=> w = v
          /\ Step("packet", v) \notin E /\ Step("packet", v) \notin N
          /\ Step("packet", v) \in D <=> w = v
          /\ Step("rest", v) \notin D /\ Step("rest", v) \notin N
          /\ Step("rest", v) \in E <=> (M2ts /\ w = v)
          /\ Step("tail", v) \notin D /\ Step("tail", v) \notin N
          /\ Step("tail", v) \in E <=> (~M2ts /\ w = v)
          /\ \A op \in {"stamp", "blockDone"} : Step(op, v) \notin D \cup E \cup N
      BY StepKinds
    <3>2a. HasSub => other \notin E /\ other \notin N /\ (other \in D => w = Other(v))
      BY OtherKinds
    <3> HIDE DEF D, E, N
    <3>. QED  BY <1>4, <1>5, <2>2, <3>1, <3>2, <3>2a DEF FinishOrder, Behind
  <2>4. Clean(w)' = Clean(w)
    BY <1>3 DEF Clean
  <2>. QED  BY <2>1, <2>3, <2>4 DEF CleanRule
<1>10. ASSUME NEW w \in Views PROVE ServedRule(w)'
  <2> DEFINE D == Ops("blockDone", w)
             E == Ops("packet", w) \cup Finishes(w)
             N == Switches \cup {End}
  <2>1. Ordered(Plan, D, E, N) /\ (Exposed(Plan, E, N) => (given[w] > 0 => processed[w] > 0))
    BY DEF PlanInv, ServedRule
  <2>2. PICK q : FinishOrder(q, v, c, r, before, other, D, E, N)
    BY <1>7
  <2>3. Ordered(Plan', D, E, N) /\ (Exposed(Plan', E, N) => Exposed(Plan, E, N))
    <3>1. /\ w # v /\ ~r => (Exposed(Plan, E, N) <=> Exposed(Rest, E, N))
          /\ Ordered(Rest, D, E, N)
      BY <1>0, <1>1, <2>1, HeadRule
    <3>2. /\ Step("packet", v) \notin D /\ Step("packet", v) \notin N
          /\ Step("packet", v) \in E <=> w = v
          /\ Step("blockDone", v) \notin E /\ Step("blockDone", v) \notin N
          /\ Step("blockDone", v) \in D <=> w = v
          /\ \A op \in {"stamp", "rest", "next", "tail"} : Step(op, v) \notin D \cup E \cup N
      BY StepKinds
    <3>2a. HasSub => other \notin D /\ other \notin N /\ (other \in E <=> w = Other(v))
      BY OtherKinds
    <3> HIDE DEF D, E, N
    <3>. QED  BY <1>4, <1>5, <2>2, <3>1, <3>2, <3>2a DEF FinishOrder, Behind
  <2>. QED  BY <1>3, <2>1, <2>3 DEF ServedRule
<1>11. ASSUME NEW w \in Views PROVE FinishRule(w)'
  <2> DEFINE D == Ops("blockDone", w) \cup Finishes(w) \cup Switches
             E == Ops("packet", w)
             N == Finishes(w)
  <2>1. Ordered(Plan, D, E, N) /\ (Exposed(Plan, E, N) => processed[w] > 0)
    BY DEF PlanInv, FinishRule
  <2>2. PICK q : FinishOrder(q, v, c, r, before, other, D, E, N)
    BY <1>7
  <2>3. Ordered(Plan', D, E, N) /\ (Exposed(Plan', E, N) => Exposed(Plan, E, N))
    <3>1. /\ w = v \/ r => Exposed(Plan, E, N) /\ ~Exposed(Rest, E, N)
          /\ Exposed(Rest, E, N) => Exposed(Plan, E, N)
          /\ Ordered(Rest, D, E, N)
      BY <1>0, <1>1, <2>1, HeadRule
    <3>2. /\ Step("packet", v) \notin D /\ Step("packet", v) \notin N
          /\ Step("packet", v) \in E <=> w = v
          /\ Step("blockDone", v) \notin E /\ Step("blockDone", v) \notin N
          /\ Step("blockDone", v) \in D <=> w = v
          /\ \A op \in {"stamp", "rest", "next", "tail"} : Step(op, v) \notin D \cup E \cup N
      BY StepKinds
    <3>2a. HasSub => /\ other \notin E
                     /\ other \in N <=> w = Other(v)
                     /\ other \in D <=> w = Other(v)
      BY OtherKinds
    <3> HIDE DEF D, E, N
    <3>. QED  BY <1>4, <1>5, <2>2, <3>1, <3>2, <3>2a DEF FinishOrder, Behind
  <2>. QED  BY <1>3, <2>1, <2>3 DEF FinishRule
<1>12. ASSUME NEW w \in Views PROVE OpenRule(w)'
  <2> DEFINE D == Ops("close", w)
             N == Uses(w)
  <2>1. Ordered(Plan, D, {}, N) /\ (Exposed(Plan, {}, N) => File(w) \in open)
    BY DEF PlanInv, OpenRule
  <2>2. PICK q : FinishOrder(q, v, c, r, before, other, D, {}, N)
    BY <1>7
  <2>3. Ordered(Plan', D, {}, N) /\ Exposed(Plan, {}, N)
    <3>1. Ordered(Rest, D, {}, N) /\ Exposed(Plan, {}, N)
      BY <1>0, <1>1, <2>1, HeadRule
    <3>2. /\ \A op \in {"stamp", "packet", "next", "tail", "blockDone", "rest"} : Step(op, v) \notin D
      BY StepKinds
    <3>2a. HasSub => other \notin D
      BY OtherKinds
    <3> HIDE DEF D, N
    <3>. QED  BY <1>4, <2>2, <3>1, <3>2, <3>2a DEF FinishOrder, Behind
  <2>4. Uses(w)' = Uses(w) /\ (File(w) \in open)' = (File(w) \in open)
    BY <1>3 DEF Uses, File, Part
  <2>. QED  BY <2>1, <2>3, <2>4 DEF OpenRule
<1>13. HeldRule'
  <2>1. CASE Interleave
    <3> DEFINE D == MakesMain
               E == DoneOf(Second)
               N == Ops("next", "main")
    <3>1. Ordered(Plan, D, E, N)
      BY <2>1 DEF PlanInv, HeldRule
    <3>2. PICK q : FinishOrder(q, v, c, r, before, other, D, E, N)
      BY <1>7
    <3>3. Ordered(Plan', D, E, N) /\ ~Exposed(Plan', E, N)
      <4>1. /\ Ordered(Rest, D, E, N) /\ (v = "main" \/ r => ~Exposed(Rest, E, N))
        BY <1>0, <1>1, <3>1, HeadRule
      <4>2. /\ \A op \in {"stamp", "packet", "rest"} :
                 /\ Step(op, v) \notin E /\ Step(op, v) \notin N
                 /\ Step(op, v) \in D <=> v = "main"
            /\ Step("next", v) \notin D /\ Step("next", v) \notin E
            /\ Step("next", v) \in N <=> v = "main"
            /\ Step("blockDone", v) \notin D /\ Step("blockDone", v) \notin N
            /\ Step("blockDone", v) \in E <=> v = Second
            /\ Step("tail", v) \notin D \cup E \cup N
        BY StepKinds
      <4>2a. HasSub => /\ other \notin N
                       /\ other \in E <=> Second = Other(v)
                       /\ other \in D <=> Other(v) = "main"
        BY OtherKinds
      <4>3. HasSub /\ M2ts /\ (v = "main" \/ v = "sub") /\ (v = Second <=> ~r)
        BY <1>2, <1>5, <2>1, MuxWriterAssumption DEF Views
      <4> HIDE DEF D, E, N
      <4>. QED  BY <1>2, <1>4, <1>5, <3>2, <4>1, <4>2, <4>2a, <4>3 DEF FinishOrder, Behind
    <3>. QED  BY <3>3 DEF HeldRule
  <2>. QED  BY <2>1 DEF HeldRule
<1>14. BothRule'
  <2>1. CASE HasSub
    <3> DEFINE D == DoneOf(Second) \cup Finishes(Switcher) \cup Switches
               E == Ops("blockDone", Switcher)
               N == DoneOf(Second)
    <3>1. Ordered(Plan, D, E, N) /\ (Exposed(Plan, E, N) => Switcher \in finished)
      BY <2>1 DEF PlanInv, BothRule
    <3>2. PICK q : FinishOrder(q, v, c, r, before, other, D, E, N)
      BY <1>7
    <3>3. Ordered(Plan', D, E, N) /\ (Exposed(Plan', E, N) => Exposed(Plan, E, N))
      <4>0. Second # Switcher /\ (v = Second <=> ~r) /\ (v = Switcher <=> r)
        BY <1>2, <2>1, TwoViews
      <4>1. /\ Ordered(Rest, D, E, N) /\ ~Exposed(Rest, E, N)
            /\ ~r => Exposed(Plan, E, N)
        BY <1>0, <1>1, <3>1, <4>0, HeadRule
      <4>2. /\ Step("blockDone", v) \in E <=> v = Switcher
            /\ Step("blockDone", v) \in N <=> v = Second
            /\ Step("blockDone", v) \in D <=> v = Second
            /\ \A op \in {"stamp", "rest", "next", "tail", "packet"} :
                 Step(op, v) \notin D \cup E \cup N
        BY <2>1, StepKinds
      <4>2a. other \notin E /\ (other \in N <=> Second = Other(v))
        BY <2>1, OtherKinds
      <4> HIDE DEF D, E, N
      <4>. QED  BY <1>2, <1>4, <1>5, <2>1, <3>2, <4>0, <4>1, <4>2, <4>2a DEF FinishOrder, Behind
    <3>. QED  BY <1>3, <3>1, <3>3 DEF BothRule
  <2>. QED  BY <2>1 DEF BothRule
<1>15. PutsFirst'
  <2> DEFINE D == Steps \ Puts
             N == Puts
  <2>1. Ordered(Plan, D, {}, N)
    BY DEF PlanInv, PutsFirst
  <2>2. PICK q : FinishOrder(q, v, c, r, before, other, D, {}, N)
    BY <1>7
  <2>3. Ordered(Rest, D, {}, N) /\ ~Exposed(Rest, {}, N)
    BY <1>0, <1>1, <2>1, HeadRule
  <2>4. /\ \A op \in {"stamp", "packet", "next", "tail", "blockDone", "rest"} : Step(op, v) \notin N
    BY StepKinds
  <2>4a. HasSub => other \notin N
    BY OtherKinds
  <2>5. Ordered(Plan', D, {}, N)
    <3> HIDE DEF D, N
    <3>. QED  BY <1>4, <2>2, <2>3, <2>4, <2>4a DEF FinishOrder, Behind
  <2>. QED  BY <2>5 DEF PutsFirst
<1>16. IdleRule'
  <2> DEFINE D == Steps \ Closing
             E == Ops("wait", "main")
             N == Closes
  <2>1. Ordered(Plan, D, E, N)
    BY DEF PlanInv, IdleRule
  <2>2. PICK q : FinishOrder(q, v, c, r, before, other, D, E, N)
    BY <1>7
  <2>3. Ordered(Rest, D, E, N) /\ ~Exposed(Rest, E, N)
    BY <1>0, <1>1, <2>1, HeadRule
  <2>4. /\ \A op \in {"stamp", "packet", "next", "tail", "blockDone", "rest"} : Step(op, v) \notin N
    BY StepKinds
  <2>4a. HasSub => other \notin N
    BY OtherKinds
  <2>5. Ordered(Plan', D, E, N) /\ ~Exposed(Plan', E, N)
    <3> HIDE DEF D, E, N
    <3>. QED  BY <1>4, <2>2, <2>3, <2>4, <2>4a DEF FinishOrder, Behind
  <2>. QED  BY <2>5 DEF IdleRule
<1>17. FinishViews'
  BY <1>0, FinishSequel, FinishViewsKept DEF PlanInv
<1>. QED  BY <1>8, <1>9, <1>10, <1>11, <1>12, <1>13, <1>14, <1>15, <1>16, <1>17 DEF PlanInv

-----------------------------------------------------------------------------
(* The calls *)

(* A list without a step that needs something keeps every order.           *)
LEMMA NothingNeeded ==
  ASSUME NEW S, NEW s \in Seq(S), NEW D, NEW E, NEW N
  PROVE  /\ (\A x \in S : x \notin N) => Ordered(s, D, E, N) /\ ~Exposed(s, E, N)
         /\ (\A x \in S : x \notin D) => Ordered(s, D, E, N)
<1>1. \A k \in 1..Len(s) : s[k] \in S
  BY ElementOfSeq
<1>. QED  BY <1>1 DEF Ordered, Exposed

(* What the end of a call says of the rules, when the next one begins.     *)
LEMMA BetweenCalls ==
  ASSUME PlanInv, result = "running", todo = <<>>, NEW v \in Views
  PROVE  /\ given[v] > 0 => processed[v] > 0
         /\ ~ending => File(v) \in open
<1>1. Plan = <<End>>
  BY PlanOver
<1>2. Exposed(Plan, Ops("packet", v) \cup Finishes(v), Switches \cup {End})
  BY <1>1, EndRule
<1>3. ASSUME ~ending PROVE Exposed(Plan, {}, Uses(v))
  <2>1. End \in Uses(v)
    BY <1>3 DEF Uses
  <2>. QED  BY <1>1, <2>1, EndRule
<1>. QED  BY <1>2, <1>3 DEF PlanInv, ServedRule, OpenRule, Rule

(* A list of steps none of which ends a unit or part.                      *)
LEMMA NoFinish ==
  ASSUME NEW S, \A s \in S : s.op # "finish", todo' \in Seq(S)
  PROVE  FinishViews'
<1>1. \A k \in 1..Len(todo') : todo'[k] \in S
  BY ElementOfSeq
<1>. QED  BY <1>1 DEF FinishViews

(* A packet is handed to a muxer.                                          *)
LEMMA MuxPacketPlan ==
  ASSUME TypeOK, PlanInv, NEW v \in Views, MuxPacket(v)
  PROVE  PlanInv'
<1> USE DEF Rule
<1> DEFINE packet == Step("packet", v)
           stamp == Step("stamp", v)
           switch == Step("switch", v)
           S == {packet, stamp, switch}
           SE == S \cup {End}
<1>1. /\ todo = <<>> /\ result = "running" /\ ~ending
      /\ given' = [given EXCEPT ![v] = @ + 1] /\ given \in [Views -> Nat]
      /\ todo' = IfAny(given[v] = 0, Tables(v)) \o <<switch, packet>>
      /\ UNCHANGED <<made, sent, stamped, delayBlk, processed, partVars, holdVars,
                     endVars, queue, writeVars, diskVars>>
  BY DEF MuxPacket, TypeOK
<1>2. /\ Tables(v) \in Seq(S) /\ Len(Tables(v)) > 0 /\ Tables(v)[1] = packet
  <2>1. <<packet>> \in Seq(S) /\ IfAny(M2ts, <<stamp>>) \in Seq(S)
    <3> HIDE DEF packet, stamp
    <3>1. <<packet>> \in Seq(S) /\ <<stamp>> \in Seq(S) /\ <<>> \in Seq(S)
      BY EmptySeq
    <3>. QED  BY <3>1 DEF IfAny
  <2>2. Len(<<packet>>) = 1 /\ <<packet>>[1] = packet
    OBVIOUS
  <2> HIDE DEF packet, stamp, S
  <2>. QED  BY <2>1, <2>2, JoinedSteps DEF Tables, packet, stamp
<1>3. /\ todo' \in Seq(S)
      /\ given[v] = 0 => Len(todo') > 0 /\ todo'[1] = packet
  <2> DEFINE first == IfAny(given[v] = 0, Tables(v))
  <2>1. <<switch, packet>> \in Seq(S)
    OBVIOUS
  <2>2. first \in Seq(S)
    BY <1>2, EmptySeq DEF IfAny
  <2>3. given[v] = 0 => first = Tables(v)
    BY DEF IfAny
  <2> HIDE DEF packet, stamp, switch, S, first
  <2>4. /\ first \o <<switch, packet>> \in Seq(S)
        /\ Len(first \o <<switch, packet>>) = Len(first) + Len(<<switch, packet>>)
        /\ Len(first) \in Nat /\ Len(<<switch, packet>>) \in Nat
        /\ \A k \in 1..Len(first) : (first \o <<switch, packet>>)[k] = first[k]
    BY <2>1, <2>2, JoinedSteps
  <2>5. todo' = first \o <<switch, packet>>
    BY <1>1 DEF first
  <2>. QED  BY <1>2, <2>3, <2>4, <2>5
<1>4. Plan' \in Seq(SE) /\ (given[v] = 0 => Len(Plan') > 0 /\ Plan'[1] = packet)
  <2> HIDE DEF packet, S
  <2>1. todo' \in Seq(SE) /\ End \in SE
    BY <1>3
  <2> HIDE DEF SE
  <2>2. Len(todo') \in Nat
    BY <2>1, LenProperties
  <2>. QED  BY <1>3, <2>1, <2>2, AppendProperties DEF Plan
<1>5. /\ \A x \in SE, w \in Views :
           /\ x \notin Ops("rest", w) /\ x \notin Ops("next", w) /\ x \notin Finishes(w)
           /\ x \notin Ops("blockDone", w) /\ x \notin Ops("close", w) /\ x \notin DoneOf(w)
           /\ x \notin Puts /\ x \notin Closes
      /\ packet \notin Switches /\ packet # End /\ packet \in Ops("packet", v)
  <2>1. \A x \in S, w \in Views :
           /\ x \notin Ops("rest", w) /\ x \notin Ops("next", w) /\ x \notin Finishes(w)
           /\ x \notin Ops("blockDone", w) /\ x \notin Ops("close", w) /\ x \notin DoneOf(w)
           /\ x \notin Puts /\ x \notin Closes
    BY StepKinds
  <2>2. End \notin Steps
    BY DEF End, Steps
  <2>3. \A w \in Views :
           /\ End \notin Ops("rest", w) /\ End \notin Ops("next", w) /\ End \notin Finishes(w)
           /\ End \notin Ops("blockDone", w) /\ End \notin Ops("close", w) /\ End \notin DoneOf(w)
           /\ End \notin Puts /\ End \notin Closes
    BY <2>2 DEF Ops, Finishes, DoneOf, Puts, Closes
  <2>4. packet \notin Switches /\ packet # End /\ packet \in Ops("packet", v)
    BY StepKinds
  <2> HIDE DEF S, packet
  <2>. QED  BY <2>1, <2>3, <2>4
<1> HIDE DEF packet, SE
<1>6. ASSUME NEW w \in Views
      PROVE  StampRule(w)' /\ CleanRule(w)' /\ FinishRule(w)'
  BY <1>4, <1>5, NothingNeeded DEF StampRule, CleanRule, FinishRule
<1>7. ASSUME NEW w \in Views PROVE ServedRule(w)'
  <2> DEFINE E == Ops("packet", w) \cup Finishes(w)
             N == Switches \cup {End}
  <2>1. Ordered(Plan', Ops("blockDone", w), E, N)
    BY <1>4, <1>5, NothingNeeded
  <2>2. CASE w = v /\ given[v] = 0
    <3>1. ~Exposed(Plan', E, N)
      <4> SUFFICES ASSUME NEW k \in 1..Len(Plan'), Plan'[k] \in N,
                          \A j \in 1..k - 1 : Plan'[j] \notin E
                   PROVE  FALSE
        BY DEF Exposed
      <4>1. Plan'[1] = packet /\ packet \in E /\ packet \notin N
        BY <1>4, <1>5, <2>2
      <4>2. k # 1
        BY <4>1
      <4>3. 1 \in 1..k - 1
        <5>1. k \in Int /\ k >= 1
          OBVIOUS
        <5>. QED  BY <4>2, <5>1
      <4>. QED  BY <4>1, <4>3
    <3>. QED  BY <2>1, <3>1 DEF ServedRule
  <2>3. CASE ~(w = v /\ given[v] = 0)
    <3>1. given'[w] > 0 => given[w] > 0
      BY <1>1, <2>3
    <3>2. given'[w] > 0 => processed'[w] > 0
      BY <1>1, <3>1, BetweenCalls
    <3>. QED  BY <2>1, <3>2 DEF ServedRule
  <2>. QED  BY <2>2, <2>3
<1>8. ASSUME NEW w \in Views PROVE OpenRule(w)'
  <2>1. Ordered(Plan', Ops("close", w), {}, Uses(w))
    BY <1>4, <1>5, NothingNeeded
  <2>2. File(w) \in open
    BY <1>1, BetweenCalls
  <2>3. Uses(w)' = Uses(w) /\ (File(w) \in open)' = (File(w) \in open)
    BY <1>1 DEF Uses, File, Part
  <2>. QED  BY <2>1, <2>2, <2>3 DEF OpenRule
<1>9. HeldRule' /\ PutsFirst' /\ IdleRule'
  <2>1. \A x \in SE : x \notin Ops("next", "main") /\ x \notin Puts /\ x \notin Closes
    BY <1>5, ViewsFact
  <2>. QED  BY <1>4, <2>1, NothingNeeded DEF HeldRule, PutsFirst, IdleRule
<1>10. BothRule'
  <2>1. CASE HasSub
    <3>1. \A x \in SE : x \notin DoneOf(Second)
      BY <1>5, <2>1, TwoViews
    <3>. QED  BY <1>4, <3>1, NothingNeeded DEF BothRule
  <2>. QED  BY <2>1 DEF BothRule
<1>11. FinishViews'
  <2>1. \A s \in S : s.op # "finish"
    BY DEF Step, packet
  <2> HIDE DEF S
  <2>. QED  BY <1>3, <2>1, NoFinish
<1>. QED  BY <1>6, <1>7, <1>8, <1>9, <1>10, <1>11 DEF PlanInv

(* Two and three steps, one after the other.                               *)
LEMMA FewSteps ==
  ASSUME NEW S, NEW a \in S, NEW b \in S, NEW c \in S
  PROVE  /\ <<a, b>> = Joined(<<a>>, <<b>>)
         /\ <<a, b, c>> = Joined(Joined(<<a>>, <<b>>), <<c>>)
<1>1. <<a>> \in Seq(S) /\ <<b>> \in Seq(S) /\ <<c>> \in Seq(S) /\ <<a, b>> \in Seq(S)
  OBVIOUS
<1>2. Append(<<a>>, b) = <<a, b>> /\ Append(<<a, b>>, c) = <<a, b, c>>
  <2>1. /\ Append(<<a>>, b) \in Seq(S) /\ Len(Append(<<a>>, b)) = 2
        /\ Append(<<a>>, b)[1] = a /\ Append(<<a>>, b)[2] = b
    <3>1. Len(<<a>>) = 1 /\ <<a>>[1] = a /\ 1 \in 1..1
      OBVIOUS
    <3>. QED  BY <1>1, <3>1, AppendProperties
  <2>2. Append(<<a>>, b) = <<a, b>>
    <3>1. /\ <<a, b>> \in Seq(S) /\ Len(<<a, b>>) = 2 /\ <<a, b>>[1] = a /\ <<a, b>>[2] = b
          /\ \A i \in 1..2 : i = 1 \/ i = 2
      BY <1>1
    <3>2. \A i \in 1..Len(<<a, b>>) : Append(<<a>>, b)[i] = <<a, b>>[i]
      BY <2>1, <3>1
    <3>. QED  BY <2>1, <3>1, <3>2, SeqEqual
  <2>3. /\ Append(<<a, b>>, c) \in Seq(S) /\ Len(Append(<<a, b>>, c)) = 3
        /\ Append(<<a, b>>, c)[1] = a /\ Append(<<a, b>>, c)[2] = b
        /\ Append(<<a, b>>, c)[3] = c
    <3>1. Len(<<a, b>>) = 2 /\ <<a, b>>[1] = a /\ <<a, b>>[2] = b /\ 1 \in 1..2 /\ 2 \in 1..2
      OBVIOUS
    <3>. QED  BY <1>1, <3>1, AppendProperties
  <2>4. Append(<<a, b>>, c) = <<a, b, c>>
    <3>1. /\ <<a, b, c>> \in Seq(S) /\ Len(<<a, b, c>>) = 3
          /\ <<a, b, c>>[1] = a /\ <<a, b, c>>[2] = b /\ <<a, b, c>>[3] = c
          /\ \A i \in 1..3 : i = 1 \/ i = 2 \/ i = 3
      OBVIOUS
    <3>2. \A i \in 1..Len(<<a, b, c>>) : Append(<<a, b>>, c)[i] = <<a, b, c>>[i]
      BY <2>3, <3>1
    <3>. QED  BY <2>3, <3>1, <3>2, SeqEqual
  <2>. QED  BY <2>2, <2>4
<1>3. Append(<<a>>, b) = <<a>> \o <<b>> /\ Append(<<a, b>>, c) = <<a, b>> \o <<c>>
  BY <1>1, AppendIsConcat
<1>4. <<a, b>> = Joined(<<a>>, <<b>>)
  BY <1>2, <1>3 DEF Joined
<1>5. <<a, b, c>> = Joined(<<a, b>>, <<c>>)
  BY <1>2, <1>3 DEF Joined
<1>. QED  BY <1>4, <1>5

(* What is left to do when the sources are at their end, step by step.     *)
EndOrder(q, D, E, N) ==
  /\ Behind(TRUE, Step("verdict", "main"), q[1], <<End>>, D, E, N)
  /\ Behind(TRUE, Step("wait", "main"), q[2], q[1], D, E, N)
  /\ Behind(HasSub, Step("close", "sub"), q[3], q[2], D, E, N)
  /\ Behind(TRUE, Step("close", "main"), q[4], q[3], D, E, N)
  /\ Behind(TRUE, Step("wait", "main"), q[5], q[4], D, E, N)
  /\ Behind(TRUE, Step("heldOut", "main"), q[6], q[5], D, E, N)
  /\ Behind(TRUE, Step("rest", "main"), q[7], q[6], D, E, N)
  /\ Behind(M2ts, Step("stamp", "main"), q[8], q[7], D, E, N)
  /\ Behind(HasSub, Step("rest", "sub"), q[9], q[8], D, E, N)
  /\ Behind(HasSub, Step("stamp", "sub"), Plan', q[9], D, E, N)

(* The steps of the end of doMux, each in front of those after it.         *)
LEMMA EndChain ==
  ASSUME TypeOK, EndOfSources, NEW D, NEW E, NEW N
  PROVE  /\ \E q : EndOrder(q, D, E, N)
         /\ \E S \in SUBSET Steps :
              /\ todo' \in Seq(S)
              /\ \A s \in S : /\ s.op # "finish" /\ s \notin Puts
                            /\ s.op \in EndOps \cup {"stamp", "rest"}
<1> DEFINE verdict == IfAny(TRUE, <<Step("verdict", "main")>>)
           wait == IfAny(TRUE, <<Step("wait", "main")>>)
           closeSub == IfAny(HasSub, <<Step("close", "sub")>>)
           close == IfAny(TRUE, <<Step("close", "main")>>)
           heldOut == IfAny(TRUE, <<Step("heldOut", "main")>>)
           rest == IfAny(TRUE, <<Step("rest", "main")>>)
           stamp == IfAny(M2ts, <<Step("stamp", "main")>>)
           restSub == IfAny(HasSub, <<Step("rest", "sub")>>)
           stampSub == IfAny(HasSub, <<Step("stamp", "sub")>>)
           end == <<End>>
           q1 == Joined(verdict, end)
           q2 == Joined(wait, q1)
           q3 == Joined(closeSub, q2)
           q4 == Joined(close, q3)
           q5 == Joined(wait, q4)
           q6 == Joined(heldOut, q5)
           q7 == Joined(rest, q6)
           q8 == Joined(stamp, q7)
           q9 == Joined(restSub, q8)
           q10 == Joined(stampSub, q9)
           S == {s \in Steps : s.op \in EndOps \cup {"stamp", "rest"}}
           flushSub == Joined(stampSub, restSub)
           flush == Joined(stamp, rest)
           closing == Joined(Joined(heldOut, wait), close)
           last == Joined(wait, verdict)
           upTo == Joined(Joined(flushSub, flush), closing)
           steps == Joined(Joined(upTo, closeSub), last)
<1>1. HasSub \in BOOLEAN /\ M2ts \in BOOLEAN /\ TRUE \in BOOLEAN /\ (HasSub => M2ts)
  BY MuxWriterAssumption
<1>2. /\ \A op \in {"verdict", "wait", "close", "heldOut", "rest", "stamp"} :
           Step(op, "main") \in Steps /\ (HasSub => Step(op, "sub") \in Steps)
      /\ \A op \in {"verdict", "wait", "close", "heldOut", "rest", "stamp"}, v \in {"main", "sub"} :
           Step(op, v).op = op
  <2>1. \A op \in {"verdict", "wait", "close", "heldOut", "rest", "stamp"}, v \in Views :
           Step(op, v) \in Steps
    BY StepKinds
  <2>2. \A op \in {"verdict", "wait", "close", "heldOut", "rest", "stamp"}, v \in {"main", "sub"} :
           Step(op, v).op = op
    BY DEF Step
  <2>. QED  BY <2>1, <2>2, ViewsFact
<1>3. /\ \A op \in {"verdict", "wait", "close", "heldOut", "rest", "stamp"} :
           Step(op, "main") \in S /\ (HasSub => Step(op, "sub") \in S)
  BY <1>2 DEF EndOps
<1>4. /\ verdict \in Seq(S) /\ wait \in Seq(S) /\ closeSub \in Seq(S) /\ close \in Seq(S)
      /\ heldOut \in Seq(S) /\ rest \in Seq(S) /\ stamp \in Seq(S)
      /\ restSub \in Seq(S) /\ stampSub \in Seq(S)
  <2> HIDE DEF S
  <2>1. ASSUME NEW b \in BOOLEAN, NEW x, b => x \in S PROVE IfAny(b, <<x>>) \in Seq(S)
    <3>1. CASE b
      BY <2>1, <3>1 DEF IfAny
    <3>2. CASE ~b
      BY <3>2, EmptySeq DEF IfAny
    <3>. QED  BY <3>1, <3>2
  <2>. QED  BY <1>1, <1>3, <2>1
<1>5. todo' = steps
  <2>1. /\ verdict = <<Step("verdict", "main")>> /\ wait = <<Step("wait", "main")>>
        /\ close = <<Step("close", "main")>> /\ heldOut = <<Step("heldOut", "main")>>
        /\ rest = <<Step("rest", "main")>>
    BY DEF IfAny
  <2>2. /\ <<Step("wait", "main"), Step("verdict", "main")>> = last
        /\ <<Step("heldOut", "main"), Step("wait", "main"), Step("close", "main")>> = closing
    <3> HIDE DEF verdict, wait, close, heldOut, S
    <3>. QED  BY <1>3, <2>1, FewSteps
  <2>3. Flush("main") = flush
    BY <2>1 DEF Flush, Joined
  <2>4. IfAny(HasSub, Flush("sub")) = flushSub
    <3>1. CASE HasSub
      BY <1>1, <3>1 DEF Flush, Joined, IfAny
    <3>2. CASE ~HasSub
      <4>1. stampSub = <<>> /\ restSub = <<>> /\ IfAny(HasSub, Flush("sub")) = <<>>
        BY <3>2 DEF IfAny
      <4>2. <<>> \o <<>> = <<>>
        BY EmptySeq, ConcatEmptySeq
      <4>. QED  BY <4>1, <4>2 DEF Joined
    <3>. QED  BY <3>1, <3>2
  <2>5. todo' = IfAny(HasSub, Flush("sub")) \o Flush("main")
             \o <<Step("heldOut", "main"), Step("wait", "main"), Step("close", "main")>>
             \o closeSub \o <<Step("wait", "main"), Step("verdict", "main")>>
    BY DEF EndOfSources
  <2> HIDE DEF flushSub, flush, closing, last, closeSub
  <2>6. todo' = flushSub \o flush \o closing \o closeSub \o last
    BY <2>2, <2>3, <2>4, <2>5
  <2>. QED  BY <2>6, Zenon DEF Joined
<1>6. /\ flushSub \in Seq(S) /\ flush \in Seq(S) /\ closing \in Seq(S) /\ last \in Seq(S)
      /\ upTo \in Seq(S) /\ Joined(upTo, closeSub) \in Seq(S) /\ steps \in Seq(S)
  <2> HIDE DEF verdict, wait, closeSub, close, heldOut, rest, stamp, restSub, stampSub, S
  <2>1. flushSub \in Seq(S) /\ flush \in Seq(S) /\ last \in Seq(S) /\ Joined(heldOut, wait) \in Seq(S)
    BY <1>4, JoinedType
  <2>2. closing \in Seq(S)
    BY <1>4, <2>1, JoinedType
  <2> HIDE DEF flushSub, flush, last, closing
  <2>3. Joined(flushSub, flush) \in Seq(S)
    BY <2>1, JoinedType
  <2>4. upTo \in Seq(S)
    BY <2>2, <2>3, JoinedType
  <2> HIDE DEF upTo
  <2>5. Joined(upTo, closeSub) \in Seq(S)
    BY <1>4, <2>4, JoinedType
  <2>6. steps \in Seq(S)
    BY <2>1, <2>5, JoinedType
  <2>. QED  BY <2>1, <2>2, <2>4, <2>5, <2>6
<1>7. Plan' = Joined(steps, end) /\ end \in Seq(PlanSteps) /\ Seq(S) \subseteq Seq(PlanSteps)
  <2>1. <<End>> \in Seq(PlanSteps) /\ End \in PlanSteps /\ Seq(S) \subseteq Seq(PlanSteps)
    <3>1. End \in PlanSteps /\ S \subseteq PlanSteps
      BY DEF PlanSteps
    <3> HIDE DEF S
    <3>. QED  BY <3>1
  <2> HIDE DEF steps, S
  <2>2. steps \in Seq(PlanSteps)
    BY <1>6, <2>1
  <2>3. Append(steps, End) = steps \o <<End>>
    BY <2>1, <2>2, AppendIsConcat
  <2>. QED  BY <1>5, <2>1, <2>3 DEF Plan, Joined
<1> HIDE DEF verdict, wait, closeSub, close, heldOut, rest, stamp, restSub, stampSub, end, S
<1>8. /\ verdict \in Seq(PlanSteps) /\ wait \in Seq(PlanSteps) /\ closeSub \in Seq(PlanSteps)
      /\ close \in Seq(PlanSteps) /\ heldOut \in Seq(PlanSteps) /\ rest \in Seq(PlanSteps)
      /\ stamp \in Seq(PlanSteps) /\ restSub \in Seq(PlanSteps) /\ stampSub \in Seq(PlanSteps)
  BY <1>4, <1>7
<1>9. q1 \in Seq(PlanSteps) /\ q2 \in Seq(PlanSteps)
  BY <1>7, <1>8, JoinedType
<1>10. q3 \in Seq(PlanSteps) /\ q4 \in Seq(PlanSteps)
  <2> HIDE DEF q2
  <2>. QED  BY <1>8, <1>9, JoinedType
<1>11. q5 \in Seq(PlanSteps) /\ q6 \in Seq(PlanSteps)
  <2> HIDE DEF q4
  <2>. QED  BY <1>8, <1>10, JoinedType
<1>12. q7 \in Seq(PlanSteps) /\ q8 \in Seq(PlanSteps)
  <2> HIDE DEF q6
  <2>. QED  BY <1>8, <1>11, JoinedType
<1>13. q9 \in Seq(PlanSteps)
  <2> HIDE DEF q8
  <2>. QED  BY <1>8, <1>12, JoinedType
<1>14. Plan' = q10
  <2>1. /\ flushSub \in Seq(PlanSteps) /\ flush \in Seq(PlanSteps) /\ closing \in Seq(PlanSteps)
        /\ last \in Seq(PlanSteps) /\ upTo \in Seq(PlanSteps)
    <3> HIDE DEF flushSub, flush, closing, last, upTo
    <3>. QED  BY <1>6, <1>7
  <2>2. Joined(steps, end) = Joined(upTo, Joined(closeSub, Joined(last, end)))
    <3> HIDE DEF upTo, last
    <3>. QED  BY <1>7, <1>8, <2>1, FourLists
  <2>3. Joined(last, end) = q2
    BY <1>7, <1>8, JoinedAssociative
  <2>4. Joined(upTo, q3) = Joined(flushSub, Joined(flush, Joined(closing, q3)))
    <3> HIDE DEF flushSub, flush, closing, q3
    <3>. QED  BY <1>10, <2>1, FourLists
  <2>5. Joined(closing, q3) = q6
    <3> HIDE DEF q3
    <3>. QED  BY <1>8, <1>10, FourLists
  <2>6. Joined(flush, q6) = q8
    <3> HIDE DEF q6
    <3>. QED  BY <1>8, <1>11, JoinedAssociative
  <2>7. Joined(flushSub, q8) = q10
    <3> HIDE DEF q8
    <3>. QED  BY <1>8, <1>12, JoinedAssociative
  <2> HIDE DEF q6, q8, q10, last, closing, flush, flushSub, upTo, steps
  <2>8. Joined(upTo, Joined(closeSub, q2)) = Joined(upTo, q3)
    OBVIOUS
  <2> HIDE DEF q2, q3
  <2>. QED  BY <1>7, <2>2, <2>3, <2>4, <2>5, <2>6, <2>7, <2>8
<1> HIDE DEF q1, q2, q3, q4, q5, q6, q7, q8, q9, q10
<1>15. /\ \A op \in {"verdict", "wait", "close", "heldOut", "rest", "stamp"} :
            Step(op, "main") \in PlanSteps /\ (HasSub => Step(op, "sub") \in PlanSteps)
  BY <1>2 DEF PlanSteps
<1>16. /\ Behind(TRUE, Step("verdict", "main"), q1, <<End>>, D, E, N)
       /\ Behind(TRUE, Step("wait", "main"), q2, q1, D, E, N)
       /\ Behind(HasSub, Step("close", "sub"), q3, q2, D, E, N)
       /\ Behind(TRUE, Step("close", "main"), q4, q3, D, E, N)
       /\ Behind(TRUE, Step("wait", "main"), q5, q4, D, E, N)
  <2>1. Behind(TRUE, Step("verdict", "main"), q1, <<End>>, D, E, N)
    BY <1>1, <1>7, <1>15, OptRule DEF q1, end, verdict, Joined
  <2>2. Behind(TRUE, Step("wait", "main"), q2, q1, D, E, N)
    BY <1>1, <1>9, <1>15, OptRule DEF q2, wait, Joined
  <2>3. Behind(HasSub, Step("close", "sub"), q3, q2, D, E, N)
    BY <1>1, <1>9, <1>15, OptRule DEF q3, closeSub, Joined
  <2>4. Behind(TRUE, Step("close", "main"), q4, q3, D, E, N)
    BY <1>1, <1>10, <1>15, OptRule DEF q4, close, Joined
  <2>5. Behind(TRUE, Step("wait", "main"), q5, q4, D, E, N)
    BY <1>1, <1>10, <1>15, OptRule DEF q5, wait, Joined
  <2>. QED  BY <2>1, <2>2, <2>3, <2>4, <2>5
<1>17. /\ Behind(TRUE, Step("heldOut", "main"), q6, q5, D, E, N)
       /\ Behind(TRUE, Step("rest", "main"), q7, q6, D, E, N)
       /\ Behind(M2ts, Step("stamp", "main"), q8, q7, D, E, N)
       /\ Behind(HasSub, Step("rest", "sub"), q9, q8, D, E, N)
       /\ Behind(HasSub, Step("stamp", "sub"), q10, q9, D, E, N)
  <2>1. Behind(TRUE, Step("heldOut", "main"), q6, q5, D, E, N)
    BY <1>1, <1>11, <1>15, OptRule DEF q6, heldOut, Joined
  <2>2. Behind(TRUE, Step("rest", "main"), q7, q6, D, E, N)
    BY <1>1, <1>11, <1>15, OptRule DEF q7, rest, Joined
  <2>3. Behind(M2ts, Step("stamp", "main"), q8, q7, D, E, N)
    BY <1>1, <1>12, <1>15, OptRule DEF q8, stamp, Joined
  <2>4. Behind(HasSub, Step("rest", "sub"), q9, q8, D, E, N)
    BY <1>1, <1>12, <1>15, OptRule DEF q9, restSub, Joined
  <2>5. Behind(HasSub, Step("stamp", "sub"), q10, q9, D, E, N)
    BY <1>1, <1>13, <1>15, OptRule DEF q10, stampSub, Joined
  <2>. QED  BY <2>1, <2>2, <2>3, <2>4, <2>5
<1> DEFINE q == <<q1, q2, q3, q4, q5, q6, q7, q8, q9>>
<1>18. /\ q[1] = q1 /\ q[2] = q2 /\ q[3] = q3 /\ q[4] = q4 /\ q[5] = q5 /\ q[6] = q6
       /\ q[7] = q7 /\ q[8] = q8 /\ q[9] = q9
  OBVIOUS
<1> HIDE DEF q
<1>19. EndOrder(q, D, E, N)
  BY <1>14, <1>16, <1>17, <1>18 DEF EndOrder
<1>20. /\ S \in SUBSET Steps
       /\ \A s \in S : /\ s.op # "finish" /\ s \notin Puts
                     /\ s.op \in EndOps \cup {"stamp", "rest"}
       /\ todo' \in Seq(S)
  <2>1. /\ S \in SUBSET Steps
        /\ \A s \in S : /\ s.op # "finish" /\ s \notin Puts
                      /\ s.op \in EndOps \cup {"stamp", "rest"}
    BY DEF S, EndOps, Puts
  <2> HIDE DEF steps
  <2>. QED  BY <1>5, <1>6, <2>1
<1>. QED  BY <1>19, <1>20

(* The sources are at their end.                                           *)
LEMMA EndOfSourcesPlan ==
  TypeOK /\ PlanInv /\ EndOfSources => PlanInv'
<1> SUFFICES ASSUME TypeOK, PlanInv, EndOfSources PROVE PlanInv'
  OBVIOUS
<1> USE DEF Rule
<1>1. /\ todo = <<>> /\ result = "running" /\ ~ending /\ ending'
      /\ UNCHANGED <<viewVars, partVars, holdVars, closedOk, result, queue, writeVars, diskVars>>
  BY DEF EndOfSources
<1>2. \A D, E, N : \E q : EndOrder(q, D, E, N)
  BY EndChain
<1>3. "main" \in Views /\ (HasSub => "sub" \in Views /\ M2ts)
  BY ViewsFact, MuxWriterAssumption
<1>4. /\ End \notin Steps /\ End \notin Puts
      /\ \A w, o : End \notin Ops(o, w)
      /\ \A w : End \notin Makes(w) /\ End \notin Finishes(w) /\ End \notin DoneOf(w)
      /\ End \notin MakesMain /\ End \notin Closes
  <2>1. End \notin Steps
    BY DEF End, Steps
  <2>. QED  BY <2>1 DEF Puts, Ops, Makes, Finishes, DoneOf, MakesMain, Closes, Switches
<1>5. ASSUME NEW w \in Views PROVE StampRule(w)'
  <2>1. CASE M2ts
    <3> DEFINE D == Makes(w)
               E == Ops("stamp", w)
               N == Ops("rest", w)
    <3>1. PICK q : EndOrder(q, D, E, N)
      BY <1>2
    <3>2. /\ \A op \in {"stamp", "rest", "heldOut", "wait", "close", "verdict"} :
               Step(op, "main") \notin D /\ (HasSub => Step(op, "sub") \notin D)
          /\ \A op \in {"heldOut", "wait", "close", "verdict"} :
               Step(op, "main") \notin N /\ (HasSub => Step(op, "sub") \notin N)
          /\ Step("rest", "main") \in N <=> w = "main"
          /\ Step("stamp", "main") \in E <=> w = "main"
          /\ Step("stamp", "main") \notin N
      BY <1>3, StepKinds
    <3>3. HasSub => /\ Step("rest", "sub") \in N <=> w = "sub"
                    /\ Step("stamp", "sub") \in E <=> w = "sub"
                    /\ Step("stamp", "sub") \notin N
      BY <1>3, StepKinds
    <3>4. /\ End \notin N
          /\ Ordered(<<End>>, D, E, N) /\ ~Exposed(<<End>>, E, N)
      BY <1>4, EndRule
    <3> HIDE DEF D, E, N
    <3>5. Ordered(Plan', D, E, N) /\ ~Exposed(Plan', E, N)
      BY <2>1, <3>1, <3>2, <3>3, <3>4 DEF EndOrder, Behind
    <3>. QED  BY <3>5 DEF StampRule, D, E, N
  <2>. QED  BY <2>1 DEF StampRule
<1>6. ASSUME NEW D, NEW E, NEW N,
             \A op \in {"stamp", "rest", "heldOut", "wait", "close", "verdict"} :
               Step(op, "main") \notin N /\ (HasSub => Step(op, "sub") \notin N),
             End \notin N
      PROVE  Ordered(Plan', D, E, N) /\ ~Exposed(Plan', E, N)
  <2>1. PICK q : EndOrder(q, D, E, N)
    BY <1>2
  <2>2. Ordered(<<End>>, D, E, N) /\ ~Exposed(<<End>>, E, N)
    BY <1>6, EndRule
  <2>. QED  BY <1>6, <2>1, <2>2 DEF EndOrder, Behind
<1>7. ASSUME NEW w \in Views PROVE CleanRule(w)' /\ FinishRule(w)'
  <2>1. \A op \in {"stamp", "rest", "heldOut", "wait", "close", "verdict"} :
          /\ Step(op, "main") \notin Ops("next", w) /\ Step(op, "main") \notin Finishes(w)
          /\ HasSub => Step(op, "sub") \notin Ops("next", w) /\ Step(op, "sub") \notin Finishes(w)
    BY <1>3, StepKinds
  <2>. QED  BY <1>4, <1>6, <2>1 DEF CleanRule, FinishRule
<1>8. HeldRule' /\ PutsFirst'
  <2>1. \A op \in {"stamp", "rest", "heldOut", "wait", "close", "verdict"} :
          /\ Step(op, "main") \notin Ops("next", "main") /\ Step(op, "main") \notin Puts
          /\ HasSub => Step(op, "sub") \notin Ops("next", "main") /\ Step(op, "sub") \notin Puts
    BY <1>3, StepKinds
  <2>. QED  BY <1>4, <1>6, <2>1 DEF HeldRule, PutsFirst
<1>9. BothRule'
  <2>1. CASE HasSub
    <3>1. \A op \in {"stamp", "rest", "heldOut", "wait", "close", "verdict"} :
            /\ Step(op, "main") \notin DoneOf(Second) /\ Step(op, "sub") \notin DoneOf(Second)
      BY <1>3, <2>1, StepKinds
    <3>. QED  BY <1>4, <1>6, <3>1 DEF BothRule
  <2>. QED  BY <2>1 DEF BothRule
<1>10. ASSUME NEW w \in Views PROVE ServedRule(w)'
  <2> DEFINE D == Ops("blockDone", w)
             E == Ops("packet", w) \cup Finishes(w)
             N == Switches \cup {End}
  <2>1. PICK q : EndOrder(q, D, E, N)
    BY <1>2
  <2>2. \A op \in {"stamp", "rest", "heldOut", "wait", "close", "verdict"} :
          Step(op, "main") \notin D /\ (HasSub => Step(op, "sub") \notin D)
    BY <1>3, StepKinds
  <2>3. Ordered(<<End>>, D, E, N)
    BY EndRule
  <2>4. given'[w] > 0 => processed'[w] > 0
    BY <1>1, BetweenCalls
  <2> HIDE DEF D, E, N
  <2>5. Ordered(Plan', D, E, N)
    BY <2>1, <2>2, <2>3 DEF EndOrder, Behind
  <2>. QED  BY <2>4, <2>5 DEF ServedRule, D, E, N
<1>11. ASSUME NEW w \in Views PROVE OpenRule(w)'
  <2> DEFINE D == Ops("close", w)
             E == {}
             N == Uses(w)'
  <2>1. PICK q : EndOrder(q, D, E, N)
    BY <1>2
  <2>2. N = (Steps \ Closing) \cup Ops("close", w)
    BY <1>1 DEF Uses
  <2>3. /\ \A op \in {"stamp", "rest", "heldOut", "wait", "verdict"} :
             Step(op, "main") \notin D /\ (HasSub => Step(op, "sub") \notin D)
        /\ \A op \in {"wait", "verdict"} : Step(op, "main") \notin N
        /\ Step("close", "main") \in D <=> w = "main"
        /\ Step("close", "main") \in N <=> w = "main"
    BY <1>3, <2>2, StepKinds
  <2>4. HasSub => /\ Step("close", "sub") \in D <=> w = "sub"
                  /\ Step("close", "sub") \in N <=> w = "sub"
    BY <1>3, <2>2, StepKinds
  <2>5. End \notin N
    BY <1>4, <2>2
  <2>6. Ordered(<<End>>, D, E, N) /\ ~Exposed(<<End>>, E, N)
    BY <2>5, EndRule
  <2>7. (File(w) \in open)'
    BY <1>1, BetweenCalls DEF File, Part
  <2> HIDE DEF D, E, N
  <2>8. Ordered(Plan', D, E, N)
    BY <2>1, <2>3, <2>4, <2>6 DEF EndOrder, Behind
  <2>. QED  BY <2>7, <2>8 DEF OpenRule, D, E, N
<1>12. IdleRule'
  <2> DEFINE D == Steps \ Closing
             E == Ops("wait", "main")
             N == Closes
  <2>1. PICK q : EndOrder(q, D, E, N)
    BY <1>2
  <2>2. /\ \A op \in {"stamp", "rest", "heldOut", "wait", "verdict"} :
             Step(op, "main") \notin N /\ (HasSub => Step(op, "sub") \notin N)
        /\ \A op \in {"wait", "verdict", "close"} :
             Step(op, "main") \notin D /\ (HasSub => Step(op, "sub") \notin D)
        /\ Step("wait", "main") \in E
    BY <1>3, StepKinds
  <2>3. Ordered(<<End>>, D, E, N) /\ ~Exposed(<<End>>, E, N)
    BY <1>4, EndRule
  <2> HIDE DEF D, E, N
  <2>4. Ordered(Plan', D, E, N) /\ ~Exposed(Plan', E, N)
    BY <2>1, <2>2, <2>3 DEF EndOrder, Behind
  <2>. QED  BY <2>4 DEF IdleRule, D, E, N
<1>13. FinishViews'
  <2>1. PICK S \in SUBSET Steps : todo' \in Seq(S) /\ \A s \in S : s.op # "finish"
    BY EndChain
  <2>. QED  BY <2>1, NoFinish
<1>. QED  BY <1>5, <1>7, <1>8, <1>9, <1>10, <1>11, <1>12, <1>13 DEF PlanInv

-----------------------------------------------------------------------------
(* The plan is kept *)

(* What the writer and its destructor do is no matter of the plan, but for *)
(* the queue, which they only make shorter.                                *)
LEMMA PlanSame ==
  ASSUME PlanInv, UNCHANGED <<viewVars, partVars, holdVars, todo, endVars>>,
         queue = <<>> => queue' = <<>>
  PROVE  PlanInv'
<1> SUFFICES ASSUME result = "running" PROVE PlanInv'
  BY DEF PlanInv
<1> USE DEF Rule
<1>1. Plan' = Plan
  BY DEF Plan
<1>2. ASSUME NEW v \in Views
      PROVE  StampRule(v)' /\ CleanRule(v)' /\ ServedRule(v)' /\ FinishRule(v)' /\ OpenRule(v)'
  <2>1. /\ Stamped(v)' = Stamped(v) /\ Clean(v)' = Clean(v) /\ File(v)' = File(v)
        /\ Uses(v)' = Uses(v)
    BY DEF Stamped, Clean, File, Part, Uses
  <2>2. StampRule(v)' /\ CleanRule(v)'
    BY <1>1, <1>2, <2>1 DEF PlanInv, StampRule, CleanRule
  <2>3. ServedRule(v)' /\ FinishRule(v)'
    BY <1>1, <1>2 DEF PlanInv, ServedRule, FinishRule
  <2>4. OpenRule(v)'
    BY <1>1, <1>2, <2>1 DEF PlanInv, OpenRule
  <2>. QED  BY <2>2, <2>3, <2>4
<1>3. HeldRule' /\ BothRule' /\ PutsFirst' /\ IdleRule' /\ FinishViews'
  BY <1>1 DEF PlanInv, HeldRule, BothRule, PutsFirst, IdleRule, FinishViews
<1>. QED  BY <1>2, <1>3 DEF PlanInv

(* At the start nothing is planned.                                        *)
LEMMA InitPlan == Init => PlanInv
<1> SUFFICES ASSUME Init PROVE PlanInv
  OBVIOUS
<1> USE DEF Rule
<1>1. Plan = <<End>>
  BY PlanOver DEF Init
<1>2. /\ End \notin Puts /\ End \notin Closes
      /\ \A w, o : End \notin Ops(o, w)
      /\ \A w : End \notin Finishes(w) /\ End \notin DoneOf(w)
  <2>1. End \notin Steps
    BY DEF End, Steps
  <2>. QED  BY <2>1 DEF Puts, Ops, Finishes, DoneOf, Closes
<1>3. ASSUME NEW v \in Views
      PROVE  StampRule(v) /\ CleanRule(v) /\ ServedRule(v) /\ FinishRule(v) /\ OpenRule(v)
  <2>1. StampRule(v) /\ CleanRule(v) /\ FinishRule(v)
    BY <1>1, <1>2, EndRule DEF StampRule, CleanRule, FinishRule
  <2>2. ServedRule(v)
    <3>1. ~(given[v] > 0)
      BY <1>3 DEF Init
    <3>. QED  BY <1>1, <3>1, EndRule DEF ServedRule
  <2>3. OpenRule(v)
    <3>1. File(v) \in open
      <4>1. Len(firstOf[v]) = 1 /\ open = {<<w, 1>> : w \in Views}
        BY <1>3 DEF Init
      <4>. QED  BY <1>3, <4>1 DEF File, Part
    <3>. QED  BY <1>1, <3>1, EndRule DEF OpenRule
  <2>. QED  BY <2>1, <2>2, <2>3
<1>4. HeldRule /\ BothRule /\ PutsFirst /\ IdleRule
  BY <1>1, <1>2, EndRule DEF HeldRule, BothRule, PutsFirst, IdleRule
<1>5. FinishViews
  <2>1. todo = <<>> /\ Len(todo) = 0
    BY DEF Init
  <2>. QED  BY <2>1 DEF FinishViews
<1>. QED  BY <1>3, <1>4, <1>5 DEF PlanInv

(* Every step keeps the plan.                                              *)
LEMMA NextPlan ==
  ASSUME ~LateSub, TypeOK, WriterInv, PlaceInv, PlanInv, [Next]_vars
  PROVE  PlanInv'
<1>1. CASE result # "running"
  <2>1. result' # "running"
    BY <1>1 DEF Next, vars, WriterInv, JobOver, MuxPacket, Stop, EndOfSources, MuxStep, At,
       SwitchBlock, AddPacket, Stamp, FlushRest, PutBlock, FinishFileBlock, MuxBlockFinished,
       FlushTSBuffer, GotoNextFile, HeldOut, WaitForWriting, CloseMuxer, Verdict, WriterThread,
       WriterTest, WriterPeek, WriterExecute, WriterPop, TearDown, Terminate, PushSentinel,
       Join, Drain, DestroyMuxers, AllDone
  <2>. QED  BY <2>1 DEF PlanInv
<1>2. CASE result = "running"
  <2>1. ASSUME NEW v \in Views, MuxPacket(v) PROVE PlanInv'
    BY <2>1, MuxPacketPlan
  <2>2. CASE Stop \/ Verdict
    <3>1. result' # "running"
      BY <2>2 DEF Stop, Verdict
    <3>. QED  BY <3>1 DEF PlanInv
  <2>3. CASE EndOfSources
    BY <2>3, EndOfSourcesPlan
  <2>4. CASE MuxStep
    BY <1>2, <2>2, <2>4, SwitchBlockPlan, AddPacketPlan, StampPlan, FlushRestPlan, PutBlockPlan,
       FinishFileBlockPlan, MuxBlockFinishedPlan, FlushTSBufferPlan, GotoNextFilePlan,
       HeldOutPlan, WaitForWritingPlan, CloseMuxerPlan DEF MuxStep
  <2>5. CASE WriterThread
    <3>1. UNCHANGED muxVars /\ (queue' = queue \/ queue # <<>>)
      <4>1. WriterPop => queue # <<>>
        BY DEF WriterPop, WriterInv, IdleMeansIdle
      <4>. QED  BY <2>5, <4>1 DEF WriterThread, WriterTest, WriterPeek, WriterExecute, WriterPop
    <3>. QED  BY <3>1, PlanSame
  <2>6. CASE TearDown
    <3>1. FALSE
      BY <1>2, <2>6 DEF WriterInv, TearDownAfterJob, TearDown, Terminate, PushSentinel, Join, Drain,
         DestroyMuxers
    <3>. QED  BY <3>1
  <2>7. CASE UNCHANGED vars
    BY <2>7, PlanSame DEF vars
  <2>. QED  BY <2>1, <2>2, <2>3, <2>4, <2>5, <2>6, <2>7 DEF Next, AllDone
<1>. QED  BY <1>1, <1>2

-----------------------------------------------------------------------------
(* Blocks go to the parts they belong to *)

(* The next step needs what its rule says.                                 *)
LEMMA HeadExposed ==
  ASSUME TypeOK, todo # <<>>, NEW E, NEW N, Head(todo) \in N
  PROVE  Exposed(Plan, E, N)
<1>1. /\ Head(todo) \in PlanSteps /\ Rest \in Seq(PlanSteps)
      /\ Plan = <<Head(todo)>> \o Rest
  BY PlanIsHeadAndRest
<1>2. Exposed(<<Head(todo)>> \o Rest, E, N) <=>
        (Head(todo) \in N \/ (Head(todo) \notin E /\ Exposed(Rest, E, N)))
  BY <1>1, ConsRule
<1>. QED  BY <1>1, <1>2

(* The file of a view is open while there is anything to do with it.       *)
LEMMA FileInUse ==
  ASSUME TypeOK, PlanInv, result = "running", todo # <<>>, NEW v \in Views,
         Head(todo) \notin Closing \/ Head(todo) \in Ops("close", v)
  PROVE  File(v) \in open
<1>1. Head(todo) \in Uses(v)
  BY HeadOfTodo DEF Uses
<1>. QED  BY <1>1, HeadExposed DEF PlanInv, OpenRule, Rule

(* Blocks are put out before any other step.                               *)
LEMMA NoPutsLeft ==
  ASSUME TypeOK, PlanInv, result = "running", todo # <<>>, Head(todo) \notin Puts
  PROVE  \A k \in 1..Len(todo) : todo[k] \notin Puts
<1>1. todo \in Seq(Steps) /\ Len(todo) \in Nat
  BY LenProperties DEF TypeOK
<1>2. /\ Len(Plan) = Len(todo) + 1
      /\ \A i \in 1..Len(todo) : Plan[i] = todo[i]
  BY <1>1, AppendProperties DEF Plan
<1>3. Ordered(Plan, Steps \ Puts, {}, Puts)
  BY DEF PlanInv, PutsFirst
<1>4. 1 \in 1..Len(todo) /\ todo[1] \in Steps \ Puts
  BY HeadOfTodo, HeadIsFirst
<1>5. ASSUME NEW k \in 1..Len(todo), todo[k] \in Puts PROVE FALSE
  <2>1. 1 \in 1..Len(Plan) /\ k \in 1..Len(Plan) /\ 1 < k /\ Plan[1] = todo[1] /\ Plan[k] = todo[k]
    BY <1>1, <1>2, <1>4, <1>5
  <2>. QED  BY <1>3, <1>4, <1>5, <2>1 DEF Ordered
<1>. QED  BY <1>5

(* What is left to do are the steps put in and the rest.                   *)
LEMMA StepsOfTodo ==
  ASSUME TypeOK, todo # <<>>, NEW steps \in Seq(Steps), Then(steps)
  PROVE  \A k \in 1..Len(todo') :
           \/ k \in 1..Len(steps) /\ todo'[k] = steps[k]
           \/ \E i \in 1..Len(todo) : todo'[k] = todo[i]
<1>1. /\ Tail(todo) \in Seq(Steps) /\ todo' = steps \o Tail(todo)
      /\ \A i \in 1..Len(Tail(todo)) : i + 1 \in 1..Len(todo) /\ Tail(todo)[i] = todo[i + 1]
  <2>1. todo \in Seq(Steps) /\ Len(todo) \in Nat
    BY LenProperties DEF TypeOK
  <2>. QED  BY <2>1, HeadTailProperties DEF Then
<1>2. TAKE k \in 1..Len(todo')
<1>3. \/ k \in 1..Len(steps) /\ todo'[k] = steps[k]
      \/ k - Len(steps) \in 1..Len(Tail(todo)) /\ todo'[k] = Tail(todo)[k - Len(steps)]
  BY <1>1, JoinedSteps
<1>. QED  BY <1>1, <1>3

PutsHere == \A k \in 1..Len(todo) : todo[k] \in Puts =>
  Here(todo[k].blk) /\ todo[k].blk.view = todo[k].view
DelayedHere ==
  \A v \in Views : \A i \in 1..Len(delayBlk[v]) : Here(delayBlk[v][i]) /\ delayBlk[v][i].view = v
HeldHere == \A i \in 1..Len(held) : Here(held[i]) /\ held[i].view = "main"
QueueOpen ==
  \A i \in 1..Len(queue) : queue[i] # Sentinel => <<queue[i].view, queue[i].part>> \in open

(* No block to put out is put in.                                          *)
LEMMA PutsHereKept ==
  ASSUME TypeOK, todo # <<>>, NEW steps \in Seq(Steps), Then(steps), PutsHere,
         firstOf' = firstOf,
         \A k \in 1..Len(steps) : steps[k] \in Puts =>
           Here(steps[k].blk) /\ steps[k].blk.view = steps[k].view
  PROVE  PutsHere'
<1>1. ASSUME NEW k \in 1..Len(todo'), todo'[k] \in Puts
      PROVE  Here(todo'[k].blk) /\ todo'[k].blk.view = todo'[k].view
  BY <1>1, StepsOfTodo DEF PutsHere
<1>2. \A b : Here(b)' <=> Here(b)
  BY DEF Here, Part
<1>. QED  BY <1>1, <1>2 DEF PutsHere, Here, Part, Puts

(* A call that has only begun puts no block out.                           *)
LEMMA NoPutsHere ==
  ASSUME PlaceInv, result = "running", NEW S, todo' \in Seq(S), \A s \in S : s \notin Puts,
         UNCHANGED <<delayBlk, firstOf, open, held, finished, queue, lost>>
  PROVE  PlaceInv'
<1>1. \A k \in 1..Len(todo') : todo'[k] \notin Puts
  BY ElementOfSeq
<1>2. Puts' = Puts
  BY DEF Puts
<1>3. BlocksHere'
  BY <1>1, <1>2 DEF PlaceInv, BlocksHere, Here, Part
<1>. QED  BY <1>3 DEF PlaceInv

(* What makes the places of the blocks, part by part.                      *)
LEMMA PlaceParts ==
  PlaceInv <=>
    /\ result = "running" => PutsHere /\ DelayedHere /\ HeldHere
    /\ finished \subseteq {Switcher}
    /\ ~M2ts => \A v \in Views : delayBlk[v] = <<>>
    /\ ~Interleave => held = <<>>
    /\ QueueOpen /\ lost = {}
BY DEF PlaceInv, BlocksHere, PutsHere, DelayedHere, HeldHere, QueueOpen

(* The block that a view would make now is one of its current part.        *)
LEMMA BlockHere ==
  ASSUME NEW v \in Views, NEW to
  PROVE  Here(Block(v, to)) /\ Block(v, to).view = v /\ <<Block(v, to).view, Block(v, to).part>> = File(v)
BY DEF Here, Block, File

(* The calls.                                                              *)
LEMMA CallsPlace ==
  ASSUME TypeOK, PlaceInv, result = "running",
         (\E v \in Views : MuxPacket(v)) \/ Stop \/ EndOfSources
  PROVE  PlaceInv'
<1>1. ASSUME NEW v \in Views, MuxPacket(v) PROVE PlaceInv'
  <2> DEFINE S == {Step("packet", v), Step("stamp", v), Step("switch", v)}
  <2>1. /\ <<Step("packet", v)>> \in Seq(S) /\ <<Step("stamp", v)>> \in Seq(S) /\ <<>> \in Seq(S)
        /\ <<Step("switch", v), Step("packet", v)>> \in Seq(S)
    OBVIOUS
  <2>2. Tables(v) \in Seq(S)
    BY <2>1, ConcatProperties DEF Tables, IfAny
  <2>3. IfAny(given[v] = 0, Tables(v)) \in Seq(S)
    BY <2>1, <2>2 DEF IfAny
  <2>4. \A s \in S : s \notin Puts
    BY StepKinds
  <2> HIDE DEF S
  <2>5. todo' \in Seq(S)
    BY <1>1, <2>1, <2>3, ConcatProperties DEF MuxPacket
  <2>6. UNCHANGED <<delayBlk, firstOf, open, held, finished, queue, lost>>
    BY <1>1 DEF MuxPacket
  <2>. QED  BY <2>4, <2>5, <2>6, NoPutsHere
<1>2. CASE Stop
  <2>1. /\ UNCHANGED <<delayBlk, firstOf, open, held, finished, queue, lost>>
        /\ result' # "running"
    BY <1>2 DEF Stop
  <2>. QED  BY <2>1 DEF PlaceInv
<1>3. CASE EndOfSources
  <2>1. PICK S \in SUBSET Steps : todo' \in Seq(S) /\ \A s \in S : s.op # "finish" /\ s \notin Puts
    BY <1>3, EndChain
  <2>2. UNCHANGED <<delayBlk, firstOf, open, held, finished, queue, lost>>
    BY <1>3 DEF EndOfSources
  <2>. QED  BY <2>1, <2>2, NoPutsHere
<1>. QED  BY <1>1, <1>2, <1>3

(* The steps that put no block out and move none.                          *)
LEMMA QuietPlace ==
  ASSUME TypeOK, PlaceInv, PlanInv, result = "running",
         SwitchBlock \/ FinishFileBlock \/ WaitForWriting \/ Verdict
  PROVE  PlaceInv'
<1>1. UNCHANGED <<delayBlk, firstOf, open, held, finished, queue, lost>>
  BY DEF SwitchBlock, FinishFileBlock, WaitForWriting, Verdict
<1>2. CASE Verdict
  <2>1. result' # "running"
    BY <1>2 DEF Verdict
  <2>. QED  BY <1>1, <2>1 DEF PlaceInv
<1>3. CASE ~Verdict
  <2>1. todo # <<>> /\ Head(todo).view \in Views
    BY <1>3, HeadOfTodo DEF SwitchBlock, FinishFileBlock, WaitForWriting, At
  <2>2. PICK steps \in Seq(Steps) : Then(steps) /\ \A k \in 1..Len(steps) : steps[k] \notin Puts
    <3>1. CASE WaitForWriting
      BY <3>1, NoSteps DEF WaitForWriting
    <3>2. CASE FinishFileBlock
      BY <3>2, FinishSequel
    <3>3. CASE SwitchBlock
      <4>v. PICK v \in Views : v = Head(todo).view
        BY <2>1
      <4>1. ASSUME NEW c \in BOOLEAN
            PROVE  /\ <<Finish(v, c, TRUE)>> \in Seq(Steps)
                   /\ \A k \in 1..Len(<<Finish(v, c, TRUE)>>) : <<Finish(v, c, TRUE)>>[k] \notin Puts
        <5> DEFINE x == Finish(v, c, TRUE)
        <5>1. x \in Steps /\ x \notin Puts
          BY FinishKinds
        <5> HIDE DEF x
        <5>2. <<x>> \in Seq(Steps) /\ Len(<<x>>) = 1 /\ <<x>>[1] = x /\ \A k \in 1..1 : k = 1
          BY <5>1
        <5>3. \A k \in 1..Len(<<x>>) : <<x>>[k] \notin Puts
          BY <5>1, <5>2
        <5>. QED  BY <5>2, <5>3 DEF x
      <4>2. /\ Tables(v) \in Seq(Steps)
            /\ \A k \in 1..Len(Tables(v)) : Tables(v)[k] \notin Puts
        <5> DEFINE S == {Step("packet", v), Step("stamp", v)}
        <5>1. <<Step("packet", v)>> \in Seq(S) /\ <<Step("stamp", v)>> \in Seq(S) /\ <<>> \in Seq(S)
          OBVIOUS
        <5>2. Tables(v) \in Seq(S)
          BY <5>1, ConcatProperties DEF Tables, IfAny
        <5>3. \A s \in S : s \notin Puts
          BY StepKinds
        <5> HIDE DEF S
        <5>. QED  BY <5>2, <5>3, TablesType, ElementOfSeq
      <4>3. (\E c \in BOOLEAN : Then(<<Finish(v, c, TRUE)>>)) \/ Then(Tables(v)) \/ Then(<<>>)
        BY <3>3, <4>v DEF SwitchBlock
      <4>. QED  BY <4>1, <4>2, <4>3, NoSteps
    <3>. QED  BY <1>3, <3>1, <3>2, <3>3
  <2>3. PutsHere'
    BY <1>1, <2>1, <2>2, PutsHereKept, PlaceParts
  <2>4. DelayedHere' /\ HeldHere' /\ QueueOpen'
    BY <1>1, PlaceParts DEF DelayedHere, HeldHere, QueueOpen, Here, Part
  <2>. QED  BY <1>1, <2>3, <2>4, PlaceParts DEF PlaceInv, BlocksHere, PutsHere, DelayedHere, HeldHere, QueueOpen
<1>. QED  BY <1>2, <1>3

(* The parts of what is to be shown after a step.                          *)
LEMMA PlaceKept ==
  ASSUME result' = "running" => PutsHere' /\ DelayedHere' /\ HeldHere',
         finished' \subseteq {Switcher}, ~M2ts => \A v \in Views : delayBlk'[v] = <<>>,
         ~Interleave => held' = <<>>, QueueOpen', lost' = {}
  PROVE  PlaceInv'
BY DEF PlaceInv, BlocksHere, PutsHere, DelayedHere, HeldHere, QueueOpen

(* A full block leaves m_outBuf.                                           *)
LEMMA AddPacketPlace ==
  TypeOK /\ PlaceInv /\ result = "running" /\ AddPacket => PlaceInv'
<1> SUFFICES ASSUME TypeOK, PlaceInv, result = "running", AddPacket PROVE PlaceInv'
  OBVIOUS
<1>0. todo # <<>> /\ Head(todo).op = "packet" /\ Head(todo).view \in Views
  BY HeadOfTodo DEF AddPacket, At
<1>v. PICK v \in Views : v = Head(todo).view
  BY <1>0
<1>n. PICK n \in Nat : n = made[v] + 1
  BY DEF TypeOK
<1>b. PICK b \in Blocks : b = Block(v, n)
  BY BlockType
<1>c. PICK c \in BOOLEAN : c <=> n - sent[v] = BlockLimit /\ MayGoOut(v, n)
  OBVIOUS
<1> DEFINE steps == IfAny(c, <<PutStep("put", b)>>)
<1>1. /\ Then(steps)
      /\ \/ delayBlk' = [delayBlk EXCEPT ![v] = Append(@, b)] /\ ~MayGoOut(v, n)
         \/ delayBlk' = delayBlk
      /\ UNCHANGED <<firstOf, open, held, finished, queue, lost, result>>
  <2>1. Then(IfAny(n - sent[v] = BlockLimit /\ MayGoOut(v, n), <<PutStep("put", b)>>))
    BY <1>v, <1>n, <1>b DEF AddPacket
  <2>2. Then(steps)
    BY <1>c, <2>1 DEF IfAny
  <2>. QED  BY <1>v, <1>n, <1>b, <2>2 DEF AddPacket
<1>2. Here(b) /\ b.view = v
  BY <1>b, BlockHere
<1>3. PutsHere'
  <2>1. /\ steps \in Seq(Steps)
        /\ \A k \in 1..Len(steps) : /\ steps[k] \in Puts /\ steps[k] \in Ops("put", b.view)
                                    /\ steps[k].blk = b
    BY OnePut
  <2>2. \A k \in 1..Len(steps) : Here(steps[k].blk) /\ steps[k].blk.view = steps[k].view
    BY <1>2, <2>1 DEF Ops
  <2>3. PutsHere
    BY PlaceParts
  <2> HIDE DEF steps
  <2>. QED  BY <1>0, <1>1, <2>1, <2>2, <2>3, PutsHereKept
<1>4. DelayedHere'
  <2>1. \A x : Here(x)' <=> Here(x)
    BY <1>1 DEF Here, Part
  <2>2. DelayedHere /\ delayBlk \in [Views -> Seq(Blocks)]
    BY PlaceParts DEF TypeOK
  <2>3. ASSUME NEW w \in Views, NEW i \in 1..Len(delayBlk'[w])
        PROVE  Here(delayBlk'[w][i]) /\ delayBlk'[w][i].view = w
    <3>1. CASE delayBlk'[w] = delayBlk[w]
      BY <2>2, <2>3, <3>1 DEF DelayedHere
    <3>2. CASE w = v /\ delayBlk'[w] = Append(delayBlk[w], b)
      <4>1. delayBlk[w] \in Seq(Blocks) /\ Len(delayBlk[w]) \in Nat
        BY <2>2, LenProperties
      <4>2. \/ i \in 1..Len(delayBlk[w]) /\ delayBlk'[w][i] = delayBlk[w][i]
            \/ delayBlk'[w][i] = b
        BY <3>2, <4>1, AppendProperties
      <4>. QED  BY <1>2, <2>2, <3>2, <4>2 DEF DelayedHere
    <3>. QED  BY <1>1, <2>2, <3>1, <3>2
  <2>. QED  BY <2>1, <2>3 DEF DelayedHere, Here, Part
<1>5. HeldHere' /\ QueueOpen'
  BY <1>1, PlaceParts DEF HeldHere, QueueOpen, Here, Part
<1>6. ~M2ts => \A w \in Views : delayBlk'[w] = <<>>
  BY <1>1 DEF PlaceInv, MayGoOut
<1>. QED  BY <1>1, <1>3, <1>4, <1>5, <1>6, PlaceKept DEF PlaceInv

(* The blocks that waited for their arrival times go out.                  *)
LEMMA StampPlace ==
  TypeOK /\ PlaceInv /\ result = "running" /\ Stamp => PlaceInv'
<1> SUFFICES ASSUME TypeOK, PlaceInv, result = "running", Stamp PROVE PlaceInv'
  OBVIOUS
<1>0. todo # <<>> /\ Head(todo).view \in Views
  BY HeadOfTodo DEF Stamp, At
<1>v. PICK v \in Views : v = Head(todo).view
  BY <1>0
<1> DEFINE steps == PutAll("put", delayBlk[v])
<1>1. /\ Then(steps) /\ delayBlk' = [delayBlk EXCEPT ![v] = <<>>]
      /\ UNCHANGED <<firstOf, open, held, finished, queue, lost, result>>
  BY <1>v DEF Stamp
<1>2. delayBlk[v] \in Seq(Blocks) /\ delayBlk \in [Views -> Seq(Blocks)]
  BY DEF TypeOK
<1>3. PutsHere /\ DelayedHere
  BY PlaceParts
<1>4. PutsHere'
  <2>1. /\ steps \in Seq(Steps) /\ Len(steps) = Len(delayBlk[v])
        /\ \A k \in 1..Len(steps) : /\ steps[k] \in Ops("put", delayBlk[v][k].view)
                                    /\ steps[k].blk = delayBlk[v][k]
    BY <1>2, PutAllPuts
  <2> HIDE DEF steps
  <2>2. \A k \in 1..Len(steps) : Here(steps[k].blk) /\ steps[k].blk.view = steps[k].view
    BY <1>3, <2>1 DEF Ops, DelayedHere
  <2>. QED  BY <1>0, <1>1, <1>3, <2>1, <2>2, PutsHereKept
<1>5. DelayedHere'
  <2>1. ASSUME NEW w \in Views, NEW i \in 1..Len(delayBlk'[w])
        PROVE  Here(delayBlk'[w][i]) /\ delayBlk'[w][i].view = w
    <3>1. CASE w = v
      <4>1. delayBlk'[w] = <<>> /\ Len(<<>>) = 0 /\ 1..0 = {}
        BY <1>1, <1>2, <3>1
      <4>. QED  BY <2>1, <4>1
    <3>2. CASE w # v
      BY <1>1, <1>2, <1>3, <2>1, <3>2 DEF DelayedHere
    <3>. QED  BY <3>1, <3>2
  <2>. QED  BY <1>1, <2>1 DEF DelayedHere, Here, Part
<1>6. HeldHere' /\ QueueOpen'
  BY <1>1, PlaceParts DEF HeldHere, QueueOpen, Here, Part
<1>7. ~M2ts => \A w \in Views : delayBlk'[w] = <<>>
  BY <1>1, <1>2 DEF PlaceInv
<1>. QED  BY <1>1, <1>4, <1>5, <1>6, <1>7, PlaceKept DEF PlaceInv

(* The end of doFlush.                                                     *)
LEMMA FlushRestPlace ==
  TypeOK /\ PlaceInv /\ result = "running" /\ FlushRest => PlaceInv'
<1> SUFFICES ASSUME TypeOK, PlaceInv, result = "running", FlushRest PROVE PlaceInv'
  OBVIOUS
<1>0. todo # <<>> /\ Head(todo).view \in Views
  BY HeadOfTodo DEF FlushRest, At
<1>v. PICK v \in Views : v = Head(todo).view
  BY <1>0
<1>1. PICK to \in Nat : Then(<<PutStep("put", Block(v, to))>>)
  <2>1. made[v] \in Nat /\ sent[v] \in Nat
    BY DEF TypeOK
  <2>. QED  BY <1>v, <2>1 DEF FlushRest
<1>b. PICK b \in Blocks : b = Block(v, to)
  BY BlockType
<1>2. Here(b) /\ b.view = v
  BY <1>b, BlockHere
<1>3. UNCHANGED <<delayBlk, firstOf, open, held, finished, queue, lost, result>>
  BY DEF FlushRest
<1>4. PutsHere'
  <2> DEFINE steps == IfAny(TRUE, <<PutStep("put", b)>>)
  <2>1. /\ steps \in Seq(Steps)
        /\ \A k \in 1..Len(steps) : /\ steps[k] \in Puts /\ steps[k] \in Ops("put", b.view)
                                    /\ steps[k].blk = b
    BY OnePut
  <2>2. \A k \in 1..Len(steps) : Here(steps[k].blk) /\ steps[k].blk.view = steps[k].view
    BY <1>2, <2>1 DEF Ops
  <2>3. PutsHere
    BY PlaceParts
  <2>4. Then(steps)
    BY <1>1, <1>b DEF IfAny
  <2> HIDE DEF steps
  <2>. QED  BY <1>0, <1>3, <2>1, <2>2, <2>3, <2>4, PutsHereKept
<1>5. HeldHere' /\ QueueOpen' /\ DelayedHere'
  BY <1>3, PlaceParts DEF HeldHere, QueueOpen, DelayedHere, Here, Part
<1>. QED  BY <1>3, <1>4, <1>5, PlaceKept DEF PlaceInv

(* A block is queued for a file that is open, or held back.                *)
LEMMA PutBlockPlace ==
  TypeOK /\ PlaceInv /\ PlanInv /\ result = "running" /\ PutBlock => PlaceInv'
<1> SUFFICES ASSUME TypeOK, PlaceInv, PlanInv, result = "running", PutBlock PROVE PlaceInv'
  OBVIOUS
<1>1. todo # <<>> /\ Head(todo).op \in {"put", "queue"} /\ Head(todo) \in Steps /\ Head(todo).view \in Views
  BY HeadOfTodo DEF PutBlock, At
<1>b. PICK b \in Blocks : b = Head(todo).blk
  BY <1>1, StepCarries
<1>2. Here(b) /\ b.view = Head(todo).view /\ b.view \in Views /\ <<b.view, b.part>> = File(b.view)
  <2>1. Head(todo) \in Puts
    BY <1>1 DEF Puts
  <2>. QED  BY <1>1, <1>b, <2>1, HeadIsFirst DEF PlaceInv, BlocksHere, Here, File
<1>3. <<b.view, b.part>> \in open
  <2>1. Head(todo) \notin Closing
    BY <1>1 DEF Closing
  <2>. QED  BY <1>1, <1>2, <2>1, FileInUse
<1>4. /\ UNCHANGED <<delayBlk, firstOf, open, finished, lost>>
      /\ \/ Then(<<>>) /\ result' = result
         \/ result' # "running"
      /\ queue' = queue \/ queue' = Append(queue, b)
      /\ held' = held \/ (held' = Append(held, b) /\ HeldBack(b.view))
  BY <1>b DEF PutBlock, AsyncWriteBuffer, AsyncWriteBlock, Throw
<1>5. QueueOpen'
  <2>1. QueueOpen /\ queue \in Seq(Blocks \cup {Sentinel}) /\ Len(queue) \in Nat
    BY PlaceParts, LenProperties DEF TypeOK
  <2>2. CASE queue' = queue
    BY <1>4, <2>1, <2>2 DEF QueueOpen
  <2>3. CASE queue' = Append(queue, b)
    <3>1. \A i \in 1..Len(queue') : (i \in 1..Len(queue) /\ queue'[i] = queue[i]) \/ queue'[i] = b
      BY <2>1, <2>3, AppendProperties
    <3>. QED  BY <1>3, <1>4, <2>1, <3>1 DEF QueueOpen
  <2>. QED  BY <1>4, <2>2, <2>3
<1>6. result' = "running" => PutsHere' /\ DelayedHere' /\ HeldHere'
  <2> SUFFICES ASSUME result' = "running" PROVE PutsHere' /\ DelayedHere' /\ HeldHere'
    OBVIOUS
  <2>1. PutsHere'
    <3>1. PutsHere
      BY PlaceParts
    <3>. QED  BY <1>1, <1>4, <3>1, NoSteps, PutsHereKept
  <2>2. DelayedHere'
    BY <1>4, PlaceParts DEF DelayedHere, Here, Part
  <2>3. HeldHere'
    <3>1. HeldHere /\ held \in Seq(Blocks) /\ Len(held) \in Nat
      BY PlaceParts, LenProperties DEF TypeOK
    <3>2. HeldBack(b.view) => b.view = "main"
      BY DEF HeldBack
    <3>3. \A x : Here(x)' <=> Here(x)
      BY <1>4 DEF Here, Part
    <3>4. CASE held' = held
      BY <1>4, <3>1, <3>4 DEF HeldHere, Here, Part
    <3>5. CASE held' = Append(held, b) /\ HeldBack(b.view)
      <4>1. \A i \in 1..Len(held') : (i \in 1..Len(held) /\ held'[i] = held[i]) \/ held'[i] = b
        BY <3>1, <3>5, AppendProperties
      <4>2. \A i \in 1..Len(held') : Here(held'[i]) /\ held'[i].view = "main"
        BY <1>2, <3>1, <3>2, <3>5, <4>1 DEF HeldHere
      <4>. QED  BY <1>4, <4>2 DEF HeldHere, Here, Part
    <3>. QED  BY <1>4, <3>4, <3>5
  <2>. QED  BY <2>1, <2>2, <2>3
<1>7. ~Interleave => held' = <<>>
  BY <1>4 DEF PlaceInv, HeldBack
<1>. QED  BY <1>4, <1>5, <1>6, <1>7, PlaceKept DEF PlaceInv

(* Both views have finished their unit: what was held back is queued.      *)
LEMMA MuxBlockFinishedPlace ==
  TypeOK /\ PlaceInv /\ PlanInv /\ result = "running" /\ MuxBlockFinished => PlaceInv'
<1> SUFFICES ASSUME TypeOK, PlaceInv, PlanInv, result = "running", MuxBlockFinished
             PROVE PlaceInv'
  OBVIOUS
<1>0. todo # <<>> /\ Head(todo).op = "blockDone" /\ Head(todo) \in Steps /\ Head(todo).view \in Views
  BY HeadOfTodo DEF MuxBlockFinished, At
<1>v. PICK v \in Views : v = Head(todo).view
  BY <1>0
<1> DEFINE done == finished \cup {v}
<1>1. /\ IF BothFinished(done)
         THEN finished' = {} /\ held' = <<>> /\ Then(PutAll("queue", held))
         ELSE finished' = done /\ Then(<<>>) /\ held' = held
      /\ UNCHANGED <<delayBlk, firstOf, open, queue, lost, result>>
  BY <1>v DEF MuxBlockFinished, AfterRelease
<1>2. PutsHere /\ HeldHere /\ held \in Seq(Blocks)
  BY PlaceParts DEF TypeOK
<1>3. PutsHere' /\ HeldHere'
  <2>1. CASE BothFinished(done)
    <3> DEFINE steps == PutAll("queue", held)
    <3>1. /\ steps \in Seq(Steps) /\ Len(steps) = Len(held)
          /\ \A k \in 1..Len(steps) : steps[k] \in Ops("queue", held[k].view) /\ steps[k].blk = held[k]
      BY <1>2, PutAllPuts
    <3>2. Then(steps)
      BY <1>1, <2>1
    <3> HIDE DEF steps
    <3>3. \A k \in 1..Len(steps) : Here(steps[k].blk) /\ steps[k].blk.view = steps[k].view
      BY <1>2, <3>1 DEF Ops, HeldHere
    <3>4. PutsHere'
      BY <1>0, <1>1, <1>2, <3>1, <3>2, <3>3, PutsHereKept
    <3>5. held' = <<>> /\ Len(<<>>) = 0 /\ 1..0 = {}
      BY <1>1, <2>1
    <3>. QED  BY <3>4, <3>5 DEF HeldHere
  <2>2. CASE ~BothFinished(done)
    <3>1. PutsHere'
      BY <1>0, <1>1, <1>2, <2>2, NoSteps, PutsHereKept
    <3>. QED  BY <1>1, <1>2, <2>2, <3>1 DEF HeldHere, Here, Part
  <2>. QED  BY <2>1, <2>2
<1>4. finished' \subseteq {Switcher}
  <2>1. finished \subseteq {Switcher}
    BY DEF PlaceInv
  <2>2. CASE v = Switcher
    BY <1>1, <2>1, <2>2
  <2>3. CASE v # Switcher
    <3>1. HasSub /\ v = Second
      <4>1. HasSub
        BY <2>3, ViewsFact DEF Views
      <4>. QED  BY <2>3, <4>1, TwoViews
    <3>2. Head(todo) \in DoneOf(Second)
      BY <1>0, <1>v, <3>1 DEF DoneOf
    <3>3. Switcher \in finished
      BY <1>0, <3>1, <3>2, HeadExposed DEF PlanInv, BothRule, Rule
    <3>4. done = {"main", "sub"}
      BY <2>1, <3>1, <3>3, TwoViews
    <3>. QED  BY <1>1, <3>4 DEF BothFinished
  <2>. QED  BY <2>2, <2>3
<1>5. DelayedHere' /\ QueueOpen'
  BY <1>1, PlaceParts DEF DelayedHere, QueueOpen, Here, Part
<1>6. ~Interleave => held' = <<>>
  BY <1>1 DEF PlaceInv
<1>. QED  BY <1>1, <1>3, <1>4, <1>5, <1>6, PlaceKept DEF PlaceInv

(* What is still held back at the end is queued.                           *)
LEMMA HeldOutPlace ==
  TypeOK /\ PlaceInv /\ result = "running" /\ HeldOut => PlaceInv'
<1> SUFFICES ASSUME TypeOK, PlaceInv, result = "running", HeldOut PROVE PlaceInv'
  OBVIOUS
<1> DEFINE steps == PutAll("queue", held)
<1>1. todo # <<>> /\ Then(steps) /\ UNCHANGED <<delayBlk, firstOf, open, held, finished, queue, lost, result>>
  BY DEF HeldOut, At
<1>2. PutsHere /\ HeldHere /\ held \in Seq(Blocks)
  BY PlaceParts DEF TypeOK
<1>3. /\ steps \in Seq(Steps) /\ Len(steps) = Len(held)
      /\ \A k \in 1..Len(steps) : steps[k] \in Ops("queue", held[k].view) /\ steps[k].blk = held[k]
  BY <1>2, PutAllPuts
<1> HIDE DEF steps
<1>4. \A k \in 1..Len(steps) : Here(steps[k].blk) /\ steps[k].blk.view = steps[k].view
  BY <1>2, <1>3 DEF Ops, HeldHere
<1>5. PutsHere'
  BY <1>1, <1>2, <1>3, <1>4, PutsHereKept
<1>6. DelayedHere' /\ QueueOpen' /\ HeldHere'
  BY <1>1, PlaceParts DEF DelayedHere, QueueOpen, HeldHere, Here, Part
<1>. QED  BY <1>1, <1>5, <1>6, PlaceKept DEF PlaceInv

(* What is left of a TS is appended to the file that is open.              *)
LEMMA FlushTSBufferPlace ==
  TypeOK /\ PlaceInv /\ PlanInv /\ result = "running" /\ FlushTSBuffer => PlaceInv'
<1> SUFFICES ASSUME TypeOK, PlaceInv, PlanInv, result = "running", FlushTSBuffer
             PROVE PlaceInv'
  OBVIOUS
<1>0. todo # <<>> /\ Head(todo).op = "tail" /\ Head(todo) \in Steps /\ Head(todo).view \in Views
  BY HeadOfTodo DEF FlushTSBuffer, At
<1>v. PICK v \in Views : v = Head(todo).view
  BY <1>0
<1>1. /\ \/ Write(Block(v, made[v])) /\ Then(<<>>) /\ open' = open
         \/ result' # "running" /\ UNCHANGED diskVars
      /\ UNCHANGED <<delayBlk, firstOf, held, finished, queue>> /\ queue = <<>>
  BY <1>v DEF FlushTSBuffer, Throw, WriterIdle
<1>2. File(v) \in open
  BY <1>0, FileInUse DEF Closing
<1>3. lost' = {}
  <2>1. lost = {}
    BY DEF PlaceInv
  <2>. QED  BY <1>1, <1>2, <2>1, BlockHere DEF Write
<1>4. result' = "running" => PutsHere' /\ DelayedHere' /\ HeldHere'
  <2> SUFFICES ASSUME result' = "running" PROVE PutsHere' /\ DelayedHere' /\ HeldHere'
    OBVIOUS
  <2>1. PutsHere
    BY PlaceParts
  <2>2. PutsHere'
    BY <1>0, <1>1, <2>1, NoSteps, PutsHereKept
  <2>. QED  BY <1>1, <2>2, PlaceParts DEF DelayedHere, HeldHere, Here, Part
<1>5. QueueOpen'
  <2>1. queue' = <<>> /\ Len(<<>>) = 0 /\ 1..0 = {}
    BY <1>1
  <2>. QED  BY <2>1 DEF QueueOpen
<1>. QED  BY <1>1, <1>3, <1>4, <1>5, PlaceKept DEF PlaceInv

(* A new part: nothing of the old one is left anywhere.                    *)
LEMMA GotoNextFilePlace ==
  TypeOK /\ PlaceInv /\ PlanInv /\ result = "running" /\ GotoNextFile => PlaceInv'
<1> SUFFICES ASSUME TypeOK, PlaceInv, PlanInv, result = "running", GotoNextFile
             PROVE PlaceInv'
  OBVIOUS
<1>0. todo # <<>> /\ Head(todo).op = "next" /\ Head(todo) \in Steps /\ Head(todo).view \in Views
  BY HeadOfTodo DEF GotoNextFile, At
<1>v. PICK v \in Views : v = Head(todo).view
  BY <1>0
<1>1. /\ \/ firstOf' = [firstOf EXCEPT ![v] = Append(@, made[v] + 1)] /\ Then(<<>>)
         \/ result' # "running"
      /\ UNCHANGED <<delayBlk, held, finished, queue, lost>> /\ queue = <<>>
  BY <1>v DEF GotoNextFile, Throw, WriterIdle
<1>2. Head(todo) \in Ops("next", v) /\ Head(todo) \notin Puts
  BY <1>0, <1>v DEF Ops, Puts
<1>3. Clean(v)
  BY <1>0, <1>2, HeadExposed DEF PlanInv, CleanRule, Rule
<1>4. v = "main" => held = <<>>
  BY <1>0, <1>2, HeadExposed DEF PlanInv, HeldRule, Rule, PlaceInv
<1>5. result' = "running" => PutsHere' /\ DelayedHere' /\ HeldHere'
  <2> SUFFICES ASSUME result' = "running" PROVE PutsHere' /\ DelayedHere' /\ HeldHere'
    OBVIOUS
  <2>1. PutsHere'
    <3>1. \A k \in 1..Len(todo') : todo'[k] \notin Puts
      BY <1>0, <1>1, <1>2, NoSteps, NoPutsLeft, StepsOfTodo
    <3>2. Puts' = Puts
      BY DEF Puts
    <3>. QED  BY <3>1, <3>2 DEF PutsHere
  <2> DEFINE InPart(b) == b.view \in Views /\ b.part = Len(firstOf'[b.view])
  <2>2. \A w \in Views : w # v => firstOf'[w] = firstOf[w]
    BY <1>1 DEF TypeOK
  <2>3. DelayedHere'
    <3>1. ASSUME NEW w \in Views, NEW i \in 1..Len(delayBlk'[w])
          PROVE  InPart(delayBlk'[w][i]) /\ delayBlk'[w][i].view = w
      <4>1. CASE w = v
        <5>1. delayBlk'[w] = <<>> /\ Len(<<>>) = 0 /\ 1..0 = {}
          BY <1>1, <1>3, <4>1 DEF Clean
        <5>. QED  BY <3>1, <5>1
      <4>2. CASE w # v
        <5>1. DelayedHere
          BY PlaceParts
        <5>. QED  BY <1>1, <2>2, <3>1, <4>2, <5>1 DEF DelayedHere, Here, Part
      <4>. QED  BY <4>1, <4>2
    <3>. QED  BY <3>1 DEF DelayedHere, Here, Part
  <2>4. HeldHere'
    <3>1. CASE v = "main"
      <4>1. held' = <<>> /\ Len(<<>>) = 0 /\ 1..0 = {}
        BY <1>1, <1>4, <3>1
      <4>. QED  BY <4>1 DEF HeldHere
    <3>2. CASE v # "main"
      <4>1. firstOf'["main"] = firstOf["main"] /\ HeldHere
        BY <2>2, <3>2, ViewsFact, PlaceParts
      <4>2. \A i \in 1..Len(held') : InPart(held'[i]) /\ held'[i].view = "main"
        BY <1>1, <4>1 DEF HeldHere, Here, Part
      <4>. QED  BY <4>2 DEF HeldHere, Here, Part
    <3>. QED  BY <3>1, <3>2
  <2>. QED  BY <2>1, <2>3, <2>4
<1>6. QueueOpen'
  <2>1. queue' = <<>> /\ Len(<<>>) = 0 /\ 1..0 = {}
    BY <1>1
  <2>. QED  BY <2>1 DEF QueueOpen
<1>. QED  BY <1>1, <1>5, <1>6, PlaceKept DEF PlaceInv

(* The end of a muxer: its file is the one it writes its last packets to.  *)
LEMMA CloseMuxerPlace ==
  TypeOK /\ PlaceInv /\ PlanInv /\ result = "running" /\ CloseMuxer => PlaceInv'
<1> SUFFICES ASSUME TypeOK, PlaceInv, PlanInv, result = "running", CloseMuxer PROVE PlaceInv'
  OBVIOUS
<1>0. todo # <<>> /\ Head(todo).op = "close" /\ Head(todo) \in Steps /\ Head(todo).view \in Views
  BY HeadOfTodo DEF CloseMuxer, At
<1>v. PICK v \in Views : v = Head(todo).view
  BY <1>0
<1>1. /\ Write(Block(v, made[v])) \/ UNCHANGED diskVars
      /\ Then(<<>>) \/ result' # "running"
      /\ UNCHANGED <<delayBlk, firstOf, held, finished, queue>>
  BY <1>v DEF CloseMuxer, Throw
<1>2. File(v) \in open
  BY <1>0, <1>v, FileInUse DEF Ops
<1>3. queue = <<>>
  <2>1. Head(todo) \in Closes
    BY <1>0 DEF Closes
  <2>. QED  BY <1>0, <2>1, HeadExposed DEF PlanInv, IdleRule, Rule
<1>4. lost' = {}
  <2>1. lost = {}
    BY DEF PlaceInv
  <2>. QED  BY <1>1, <1>2, <2>1, BlockHere DEF Write
<1>5. result' = "running" => PutsHere' /\ DelayedHere' /\ HeldHere'
  <2> SUFFICES ASSUME result' = "running" PROVE PutsHere' /\ DelayedHere' /\ HeldHere'
    OBVIOUS
  <2>1. PutsHere
    BY PlaceParts
  <2>2. PutsHere'
    BY <1>0, <1>1, <2>1, NoSteps, PutsHereKept
  <2>. QED  BY <1>1, <2>2, PlaceParts DEF DelayedHere, HeldHere, Here, Part
<1>6. QueueOpen'
  <2>1. queue' = <<>> /\ Len(<<>>) = 0 /\ 1..0 = {}
    BY <1>1, <1>3
  <2>. QED  BY <2>1 DEF QueueOpen
<1>. QED  BY <1>1, <1>4, <1>5, <1>6, PlaceKept DEF PlaceInv

(* The writer's thread, and after it the destructor, write the first block *)
(* of the queue, whose file is open.                                       *)
LEMMA ExecutePlace ==
  ASSUME TypeOK, QueueOpen, lost = {}, queue # <<>>, Execute(Head(queue)) \/ UNCHANGED diskVars
  PROVE  lost' = {}
<1>1. queue \in Seq(Blocks \cup {Sentinel}) /\ Len(queue) \in Nat /\ Len(queue) # 0
  BY EmptySeq, LenProperties DEF TypeOK
<1>2. 1 \in 1..Len(queue) /\ Head(queue) = queue[1]
  BY <1>1
<1>. QED  BY <1>2 DEF Execute, Write, QueueOpen

(* What is left of the queue when its first block is taken.                *)
LEMMA PopPlace ==
  ASSUME TypeOK, QueueOpen, queue # <<>>, queue' = Tail(queue), open' = open
  PROVE  QueueOpen'
<1>1. queue \in Seq(Blocks \cup {Sentinel}) /\ Len(queue) \in Nat
  BY LenProperties DEF TypeOK
<1>2. \A i \in 1..Len(queue') : i + 1 \in 1..Len(queue) /\ queue'[i] = queue[i + 1]
  BY <1>1, HeadTailProperties
<1>. QED  BY <1>2 DEF QueueOpen

(* The writer's thread and the destructor keep the places.                 *)
LEMMA WriterPlace ==
  TypeOK /\ WriterInv /\ PlaceInv /\ (WriterThread \/ TearDown) => PlaceInv'
<1> SUFFICES ASSUME TypeOK, WriterInv, PlaceInv, WriterThread \/ TearDown PROVE PlaceInv'
  OBVIOUS
<1>1. UNCHANGED <<todo, delayBlk, firstOf, held, finished, result>>
  BY DEF WriterThread, WriterTest, WriterPeek, WriterExecute, WriterPop, TearDown, Terminate,
     PushSentinel, Join, Drain, DestroyMuxers
<1>2. QueueOpen /\ lost = {}
  BY PlaceParts
<1>3. /\ result' = "running" => PutsHere' /\ DelayedHere' /\ HeldHere'
      /\ finished' \subseteq {Switcher} /\ (~M2ts => \A v \in Views : delayBlk'[v] = <<>>)
      /\ ~Interleave => held' = <<>>
  BY <1>1, PlaceParts DEF PlaceInv, PutsHere, DelayedHere, HeldHere, Here, Part, Puts
<1>4. QueueOpen' /\ lost' = {}
  <2>1. CASE WriterTest \/ WriterPeek \/ Terminate \/ Join
    BY <1>2, <2>1 DEF WriterTest, WriterPeek, Terminate, Join, QueueOpen
  <2>2. CASE WriterExecute
    <3>1. queue # <<>> /\ UNCHANGED <<queue, open>>
      BY <2>2 DEF WriterExecute, WriterInv, IdleMeansIdle
    <3>2. Execute(Head(queue)) \/ UNCHANGED diskVars
      BY <2>2 DEF WriterExecute
    <3>3. lost' = {}
      BY <1>2, <3>1, <3>2, ExecutePlace
    <3>. QED  BY <1>2, <3>1, <3>3 DEF QueueOpen
  <2>3. CASE WriterPop
    <3>1. queue # <<>> /\ queue' = Tail(queue) /\ UNCHANGED <<open, lost>>
      BY <2>3 DEF WriterPop, WriterInv, IdleMeansIdle
    <3>. QED  BY <1>2, <3>1, PopPlace
  <2>4. CASE PushSentinel
    <3>1. queue \in Seq(Blocks \cup {Sentinel}) /\ Len(queue) \in Nat
      BY LenProperties DEF TypeOK
    <3>2. UNCHANGED <<open, lost>> /\ (queue' = queue \/ queue' = Append(queue, Sentinel))
      BY <2>4 DEF PushSentinel
    <3>3. CASE queue' = queue
      BY <1>2, <3>2, <3>3 DEF QueueOpen
    <3>4. CASE queue' = Append(queue, Sentinel)
      <4>1. \A i \in 1..Len(queue') :
              (i \in 1..Len(queue) /\ queue'[i] = queue[i]) \/ queue'[i] = Sentinel
        <5>1. Sentinel \in Blocks \cup {Sentinel}
          OBVIOUS
        <5> HIDE DEF Sentinel
        <5>. QED  BY <3>1, <3>4, <5>1, AppendProperties
      <4>. QED  BY <1>2, <3>2, <4>1 DEF QueueOpen
    <3>. QED  BY <3>2, <3>3, <3>4
  <2>5. CASE Drain
    <3>1. queue # <<>> /\ queue' = Tail(queue) /\ open' = open
          /\ (Execute(Head(queue)) \/ UNCHANGED diskVars)
      BY <2>5 DEF Drain
    <3>. QED  BY <1>2, <3>1, PopPlace, ExecutePlace
  <2>6. CASE DestroyMuxers
    <3>1. queue' = <<>> /\ Len(<<>>) = 0 /\ 1..0 = {} /\ lost' = lost
      BY <2>6 DEF DestroyMuxers
    <3>. QED  BY <1>2, <3>1 DEF QueueOpen
  <2>. QED  BY <2>1, <2>2, <2>3, <2>4, <2>5, <2>6 DEF WriterThread, TearDown
<1>. QED  BY <1>3, <1>4, PlaceKept

(* At the start there are no blocks.                                       *)
LEMMA InitPlace == Init => PlaceInv
<1> SUFFICES ASSUME Init PROVE PlaceInv
  OBVIOUS
<1>1. /\ todo = <<>> /\ held = <<>> /\ queue = <<>> /\ finished = {} /\ lost = {}
      /\ \A v \in Views : delayBlk[v] = <<>>
      /\ Len(<<>>) = 0 /\ 1..0 = {}
  BY DEF Init
<1>. QED  BY <1>1 DEF PlaceInv, BlocksHere

(* Every step keeps the places.                                            *)
LEMMA NextPlace ==
  ASSUME TypeOK, WriterInv, PlaceInv, PlanInv, [Next]_vars
  PROVE  PlaceInv'
<1>1. CASE WriterThread \/ TearDown
  BY <1>1, WriterPlace
<1>2. CASE UNCHANGED vars
  <2>1. UNCHANGED <<todo, delayBlk, firstOf, held, finished, result, queue, open, lost>>
    BY <1>2 DEF vars
  <2>. QED  BY <2>1 DEF PlaceInv, BlocksHere, Here, Part, Puts
<1>3. ASSUME (\E v \in Views : MuxPacket(v)) \/ Stop \/ EndOfSources PROVE PlaceInv'
  <2>1. result = "running"
    BY <1>3 DEF MuxPacket, Stop, EndOfSources
  <2>. QED  BY <1>3, <2>1, CallsPlace
<1>4. CASE MuxStep
  <2>1. result = "running"
    BY <1>4 DEF WriterInv, JobOver, MuxStep, At, SwitchBlock, AddPacket, Stamp, FlushRest, PutBlock,
       FinishFileBlock, MuxBlockFinished, FlushTSBuffer, GotoNextFile, HeldOut, WaitForWriting,
       CloseMuxer, Verdict
  <2>. QED  BY <1>4, <2>1, QuietPlace, AddPacketPlace, StampPlace, FlushRestPlace, PutBlockPlace,
            MuxBlockFinishedPlace, FlushTSBufferPlace, GotoNextFilePlace, HeldOutPlace,
            CloseMuxerPlace DEF MuxStep
<1>. QED  BY <1>1, <1>2, <1>3, <1>4 DEF Next, AllDone

(* The plan and the places hold as long as the job runs, and after it.     *)
LEMMA PlanInductive ==
  ASSUME ~LateSub
  PROVE  Spec => [](TypeOK /\ WriterInv /\ PlanInv /\ PlaceInv)
<1>1. Init => TypeOK /\ WriterInv /\ PlanInv /\ PlaceInv
  BY InitTypeOK, InitWriterInv, InitPlan, InitPlace
<1>2. TypeOK /\ WriterInv /\ PlanInv /\ PlaceInv /\ [Next]_vars
        => TypeOK' /\ WriterInv' /\ PlanInv' /\ PlaceInv'
  BY NextTypeOK, NextWriterInv, NextPlan, NextPlace
<1>. QED  BY <1>1, <1>2, PTL DEF Spec

(* No block is ever written to a file that is not open, neither by the     *)
(* writer's thread nor by the mux thread, however the job goes on and ends *)
(* (gotoNextFile, close, WriterData::execute), when a view ends no unit or *)
(* part before the other one has a packet.                                 *)
THEOREM WritesGoToOpenFiles == ~LateSub => (Spec => []NothingToClosedFile)
<1> SUFFICES ASSUME ~LateSub PROVE Spec => []NothingToClosedFile
  OBVIOUS
<1>1. PlaceInv => NothingToClosedFile
  BY DEF PlaceInv, NothingToClosedFile
<1>. QED  BY <1>1, PlanInductive, PTL
=============================================================================

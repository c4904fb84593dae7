-------------------------- MODULE MCBufferedReader --------------------------
(* Instances of BufferedReader for TLC: blocks of two units, sources of a few. *)
EXTENDS BufferedReader, TLC

CONSTANTS a, b

\* a: a file that ends in a short block, one shorter than a block, two empty ones, one of
\* a block exactly and an empty one;  b: a block and a short one, then the end
JoinParts == [r \in Readers |-> IF r = a THEN <<3, 4, 4, 4, 6, 6>> ELSE <<3>>]
\* a: two files, the last ends in a short block;  b: a block and a short one
EndParts == [r \in Readers |-> IF r = a THEN <<2, 5>> ELSE <<3>>]
\* a: the second of three parts is the one that may be missing;  b: not joined
FaultParts == (a :> <<1, 3, 5>>) @@ (b :> <<3>>)

NoneOf == [r \in Readers |-> {}]
Never == [r \in Readers |-> 0]
\* In place of Never, for a client that asks again after the end of a join (README, section 3)
Once == [r \in Readers |-> 1]
TwiceB == (a :> 0) @@ (b :> 2)
SecondOfA == (a :> {2}) @@ (b :> {})
GotoB == (a :> {}) @@ (b :> {1})
=============================================================================

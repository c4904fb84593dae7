---------------------------- MODULE BlockStream ----------------------------
(***************************************************************************)
(* What a client of the read-ahead is promised: the bytes of its source,   *)
(* in order and each once, in blocks that lie within one part, and then    *)
(* the end of the stream.  The two blocks, the thread, its queue and its   *)
(* locks are not seen.                                                     *)
(***************************************************************************)
EXTENDS Integers, Sequences

CONSTANTS
  Readers, BlockSize, PartEnd,
  Rewindable,   \* readers that may be put back to their start
  GotoTo,       \* GotoTo[r]: the offsets r may be started at
  EarlyEnd      \* readers that may be told of the end before it

VARIABLES
  got,      \* the end of the bytes delivered
  ended     \* the client was told of the end of the stream

vars == <<got, ended>>

PartStart(r, i) == IF i = 1 THEN 0 ELSE PartEnd[r][i - 1]
Total(r) == PartEnd[r][Len(PartEnd[r])]

Init ==
  /\ got = [r \in Readers |-> 0]
  /\ ended = [r \in Readers |-> FALSE]

MayEnd(r) == got'[r] = Total(r) \/ r \in EarlyEnd

\* The next block of r, of at most BlockSize bytes of one part; the end may come with it
Deliver(r) ==
  /\ ~ended[r]
  /\ \E i \in DOMAIN PartEnd[r] : \E to \in (got[r] + 1)..(got[r] + BlockSize) :
       /\ PartStart(r, i) <= got[r] /\ to <= PartEnd[r][i]
       /\ got' = [got EXCEPT ![r] = to]
  /\ \/ UNCHANGED ended
     \/ MayEnd(r) /\ ended' = [ended EXCEPT ![r] = TRUE]

\* No more bytes
End(r) ==
  /\ UNCHANGED got
  /\ MayEnd(r)
  /\ ended' = [ended EXCEPT ![r] = TRUE]

\* A seek of the client
Seek(r, pos) ==
  /\ got' = [got EXCEPT ![r] = pos]
  /\ ended' = [ended EXCEPT ![r] = FALSE]

Next == \E r \in Readers :
  \/ Deliver(r)
  \/ End(r)
  \/ r \in Rewindable /\ Seek(r, 0)
  \/ \E pos \in GotoTo[r] : Seek(r, pos)

Spec == Init /\ [][Next]_vars
=============================================================================

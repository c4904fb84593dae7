------------------------------ MODULE MCIsoExtents ------------------------------
(***************************************************************************)
(* Small discs and jobs for TLC.                                           *)
(***************************************************************************)
EXTENDS IsoExtents

Layout(breaks, before, after, mirror, capacity) ==
  [breaks |-> breaks, before |-> before, after |-> after, mirror |-> mirror, capacity |-> capacity]

MCLayouts ==
  {Layout(<<>>, 0, 0, 13, 0),            \* two layers, no guard
   Layout(<<14>>, 2, 2, 14, 44),         \* two layers
   Layout(<<14>>, 1, 1, 14, 36),         \* and a smaller disc
   Layout(<<11>>, 2, 1, 11, 0),          \* the zone not of whole blocks
   Layout(<<5>>, 2, 2, 5, 0),            \* no room for the mirror before the break
   Layout(<<12, 20>>, 1, 1, 12, 32)}     \* three layers

\* A disc that is not BreaksApart: a write that goes on behind the first zone reaches the second
CloseLayouts == {Layout(<<11, 14>>, 1, 1, 11, 0)}

ItemOf(kind, pieces, tail) == [kind |-> kind, pieces |-> pieces, tail |-> tail]
JobOf(switcher, items, fit) == [switcher |-> switcher, items |-> items, fit |-> fit]

\* A 3D mux that either view splits, then a copy and a file
MuxJobs ==
  {JobOf(view, <<ItemOf("copy", <<1>>, TRUE), ItemOf("file", <<1>>, TRUE)>>, FALSE) : view \in {"dep", "base"}}

\* A copy of two titles and two small files; the last of them are more than can be held back.
Titles == {ItemOf("stream", <<n>>, FALSE) : n \in {1, 4, 12}}
          \cup {ItemOf("group", <<1, b, 1, c>>, FALSE) : b \in {2, 5}, c \in {1, 4}}
Smalls == {<<ItemOf("file", <<n>>, TRUE), ItemOf("copy", <<n>>, TRUE)>> : n \in {1, 2, 4}}
          \cup {<<ItemOf("copy", <<2>>, FALSE), ItemOf("copy", <<n>>, TRUE)>> : n \in 1..2}
CopyJobs ==
  {JobOf("", <<first, second>> \o rest, fit) :
     first \in Titles, second \in Titles, rest \in Smalls, fit \in BOOLEAN}

MCJobs == MuxJobs \cup CopyJobs
==============================================================================

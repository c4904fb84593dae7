------------------------------- MODULE IsoExtents -------------------------------
(***************************************************************************)
(* Where the image writer (iso_writer.cpp) puts the data of each file.     *)
(* Files are written one after the other, the two views of a 3D title in   *)
(* turn.  Around the places where a disc changes its layer nothing is      *)
(* stored (a guard zone), and the second copy of the file system, the      *)
(* mirror, goes to the end of the first layer when the data reaches it.    *)
(* The writer leaves a file that comes to such a place and goes on behind  *)
(* it; it looks ahead so that two views are cut alike; and it moves data   *)
(* back when it looked ahead in vain.                                      *)
(*                                                                         *)
(* The unit is the sector; a file's last sector may be partial, and is     *)
(* kept until the file is closed.  Sector 0 is the first one for data.     *)
(***************************************************************************)
EXTENDS Integers, Sequences, FiniteSets, SequencesExt

CONSTANTS
  Layouts,    \* the discs (IsLayout)
  Jobs,       \* what is written (IsJob)
  Block,      \* sectors of ALLOC_BLOCK_SIZE
  Meta,       \* sectors of the metadata and of its mirror
  MaxExtent,  \* MAX_EXTENT_SIZE
  MaxHeld,    \* MAX_DEFERRED_BYTES
  DepMax,     \* the most a piece of the second view has: SUB_INTERLEAVE_BLOCKSIZE
  BaseMax,    \* the same of the base view: MAIN_INTERLEAVE_BLOCKSIZE
  Buffer,     \* COPY_BUFFER_BYTES
  Margin,     \* room for the structures at the end: 4096 in padOverZoneIfFileCrosses
  UdfMargin,  \* UDF_MARGIN_SECTORS
  MaxParts,   \* bound: parts of a 3D mux, items of a job
  MaxSectors  \* bound: sectors a 3D mux writes

LookAhead == 2 * (BaseMax + DepMax)   \* MIRROR_LOOKAHEAD_BYTES

(* A disc: its layer breaks with the zone around each, the break whose      *)
(* layer ends with the mirror (0: none), the first one, and its capacity    *)
(* (0: unknown)                                                             *)
IsLayout(l) ==
  /\ l.breaks \in Seq(Nat) /\ l.before \in Nat /\ l.after \in Nat
  /\ l.mirror \in Nat /\ l.capacity \in Nat
  /\ l.mirror # 0 /\ l.breaks # <<>> => l.mirror = l.breaks[1]

\* The breaks are in order, and no write reaches two zones ("breaks are far apart").
BreaksApart(l) ==
  \A i, k \in DOMAIN l.breaks : i < k =>
    \A n \in {MaxHeld, DepMax, BaseMax, Buffer} : l.breaks[i] + l.after + n <= l.breaks[k] - l.before

(* A job: a 3D mux whose view "dep" or "base" begins new parts, or none     *)
(* (""), then items; with fit, layer-fit placement.  A group is the pieces  *)
(* of two views in turn; behind a mux there are small files only.           *)
IsJob(j) ==
  /\ j.switcher \in {"", "dep", "base"} /\ j.fit \in BOOLEAN
  /\ j.items \in Seq([kind : {"stream", "file", "copy", "group"}, pieces : Seq(Nat \ {0}),
                      tail : BOOLEAN])
  /\ \A i \in DOMAIN j.items :
       /\ j.items[i].kind = "group" => Len(j.items[i].pieces) % 2 = 0
       /\ j.switcher # "" => j.items[i].kind \in {"file", "copy"}

ASSUME IsoAssumption ==
  /\ {Block, Meta, MaxExtent, DepMax, BaseMax, Buffer, MaxParts} \subseteq Nat \ {0}
  /\ {MaxHeld, Margin, UdfMargin, MaxSectors} \subseteq Nat
  /\ Meta % Block = 0
  /\ \A n \in {MaxHeld, DepMax, BaseMax, Buffer} : n <= MaxExtent
  /\ \A l \in Layouts : IsLayout(l)
  /\ \A j \in Jobs : IsJob(j) /\ Len(j.items) <= MaxParts

Files == {"dep", "base", "ssif", "stream", "file", "copy"} \X (1..MaxParts)
None == <<"none", 0>>

\* RealtimeFile
Stream(f) == f[1] \in {"dep", "base", "ssif", "stream"}

VARIABLES
  layout,  \* the disc
  job,     \* what is written
  iso,     \* IsoWriter and its FileEntryInfo
  phase,   \* "pairs", "items", "copying", "written", "closed" or "refused"
  at       \* where the job is: the view in turn and its piece, the parts, the item

vars == <<layout, job, iso, phase, at>>

Fresh == [ext |-> <<>>, size |-> 0, tail |-> FALSE, leads |-> FALSE, closed |-> FALSE,
          deferred |-> FALSE, held |-> 0, heldTail |-> FALSE]

\* disk[n + 1] is sector n: <<f, k>> for the k-th sector of f
Empty ==
  [disk |-> <<>>, pos |-> 0,
   last |-> None,          \* m_lastWritedObjectID
   lastEntry |-> None,     \* m_lastWritedEntry
   placed |-> FALSE,       \* m_mirrorPlaced
   mirror |-> 0,           \* m_metadataMirrorLBN
   pads |-> <<>>,          \* m_layerBreakPads
   gaps |-> <<>>,          \* m_lookAheadGaps
   padsBefore |-> 0,       \* m_padsBeforeLookAhead
   byLookAhead |-> FALSE,  \* m_mirrorByLookAhead
   pairsPlaced |-> FALSE,  \* m_pairsPlaced
   queue |-> <<>>,         \* m_deferredFiles
   heldBytes |-> 0,        \* m_deferredBytes
   ent |-> [f \in Files |-> Fresh]]

-----------------------------------------------------------------------------
(* The layout of the disc *)
Zones == DOMAIN layout.breaks
ZoneStart(i) == layout.breaks[i] - layout.before
ZoneEnd(i) == layout.breaks[i] + layout.after

\* The sectors up to the next whole block
ToBlock(lbn) == (-lbn) % Block

\* Where layer 0 ends, or the zone in front of its end begins, at a whole block
MirrorEnd ==
  LET zone == {i \in Zones : ZoneStart(i) < layout.mirror /\ layout.mirror <= ZoneEnd(i)}
      end == Min({layout.mirror} \cup {ZoneStart(i) : i \in zone})
  IN  end - (end % Block)
MirrorStart == MirrorEnd - Meta - Block
HasMirrorPlace == layout.mirror > 0 /\ MirrorStart >= 0
MirrorPending(s) == ~s.placed /\ HasMirrorPlace

ReachesFromInside(lbn, n, i) == lbn >= ZoneStart(i) /\ lbn < ZoneEnd(i)
Reaches(lbn, n, i) == lbn < ZoneEnd(i) /\ lbn + n > ZoneStart(i)
NearLayerBreak(s, n) ==
  \/ MirrorPending(s) /\ s.pos + n > MirrorStart
  \/ \E i \in Zones : Reaches(s.pos, n, i)

-----------------------------------------------------------------------------
(* Writing at the position of the image *)
Same(cell, n) == [i \in 1..n |-> cell]
Zero == <<<<"zero", 0>>, 0>>
Mirror == <<<<"mirror", 0>>, 0>>
Zeros(n) == Same(Zero, n)
Put(s, cells) ==
  LET front == SubSeq(s.disk, 1, Min({s.pos, Len(s.disk)})) \o Zeros(s.pos - Len(s.disk))
  IN  [s EXCEPT !.disk = front \o cells \o SubSeq(@, s.pos + Len(cells) + 1, Len(@)),
                !.pos = @ + Len(cells)]

FillZeroSectorsKeepsLast(s, n) == IF n > 0 THEN Put(s, Zeros(n)) ELSE s
FillZeroSectors(s, n) == [(IF n > 0 THEN Put(s, Zeros(n)) ELSE s) EXCEPT !.last = None]

\* The mirror's file entry is in the last sector of a block, the mirror behind it
PlaceMirrorHere(s) ==
  LET lbn == (s.pos \div Block + 1) * Block
  IN  [FillZeroSectors(s, lbn + Meta - s.pos) EXCEPT !.placed = TRUE, !.mirror = lbn]

PlaceMirrorBefore(s, end) ==
  IF MirrorPending(s) /\ end > MirrorStart THEN PlaceMirrorHere(s) ELSE s

FillTo(s, end) == FillZeroSectors(s, end - s.pos)
WriteZeroPad(s, end) == FillTo(PlaceMirrorBefore(s, end), end)
PadTo(s, end) == WriteZeroPad([s EXCEPT !.pads = Append(@, [from |-> s.pos, to |-> end])], end)

\* n sectors come next: the mirror and the zone they would reach go first
PadZone(s, n) ==
  LET hit == {i \in Zones : Reaches(s.pos, n, i)}
  IN  IF hit = {} THEN s ELSE PadTo(s, ZoneEnd(Min(hit)))
CheckLayerBreakPoint(s, n) == PadZone(PlaceMirrorBefore(s, s.pos + n), n)

AlignForStream(s) ==
  IF s.pos % Block = 0 THEN s
  ELSE [Put(s, Zeros(ToBlock(s.pos))) EXCEPT !.last = None]

-----------------------------------------------------------------------------
(* FileEntryInfo *)

\* The views of a 3D mux are in sub mode; those of a copied group are not.
SubMode(f) == f[1] \in {"dep", "base"} /\ job.switcher # ""

\* A stream whose first piece follows no open stream leads the pieces.
Leads(s, f) ==
  ~(/\ s.lastEntry # None /\ s.lastEntry # f
    /\ Stream(s.lastEntry) /\ ~s.ent[s.lastEntry].closed)

\* m: s with what the look ahead put in front of the pair
LookedAhead(s, m) ==
  IF m.pos = s.pos THEN m
  ELSE [m EXCEPT !.padsBefore = IF s.gaps = <<>> THEN Len(s.pads) ELSE @,
                 !.byLookAhead = @ \/ (m.placed /\ ~s.placed),
                 !.gaps = Append(@, [from |-> s.pos, to |-> m.pos])]
BeforePair(s, f) ==
  IF SubMode(f) /\ s.ent[f].leads /\ ~s.pairsPlaced
  THEN LookedAhead(s, CheckLayerBreakPoint(s, LookAhead))
  ELSE s

BeforePieceNever(s, f) == s
BeforePiece(s, f) ==
  BeforePair(IF s.ent[f].size = 0 THEN [s EXCEPT !.ent[f].leads = Leads(s, f)] ELSE s, f)

\* The extents of a file that goes on with n sectors
LongerUnbounded(ext, goesOn, lbn, n) ==
  IF goesOn THEN [ext EXCEPT ![Len(ext)].n = @ + n] ELSE Append(ext, [lbn |-> lbn, n |-> n])
Longer(ext, goesOn, lbn, n) ==
  LET room == IF goesOn THEN MaxExtent - Last(ext).n ELSE 0
      head == Min({room, n})
      grown == IF goesOn THEN [ext EXCEPT ![Len(ext)].n = @ + head] ELSE ext
  IN  IF n > head THEN Append(grown, [lbn |-> lbn + head, n |-> n - head]) ELSE grown

WriteImpl(s, f, n, tail) ==
  LET size == s.ent[f].size IN
  Put([s EXCEPT !.ent[f] = [s.ent[f] EXCEPT !.ext = Longer(@, s.last = f, s.pos, n), !.size = @ + n,
                                     !.tail = tail],
                !.last = f, !.lastEntry = f],
      [k \in 1..(IF tail THEN n - 1 ELSE n) |-> <<f, size + k>>])

\* bytesBeforeMirror, when the write reaches the mirror's place and does not begin there
RoomBeforeMirror(s, n) ==
  IF MirrorPending(s) /\ MirrorStart - s.pos \in 1..(n - 1) THEN MirrorStart - s.pos ELSE 0

\* Up to the place of the mirror, then behind the mirror or the zone
WriteCut(s, f, n, tail) ==
  LET room == RoomBeforeMirror(s, n)
      head == IF room > 0 THEN WriteImpl(s, f, room, FALSE) ELSE s
  IN  IF NearLayerBreak(s, n) THEN WriteImpl(CheckLayerBreakPoint(head, n - room), f, n - room, tail)
      ELSE WriteImpl(s, f, n, tail)
WriteNow(s, f, n, tail) == WriteCut(IF s.last # f THEN BeforePiece(s, f) ELSE s, f, n, tail)

\* What was held back of f is written.
Release(s, f) ==
  LET e == s.ent[f]
      r == [s EXCEPT !.heldBytes = @ - e.held, !.ent[f] = [s.ent[f] EXCEPT !.deferred = FALSE, !.held = 0]]
  IN  IF e.held > 0 THEN WriteNow(r, f, e.held, e.heldTail) ELSE r

Write(s, f, n, tail) ==
  IF s.ent[f].deferred /\ s.heldBytes + n <= MaxHeld
  THEN [s EXCEPT !.heldBytes = @ + n, !.ent[f] = [s.ent[f] EXCEPT !.held = @ + n, !.heldTail = tail]]
  ELSE WriteNow(IF s.ent[f].deferred THEN Release(s, f) ELSE s, f, n, tail)

Open(s, f) ==
  IF f[1] = "copy" THEN [s EXCEPT !.ent[f].deferred = TRUE, !.queue = Append(@, f)]
  ELSE IF Stream(f) THEN AlignForStream(s) ELSE s

\* The last sector goes to the end of the last extent.
LastSector(s, f) ==
  LET e == s.ent[f]
  IN  Put([s EXCEPT !.pos = (Last(e.ext).lbn + Last(e.ext).n) - 1], <<<<f, e.size>>>>)
CloseFile(s, f) ==
  IF s.ent[f].deferred THEN s
  ELSE [(IF s.ent[f].tail THEN LastSector(s, f) ELSE s) EXCEPT
          !.ent[f] = [s.ent[f] EXCEPT !.tail = FALSE, !.closed = TRUE]]

-----------------------------------------------------------------------------
(* IsoWriter *)
PadBeforeInterleavedPair(s, n) == CheckLayerBreakPoint([s EXCEPT !.pairsPlaced = TRUE], n)

AddExtent(ext, e) ==
  IF ext # <<>> /\ Last(ext).lbn + Last(ext).n = e.lbn /\ Last(ext).n + e.n <= MaxExtent
  THEN [ext EXCEPT ![Len(ext)].n = @ + e.n]
  ELSE Append(ext, e)

\* The .ssif of part p is made of the sectors of the two views.
CanInterleave(s, p) == Len(s.ent[<<"dep", p>>].ext) = Len(s.ent[<<"base", p>>].ext)
InTurn(d, b) == [i \in 1..(2 * Len(d)) |-> IF i % 2 = 1 THEN d[(i + 1) \div 2] ELSE b[i \div 2]]
CreateInterleavedFile(s, p) ==
  LET pieces == InTurn(s.ent[<<"dep", p>>].ext, s.ent[<<"base", p>>].ext)
  IN  [s EXCEPT !.ent[<<"ssif", p>>].ext = FoldLeft(AddExtent, <<>>, pieces),
                !.ent[<<"ssif", p>>].size = s.ent[<<"dep", p>>].size + s.ent[<<"base", p>>].size]

\* A file that would run into a zone and fits behind it is put there, when the rest still
\* fits on the disc.
PadOverZoneIfFileCrosses(s, n, rest, aligned) ==
  LET lbn == IF aligned THEN s.pos + ToBlock(s.pos) ELSE s.pos
      crossed == {i \in Zones : lbn < ZoneStart(i) /\ lbn + n > ZoneStart(i)}
      i == Min(crossed)
      later == {k \in Zones : k > i}
      disc == IF layout.capacity > 0 THEN layout.capacity
              ELSE Last(layout.breaks) + Head(layout.breaks)
      need == ZoneEnd(i) + rest + Margin
              + Cardinality(later) * (layout.before + layout.after + Buffer)
              + (IF ~s.placed /\ ~HasMirrorPlace THEN Meta + Block ELSE 0)
      toPlace == IF MirrorStart > s.pos THEN FillTo(s, MirrorStart) ELSE s
      m == IF MirrorPending(s) /\ ZoneEnd(i) > MirrorStart THEN PlaceMirrorHere(toPlace) ELSE s
  IN  IF \/ crossed = {}
         \/ \E k \in later : k = i + 1 /\ ZoneEnd(i) + n > ZoneStart(k)
         \/ ZoneEnd(i) + n > disc \/ need > disc
      THEN s
      ELSE PadTo(m, ZoneEnd(i))

WriteDeferred(s, f) == IF s.ent[f].deferred THEN CloseFile(Release(s, f), f) ELSE s
WriteDeferredFiles(s) == [FoldLeft(WriteDeferred, s, s.queue) EXCEPT !.queue = <<>>]

WholeBlocks(gap) == ((gap.to - gap.from) \div Block) * Block
InGap(s, pad) == \E i \in DOMAIN s.gaps : s.gaps[i].from <= pad.from /\ pad.to <= s.gaps[i].to
AddGap(moved, gap) == moved + WholeBlocks(gap)
Back(s) == FoldLeft(AddGap, 0, s.gaps)

MayMoveBackNever(s) == FALSE
MayMoveBack(s) ==
  /\ s.gaps # <<>> /\ (s.placed => s.byLookAhead)
  /\ s.pos = Len(s.disk)
  /\ \A i \in DOMAIN s.pads : i > s.padsBefore => InGap(s, s.pads[i])
  /\ HasMirrorPlace /\ s.pos - Back(s) <= MirrorStart

\* What lies behind a gap is moved back over it, the extents with it; the last gap first.
Moved(ext, gap) ==
  [i \in DOMAIN ext |-> IF ext[i].lbn >= gap.to THEN [ext[i] EXCEPT !.lbn = @ - WholeBlocks(gap)]
                        ELSE ext[i]]
OverGap(s, gap) ==
  LET n == WholeBlocks(gap) IN
  [s EXCEPT !.disk = [i \in 1..(Len(@) - n) |-> IF i <= gap.to - n THEN @[i] ELSE @[i + n]],
            !.ent = [f \in Files |-> [s.ent[f] EXCEPT !.ext = Moved(@, gap)]]]

MoveBackLookAhead(s) ==
  LET m == FoldLeft(OverGap, s, Reverse(s.gaps))
  IN  IF ~MayMoveBack(s) THEN s
      ELSE [m EXCEPT !.pos = Len(m.disk), !.pads = SubSeq(@, 1, s.padsBefore), !.placed = FALSE,
                     !.last = None, !.gaps = <<>>]

\* The mirror is written to its place, or behind the data; an anchor ends the image.
WriteMirror(s) ==
  LET end == IF s.placed THEN ToBlock(s.pos) ELSE ToBlock(s.pos + 1)
      p == FillZeroSectors(s, end)
      lbn == IF s.placed THEN s.mirror ELSE p.pos + 1
      m == Put([p EXCEPT !.pos = lbn - 1], Same(Mirror, 1 + Meta))
      e == [m EXCEPT !.pos = Len(m.disk), !.mirror = lbn]
  IN  FillZeroSectors(e, Block)

-----------------------------------------------------------------------------
Init ==
  /\ layout \in Layouts /\ job \in Jobs
  /\ iso = Empty
  /\ phase = IF job.switcher # "" THEN "pairs" ELSE "items"
  /\ at = [turn |-> "dep", piece |-> 0, dep |-> 1, base |-> 1, item |-> 1]

(* A 3D mux: both views are open, and their pieces come in turn. *)
WritePiece(f, n, piece) ==
  /\ phase = "pairs" /\ iso.pos + n <= MaxSectors
  /\ iso' = Write(iso, f, n, FALSE)
  /\ at' = [at EXCEPT !.turn = f[1], !.piece = piece]
  /\ UNCHANGED <<layout, job, phase>>

PairDone == at.turn = "base" /\ at.piece > 0 /\ at.dep = at.base

WriteDep(n) ==
  \/ at.turn = "dep" /\ at.dep = at.base /\ at.piece + n <= DepMax /\ WritePiece(<<"dep", at.dep>>, n, at.piece + n)
  \/ PairDone /\ n <= DepMax /\ WritePiece(<<"dep", at.dep>>, n, n)

WriteBase(n) ==
  \/ at.turn = "dep" /\ at.piece > 0 /\ n <= BaseMax /\ WritePiece(<<"base", at.base>>, n, n)
  \/ /\ at.turn = "base" /\ at.piece > 0 /\ at.piece + n <= BaseMax
     /\ WritePiece(<<"base", at.base>>, n, at.piece + n)

\* A view closes its part and opens the next one (TSMuxer::gotoNextFile).
NextFile(s, view, p) == Open(CloseFile(s, <<view, p>>), <<view, p + 1>>)

\* The base view begins a new part: both views do, after a whole pair.
BaseSwitches ==
  /\ phase = "pairs" /\ job.switcher = "base" /\ PairDone /\ at.base < MaxParts
  /\ iso' = NextFile(NextFile(iso, "dep", at.dep), "base", at.base)
  /\ at' = [at EXCEPT !.dep = @ + 1, !.base = @ + 1, !.turn = "dep", !.piece = 0]
  /\ UNCHANGED <<layout, job, phase>>

\* The second view begins a new part after its piece, the base view after the piece to it.
DepSwitches ==
  /\ phase = "pairs" /\ job.switcher = "dep" /\ at.dep = at.base /\ at.dep < MaxParts
  /\ at.turn = "dep" /\ at.piece > 0
  /\ iso' = NextFile(iso, "dep", at.dep)
  /\ at' = [at EXCEPT !.dep = @ + 1]
  /\ UNCHANGED <<layout, job, phase>>

BaseFollows ==
  /\ phase = "pairs" /\ at.base < at.dep /\ at.turn = "base" /\ at.piece > 0
  /\ iso' = NextFile(iso, "base", at.base)
  /\ at' = [at EXCEPT !.base = @ + 1, !.turn = "dep", !.piece = 0]
  /\ UNCHANGED <<layout, job, phase>>

EndOfMux ==
  /\ phase = "pairs" /\ PairDone
  /\ iso' = CloseFile(CloseFile(iso, <<"dep", at.dep>>), <<"base", at.base>>)
  /\ phase' = "items"
  /\ UNCHANGED <<layout, job, at>>

-----------------------------------------------------------------------------
(* The items: in a copy all files, after a mux the navigation files.        *)
ItemsLeft == phase = "items" /\ at.item <= Len(job.items)
Item == job.items[at.item]
Name(i) == <<IF job.items[i].kind = "group" THEN "dep" ELSE job.items[i].kind, i>>
Sectors(item) == SumFunction(item.pieces)
IsStreamItem(item) == item.kind \in {"stream", "group"}

\* What layer-fit placement is told of this item and all after it
RestThisItem == Sectors(Item)
Rest ==
  LET rest == {i \in DOMAIN job.items : i >= at.item}
  IN  SumFunction([i \in rest |-> Sectors(job.items[i])])
      + Cardinality({i \in rest : IsStreamItem(job.items[i])}) * (Block - 1)

Fitted ==
  IF job.fit /\ layout.breaks # <<>>
  THEN PadOverZoneIfFileCrosses(iso, Sectors(Item), Rest, IsStreamItem(Item))
  ELSE iso

StartItem ==
  /\ ItemsLeft
  /\ LET base == IF Item.kind = "group" THEN Open(Fitted, <<"base", at.item>>) ELSE Fitted
     IN  iso' = Open(base, Name(at.item))
  /\ phase' = "copying"
  /\ at' = [at EXCEPT !.turn = "dep", !.piece = 1, !.dep = 0]
  /\ UNCHANGED <<layout, job>>

\* A piece is written in copies of the buffer; the guard goes between two pairs.
\* at.piece is the piece, at.dep what is copied of it.
CopyWrite ==
  /\ phase = "copying" /\ at.piece <= Len(Item.pieces)
  /\ LET size == Item.pieces[at.piece]
         n == Min({Buffer, size - at.dep})
         first == Item.kind = "group" /\ at.piece % 2 = 1 /\ at.dep = 0
         ready == IF first THEN PadBeforeInterleavedPair(iso, size + Item.pieces[at.piece + 1])
                  ELSE iso
         f == IF Item.kind = "group" /\ at.piece % 2 = 0 THEN <<"base", at.item>> ELSE Name(at.item)
         whole == at.dep + n = size IN
     /\ iso' = Write(ready, f, n, Item.tail /\ whole /\ at.piece = Len(Item.pieces))
     /\ at' = IF whole THEN [at EXCEPT !.piece = @ + 1, !.dep = 0] ELSE [at EXCEPT !.dep = @ + n]
  /\ UNCHANGED <<layout, job, phase>>

Closed(s, p) == CloseFile(CloseFile(s, <<"base", p>>), <<"dep", p>>)

EndItem ==
  /\ phase = "copying" /\ at.piece > Len(Item.pieces)
  /\ IF Item.kind # "group"
     THEN iso' = CloseFile(iso, Name(at.item)) /\ phase' = "items"
     ELSE LET s == Closed(iso, at.item) IN
          IF CanInterleave(s, at.item)
          THEN iso' = CreateInterleavedFile(s, at.item) /\ phase' = "items"
          ELSE iso' = s /\ phase' = "refused"
  /\ at' = [at EXCEPT !.item = @ + 1]
  /\ UNCHANGED <<layout, job>>

\* After a 3D mux the .ssif of each part is made (main.cpp).
EndOfItems ==
  /\ phase = "items" /\ at.item > Len(job.items)
  /\ LET parts == [p \in 1..(IF job.switcher = "" THEN 0 ELSE at.base) |-> p] IN
     IF \A p \in DOMAIN parts : CanInterleave(iso, p)
     THEN iso' = FoldLeft(CreateInterleavedFile, iso, parts) /\ phase' = "written"
     ELSE phase' = "refused" /\ UNCHANGED iso
  /\ UNCHANGED <<layout, job, at>>

Close ==
  /\ phase = "written"
  /\ iso' = WriteMirror(WriteDeferredFiles(MoveBackLookAhead(iso)))
  /\ phase' = "closed"
  /\ UNCHANGED <<layout, job, at>>

Next ==
  \/ \E n \in 1..DepMax : WriteDep(n)
  \/ \E n \in 1..BaseMax : WriteBase(n)
  \/ BaseSwitches \/ DepSwitches \/ BaseFollows \/ EndOfMux
  \/ StartItem \/ CopyWrite \/ EndItem \/ EndOfItems
  \/ Close

Spec == Init /\ [][Next]_vars

-----------------------------------------------------------------------------
Lbns(ext) == FlattenSeq([i \in DOMAIN ext |-> [k \in 1..ext[i].n |-> ext[i].lbn + k - 1]])
Extents(f) == iso.ent[f].ext
Sector(lbn) == iso.disk[lbn + 1]
DataSectors == {n \in 1..Len(iso.disk) : iso.disk[n] \notin {Zero, Mirror}}
DataEnd == Max({0} \cup DataSectors)

TypeOK ==
  /\ phase \in {"pairs", "items", "copying", "written", "closed", "refused"}
  /\ iso.pos = Len(iso.disk)
  /\ iso.heldBytes \in 0..MaxHeld
  /\ \A f \in Files : \A i \in DOMAIN Extents(f) :
       Extents(f)[i].n \in 1..MaxExtent /\ Extents(f)[i].lbn \in Nat

\* What the directory says of a file is where its data is: reading its extents gives what
\* was written, in order, whatever was written, left empty or moved since.
ReadsBack ==
  \A f \in Files : f[1] # "ssif" =>
    LET lbns == Lbns(Extents(f)) IN
    /\ Len(lbns) = iso.ent[f].size
    /\ \A k \in 1..(iso.ent[f].size - (IF iso.ent[f].tail THEN 1 ELSE 0)) :
         lbns[k] < Len(iso.disk) /\ Sector(lbns[k]) = <<f, k>>

\* The two views of a 3D title can always be named as one file, which holds each sector of
\* both once and is read without going back on the disc.
SsifInOrder ==
  /\ phase # "refused"
  /\ \A p \in 1..MaxParts :
       LET lbns == Lbns(Extents(<<"ssif", p>>)) IN
       lbns # <<>> =>
         /\ \A i, k \in DOMAIN lbns : i < k => lbns[i] < lbns[k]
         /\ Range(lbns) = Range(Lbns(Extents(<<"dep", p>>))) \cup Range(Lbns(Extents(<<"base", p>>)))

(* No data is stored in the zone around a layer break: around any of them,  *)
(* as the comment of checkLayerBreakPoint has it, and on a disc whose       *)
(* breaks are far apart, as its code takes them to be.                      *)
AnyZoneFree ==
  \A i \in Zones : \A lbn \in Nat \cap (ZoneStart(i)..(ZoneEnd(i) - 1)) :
    lbn < Len(iso.disk) => Sector(lbn) \in {Zero, Mirror}
ZonesFree == BreaksApart(layout) => AnyZoneFree

MirrorPlace ==
  phase = "closed" /\ HasMirrorPlace =>
    \/ iso.mirror + Meta <= MirrorEnd /\ DataEnd - Back(iso) > MirrorStart
    \/ DataEnd <= MirrorStart /\ iso.mirror >= DataEnd

Copies == {f \in Files : f[1] = "copy"}
CopiesLast ==
  phase = "closed" /\ SumFunction([f \in Copies |-> iso.ent[f].size]) <= MaxHeld =>
    \A f \in Copies : \A g \in Files \ Copies :
      \A i \in DOMAIN Extents(f), k \in DOMAIN Extents(g) : Extents(g)[k].lbn < Extents(f)[i].lbn
(* The second copies lie far from the first: the mirror of the file system  *)
(* ends layer 0 when the data needs more, and lies behind the data when     *)
(* not; the copies of files lie behind all that they are copies of, when    *)
(* they can be held back.                                                   *)
CopiesInPlace == MirrorPlace /\ CopiesLast

(* An image that the check before the copy (main.cpp:2714) calls a fit is   *)
(* not larger than the disc, whatever zones, moved files and the mirror     *)
(* leave empty.  The check counts one buffer before each zone; the two      *)
(* chunks of a pair, which stay together, may be larger.                    *)
Payload == SumFunction([i \in DOMAIN job.items |-> Sectors(job.items[i])])
PairsInBuffer ==
  \A i \in DOMAIN job.items : job.items[i].kind = "group" =>
    \A k \in DOMAIN job.items[i].pieces : k % 2 = 1 =>
      job.items[i].pieces[k] + job.items[i].pieces[k + 1] <= Buffer
EstimateFits ==
  LET reached == {i \in Zones : Payload > ZoneStart(i)} IN
  Payload + Cardinality(reached) * (layout.before + layout.after + Buffer)
    + Cardinality({i \in DOMAIN job.items : IsStreamItem(job.items[i])}) * (Block - 1)
    + UdfMargin <= layout.capacity
FitsDisc ==
  phase = "closed" /\ job.switcher = "" /\ layout.capacity > 0 /\ EstimateFits /\ PairsInBuffer =>
    Len(iso.disk) <= layout.capacity
=============================================================================

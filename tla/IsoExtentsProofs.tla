---------------------------- MODULE IsoExtentsProofs ----------------------------
(***************************************************************************)
(* Proofs about the image writer: every file reads back from its extents,  *)
(* and no data lies in the zone around a layer break.                      *)
(***************************************************************************)
EXTENDS IsoExtents, WellFoundedInduction, TLAPS

-----------------------------------------------------------------------------
(* Numbers and sets *)

(* Induction, for a set of numbers.                                        *)
LEMMA Induct ==
  ASSUME NEW T, 0 \in T, \A i \in Nat : i \in T => i + 1 \in T
  PROVE  Nat \subseteq T
<1> SUFFICES ASSUME Nat \ T # {} PROVE FALSE
  OBVIOUS
<1>1. IsWellFoundedOn({p \in Nat \X Nat : p[1] < p[2]}, Nat)
  BY NatLessThanWellFounded DEF OpToRel
<1>2. PICK x \in Nat \ T : \A y \in Nat \ T : ~(<<y, x>> \in {p \in Nat \X Nat : p[1] < p[2]})
  BY <1>1, WFMin, Zenon
<1>3. x # 0 /\ x - 1 \in Nat /\ x - 1 < x
  OBVIOUS
<1>4. x - 1 \in T
  BY <1>2, <1>3
<1>. QED  BY <1>3, <1>4

(* The smallest of two, and of any numbers.                                *)
LEMMA MinOfTwo ==
  ASSUME NEW a \in Int, NEW b \in Int
  PROVE  Min({a, b}) = IF a <= b THEN a ELSE b
<1>1. CASE a <= b
  <2>1. \A y \in {a, b} : a <= y
    BY <1>1
  <2>. QED  BY <1>1, <2>1 DEF Min
<1>2. CASE ~(a <= b)
  <2>1. \A y \in {a, b} : b <= y
    BY <1>2
  <2>. QED  BY <1>2, <2>1 DEF Min
<1>. QED  BY <1>1, <1>2

(* The smallest of any natural numbers.                                    *)
LEMMA MinOfSome ==
  ASSUME NEW T, T \subseteq Nat, T # {}
  PROVE  Min(T) \in T /\ \A y \in T : Min(T) <= y
<1>1. IsWellFoundedOn({p \in Nat \X Nat : p[1] < p[2]}, Nat)
  BY NatLessThanWellFounded DEF OpToRel
<1>2. PICK x \in T : \A y \in T : ~(<<y, x>> \in {p \in Nat \X Nat : p[1] < p[2]})
  BY <1>1, WFMin, Zenon
<1>3. ASSUME NEW y \in T PROVE x <= y
  <2>1. <<y, x>> \notin {p \in Nat \X Nat : p[1] < p[2]}
    BY <1>2
  <2>2. ~(y < x) /\ y \in Nat /\ x \in Nat
    BY <2>1
  <2>. QED  BY <2>2
<1>. QED  BY <1>2, <1>3 DEF Min

(* The largest of the numbers up to m.                                     *)
LEMMA MaxOfInterval ==
  ASSUME NEW m \in Nat \ {0}
  PROVE  Max(1..m) = m /\ (1..m) \ {m} = 1..(m - 1)
<1>1. m \in 1..m /\ \A y \in 1..m : m >= y
  OBVIOUS
<1>. QED  BY <1>1 DEF Max

-----------------------------------------------------------------------------
(* Folds *)

(* A set of numbers up to n that is not empty has a largest, and a smallest. *)
LEMMA LargestOfPart ==
  ASSUME NEW n \in Nat, NEW x \in SUBSET (1..n), x # {}
  PROVE  Max(x) \in x /\ \A y \in x : y <= Max(x)
<1> DEFINE T == {n - y : y \in x}
<1>1. T \subseteq Nat /\ T # {}
  <2>1. \A y \in x : n - y \in Nat
    OBVIOUS
  <2>2. PICK y \in x : TRUE
    OBVIOUS
  <2>3. n - y \in T
    OBVIOUS
  <2>. QED  BY <2>1, <2>3
<1>2. PICK z \in x : Min(T) = n - z
  BY <1>1, MinOfSome
<1>3. \A y \in x : n - z <= n - y
  BY <1>1, <1>2, MinOfSome
<1>4. z \in x /\ \A y \in x : z >= y
  BY <1>3
<1>. QED  BY <1>4 DEF Max

(* A fold from the left is a function of the sets of places.               *)
FoldsPlaces(it, m, b, F) ==
  it = [x \in SUBSET (1..m) |-> IF x = {} THEN b ELSE F[Max(x)][it[x \ {Max(x)}]]]
\* Over m places there is one.
HasFold(S, m, b, F) == \E it \in [SUBSET (1..m) -> S] : FoldsPlaces(it, m, b, F)

(* What a fold over no place needs.                                        *)
LEMMA FoldOfNone ==
  ASSUME NEW S, NEW b \in S, NEW F
  PROVE  HasFold(S, 0, b, F)
<1> DEFINE it == [x \in SUBSET (1..0) |-> b]
<1>1. SUBSET (1..0) = {{}}
  OBVIOUS
<1>2. it \in [SUBSET (1..0) -> S] /\ FoldsPlaces(it, 0, b, F)
  BY <1>1 DEF FoldsPlaces
<1>. QED  BY <1>2 DEF HasFold

(* A fold over m places goes on to one more.                               *)
LEMMA FoldOfOneMore ==
  ASSUME NEW S, NEW b \in S, NEW n \in Nat, NEW F \in [1..n -> [S -> S]], NEW m \in Nat,
         m + 1 <= n, HasFold(S, m, b, F)
  PROVE  HasFold(S, m + 1, b, F)
<1>1. PICK g \in [SUBSET (1..m) -> S] : FoldsPlaces(g, m, b, F)
  BY DEF HasFold
<1> DEFINE it == [x \in SUBSET (1..m + 1) |-> IF m + 1 \in x THEN F[m + 1][g[x \ {m + 1}]] ELSE g[x]]
<1>2. ASSUME NEW x \in SUBSET (1..m + 1)
      PROVE  /\ x \ {m + 1} \in SUBSET (1..m) /\ (m + 1 \notin x => x \in SUBSET (1..m))
             /\ m + 1 \in x => Max(x) = m + 1
  <2>1. \A y \in x : m + 1 >= y
    OBVIOUS
  <2>2. ASSUME m + 1 \in x PROVE Max(x) = m + 1
    <3>1. \A z \in x : (\A y \in x : z >= y) => z = m + 1
      BY <2>1, <2>2
    <3>. QED  BY <2>1, <2>2, <3>1 DEF Max
  <2>. QED  BY <2>2
<1>3. \A x \in SUBSET (1..m + 1) : it[x] \in S
  <2> SUFFICES ASSUME NEW x \in SUBSET (1..m + 1) PROVE it[x] \in S
    OBVIOUS
  <2>1. CASE m + 1 \in x
    <3>1. g[x \ {m + 1}] \in S /\ m + 1 \in 1..n
      BY <1>2
    <3>. QED  BY <2>1, <3>1
  <2>2. CASE m + 1 \notin x
    BY <1>2, <2>2
  <2>. QED  BY <2>1, <2>2
<1>4. \A x \in SUBSET (1..m + 1) : it[x] = IF x = {} THEN b ELSE F[Max(x)][it[x \ {Max(x)}]]
  <2> SUFFICES ASSUME NEW x \in SUBSET (1..m + 1)
               PROVE  it[x] = IF x = {} THEN b ELSE F[Max(x)][it[x \ {Max(x)}]]
    OBVIOUS
  <2>1. CASE m + 1 \in x
    <3>1. x \ {m + 1} \in SUBSET (1..m + 1) /\ it[x \ {m + 1}] = g[x \ {m + 1}] /\ Max(x) = m + 1
      BY <1>2, <2>1
    <3>. QED  BY <2>1, <3>1
  <2>2. CASE m + 1 \notin x
    <3> DEFINE y == x \ {Max(x)}
    <3>1. x \in SUBSET (1..m) /\ y \in SUBSET (1..m) /\ y \in SUBSET (1..m + 1) /\ m + 1 \notin y
      BY <1>2, <2>2
    <3>2. g[x] = IF x = {} THEN b ELSE F[Max(x)][g[y]]
      BY <1>1, <3>1 DEF FoldsPlaces
    <3>3. it[x] = g[x] /\ it[y] = g[y]
      BY <2>2, <3>1
    <3>. QED  BY <3>2, <3>3
  <2>. QED  BY <2>1, <2>2
<1>5. it = [x \in SUBSET (1..m + 1) |-> it[x]]
  OBVIOUS
<1> HIDE DEF it
<1>6. it \in [SUBSET (1..m + 1) -> S]
  BY <1>3, <1>5
<1>7. FoldsPlaces(it, m + 1, b, F)
  BY <1>4, <1>5, Zenon DEF FoldsPlaces
<1>. QED  BY <1>6, <1>7 DEF HasFold

(* So a fold over any number of places has values to be found.             *)
LEMMA FoldOfPlaces ==
  ASSUME NEW S, NEW b \in S, NEW n \in Nat, NEW F \in [1..n -> [S -> S]]
  PROVE  HasFold(S, n, b, F)
<1> DEFINE T == {m \in Nat : m > n \/ HasFold(S, m, b, F)}
<1>1. 0 \in T
  BY FoldOfNone
<1>2. \A m \in Nat : m \in T => m + 1 \in T
  BY FoldOfOneMore
<1>3. n \in T
  BY <1>1, <1>2, Induct
<1>. QED  BY <1>3

-----------------------------------------------------------------------------
(* Types *)

\* What a sector of the disc holds.
Cell == (Files \X Nat) \cup {Zero, Mirror}
\* A stretch of sectors.
Gap == [from : Nat, to : Nat]
\* What the look ahead left empty
Hole == {g \in Gap : g.from <= g.to}
\* An extent, and the entry of a file.
Extent == [lbn : Nat, n : 1..MaxExtent]
Entry == [ext : Seq(Extent), size : Nat, tail : BOOLEAN, leads : BOOLEAN, closed : BOOLEAN,
          deferred : BOOLEAN, held : Nat, heldTail : BOOLEAN]
\* What m_lastWritedObjectID can name.
Names == Files \cup {None}
\* IsoWriter's members, with the disc.
Image == [disk : Seq(Cell), pos : Nat, last : Names, lastEntry : Names, placed : BOOLEAN,
          mirror : Nat, pads : Seq(Gap), gaps : Seq(Hole), padsBefore : Nat,
          byLookAhead : BOOLEAN, pairsPlaced : BOOLEAN, queue : Seq(Files), heldBytes : Int,
          ent : [Files -> Entry]]
\* The next write goes behind all there is
AtEnd(s) == s \in Image /\ s.pos = Len(s.disk)

(* The types of an image's parts.                                          *)
LEMMA FieldsOfImage ==
  ASSUME NEW s, AtEnd(s)
  PROVE  /\ s \in Image /\ s.disk \in Seq(Cell) /\ Len(s.disk) \in Nat /\ s.pos \in Nat
         /\ s.pos = Len(s.disk) /\ s.last \in Names /\ s.lastEntry \in Names
         /\ s.placed \in BOOLEAN /\ s.mirror \in Nat /\ s.pads \in Seq(Gap) /\ Len(s.pads) \in Nat
         /\ s.gaps \in Seq(Hole) /\ Len(s.gaps) \in Nat /\ s.padsBefore \in Nat
         /\ s.byLookAhead \in BOOLEAN /\ s.pairsPlaced \in BOOLEAN
         /\ s.queue \in Seq(Files) /\ Len(s.queue) \in Nat
         /\ s.heldBytes \in Int /\ s.ent \in [Files -> Entry]
<1>1. s \in Image /\ s.pos = Len(s.disk)
  BY DEF AtEnd
<1>2. /\ s.disk \in Seq(Cell) /\ s.pos \in Nat /\ s.last \in Names /\ s.lastEntry \in Names
      /\ s.placed \in BOOLEAN /\ s.mirror \in Nat /\ s.pads \in Seq(Gap) /\ s.gaps \in Seq(Hole)
      /\ s.padsBefore \in Nat /\ s.byLookAhead \in BOOLEAN /\ s.pairsPlaced \in BOOLEAN
      /\ s.queue \in Seq(Files) /\ s.heldBytes \in Int /\ s.ent \in [Files -> Entry]
  BY <1>1 DEF Image
<1>. QED  BY <1>1, <1>2

(* The types of the constants; no write is larger than an extent.          *)
LEMMA Constants ==
  /\ Block \in Nat \ {0} /\ Meta \in Nat \ {0} /\ MaxExtent \in Nat \ {0} /\ Buffer \in Nat \ {0}
  /\ DepMax \in Nat \ {0} /\ BaseMax \in Nat \ {0} /\ MaxHeld \in Nat /\ MaxParts \in Nat \ {0}
  /\ Margin \in Nat /\ MaxSectors \in Nat /\ LookAhead \in Nat \ {0}
  /\ MaxHeld <= MaxExtent /\ DepMax <= MaxExtent /\ BaseMax <= MaxExtent /\ Buffer <= MaxExtent
BY IsoAssumption DEF LookAhead

(* A sector of a file is neither empty nor the mirror's, and no file is    *)
(* None.                                                                   *)
LEMMA NotFiles ==
  /\ None \notin Files /\ Zero \in Cell /\ Mirror \in Cell
  /\ \A f \in Files, k \in Nat : <<f, k>> \in Cell /\ <<f, k>> # Zero /\ <<f, k>> # Mirror
<1>1. /\ \A f \in Files : f[1] \in {"dep", "base", "ssif", "stream", "file", "copy"}
      /\ None[1] = "none" /\ <<"zero", 0>>[1] = "zero" /\ <<"mirror", 0>>[1] = "mirror"
  BY DEF Files, None
<1>2. None \notin Files /\ <<"zero", 0>> \notin Files /\ <<"mirror", 0>> \notin Files
  BY <1>1
<1>3. ASSUME NEW f \in Files, NEW k \in Nat PROVE <<f, k>> # Zero /\ <<f, k>> # Mirror
  <2>1. <<f, k>>[1] = f /\ Zero[1] = <<"zero", 0>> /\ Mirror[1] = <<"mirror", 0>>
    BY DEF Zero, Mirror
  <2>. QED  BY <1>2, <2>1
<1>. QED  BY <1>2, <1>3 DEF Cell

-----------------------------------------------------------------------------
(* Sequences *)

(* Equal sectors: how many, and what they are.                             *)
LEMMA SameCells ==
  ASSUME NEW cell, NEW n \in Int
  PROVE  /\ Same(cell, n) \in Seq({cell}) /\ Len(Same(cell, n)) = IF n > 0 THEN n ELSE 0
         /\ \A i \in 1..n : Same(cell, n)[i] = cell
<1>1. CASE n > 0
  BY <1>1 DEF Same
<1>2. CASE ~(n > 0)
  <2>1. 1..n = 1..0
    BY <1>2
  <2>2. Same(cell, n) = [i \in 1..0 |-> cell]
    BY <2>1, Zenon DEF Same
  <2>. QED  BY <1>2, <2>1, <2>2
<1>. QED  BY <1>1, <1>2

(* One sequence behind another.                                            *)
LEMMA Joined ==
  ASSUME NEW S, NEW a \in Seq(S), NEW b \in Seq(S)
  PROVE  /\ a \o b \in Seq(S) /\ Len(a \o b) = Len(a) + Len(b)
         /\ \A i \in 1..Len(a) : (a \o b)[i] = a[i]
         /\ \A i \in 1..Len(b) : (a \o b)[Len(a) + i] = b[i]
OBVIOUS

(* The same of sectors.                                                    *)
LEMMA JoinedCells ==
  \A a, b \in Seq(Cell) :
    /\ a \o b \in Seq(Cell) /\ Len(a \o b) = Len(a) + Len(b)
    /\ \A i \in 1..Len(a) : (a \o b)[i] = a[i]
    /\ \A i \in 1..Len(b) : (a \o b)[Len(a) + i] = b[i]
OBVIOUS

(* A part of a sequence of sectors.                                        *)
LEMMA PartOfCells ==
  ASSUME NEW a \in Seq(Cell), NEW m \in Nat \ {0}, NEW n \in Int, n <= Len(a)
  PROVE  /\ SubSeq(a, m, n) \in Seq(Cell)
         /\ Len(SubSeq(a, m, n)) = IF m <= n THEN n - m + 1 ELSE 0
         /\ \A i \in 1..Len(SubSeq(a, m, n)) : SubSeq(a, m, n)[i] = a[m + i - 1]
OBVIOUS

(* A sequence is given by its length and elements.                         *)
LEMMA SequenceOf ==
  ASSUME NEW S, NEW a, NEW n \in Nat, a = [i \in 1..n |-> a[i]], \A i \in 1..n : a[i] \in S
  PROVE  a \in Seq(S) /\ Len(a) = n
OBVIOUS

-----------------------------------------------------------------------------
(* Writing *)

(* What is written in front of the end replaces what lies there, and       *)
(* nothing else.                                                           *)
LEMMA PutParts ==
  ASSUME NEW s \in Image, s.pos <= Len(s.disk), NEW cells \in Seq(Cell)
  PROVE  Put(s, cells) = [s EXCEPT !.disk = SubSeq(s.disk, 1, s.pos) \o cells
                                              \o SubSeq(s.disk, s.pos + Len(cells) + 1, Len(s.disk)),
                                   !.pos = s.pos + Len(cells)]
<1>1. s.pos \in Nat /\ s.disk \in Seq(Cell) /\ Len(s.disk) \in Nat /\ Zero \in Cell
  BY NotFiles DEF Image
<1>2. Min({s.pos, Len(s.disk)}) = s.pos
  BY <1>1, MinOfTwo
<1>3. Zeros(s.pos - Len(s.disk)) \in Seq({Zero}) /\ Len(Zeros(s.pos - Len(s.disk))) = 0
  <2> DEFINE n == s.pos - Len(s.disk)
  <2>1. n \in Int /\ ~(n > 0)
    BY <1>1
  <2> HIDE DEF n
  <2>2. Same(Zero, n) \in Seq({Zero}) /\ Len(Same(Zero, n)) = 0
    BY <2>1, SameCells
  <2>. QED  BY <2>2 DEF Zeros, n
<1>4. Zeros(s.pos - Len(s.disk)) = <<>>
  BY <1>3
<1>5. SubSeq(s.disk, 1, s.pos) \in Seq(Cell)
  BY <1>1
<1>6. SubSeq(s.disk, 1, s.pos) \o Zeros(s.pos - Len(s.disk)) = SubSeq(s.disk, 1, s.pos)
  BY <1>4, <1>5
<1>. QED  BY <1>2, <1>6 DEF Put

(* What is put behind the end is appended.                                 *)
LEMMA PutAtEnd ==
  ASSUME NEW s, AtEnd(s), NEW cells \in Seq(Cell)
  PROVE  /\ Put(s, cells) = [s EXCEPT !.disk = s.disk \o cells, !.pos = s.pos + Len(cells)]
         /\ AtEnd(Put(s, cells))
         /\ Len(Put(s, cells).disk) = Len(s.disk) + Len(cells)
         /\ \A i \in 1..Len(s.disk) : Put(s, cells).disk[i] = s.disk[i]
         /\ \A i \in 1..Len(cells) : Put(s, cells).disk[Len(s.disk) + i] = cells[i]
<1>1. /\ s \in Image /\ s.pos = Len(s.disk) /\ s.pos \in Nat /\ s.disk \in Seq(Cell)
      /\ Len(s.disk) \in Nat /\ Len(cells) \in Nat /\ s.pos + Len(cells) \in Nat
  BY DEF AtEnd, Image
<1>2. SubSeq(s.disk, 1, Len(s.disk)) = s.disk
  BY <1>1
<1>3. SubSeq(s.disk, s.pos + Len(cells) + 1, Len(s.disk)) = <<>>
  <2>1. Len(cells) \in Nat
    OBVIOUS
  <2>. QED  BY <1>1, <2>1
<1>4. s.disk \o cells \o <<>> = s.disk \o cells /\ s.disk \o cells \in Seq(Cell)
  BY <1>1
<1>5. Put(s, cells) = [s EXCEPT !.disk = s.disk \o cells, !.pos = s.pos + Len(cells)]
  <2>1. Put(s, cells) = [s EXCEPT !.disk = SubSeq(s.disk, 1, s.pos) \o cells
                                              \o SubSeq(s.disk, s.pos + Len(cells) + 1, Len(s.disk)),
                                   !.pos = s.pos + Len(cells)]
    <3>1. s.pos <= Len(s.disk)
      BY <1>1
    <3>. QED  BY <1>1, <3>1, PutParts
  <2>2. SubSeq(s.disk, 1, s.pos) \o cells \o SubSeq(s.disk, s.pos + Len(cells) + 1, Len(s.disk))
          = s.disk \o cells
    BY <1>1, <1>2, <1>3, <1>4
  <2>. QED  BY <2>1, <2>2
<1>6. Put(s, cells).disk = s.disk \o cells /\ Put(s, cells).pos = s.pos + Len(cells)
  BY <1>1, <1>5 DEF Image
<1>7. Put(s, cells) \in Image
  BY <1>1, <1>4, <1>5 DEF Image
<1>. QED  BY <1>1, <1>5, <1>6, <1>7, JoinedCells DEF AtEnd

(* What is put in the middle replaces what was there.                      *)
LEMMA PutOver ==
  ASSUME NEW s \in Image, NEW cells \in Seq(Cell), s.pos + Len(cells) <= Len(s.disk)
  PROVE  /\ Put(s, cells) \in Image /\ Put(s, cells).pos = s.pos + Len(cells)
         /\ Put(s, cells) = [s EXCEPT !.disk = Put(s, cells).disk, !.pos = s.pos + Len(cells)]
         /\ Len(Put(s, cells).disk) = Len(s.disk)
         /\ \A i \in 1..Len(s.disk) : Put(s, cells).disk[i] =
              IF i \in s.pos + 1..s.pos + Len(cells) THEN cells[i - s.pos] ELSE s.disk[i]
<1> DEFINE L == Len(s.disk)  c == Len(cells)  p == s.pos
           front == SubSeq(s.disk, 1, p)
           head == front \o cells
           back == SubSeq(s.disk, p + c + 1, L)
           all == head \o back
<1>1. /\ p \in Nat /\ s.disk \in Seq(Cell) /\ L \in Nat /\ c \in Nat
      /\ p + c <= L /\ p <= L /\ p + c + 1 \in Nat \ {0}
  BY DEF Image
<1>2. Put(s, cells) = [s EXCEPT !.disk = all, !.pos = p + c]
  BY <1>1, PutParts
<1>3. front \in Seq(Cell) /\ Len(front) = p /\ \A i \in 1..p : front[i] = s.disk[i]
  BY <1>1, PartOfCells
<1>4. /\ back \in Seq(Cell) /\ Len(back) = L - p - c
      /\ \A i \in 1..L - p - c : back[i] = s.disk[p + c + i]
  <2>1. /\ back \in Seq(Cell) /\ Len(back) = (IF p + c + 1 <= L THEN L - (p + c + 1) + 1 ELSE 0)
        /\ \A i \in 1..Len(back) : back[i] = s.disk[p + c + 1 + i - 1]
    <3>1. L \in Int /\ L <= Len(s.disk)
      BY <1>1
    <3> HIDE DEF L, c, p
    <3>. QED  BY <1>1, <3>1, PartOfCells
  <2>2. Len(back) = L - p - c
    BY <1>1, <2>1
  <2>3. \A i \in 1..Len(back) : p + c + 1 + i - 1 = p + c + i
    BY <1>1
  <2>. QED  BY <2>1, <2>2, <2>3
<1>5. /\ head \in Seq(Cell) /\ Len(head) = p + c
      /\ \A i \in 1..p : head[i] = s.disk[i]
      /\ \A i \in 1..c : head[p + i] = cells[i]
  BY <1>3, JoinedCells
<1> HIDE DEF front, back, head
<1>6. /\ all \in Seq(Cell) /\ Len(all) = L
      /\ \A i \in 1..p + c : all[i] = head[i]
      /\ \A i \in 1..L - p - c : all[p + c + i] = back[i]
  <2>1. /\ all \in Seq(Cell) /\ Len(all) = Len(head) + Len(back)
        /\ \A i \in 1..Len(head) : all[i] = head[i]
        /\ \A i \in 1..Len(back) : all[Len(head) + i] = back[i]
    BY <1>4, <1>5, JoinedCells
  <2>2. Len(head) + Len(back) = L
    BY <1>1, <1>4, <1>5
  <2>. QED  BY <1>4, <1>5, <2>1, <2>2
<1> HIDE DEF all
<1>7. ASSUME NEW i \in 1..L
      PROVE  all[i] = IF i \in p + 1..p + c THEN cells[i - p] ELSE s.disk[i]
  <2>1. CASE i <= p
    <3>1. i \in 1..p /\ i \in 1..p + c /\ i \notin p + 1..p + c
      BY <1>1, <2>1
    <3>. QED  BY <1>5, <1>6, <3>1
  <2>2. CASE i \in p + 1..p + c
    <3>1. i - p \in 1..c /\ i \in 1..p + c /\ p + (i - p) = i
      BY <1>1, <2>2
    <3>. QED  BY <1>5, <1>6, <2>2, <3>1
  <2>3. CASE i > p + c
    <3>1. /\ i - p - c \in 1..L - p - c /\ p + c + (i - p - c) = i
          /\ i \notin p + 1..p + c
      BY <1>1, <2>3
    <3>. QED  BY <1>4, <1>6, <3>1
  <2>. QED  BY <1>1, <2>1, <2>2, <2>3
<1>8. Put(s, cells).disk = all /\ Put(s, cells).pos = p + c
  BY <1>2 DEF Image
<1>9. Put(s, cells) \in Image
  <2>1. p + c \in Nat
    BY <1>1
  <2>. QED  BY <1>2, <1>6, <2>1 DEF Image
<1>. QED  BY <1>2, <1>6, <1>7, <1>8, <1>9

-----------------------------------------------------------------------------
(* What is left empty *)

\* t is s with sectors left empty behind the end, and perhaps the mirror's place in them
Padded(s, t) ==
  /\ AtEnd(s) /\ AtEnd(t) /\ Len(s.disk) <= Len(t.disk)
  /\ \A i \in 1..Len(s.disk) : t.disk[i] = s.disk[i]
  /\ \A i \in Len(s.disk) + 1..Len(t.disk) : t.disk[i] = Zero
  /\ t.last = None \/ (t.last = s.last /\ t.pos = s.pos)
  /\ t.lastEntry = s.lastEntry /\ t.ent = s.ent /\ t.queue = s.queue /\ t.heldBytes = s.heldBytes
  /\ t.gaps = s.gaps /\ t.padsBefore = s.padsBefore /\ Len(s.pads) <= Len(t.pads)
  /\ s.placed => t.placed /\ t.mirror = s.mirror
  /\ t.placed => s.placed \/ t.mirror \in s.pos + 1..Len(t.disk) - Meta

(* Nothing is padding too.                                                 *)
LEMMA PaddedSame ==
  ASSUME NEW s, AtEnd(s)
  PROVE  Padded(s, s)
BY DEF Padded, AtEnd, Image

(* Padding behind padding is padding.                                      *)
LEMMA PaddedTwice ==
  ASSUME NEW r, NEW s, NEW t, Padded(r, s), Padded(s, t)
  PROVE  Padded(r, t)
<1>1. /\ AtEnd(r) /\ AtEnd(s) /\ AtEnd(t) /\ r.pos = Len(r.disk) /\ s.pos = Len(s.disk)
      /\ Len(r.disk) \in Nat /\ Len(s.disk) \in Nat /\ Len(t.disk) \in Nat
      /\ Len(r.disk) <= Len(s.disk) /\ Len(s.disk) <= Len(t.disk)
      /\ t.mirror \in Nat /\ s.mirror \in Nat /\ r.mirror \in Nat /\ Meta \in Nat
      /\ Len(r.pads) \in Nat /\ Len(s.pads) \in Nat /\ Len(t.pads) \in Nat
  BY Constants, FieldsOfImage DEF Padded
<1>2. \A i \in 1..Len(r.disk) : t.disk[i] = r.disk[i]
  <2> SUFFICES ASSUME NEW i \in 1..Len(r.disk) PROVE t.disk[i] = r.disk[i]
    OBVIOUS
  <2>1. i \in 1..Len(s.disk)
    BY <1>1
  <2>. QED  BY <2>1 DEF Padded
<1>3. \A i \in Len(r.disk) + 1..Len(t.disk) : t.disk[i] = Zero
  <2> SUFFICES ASSUME NEW i \in Len(r.disk) + 1..Len(t.disk) PROVE t.disk[i] = Zero
    OBVIOUS
  <2>1. CASE i <= Len(s.disk)
    <3>1. i \in 1..Len(s.disk) /\ i \in Len(r.disk) + 1..Len(s.disk)
      BY <1>1, <2>1
    <3>. QED  BY <3>1 DEF Padded
  <2>2. CASE ~(i <= Len(s.disk))
    <3>1. i \in Len(s.disk) + 1..Len(t.disk)
      BY <1>1, <2>2
    <3>. QED  BY <3>1 DEF Padded
  <2>. QED  BY <2>1, <2>2
<1>4. t.last = None \/ (t.last = r.last /\ t.pos = r.pos)
  BY DEF Padded
<1>5. /\ t.lastEntry = r.lastEntry /\ t.ent = r.ent /\ t.queue = r.queue /\ t.heldBytes = r.heldBytes
      /\ t.gaps = r.gaps /\ t.padsBefore = r.padsBefore
      /\ r.placed => t.placed /\ t.mirror = r.mirror
  BY DEF Padded
<1>6. Len(r.pads) <= Len(t.pads)
  <2>1. Len(r.pads) <= Len(s.pads) /\ Len(s.pads) <= Len(t.pads)
    BY DEF Padded
  <2>. QED  BY <1>1, <2>1
<1>7. ASSUME t.placed, ~r.placed PROVE t.mirror \in r.pos + 1..Len(t.disk) - Meta
  <2>1. CASE s.placed
    <3>1. s.mirror \in r.pos + 1..Len(s.disk) - Meta /\ t.mirror = s.mirror
      BY <1>7, <2>1 DEF Padded
    <3>. QED  BY <1>1, <3>1
  <2>2. CASE ~s.placed
    <3>1. t.mirror \in s.pos + 1..Len(t.disk) - Meta
      BY <1>7, <2>2 DEF Padded
    <3>. QED  BY <1>1, <3>1
  <2>. QED  BY <2>1, <2>2
<1>. QED  BY <1>1, <1>2, <1>3, <1>4, <1>5, <1>6, <1>7 DEF Padded

(* Whatever the last written file is taken to be                           *)
LEMMA PaddedZeros ==
  ASSUME NEW s, AtEnd(s), NEW n \in Nat
  PROVE  LET t == [Put(s, Zeros(n)) EXCEPT !.last = None] IN Padded(s, t) /\ t.pos = s.pos + n
<1> DEFINE p == Put(s, Zeros(n))  t == [p EXCEPT !.last = None]
<1>1. /\ s \in Image /\ s.pos = Len(s.disk) /\ Len(s.disk) \in Nat
  BY DEF AtEnd, Image
<1>2. /\ Zeros(n) \in Seq({Zero}) /\ Zeros(n) \in Seq(Cell) /\ Len(Zeros(n)) = n
      /\ \A i \in 1..n : Zeros(n)[i] = Zero
  <2>1. Zeros(n) \in Seq({Zero}) /\ Len(Zeros(n)) = n /\ \A i \in 1..n : Zeros(n)[i] = Zero
    <3>1. n \in Int
      OBVIOUS
    <3>2. /\ Same(Zero, n) \in Seq({Zero}) /\ Len(Same(Zero, n)) = IF n > 0 THEN n ELSE 0
          /\ \A i \in 1..n : Same(Zero, n)[i] = Zero
      BY <3>1, SameCells
    <3>. QED  BY <3>2 DEF Zeros
  <2>2. {Zero} \subseteq Cell
    BY NotFiles
  <2>. QED  BY <2>1, <2>2
<1>3. /\ AtEnd(p) /\ Len(p.disk) = Len(s.disk) + n
      /\ p = [s EXCEPT !.disk = s.disk \o Zeros(n), !.pos = s.pos + n]
      /\ \A i \in 1..Len(s.disk) : p.disk[i] = s.disk[i]
      /\ \A i \in 1..n : p.disk[Len(s.disk) + i] = Zero
  <2> HIDE DEF t
  <2> DEFINE z == Zeros(n)
  <2>1. z \in Seq(Cell) /\ Len(z) = n /\ \A i \in 1..n : z[i] = Zero
    BY <1>2
  <2> HIDE DEF z
  <2>2. /\ Put(s, z) = [s EXCEPT !.disk = s.disk \o z, !.pos = s.pos + Len(z)]
        /\ AtEnd(Put(s, z))
        /\ Len(Put(s, z).disk) = Len(s.disk) + Len(z)
        /\ \A i \in 1..Len(s.disk) : Put(s, z).disk[i] = s.disk[i]
        /\ \A i \in 1..Len(z) : Put(s, z).disk[Len(s.disk) + i] = z[i]
    BY <2>1, PutAtEnd
  <2>. QED  BY <2>1, <2>2 DEF z
<1>4. /\ t.disk = p.disk /\ t.pos = s.pos + n /\ t.last = None /\ t.lastEntry = s.lastEntry
      /\ t.ent = s.ent /\ t.queue = s.queue /\ t.heldBytes = s.heldBytes /\ t.gaps = s.gaps
      /\ t.padsBefore = s.padsBefore /\ t.pads = s.pads /\ t.placed = s.placed /\ t.mirror = s.mirror
  BY <1>1, <1>3 DEF Image
<1>5. AtEnd(t)
  BY <1>1, <1>3, <1>4 DEF AtEnd, Image, Names
<1> HIDE DEF t, p
<1>6. \A i \in Len(s.disk) + 1..Len(t.disk) : t.disk[i] = Zero
  <2> SUFFICES ASSUME NEW i \in Len(s.disk) + 1..Len(t.disk) PROVE t.disk[i] = Zero
    OBVIOUS
  <2>1. i - Len(s.disk) \in 1..n /\ Len(s.disk) + (i - Len(s.disk)) = i
    BY <1>1, <1>3, <1>4
  <2>. QED  BY <1>3, <1>4, <2>1
<1>7. Len(s.pads) <= Len(t.pads)
  BY <1>1, <1>4 DEF Image
<1>8. Padded(s, t)
  BY <1>1, <1>3, <1>4, <1>5, <1>6, <1>7 DEF Padded
<1>. QED  BY <1>4, <1>8 DEF t, p

(* fillZeroSectors leaves what is stored alone; the next write begins an   *)
(* extent of its own.                                                      *)
LEMMA PaddedFill ==
  ASSUME NEW s, AtEnd(s), NEW n \in Int
  PROVE  /\ Padded(s, FillZeroSectors(s, n)) /\ FillZeroSectors(s, n).last = None
         /\ FillZeroSectors(s, n).pos = IF n > 0 THEN s.pos + n ELSE s.pos
         /\ FillZeroSectors(s, n).placed = s.placed
         /\ FillZeroSectors(s, n).pads = s.pads
<1>1. CASE n > 0
  <2>1. n \in Nat
    BY <1>1
  <2>2. FillZeroSectors(s, n) = [Put(s, Zeros(n)) EXCEPT !.last = None]
    BY <1>1 DEF FillZeroSectors
  <2>3. Padded(s, FillZeroSectors(s, n)) /\ FillZeroSectors(s, n).pos = s.pos + n
    BY <2>1, <2>2, PaddedZeros
  <2>4. Put(s, Zeros(n)) \in Image
    <3>1. Zeros(n) \in Seq(Cell)
      <4>1. Same(Zero, n) \in Seq({Zero}) /\ {Zero} \subseteq Cell
        BY SameCells, NotFiles
      <4>. QED  BY <4>1 DEF Zeros
    <3>2. AtEnd(Put(s, Zeros(n)))
      BY <3>1, PutAtEnd
    <3>. QED  BY <3>2 DEF AtEnd
  <2>5. Put(s, Zeros(n)).placed = s.placed /\ Put(s, Zeros(n)).pads = s.pads
    BY DEF Put, AtEnd, Image
  <2>6. FillZeroSectors(s, n).last = None
    BY <2>2, <2>4 DEF Image
  <2>. QED  BY <1>1, <2>2, <2>3, <2>4, <2>5, <2>6 DEF Image
<1>2. CASE ~(n > 0)
  <2>1. FillZeroSectors(s, n) = [s EXCEPT !.last = None]
    BY <1>2 DEF FillZeroSectors
  <2> DEFINE t == [s EXCEPT !.last = None]
  <2>2. AtEnd(t)
    BY DEF AtEnd, Image, Names
  <2>3. /\ t.disk = s.disk /\ t.pos = s.pos /\ t.last = None /\ t.lastEntry = s.lastEntry
        /\ t.ent = s.ent /\ t.queue = s.queue /\ t.heldBytes = s.heldBytes /\ t.gaps = s.gaps
        /\ t.padsBefore = s.padsBefore /\ t.pads = s.pads /\ t.placed = s.placed /\ t.mirror = s.mirror
    BY DEF AtEnd, Image
  <2> HIDE DEF t
  <2>4. Padded(s, t)
    BY <2>2, <2>3, FieldsOfImage DEF Padded
  <2>. QED  BY <1>2, <2>1, <2>3, <2>4 DEF t
<1>. QED  BY <1>1, <1>2

-----------------------------------------------------------------------------
(* The disc *)

\* What is written at once
OneWrite(n) == n \in Nat \ {0} /\ \E m \in {MaxHeld, DepMax, BaseMax, Buffer} : n <= m

\* On a disc whose breaks are far apart, n sectors at lbn are in no zone.
Clears(lbn, n) == BreaksApart(layout) => \A i \in Zones : ~Reaches(lbn, n, i)

(* A part of what one write takes is no more than one write takes.         *)
LEMMA ShortWrite ==
  ASSUME NEW n, OneWrite(n)
  PROVE  n \in 1..MaxExtent /\ \A k \in 1..n : OneWrite(k)
<1>1. PICK m \in {MaxHeld, DepMax, BaseMax, Buffer} : n <= m
  BY DEF OneWrite
<1>2. m \in Nat /\ m <= MaxExtent /\ n \in Nat \ {0} /\ MaxExtent \in Nat
  BY <1>1, Constants DEF OneWrite
<1>3. \A k \in 1..n : k \in Nat \ {0} /\ k <= m
  BY <1>1, <1>2
<1>. QED  BY <1>1, <1>2, <1>3 DEF OneWrite

(* The smallest of numbers with a lower bound.                             *)
LEMMA MinOfInts ==
  ASSUME NEW T, T \subseteq Int, T # {}, NEW b \in Int, \A y \in T : b <= y
  PROVE  Min(T) \in T /\ \A y \in T : Min(T) <= y
<1> DEFINE U == {y - b : y \in T}
<1>1. U \subseteq Nat /\ U # {}
  <2>1. \A y \in T : y - b \in Nat
    OBVIOUS
  <2>2. PICK y \in T : TRUE
    OBVIOUS
  <2>3. y - b \in U
    OBVIOUS
  <2>. QED  BY <2>1, <2>3
<1>2. Min(U) \in U /\ \A y \in U : Min(U) <= y
  BY <1>1, MinOfSome
<1>3. PICK z \in T : Min(U) = z - b
  BY <1>2
<1>4. \A y \in T : z - b <= y - b
  BY <1>2, <1>3
<1>5. z \in T /\ \A y \in T : z <= y
  BY <1>4
<1>. QED  BY <1>5 DEF Min

(* The types of a disc's parts, and where a zone lies.                     *)
LEMMA Disc ==
  ASSUME layout \in Layouts
  PROVE  /\ layout.before \in Nat /\ layout.after \in Nat /\ layout.mirror \in Nat
         /\ layout.breaks \in Seq(Nat) /\ Len(layout.breaks) \in Nat
         /\ Zones = 1..Len(layout.breaks)
         /\ layout.mirror # 0 /\ Zones # {} => layout.mirror = layout.breaks[1]
         /\ \A i \in Zones : /\ ZoneStart(i) \in Int /\ ZoneEnd(i) \in Nat
                             /\ layout.breaks[i] \in Nat
                             /\ ZoneStart(i) <= layout.breaks[i] /\ layout.breaks[i] <= ZoneEnd(i)
         /\ BreaksApart(layout) =>
              \A i, k \in Zones : \A n : i < k /\ OneWrite(n) => ZoneEnd(i) + n <= ZoneStart(k)
<1>1. IsLayout(layout)
  BY IsoAssumption
<1>2. /\ layout.before \in Nat /\ layout.after \in Nat /\ layout.mirror \in Nat
      /\ layout.breaks \in Seq(Nat)
      /\ layout.mirror # 0 /\ layout.breaks # <<>> => layout.mirror = layout.breaks[1]
  BY <1>1 DEF IsLayout
<1>3. Len(layout.breaks) \in Nat /\ Zones = 1..Len(layout.breaks) /\ (Zones # {} => layout.breaks # <<>>)
  BY <1>2 DEF Zones
<1>4. \A i \in Zones : /\ ZoneStart(i) \in Int /\ ZoneEnd(i) \in Nat /\ layout.breaks[i] \in Nat
                       /\ ZoneStart(i) <= layout.breaks[i] /\ layout.breaks[i] <= ZoneEnd(i)
  <2> SUFFICES ASSUME NEW i \in Zones
               PROVE  /\ ZoneStart(i) \in Int /\ ZoneEnd(i) \in Nat /\ layout.breaks[i] \in Nat
                      /\ ZoneStart(i) <= layout.breaks[i] /\ layout.breaks[i] <= ZoneEnd(i)
    OBVIOUS
  <2>1. layout.breaks[i] \in Nat
    BY <1>2, <1>3
  <2>. QED  BY <1>2, <2>1 DEF ZoneStart, ZoneEnd
<1>5. ASSUME NEW i \in Zones, NEW k \in Zones, NEW n, i < k, OneWrite(n), BreaksApart(layout)
      PROVE  ZoneEnd(i) + n <= ZoneStart(k)
  <2>1. PICK m \in {MaxHeld, DepMax, BaseMax, Buffer} : n <= m
    BY <1>5 DEF OneWrite
  <2>2. layout.breaks[i] + layout.after + m <= layout.breaks[k] - layout.before
    BY <1>5, <2>1 DEF BreaksApart, Zones
  <2>3. m \in Nat /\ n \in Nat
    BY <1>5, <2>1, Constants DEF OneWrite
  <2>. QED  BY <1>2, <1>4, <2>1, <2>2, <2>3 DEF ZoneStart, ZoneEnd
<1>. QED  BY <1>2, <1>3, <1>4, <1>5

(* The first of some zones is one of them.                                 *)
LEMMA FirstOfZones ==
  ASSUME layout \in Layouts, NEW hit, hit \subseteq Zones, hit # {}
  PROVE  Min(hit) \in hit /\ Min(hit) \in Zones
<1>1. hit \subseteq Nat
  BY Disc
<1>. QED  BY <1>1, MinOfSome

(* The mirror is to be in front of the zones.                              *)
LEMMA MirrorFirst ==
  ASSUME layout \in Layouts
  PROVE  /\ MirrorEnd \in Int /\ MirrorStart \in Int /\ MirrorStart < MirrorEnd
         /\ HasMirrorPlace /\ BreaksApart(layout) => \A i \in Zones : MirrorStart < ZoneStart(i)
<1> DEFINE zone == {i \in Zones : ZoneStart(i) < layout.mirror /\ layout.mirror <= ZoneEnd(i)}
           T == {layout.mirror} \cup {ZoneStart(i) : i \in zone}
           end == Min(T)
<1>1. T \subseteq Int /\ T # {} /\ -layout.before \in Int /\ \A y \in T : -layout.before <= y
  <2>1. \A i \in Zones : ZoneStart(i) \in Int /\ -layout.before <= ZoneStart(i)
    <3> SUFFICES ASSUME NEW i \in Zones PROVE ZoneStart(i) \in Int /\ -layout.before <= ZoneStart(i)
      OBVIOUS
    <3>1. layout.breaks[i] \in Nat /\ layout.before \in Nat
      BY Disc
    <3>. QED  BY <3>1 DEF ZoneStart
  <2>2. \A y \in T : y \in Int /\ -layout.before <= y
    BY <2>1, Disc
  <2>3. layout.mirror \in T /\ -layout.before \in Int
    BY Disc
  <2> HIDE DEF T
  <2>. QED  BY <2>2, <2>3
<1>2. end \in T /\ \A y \in T : end <= y
  BY <1>1, MinOfInts
<1>3. end \in Int /\ Block \in Nat \ {0} /\ Meta \in Nat
  BY <1>1, <1>2, Constants
<1>4. MirrorEnd = end - (end % Block)
  BY DEF MirrorEnd
<1>5. \A i \in zone : end <= ZoneStart(i)
  BY <1>2
<1>6. layout.mirror \in T /\ end <= layout.mirror
  BY <1>2
<1> HIDE DEF end
<1>7. MirrorEnd \in Int /\ MirrorEnd <= end
  BY <1>3, <1>4
<1>8. MirrorStart \in Int /\ MirrorStart < MirrorEnd
  BY <1>3, <1>7 DEF MirrorStart
<1>9. ASSUME HasMirrorPlace, BreaksApart(layout), NEW i \in Zones PROVE MirrorStart < ZoneStart(i)
  <2>1. 1 \in Zones /\ layout.mirror = layout.breaks[1] /\ i \in Nat
    <3>1. layout.mirror # 0
      BY <1>9, Disc DEF HasMirrorPlace
    <3>. QED  BY <1>9, <3>1, Disc
  <2>2. end <= ZoneStart(1)
    <3>1. ZoneStart(1) <= layout.mirror /\ layout.mirror <= ZoneEnd(1) /\ ZoneStart(1) \in Int /\ layout.mirror \in Nat
      BY <2>1, Disc
    <3>2. CASE ZoneStart(1) < layout.mirror
      <4>1. 1 \in zone
        BY <2>1, <3>1, <3>2
      <4>. QED  BY <1>5, <4>1
    <3>3. CASE ZoneStart(1) = layout.mirror
      BY <1>6, <3>3
    <3>. QED  BY <3>1, <3>2, <3>3
  <2>3. ZoneStart(1) <= ZoneStart(i)
    <3>1. CASE i = 1
      BY <3>1, Disc
    <3>2. CASE i # 1
      <4>1. 1 < i /\ OneWrite(DepMax) /\ DepMax \in Nat
        BY <2>1, <3>2, Constants, Disc DEF OneWrite
      <4>2. ZoneEnd(1) + DepMax <= ZoneStart(i)
        BY <1>9, <2>1, <4>1, Disc
      <4>3. ZoneStart(1) \in Int /\ ZoneEnd(1) \in Nat /\ ZoneStart(i) \in Int /\ ZoneStart(1) <= ZoneEnd(1)
        <5>1. layout.breaks[1] \in Nat
          BY <2>1, Disc
        <5>. QED  BY <2>1, <5>1, Disc
      <4>. QED  BY <4>1, <4>2, <4>3
    <3>. QED  BY <3>1, <3>2
  <2>4. ZoneStart(1) \in Int /\ ZoneStart(i) \in Int
    BY <2>1, Disc
  <2>. QED  BY <1>3, <1>7, <1>8, <2>2, <2>3, <2>4
<1>. QED  BY <1>7, <1>8, <1>9

-----------------------------------------------------------------------------
(* The operations that leave sectors empty *)

(* placeMirrorHere leaves what is stored alone.                            *)
LEMMA PaddedMirror ==
  ASSUME NEW s, AtEnd(s), ~s.placed
  PROVE  Padded(s, PlaceMirrorHere(s)) /\ PlaceMirrorHere(s).placed
<1> DEFINE lbn == (s.pos \div Block + 1) * Block
           n == lbn + Meta - s.pos
           u == FillZeroSectors(s, n)
           t == [u EXCEPT !.placed = TRUE, !.mirror = lbn]
<1>1. s.pos \in Nat /\ Block \in Nat \ {0} /\ Meta \in Nat \ {0}
  BY FieldsOfImage, Constants
<1>2. lbn \in Nat /\ lbn > s.pos
  <2>1. s.pos \div Block \in Nat /\ s.pos = (s.pos \div Block) * Block + (s.pos % Block) /\ s.pos % Block \in 0..Block - 1
    BY <1>1
  <2> DEFINE q == s.pos \div Block  r == s.pos % Block
  <2>2. q \in Nat /\ s.pos = q * Block + r /\ r \in 0..Block - 1
    BY <2>1
  <2> HIDE DEF q, r
  <2>3. (q + 1) * Block = q * Block + Block /\ q * Block \in Nat
    BY <1>1, <2>2
  <2>4. (q + 1) * Block \in Nat /\ (q + 1) * Block > s.pos
    BY <1>1, <2>2, <2>3
  <2>. QED  BY <2>4 DEF q
<1> HIDE DEF lbn
<1>3. n \in Int /\ n > 0 /\ s.pos + n = lbn + Meta
  BY <1>1, <1>2
<1> HIDE DEF n
<1>4. Padded(s, u) /\ u.pos = lbn + Meta
  BY <1>3, PaddedFill
<1> HIDE DEF u
<1>5. AtEnd(u)
  BY <1>4 DEF Padded
<1>6. /\ t.disk = u.disk /\ t.pos = u.pos /\ t.last = u.last /\ t.lastEntry = u.lastEntry
      /\ t.ent = u.ent /\ t.queue = u.queue /\ t.heldBytes = u.heldBytes /\ t.gaps = u.gaps
      /\ t.padsBefore = u.padsBefore /\ t.pads = u.pads /\ t.placed = TRUE /\ t.mirror = lbn
  BY <1>5 DEF AtEnd, Image
<1>7. AtEnd(t)
  BY <1>2, <1>5 DEF AtEnd, Image
<1> HIDE DEF t
<1>8. t.mirror \in s.pos + 1..Len(t.disk) - Meta
  BY <1>1, <1>2, <1>4, <1>5, <1>6, FieldsOfImage
<1>9. Padded(s, t)
  BY <1>4, <1>6, <1>7, <1>8 DEF Padded
<1>. QED  BY <1>6, <1>9 DEF t, u, n, lbn, PlaceMirrorHere

(* placeMirrorBefore leaves what is stored alone, and no mirror is pending *)
(* in front of the end.                                                    *)
LEMMA PaddedMirrorBefore ==
  ASSUME NEW s, AtEnd(s), NEW end
  PROVE  /\ Padded(s, PlaceMirrorBefore(s, end))
         /\ PlaceMirrorBefore(s, end) = s \/ PlaceMirrorBefore(s, end).placed
         /\ MirrorPending(PlaceMirrorBefore(s, end)) => ~(end > MirrorStart)
<1>1. CASE MirrorPending(s) /\ end > MirrorStart
  BY <1>1, PaddedMirror DEF PlaceMirrorBefore, MirrorPending
<1>2. CASE ~(MirrorPending(s) /\ end > MirrorStart)
  BY <1>2, PaddedSame DEF PlaceMirrorBefore
<1>. QED  BY <1>1, <1>2

(* Behind what is left empty, the mirror is in front or there is no end of *)
(* the first layer in it.                                                  *)
LEMMA PaddedTo ==
  ASSUME NEW s, AtEnd(s), NEW end \in Nat
  PROVE  /\ Padded(s, PadTo(s, end))
         /\ ~MirrorPending(s) => PadTo(s, end).pos = IF s.pos <= end THEN end ELSE s.pos
<1> DEFINE a == [s EXCEPT !.pads = Append(@, [from |-> s.pos, to |-> end])]
           b == PlaceMirrorBefore(a, end)
           t == FillZeroSectors(b, end - b.pos)
<1>1. AtEnd(s) /\ s.pos \in Nat /\ s.pads \in Seq(Gap) /\ Len(s.pads) \in Nat
  BY FieldsOfImage
<1>2. AtEnd(a) /\ Len(s.pads) <= Len(a.pads)
  <2>1. [from |-> s.pos, to |-> end] \in Gap
    BY <1>1 DEF Gap
  <2>2. Append(s.pads, [from |-> s.pos, to |-> end]) \in Seq(Gap)
    BY <1>1, <2>1
  <2>3. Len(Append(s.pads, [from |-> s.pos, to |-> end])) = Len(s.pads) + 1
    BY <1>1
  <2> DEFINE more == Append(s.pads, [from |-> s.pos, to |-> end])
  <2>4. more \in Seq(Gap) /\ Len(s.pads) <= Len(more)
    BY <1>1, <2>2, <2>3
  <2> HIDE DEF more
  <2>5. AtEnd([s EXCEPT !.pads = more]) /\ [s EXCEPT !.pads = more].pads = more
    BY <2>4 DEF AtEnd, Image
  <2>. QED  BY <2>4, <2>5 DEF more
<1>3. /\ a.disk = s.disk /\ a.pos = s.pos /\ a.last = s.last /\ a.lastEntry = s.lastEntry
      /\ a.ent = s.ent /\ a.queue = s.queue /\ a.heldBytes = s.heldBytes /\ a.gaps = s.gaps
      /\ a.padsBefore = s.padsBefore /\ a.placed = s.placed /\ a.mirror = s.mirror
  BY DEF AtEnd, Image
<1> HIDE DEF a
<1>4. Padded(s, a)
  BY <1>2, <1>3, FieldsOfImage DEF Padded
<1>5. Padded(a, b)
  BY <1>2, PaddedMirrorBefore
<1>6. AtEnd(b) /\ b.pos \in Nat
  BY <1>5, FieldsOfImage DEF Padded
<1>7. MirrorPending(a) \/ b = a
  BY DEF PlaceMirrorBefore
<1> HIDE DEF b
<1>8. Padded(b, t) /\ t.pos = IF end - b.pos > 0 THEN b.pos + (end - b.pos) ELSE b.pos
  BY <1>6, PaddedFill
<1> HIDE DEF t
<1>9. Padded(s, t)
  BY <1>4, <1>5, <1>8, PaddedTwice
<1>10. ASSUME ~MirrorPending(s) PROVE t.pos = IF s.pos <= end THEN end ELSE s.pos
  <2>1. b = a
    BY <1>3, <1>7, <1>10 DEF MirrorPending
  <2>. QED  BY <1>1, <1>3, <1>8, <2>1
<1>. QED  BY <1>9, <1>10 DEF a, b, t, PadTo, WriteZeroPad, FillTo

(* A write after that reaches no zone.                                     *)
LEMMA PaddedZone ==
  ASSUME layout \in Layouts, NEW s, AtEnd(s), NEW n \in Nat
  PROVE  /\ Padded(s, PadZone(s, n))
         /\ OneWrite(n) /\ (MirrorPending(s) => ~(s.pos + n > MirrorStart)) =>
              Clears(PadZone(s, n).pos, n)
<1> DEFINE hit == {i \in Zones : Reaches(s.pos, n, i)}  h == Min(hit)
<1>0. s.pos \in Nat
  BY FieldsOfImage
<1>1. CASE hit = {}
  BY <1>1, PaddedSame DEF PadZone, Clears
<1>2. CASE hit # {}
  <2>1. h \in hit /\ h \in Zones /\ ZoneEnd(h) \in Nat /\ ZoneStart(h) \in Int
    BY <1>2, FirstOfZones, Disc
  <2>2. PadZone(s, n) = PadTo(s, ZoneEnd(h))
    BY <1>2 DEF PadZone
  <2>3. s.pos < ZoneEnd(h) /\ s.pos + n > ZoneStart(h)
    BY <2>1 DEF Reaches
  <2> HIDE DEF hit, h
  <2>4. Padded(s, PadTo(s, ZoneEnd(h))) /\ (~MirrorPending(s) => PadTo(s, ZoneEnd(h)).pos = ZoneEnd(h))
    BY <1>0, <2>1, <2>3, PaddedTo
  <2>5. ASSUME BreaksApart(layout), OneWrite(n), MirrorPending(s) => ~(s.pos + n > MirrorStart), NEW k \in Zones,
               Reaches(PadZone(s, n).pos, n, k)
        PROVE  FALSE
    <3>1. ~MirrorPending(s)
      <4>1. ASSUME MirrorPending(s) PROVE FALSE
        <5>1. MirrorStart < ZoneStart(h) /\ MirrorStart \in Int
          BY <2>1, <2>5, <4>1, MirrorFirst DEF MirrorPending
        <5>2. ~(s.pos + n > MirrorStart)
          BY <2>5, <4>1
        <5>. QED  BY <1>0, <2>1, <2>3, <5>1, <5>2
      <4>. QED  BY <4>1
    <3>2. PadZone(s, n).pos = ZoneEnd(h)
      BY <2>2, <2>4, <3>1
    <3>3. ZoneEnd(h) < ZoneEnd(k) /\ ZoneEnd(h) + n > ZoneStart(k)
      BY <2>5, <3>2 DEF Reaches
    <3>4. h \in Nat /\ k \in Nat /\ ZoneEnd(k) \in Nat /\ ZoneStart(k) \in Int /\ ZoneStart(h) <= ZoneEnd(h)
      <4>1. layout.breaks[h] \in Nat /\ ZoneStart(h) <= layout.breaks[h] /\ layout.breaks[h] <= ZoneEnd(h)
        BY <2>1, Disc
      <4>2. h \in Nat /\ k \in Nat /\ ZoneEnd(k) \in Nat /\ ZoneStart(k) \in Int
        BY <2>1, <2>5, Disc
      <4>. QED  BY <2>1, <4>1, <4>2
    <3>5. CASE h < k
      <4>1. ZoneEnd(h) + n <= ZoneStart(k)
        BY <2>1, <2>5, <3>5, Disc
      <4>. QED  BY <2>1, <3>3, <3>4, <4>1
    <3>6. CASE k < h
      <4>1. ZoneEnd(k) + n <= ZoneStart(h)
        BY <2>1, <2>5, <3>6, Disc
      <4>. QED  BY <2>1, <3>3, <3>4, <4>1
    <3>7. CASE h = k
      BY <2>1, <3>3, <3>7
    <3>. QED  BY <3>4, <3>5, <3>6, <3>7
  <2>. QED  BY <2>2, <2>4, <2>5 DEF Clears
<1>. QED  BY <1>1, <1>2

(* checkLayerBreakPoint leaves what is stored alone, and what is written   *)
(* next reaches no zone.                                                   *)
LEMMA PaddedCheck ==
  ASSUME layout \in Layouts, NEW s, AtEnd(s), NEW n \in Nat
  PROVE  /\ Padded(s, CheckLayerBreakPoint(s, n))
         /\ OneWrite(n) => Clears(CheckLayerBreakPoint(s, n).pos, n)
<1> DEFINE u == PlaceMirrorBefore(s, s.pos + n)
<1>1. /\ Padded(s, u) /\ (u = s \/ u.placed) /\ (MirrorPending(u) => ~(s.pos + n > MirrorStart))
  BY PaddedMirrorBefore
<1>2. AtEnd(u) /\ CheckLayerBreakPoint(s, n) = PadZone(u, n)
  BY <1>1 DEF Padded, CheckLayerBreakPoint
<1> HIDE DEF u
<1>3. MirrorPending(u) => ~(u.pos + n > MirrorStart)
  BY <1>1 DEF MirrorPending
<1>4. /\ Padded(u, PadZone(u, n))
      /\ OneWrite(n) => Clears(PadZone(u, n).pos, n)
  BY <1>2, <1>3, PaddedZone
<1>. QED  BY <1>1, <1>2, <1>4, PaddedTwice

(* alignForStream leaves what is stored alone.                             *)
LEMMA PaddedAlign ==
  ASSUME NEW s, AtEnd(s)
  PROVE  Padded(s, AlignForStream(s))
<1>1. ToBlock(s.pos) \in Nat
  BY FieldsOfImage, Constants DEF ToBlock
<1>2. Padded(s, [Put(s, Zeros(ToBlock(s.pos))) EXCEPT !.last = None])
  BY <1>1, PaddedZeros
<1>. QED  BY <1>2, PaddedSame DEF AlignForStream

(* padBeforeInterleavedPair leaves what is stored alone.                   *)
LEMMA PaddedPair ==
  ASSUME layout \in Layouts, NEW s, AtEnd(s), NEW n \in Nat
  PROVE  Padded(s, PadBeforeInterleavedPair(s, n))
<1> DEFINE a == [s EXCEPT !.pairsPlaced = TRUE]
<1>1. AtEnd(a)
  BY DEF AtEnd, Image
<1>2. /\ a.disk = s.disk /\ a.pos = s.pos /\ a.last = s.last /\ a.lastEntry = s.lastEntry
      /\ a.ent = s.ent /\ a.queue = s.queue /\ a.heldBytes = s.heldBytes /\ a.gaps = s.gaps
      /\ a.padsBefore = s.padsBefore /\ a.pads = s.pads /\ a.placed = s.placed /\ a.mirror = s.mirror
  BY DEF AtEnd, Image
<1> HIDE DEF a
<1>3. Padded(s, a)
  BY <1>1, <1>2, FieldsOfImage DEF Padded
<1>4. Padded(a, CheckLayerBreakPoint(a, n))
  BY <1>1, PaddedCheck
<1>. QED  BY <1>3, <1>4, PaddedTwice DEF a, PadBeforeInterleavedPair

(* padOverZoneIfFileCrosses leaves what is stored alone.                   *)
LEMMA PaddedOverZone ==
  ASSUME layout \in Layouts, NEW s, AtEnd(s), NEW n, NEW rest, NEW aligned
  PROVE  Padded(s, PadOverZoneIfFileCrosses(s, n, rest, aligned))
<1> DEFINE lbn == IF aligned THEN s.pos + ToBlock(s.pos) ELSE s.pos
           crossed == {i \in Zones : lbn < ZoneStart(i) /\ lbn + n > ZoneStart(i)}
           i == Min(crossed)
           toPlace == IF MirrorStart > s.pos THEN FillTo(s, MirrorStart) ELSE s
           m == IF MirrorPending(s) /\ ZoneEnd(i) > MirrorStart THEN PlaceMirrorHere(toPlace) ELSE s
<1>1. \/ PadOverZoneIfFileCrosses(s, n, rest, aligned) = s
      \/ crossed # {} /\ PadOverZoneIfFileCrosses(s, n, rest, aligned) = PadTo(m, ZoneEnd(i))
  BY DEF PadOverZoneIfFileCrosses
<1>2. CASE crossed # {} /\ PadOverZoneIfFileCrosses(s, n, rest, aligned) = PadTo(m, ZoneEnd(i))
  <2>1. ZoneEnd(i) \in Nat
    BY <1>2, FirstOfZones, Disc
  <2>2. Padded(s, toPlace) /\ (~s.placed => ~toPlace.placed)
    <3>1. MirrorStart - s.pos \in Int
      BY MirrorFirst, FieldsOfImage
    <3>. QED  BY <3>1, PaddedFill, PaddedSame DEF FillTo
  <2> HIDE DEF toPlace, i, crossed
  <2>3. AtEnd(toPlace)
    BY <2>2 DEF Padded
  <2>4. Padded(s, m)
    <3>1. CASE MirrorPending(s) /\ ZoneEnd(i) > MirrorStart
      <4>1. Padded(toPlace, PlaceMirrorHere(toPlace))
        BY <2>2, <2>3, <3>1, PaddedMirror DEF MirrorPending
      <4>. QED  BY <2>2, <3>1, <4>1, PaddedTwice
    <3>2. CASE ~(MirrorPending(s) /\ ZoneEnd(i) > MirrorStart)
      BY <3>2, PaddedSame
    <3>. QED  BY <3>1, <3>2
  <2> HIDE DEF m
  <2>5. Padded(m, PadTo(m, ZoneEnd(i)))
    BY <2>1, <2>4, PaddedTo DEF Padded
  <2>. QED  BY <1>2, <2>4, <2>5, PaddedTwice
<1>. QED  BY <1>1, <1>2, PaddedSame

-----------------------------------------------------------------------------
(* Reading the extents of a file *)

\* off[i] is what the first i extents have
Sums(ext, size, off) ==
  /\ off \in [0..Len(ext) -> Nat] /\ off[0] = 0 /\ off[Len(ext)] = size
  /\ \A i \in 1..Len(ext) : off[i] = off[i - 1] + ext[i].n
\* Sector k of f is where its extents say, but for the one that lacks
Stored(disk, f, ext, off, lack) ==
  \A i \in 1..Len(ext) : \A j \in 1..ext[i].n :
    \/ off[i - 1] + j = lack
    \/ ext[i].lbn + j <= Len(disk) /\ disk[ext[i].lbn + j] = <<f, off[i - 1] + j>>
\* So the extents of f give what was written to it.
ReadsFrom(disk, f, ext, size, lack) ==
  \E off : Sums(ext, size, off) /\ Stored(disk, f, ext, off, lack)

(* The types of an extent's parts.                                         *)
LEMMA OneExtent ==
  ASSUME NEW ext \in Seq(Extent), NEW i \in 1..Len(ext)
  PROVE  ext[i] \in Extent /\ ext[i].lbn \in Nat /\ ext[i].n \in 1..MaxExtent /\ ext[i].n \in Nat
         /\ MaxExtent \in Nat
<1>1. ext[i] \in Extent /\ MaxExtent \in Nat
  BY Constants
<1>2. ext[i].lbn \in Nat /\ ext[i].n \in 1..MaxExtent
  BY <1>1 DEF Extent
<1>. QED  BY <1>1, <1>2

(* Where an extent ends in the file.                                       *)
LEMMA OneSum ==
  ASSUME NEW ext \in Seq(Extent), NEW size, NEW off, Sums(ext, size, off), NEW i \in 1..Len(ext)
  PROVE  off[i - 1] \in Nat /\ off[i] \in Nat /\ off[i] = off[i - 1] + ext[i].n
<1>1. i - 1 \in 0..Len(ext) /\ i \in 0..Len(ext)
  OBVIOUS
<1>. QED  BY <1>1 DEF Sums

(* What is read stays where it is when more is written behind it.          *)
LEMMA ReadsOn ==
  ASSUME NEW d \in Seq(Cell), NEW e \in Seq(Cell), Len(d) <= Len(e), \A i \in 1..Len(d) : e[i] = d[i],
         NEW f, NEW ext \in Seq(Extent), NEW size, NEW lack, ReadsFrom(d, f, ext, size, lack)
  PROVE  ReadsFrom(e, f, ext, size, lack)
<1>1. PICK off : Sums(ext, size, off) /\ Stored(d, f, ext, off, lack)
  BY DEF ReadsFrom
<1>2. ASSUME NEW i \in 1..Len(ext), NEW j \in 1..ext[i].n, off[i - 1] + j # lack
      PROVE  ext[i].lbn + j <= Len(e) /\ e[ext[i].lbn + j] = <<f, off[i - 1] + j>>
  <2>1. ext[i].lbn + j <= Len(d) /\ d[ext[i].lbn + j] = <<f, off[i - 1] + j>>
    BY <1>1, <1>2 DEF Stored
  <2>2. ext[i].lbn \in Nat /\ ext[i].n \in Nat
    BY OneExtent
  <2>3. ext[i].lbn + j \in 1..Len(d)
    BY <2>1, <2>2
  <2>. QED  BY <2>1, <2>2, <2>3
<1>. QED  BY <1>1, <1>2 DEF ReadsFrom, Stored

(* A file that reads back reads back but for any sector.                   *)
LEMMA ReadsLess ==
  ASSUME NEW d, NEW f, NEW ext \in Seq(Extent), NEW size, NEW lack, ReadsFrom(d, f, ext, size, 0)
  PROVE  ReadsFrom(d, f, ext, size, lack)
<1>1. PICK off : Sums(ext, size, off) /\ Stored(d, f, ext, off, 0)
  BY DEF ReadsFrom
<1>2. ASSUME NEW i \in 1..Len(ext), NEW j \in 1..ext[i].n
      PROVE  off[i - 1] + j # 0
  <2>1. off[i - 1] \in Nat /\ ext[i].n \in Nat
    BY <1>1, OneExtent, OneSum
  <2>. QED  BY <2>1
<1>3. Stored(d, f, ext, off, lack)
  BY <1>1, <1>2 DEF Stored
<1>. QED  BY <1>1, <1>3 DEF ReadsFrom

(* A file without extents reads back.                                      *)
LEMMA ReadsNone ==
  ASSUME NEW d, NEW f
  PROVE  ReadsFrom(d, f, <<>>, 0, 0)
<1> DEFINE off == [i \in 0..0 |-> 0]
<1>1. Len(<<>>) = 0
  OBVIOUS
<1>2. Sums(<<>>, 0, off)
  BY <1>1 DEF Sums
<1>3. Stored(d, f, <<>>, off, 0)
  BY <1>1 DEF Stored
<1>. QED  BY <1>2, <1>3 DEF ReadsFrom

\* The last extent has h more
Grown(ext, h) == [ext EXCEPT ![Len(ext)].n = @ + h]

(* What a longer last extent is.                                           *)
LEMMA GrownParts ==
  ASSUME NEW ext \in Seq(Extent), ext # <<>>, NEW h \in Nat, Last(ext).n + h <= MaxExtent
  PROVE  /\ Len(ext) \in Nat \ {0} /\ Grown(ext, h) \in Seq(Extent) /\ Len(Grown(ext, h)) = Len(ext)
         /\ \A i \in 1..Len(ext) : i # Len(ext) => Grown(ext, h)[i] = ext[i]
         /\ Grown(ext, h)[Len(ext)].lbn = ext[Len(ext)].lbn
         /\ Grown(ext, h)[Len(ext)].n = ext[Len(ext)].n + h
<1> DEFINE L == Len(ext)
<1>1. L \in Nat \ {0} /\ L \in 1..Len(ext)
  OBVIOUS
<1>2. ext[L] \in Extent /\ ext[L].n + h <= MaxExtent /\ ext[L].n \in 1..MaxExtent /\ ext[L].lbn \in Nat
      /\ MaxExtent \in Nat
  BY <1>1, OneExtent DEF Last
<1>3. [ext[L] EXCEPT !.n = @ + h] \in Extent
  BY <1>2 DEF Extent
<1>4. Grown(ext, h) = [ext EXCEPT ![L] = [ext[L] EXCEPT !.n = @ + h]]
  BY <1>1 DEF Grown
<1>5. [ext[L] EXCEPT !.n = @ + h].n = ext[L].n + h /\ [ext[L] EXCEPT !.n = @ + h].lbn = ext[L].lbn
  BY <1>2 DEF Extent
<1>. QED  BY <1>1, <1>3, <1>4, <1>5

(* A file whose last extent grows over its next sectors reads back.        *)
LEMMA ReadsGrown ==
  ASSUME NEW d \in Seq(Cell), NEW f, NEW ext \in Seq(Extent), ext # <<>>, NEW size \in Nat, NEW lack,
         NEW h \in Nat, Last(ext).n + h <= MaxExtent, ReadsFrom(d, f, ext, size, lack),
         \A j \in 1..h : \/ size + j = lack
                         \/ /\ Last(ext).lbn + Last(ext).n + j <= Len(d)
                            /\ d[Last(ext).lbn + Last(ext).n + j] = <<f, size + j>>
  PROVE  ReadsFrom(d, f, Grown(ext, h), size + h, lack)
<1> DEFINE L == Len(ext)  g == Grown(ext, h)
<1>1. /\ L \in Nat \ {0} /\ g \in Seq(Extent) /\ Len(g) = L
      /\ \A i \in 1..L : i # L => g[i] = ext[i]
      /\ g[L].lbn = ext[L].lbn /\ g[L].n = ext[L].n + h
  BY GrownParts
<1>2. PICK off : Sums(ext, size, off) /\ Stored(d, f, ext, off, lack)
  BY DEF ReadsFrom
<1> DEFINE new == [i \in 0..L |-> IF i = L THEN size + h ELSE off[i]]
<1>3. ext[L].n \in Nat /\ ext[L].lbn \in Nat /\ off[L] = size /\ off[L - 1] \in Nat /\ size = off[L - 1] + ext[L].n
  <2>1. L \in 1..Len(ext) /\ off[L] = size
    BY <1>1, <1>2 DEF Sums
  <2>2. off[L - 1] \in Nat /\ off[L] = off[L - 1] + ext[L].n
    BY <1>2, <2>1, OneSum
  <2>. QED  BY <2>1, <2>2, OneExtent
<1> HIDE DEF g
<1>4. Sums(g, size + h, new)
  <2>1. new \in [0..L -> Nat] /\ new[0] = 0 /\ new[L] = size + h
    BY <1>1, <1>2 DEF Sums
  <2>2. ASSUME NEW i \in 1..L PROVE new[i] = new[i - 1] + g[i].n
    <3>1. i - 1 \in 0..L /\ i \in 0..L /\ i - 1 # L
      BY <1>1
    <3>2. new[i - 1] = off[i - 1]
      BY <3>1
    <3>3. CASE i = L
      BY <1>1, <1>3, <3>1, <3>2, <3>3
    <3>4. CASE i # L
      <4>1. g[i] = ext[i] /\ new[i] = off[i] /\ off[i] = off[i - 1] + ext[i].n
        BY <1>1, <1>2, <3>1, <3>4 DEF Sums
      <4>. QED  BY <3>2, <4>1
    <3>. QED  BY <3>3, <3>4
  <2>. QED  BY <1>1, <2>1, <2>2 DEF Sums
<1>5. ASSUME NEW i \in 1..L, NEW j \in 1..g[i].n, new[i - 1] + j # lack
      PROVE  g[i].lbn + j <= Len(d) /\ d[g[i].lbn + j] = <<f, new[i - 1] + j>>
  <2>1. new[i - 1] = off[i - 1] /\ i - 1 \in 0..L
    BY <1>1
  <2>2. CASE i # L \/ j <= ext[L].n
    <3>1. j \in 1..ext[i].n /\ g[i].lbn = ext[i].lbn
      BY <1>1, <1>3, <1>5, <2>2
    <3>. QED  BY <1>2, <1>5, <2>1, <3>1 DEF Stored
  <2>3. CASE i = L /\ ~(j <= ext[L].n)
    <3> DEFINE k == j - ext[L].n
    <3>1. k \in 1..h /\ j = ext[L].n + k /\ j \in Nat
      <4>1. j \in 1..ext[L].n + h
        BY <1>1, <1>5, <2>3
      <4>. QED  BY <1>3, <2>3, <4>1
    <3> HIDE DEF k
    <3>2. off[i - 1] + j = size + k
      BY <1>3, <2>3, <3>1
    <3>3. ext[L].lbn + ext[L].n + k <= Len(d) /\ d[ext[L].lbn + ext[L].n + k] = <<f, size + k>>
      BY <1>5, <2>1, <3>1, <3>2 DEF Last
    <3>4. g[i].lbn + j = ext[L].lbn + ext[L].n + k
      BY <1>1, <1>3, <2>3, <3>1
    <3>. QED  BY <2>1, <3>2, <3>3, <3>4
  <2>. QED  BY <2>2, <2>3
<1>6. Stored(d, f, g, new, lack)
  BY <1>1, <1>5 DEF Stored
<1>. QED  BY <1>4, <1>6 DEF ReadsFrom, g

(* A file that gets an extent with its next sectors reads back.            *)
LEMMA ReadsAppended ==
  ASSUME NEW d \in Seq(Cell), NEW f, NEW ext \in Seq(Extent), NEW size \in Nat, NEW lack,
         NEW x \in Extent, ReadsFrom(d, f, ext, size, lack),
         \A j \in 1..x.n : \/ size + j = lack
                           \/ x.lbn + j <= Len(d) /\ d[x.lbn + j] = <<f, size + j>>
  PROVE  ReadsFrom(d, f, Append(ext, x), size + x.n, lack)
<1> DEFINE L == Len(ext)  g == Append(ext, x)
<1>1. L \in Nat /\ g \in Seq(Extent) /\ Len(g) = L + 1 /\ g[L + 1] = x /\ \A i \in 1..L : g[i] = ext[i]
  OBVIOUS
<1>2. PICK off : Sums(ext, size, off) /\ Stored(d, f, ext, off, lack)
  BY DEF ReadsFrom
<1> DEFINE new == [i \in 0..L + 1 |-> IF i = L + 1 THEN size + x.n ELSE off[i]]
<1>3. x.n \in Nat /\ x.lbn \in Nat /\ off[L] = size /\ off[0] = 0 /\ off \in [0..L -> Nat]
  BY <1>2, Constants DEF Sums, Extent
<1> HIDE DEF g
<1>4. Sums(g, size + x.n, new)
  <2>1. new \in [0..L + 1 -> Nat] /\ new[0] = 0 /\ new[L + 1] = size + x.n
    BY <1>1, <1>3
  <2>2. ASSUME NEW i \in 1..L + 1 PROVE new[i] = new[i - 1] + g[i].n
    <3>1. i - 1 \in 0..L + 1 /\ i \in 0..L + 1 /\ i - 1 # L + 1
      BY <1>1
    <3>2. new[i - 1] = off[i - 1]
      BY <3>1
    <3>3. CASE i = L + 1
      <4>1. i - 1 = L /\ new[i] = size + x.n /\ g[i] = x
        BY <1>1, <3>1, <3>3
      <4>. QED  BY <1>3, <3>2, <4>1
    <3>4. CASE i # L + 1
      <4>1. i \in 1..L
        BY <1>1, <3>4
      <4>2. g[i] = ext[i] /\ new[i] = off[i] /\ off[i] = off[i - 1] + ext[i].n
        BY <1>1, <1>2, <3>1, <3>4, <4>1 DEF Sums
      <4>. QED  BY <3>2, <4>2
    <3>. QED  BY <3>3, <3>4
  <2>. QED  BY <1>1, <2>1, <2>2 DEF Sums
<1>5. ASSUME NEW i \in 1..L + 1, NEW j \in 1..g[i].n, new[i - 1] + j # lack
      PROVE  g[i].lbn + j <= Len(d) /\ d[g[i].lbn + j] = <<f, new[i - 1] + j>>
  <2>1. new[i - 1] = off[i - 1]
    BY <1>1
  <2>2. CASE i # L + 1
    <3>1. i \in 1..L /\ j \in 1..ext[i].n /\ g[i] = ext[i]
      BY <1>1, <1>5, <2>2
    <3>. QED  BY <1>2, <1>5, <2>1, <3>1 DEF Stored
  <2>3. CASE i = L + 1
    <3>1. i - 1 = L /\ g[i] = x /\ j \in 1..x.n
      BY <1>1, <1>5, <2>3
    <3>2. new[i - 1] = size
      BY <1>3, <2>1, <3>1
    <3>. QED  BY <1>5, <3>1, <3>2
  <2>. QED  BY <2>2, <2>3
<1>6. Stored(d, f, g, new, lack)
  BY <1>1, <1>5 DEF Stored
<1>. QED  BY <1>4, <1>6 DEF ReadsFrom, g

(* The last extent of a longer file.                                       *)
LEMMA AppendedParts ==
  ASSUME NEW ext \in Seq(Extent), NEW x \in Extent
  PROVE  /\ Append(ext, x) \in Seq(Extent) /\ Append(ext, x) # <<>>
         /\ Last(Append(ext, x)) = x
<1>1. Append(ext, x) \in Seq(Extent) /\ Len(Append(ext, x)) = Len(ext) + 1 /\ Len(ext) \in Nat
      /\ Append(ext, x)[Len(ext) + 1] = x
  OBVIOUS
<1> DEFINE a == Append(ext, x)
<1>2. a \in Seq(Extent) /\ Len(a) = Len(ext) + 1 /\ a[Len(ext) + 1] = x
  BY <1>1
<1> HIDE DEF a
<1>3. a # <<>> /\ Last(a) = x
  BY <1>1, <1>2 DEF Last
<1>. QED  BY <1>2, <1>3 DEF a

(* A file with n sectors more, that it goes on with or that begin a new    *)
(* extent.                                                                 *)
LEMMA LongerReads ==
  ASSUME NEW ext \in Seq(Extent), NEW goesOn \in BOOLEAN, NEW lbn \in Nat, NEW n \in 1..MaxExtent,
         goesOn => ext # <<>> /\ Last(ext).lbn + Last(ext).n = lbn,
         NEW d \in Seq(Cell), NEW f, NEW size \in Nat, NEW lack, ReadsFrom(d, f, ext, size, 0),
         \A j \in 1..n : \/ size + j = lack
                         \/ lbn + j <= Len(d) /\ d[lbn + j] = <<f, size + j>>
  PROVE  LET x == Longer(ext, goesOn, lbn, n) IN
         /\ x \in Seq(Extent) /\ x # <<>> /\ Last(x).lbn + Last(x).n = lbn + n
         /\ ReadsFrom(d, f, x, size + n, lack)
<1> DEFINE x == Longer(ext, goesOn, lbn, n)
           l == Last(ext)
<1>1. ReadsFrom(d, f, ext, size, lack) /\ MaxExtent \in Nat \ {0} /\ n \in Nat \ {0} /\ n <= MaxExtent
  BY ReadsLess, Constants
<1>2. CASE ~goesOn
  <2> DEFINE y == [lbn |-> lbn, n |-> n]
  <2>1. y \in Extent
    BY <1>1 DEF Extent
  <2>2. Min({0, n}) = 0
    BY <1>1, MinOfTwo
  <2>3. lbn + 0 = lbn /\ n - 0 = n /\ n > 0
    BY <1>1
  <2>4. x = Append(ext, y)
    BY <1>2, <2>2, <2>3 DEF Longer
  <2>5. y.n = n /\ y.lbn = lbn
    OBVIOUS
  <2> HIDE DEF y, x
  <2>6. ReadsFrom(d, f, Append(ext, y), size + y.n, lack)
    BY <1>1, <2>1, <2>5, ReadsAppended
  <2>. QED  BY <2>1, <2>4, <2>5, <2>6, AppendedParts DEF x
<1>3. CASE goesOn
  <2>1. ext # <<>> /\ Len(ext) \in 1..Len(ext) /\ l \in Extent
    BY <1>3, OneExtent DEF Last
  <2>2. l.n \in 1..MaxExtent /\ l.lbn \in Nat /\ l.lbn + l.n = lbn
    BY <1>3, <2>1 DEF Extent
  <2> DEFINE room == MaxExtent - l.n
             head == IF room <= n THEN room ELSE n
             grown == Grown(ext, head)
  <2>3. room \in Nat /\ head \in Nat /\ head <= n /\ head <= room /\ l.n + head <= MaxExtent
        /\ (head = n \/ (head = room /\ n > head))
    BY <1>1, <2>2
  <2>4. Min({room, n}) = head
    BY <1>1, <2>3, MinOfTwo
  <2> HIDE DEF head, room, l
  <2>5. \A j \in 1..head : \/ size + j = lack
                           \/ l.lbn + l.n + j <= Len(d) /\ d[l.lbn + l.n + j] = <<f, size + j>>
    <3>1. \A j \in 1..head : j \in 1..n /\ lbn + j = l.lbn + l.n + j
      BY <1>1, <2>2, <2>3
    <3>. QED  BY <3>1
  <2>6. ReadsFrom(d, f, grown, size + head, lack)
    BY <1>1, <2>1, <2>3, <2>5, ReadsGrown DEF l
  <2>7. /\ grown \in Seq(Extent) /\ Len(grown) = Len(ext) /\ Len(ext) \in Nat \ {0}
        /\ grown[Len(ext)].lbn = ext[Len(ext)].lbn /\ grown[Len(ext)].n = ext[Len(ext)].n + head
    BY <2>1, <2>3, GrownParts DEF l
  <2>8. x = IF n > head THEN Append(grown, [lbn |-> lbn + head, n |-> n - head]) ELSE grown
    BY <1>3, <2>4 DEF Longer, Grown, room, l
  <2> HIDE DEF grown, x
  <2>9. CASE n > head
    <3> DEFINE y == [lbn |-> lbn + head, n |-> n - head]
    <3>1. y \in Extent /\ y.n = n - head /\ y.lbn = lbn + head /\ size + head \in Nat
          /\ y.lbn + y.n = lbn + n /\ size + head + y.n = size + n
      BY <1>1, <2>3, <2>9 DEF Extent
    <3> HIDE DEF y
    <3>2. \A j \in 1..y.n : \/ size + head + j = lack
                            \/ y.lbn + j <= Len(d) /\ d[y.lbn + j] = <<f, size + head + j>>
      <4> SUFFICES ASSUME NEW j \in 1..y.n
                   PROVE  \/ size + head + j = lack
                          \/ y.lbn + j <= Len(d) /\ d[y.lbn + j] = <<f, size + head + j>>
        OBVIOUS
      <4>1. head + j \in 1..n /\ size + (head + j) = size + head + j /\ lbn + (head + j) = y.lbn + j
        BY <1>1, <2>3, <2>9, <3>1
      <4>. QED  BY <4>1
    <3>3. ReadsFrom(d, f, Append(grown, y), size + head + y.n, lack)
      BY <2>6, <2>7, <3>1, <3>2, ReadsAppended
    <3>4. x = Append(grown, y)
      BY <2>8, <2>9 DEF y
    <3>. QED  BY <2>7, <3>1, <3>3, <3>4, AppendedParts DEF x
  <2>10. CASE ~(n > head)
    <3>1. head = n /\ x = grown
      BY <2>3, <2>8, <2>10
    <3>2. x # <<>> /\ Last(x).lbn + Last(x).n = lbn + n
      <4>1. grown # <<>> /\ Last(grown) = grown[Len(ext)] /\ l = ext[Len(ext)]
        BY <2>7 DEF Last, l
      <4>2. Last(x).lbn = l.lbn /\ Last(x).n = l.n + n
        BY <2>7, <3>1, <4>1
      <4>3. l.n + n = n + l.n /\ l.lbn + (l.n + n) = lbn + n
        <5> DEFINE a == l.lbn  b == l.n
        <5>1. a \in Nat /\ b \in Nat /\ a + b = lbn
          BY <1>1, <2>2
        <5> HIDE DEF a, b
        <5>2. b + n = n + b /\ a + (b + n) = lbn + n
          BY <1>1, <5>1
        <5>. QED  BY <5>2 DEF a, b
      <4>4. x # <<>>
        BY <3>1, <4>1
      <4>. QED  BY <4>2, <4>3, <4>4
    <3>. QED  BY <2>6, <2>7, <3>1, <3>2 DEF x
  <2>. QED  BY <2>9, <2>10
<1>. QED  BY <1>2, <1>3

-----------------------------------------------------------------------------
(* What holds of the image while it is written *)

\* The sector of a file that is not on the disc yet
Lacking(e) == IF e.tail THEN e.size ELSE 0
\* Every file but the one made of two views reads back from its extents.
AllRead(s) ==
  \A f \in Files : f[1] # "ssif" =>
    ReadsFrom(s.disk, f, s.ent[f].ext, s.ent[f].size, Lacking(s.ent[f]))
\* What was written last ends at the position, but for the sector it lacks
LastEnds(s) ==
  s.last # None /\ s.last[1] # "ssif" =>
    /\ s.ent[s.last].ext # <<>>
    /\ Last(s.ent[s.last].ext).lbn + Last(s.ent[s.last].ext).n
         = s.pos + (IF s.ent[s.last].tail THEN 1 ELSE 0)
\* The zones count when the breaks are far apart.
InZone(lbn) == BreaksApart(layout) /\ \E i \in Zones : ZoneStart(i) <= lbn /\ lbn < ZoneEnd(i)
\* A file with a partial sector was written last, and the sector's place is in no zone.
TailEnds(s) ==
  \A f \in Files : s.ent[f].tail =>
    s.last = f /\ ~s.ent[f].deferred /\ f[1] # "ssif" /\ ~InZone(s.pos)
\* The place kept for the mirror is empty,
MirrorClear(s) ==
  s.placed => /\ s.mirror \in 1..Len(s.disk) - Meta
              /\ \A k \in s.mirror..s.mirror + Meta : s.disk[k] = Zero
\* and so is what the look ahead left, gap behind gap.
GapsClear(s) ==
  \A i \in 1..Len(s.gaps) :
    /\ s.gaps[i].to <= Len(s.disk)
    /\ \A k \in s.gaps[i].from + 1..s.gaps[i].to : s.disk[k] = Zero
    /\ \A j \in 1..Len(s.gaps) : i < j => s.gaps[i].to <= s.gaps[j].from
\* No data is in a zone.
DataFree(s) == \A k \in 1..Len(s.disk) : InZone(k - 1) => s.disk[k] \in {Zero, Mirror}
\* acc[p] is what is held back of the first p files
Adds(ent, acc) ==
  /\ acc \in [0..MaxParts -> Int] /\ acc[0] = 0
  /\ \A p \in 1..MaxParts : acc[p] = acc[p - 1] + ent[<<"copy", p>>].held
\* m_deferredBytes is what the copies hold back.
HeldCounted(s) ==
  /\ \E acc : Adds(s.ent, acc) /\ acc[MaxParts] = s.heldBytes
  /\ s.heldBytes <= MaxHeld
  /\ \A f \in Files : s.ent[f].deferred => f[1] = "copy"
\* What holds of the image between any two calls; most calls find no partial sector.
Sound(s) ==
  /\ AtEnd(s) /\ AllRead(s) /\ LastEnds(s) /\ TailEnds(s) /\ MirrorClear(s) /\ GapsClear(s)
  /\ s.padsBefore <= Len(s.pads) /\ DataFree(s) /\ HeldCounted(s)
NoTail(s) == \A f \in Files : ~s.ent[f].tail

(* The types of a file entry's parts.                                      *)
LEMMA OneEntry ==
  ASSUME NEW s, AtEnd(s), NEW f \in Files
  PROVE  /\ s.ent[f] \in Entry /\ s.ent[f].ext \in Seq(Extent) /\ s.ent[f].size \in Nat
         /\ s.ent[f].tail \in BOOLEAN /\ s.ent[f].leads \in BOOLEAN /\ s.ent[f].closed \in BOOLEAN
         /\ s.ent[f].deferred \in BOOLEAN /\ s.ent[f].held \in Nat /\ s.ent[f].heldTail \in BOOLEAN
<1>1. s.ent[f] \in Entry
  BY FieldsOfImage
<1>. QED  BY <1>1 DEF Entry

(* Padding keeps the image sound.                                          *)
LEMMA PaddedSound ==
  ASSUME layout \in Layouts, NEW s, NEW t, Sound(s), NoTail(s), Padded(s, t)
  PROVE  Sound(t) /\ NoTail(t)
<1>1. /\ AtEnd(s) /\ AtEnd(t) /\ s.disk \in Seq(Cell) /\ t.disk \in Seq(Cell)
      /\ Len(s.disk) \in Nat /\ Len(t.disk) \in Nat /\ s.pos = Len(s.disk) /\ t.pos = Len(t.disk)
      /\ Len(s.disk) <= Len(t.disk) /\ t.ent = s.ent /\ t.gaps = s.gaps
      /\ \A i \in 1..Len(s.disk) : t.disk[i] = s.disk[i]
      /\ \A i \in Len(s.disk) + 1..Len(t.disk) : t.disk[i] = Zero
  BY FieldsOfImage DEF Padded
<1>2. NoTail(t) /\ TailEnds(t)
  BY <1>1 DEF NoTail, TailEnds
<1>3. AllRead(t)
  <2> SUFFICES ASSUME NEW f \in Files, f[1] # "ssif"
               PROVE  ReadsFrom(t.disk, f, s.ent[f].ext, s.ent[f].size, Lacking(s.ent[f]))
    BY <1>1 DEF AllRead
  <2>1. ReadsFrom(s.disk, f, s.ent[f].ext, s.ent[f].size, Lacking(s.ent[f])) /\ s.ent[f].ext \in Seq(Extent)
    BY <1>1, OneEntry DEF Sound, AllRead
  <2> DEFINE d == s.disk  e == t.disk  x == s.ent[f].ext  z == s.ent[f].size  l == Lacking(s.ent[f])
  <2>2. /\ d \in Seq(Cell) /\ e \in Seq(Cell) /\ Len(d) <= Len(e) /\ \A i \in 1..Len(d) : e[i] = d[i]
        /\ x \in Seq(Extent) /\ ReadsFrom(d, f, x, z, l)
    BY <1>1, <2>1
  <2> HIDE DEF d, e, x, z, l
  <2>3. ReadsFrom(e, f, x, z, l)
    BY <2>2, ReadsOn
  <2>. QED  BY <2>3 DEF e, x, z, l
<1>4. LastEnds(t)
  <2> SUFFICES ASSUME t.last # None PROVE LastEnds(t)
    BY DEF LastEnds
  <2>1. t.last = s.last /\ t.pos = s.pos
    BY DEF Padded
  <2>. QED  BY <1>1, <2>1 DEF Sound, LastEnds
<1>5. MirrorClear(t)
  <2> SUFFICES ASSUME t.placed
               PROVE  /\ t.mirror \in 1..Len(t.disk) - Meta
                      /\ \A k \in t.mirror..t.mirror + Meta : t.disk[k] = Zero
    BY DEF MirrorClear
  <2>1. Meta \in Nat /\ t.mirror \in Nat /\ s.mirror \in Nat
    BY <1>1, FieldsOfImage, Constants
  <2>2. CASE s.placed
    <3>1. /\ t.mirror = s.mirror /\ s.mirror \in 1..Len(s.disk) - Meta
          /\ \A k \in s.mirror..s.mirror + Meta : s.disk[k] = Zero
      BY <2>2 DEF Padded, Sound, MirrorClear
    <3>2. \A k \in s.mirror..s.mirror + Meta : k \in 1..Len(s.disk)
      BY <1>1, <2>1, <3>1
    <3>3. s.mirror \in 1..Len(t.disk) - Meta
      BY <1>1, <2>1, <3>1
    <3>. QED  BY <1>1, <3>1, <3>2, <3>3
  <2>3. CASE ~s.placed
    <3>1. t.mirror \in s.pos + 1..Len(t.disk) - Meta
      BY <2>3 DEF Padded
    <3>2. \A k \in t.mirror..t.mirror + Meta : k \in Len(s.disk) + 1..Len(t.disk)
      BY <1>1, <2>1, <3>1
    <3>3. t.mirror \in 1..Len(t.disk) - Meta
      BY <1>1, <2>1, <3>1
    <3>. QED  BY <1>1, <3>2, <3>3
  <2>. QED  BY <2>2, <2>3
<1>6. GapsClear(t)
  <2> SUFFICES ASSUME NEW i \in 1..Len(s.gaps)
               PROVE  /\ s.gaps[i].to <= Len(t.disk)
                      /\ \A k \in s.gaps[i].from + 1..s.gaps[i].to : t.disk[k] = Zero
                      /\ \A j \in 1..Len(s.gaps) : i < j => s.gaps[i].to <= s.gaps[j].from
    BY <1>1 DEF GapsClear
  <2>1. /\ s.gaps[i].to <= Len(s.disk)
        /\ \A k \in s.gaps[i].from + 1..s.gaps[i].to : s.disk[k] = Zero
        /\ \A j \in 1..Len(s.gaps) : i < j => s.gaps[i].to <= s.gaps[j].from
    BY DEF Sound, GapsClear
  <2>2. s.gaps[i] \in Hole
    BY <1>1, FieldsOfImage
  <2>3. s.gaps[i].from \in Nat /\ s.gaps[i].to \in Nat
    BY <2>2 DEF Hole, Gap
  <2>4. \A k \in s.gaps[i].from + 1..s.gaps[i].to : k \in 1..Len(s.disk)
    BY <1>1, <2>1, <2>3
  <2>5. s.gaps[i].to <= Len(t.disk)
    BY <1>1, <2>1, <2>3
  <2>. QED  BY <1>1, <2>1, <2>4, <2>5
<1>7. t.padsBefore <= Len(t.pads)
  <2>1. s.padsBefore <= Len(s.pads) /\ Len(s.pads) <= Len(t.pads) /\ t.padsBefore = s.padsBefore
    BY DEF Sound, Padded
  <2>. QED  BY <1>1, <2>1, FieldsOfImage
<1>8. DataFree(t)
  <2> SUFFICES ASSUME NEW k \in 1..Len(t.disk), InZone(k - 1) PROVE t.disk[k] \in {Zero, Mirror}
    BY DEF DataFree
  <2>1. CASE k <= Len(s.disk)
    <3>1. k \in 1..Len(s.disk)
      BY <1>1, <2>1
    <3>. QED  BY <1>1, <3>1 DEF Sound, DataFree
  <2>2. CASE ~(k <= Len(s.disk))
    <3>1. k \in Len(s.disk) + 1..Len(t.disk)
      BY <1>1, <2>2
    <3>. QED  BY <1>1, <3>1
  <2>. QED  BY <2>1, <2>2
<1>9. HeldCounted(t)
  <2>1. t.heldBytes = s.heldBytes
    BY DEF Padded
  <2>. QED  BY <1>1, <2>1 DEF Sound, HeldCounted
<1>. QED  BY <1>1, <1>2, <1>3, <1>4, <1>5, <1>6, <1>7, <1>8, <1>9 DEF Sound

-----------------------------------------------------------------------------
(* Writing the sectors of a file *)

\* t is s with n sectors more of f; with tail, the last of them is not on the disc yet
Wrote(s, t, f, n, tail) ==
  /\ AtEnd(s) /\ AtEnd(t) /\ Len(t.disk) = Len(s.disk) + (IF tail THEN n - 1 ELSE n)
  /\ \A i \in 1..Len(s.disk) : t.disk[i] = s.disk[i]
  /\ \A j \in 1..(IF tail THEN n - 1 ELSE n) : t.disk[Len(s.disk) + j] = <<f, s.ent[f].size + j>>
  /\ \A g \in Files : g # f => t.ent[g] = s.ent[g]
  /\ t.ent[f].ext = Longer(s.ent[f].ext, s.last = f, s.pos, n)
  /\ t.ent[f].size = s.ent[f].size + n /\ t.ent[f].tail = tail
  /\ t.ent[f].deferred = s.ent[f].deferred
  /\ t.ent[f].held = s.ent[f].held /\ t.ent[f].heldTail = s.ent[f].heldTail
  /\ t.last = f /\ t.gaps = s.gaps /\ t.pads = s.pads /\ t.padsBefore = s.padsBefore
  /\ t.placed = s.placed /\ t.mirror = s.mirror /\ t.queue = s.queue /\ t.heldBytes = s.heldBytes

(* What writeImpl stores, and where.                                       *)
LEMMA WriteImplWrote ==
  ASSUME NEW s, AtEnd(s), NEW f \in Files, NEW n \in Nat \ {0}, NEW tail \in BOOLEAN,
         Longer(s.ent[f].ext, s.last = f, s.pos, n) \in Seq(Extent)
  PROVE  Wrote(s, WriteImpl(s, f, n, tail), f, n, tail)
<1> DEFINE size == s.ent[f].size
           x == Longer(s.ent[f].ext, s.last = f, s.pos, n)
           y == [s.ent[f] EXCEPT !.ext = Longer(@, s.last = f, s.pos, n), !.size = @ + n, !.tail = tail]
           a == [s EXCEPT !.ent[f] = y, !.last = f, !.lastEntry = f]
           c == IF tail THEN n - 1 ELSE n
           cells == [k \in 1..c |-> <<f, size + k>>]
           t == Put(a, cells)
<1>1. /\ s \in Image /\ s.pos = Len(s.disk) /\ Len(s.disk) \in Nat /\ s.ent \in [Files -> Entry]
      /\ s.ent[f] \in Entry /\ size \in Nat /\ s.disk \in Seq(Cell)
  BY FieldsOfImage, OneEntry
<1>2. y \in Entry /\ y.ext = x /\ y.size = size + n /\ y.tail = tail
      /\ y.deferred = s.ent[f].deferred /\ y.held = s.ent[f].held /\ y.heldTail = s.ent[f].heldTail
  <2> DEFINE e == s.ent[f]
  <2>1. e \in Entry /\ e.size + n \in Nat /\ x \in Seq(Extent) /\ y = [e EXCEPT !.ext = x, !.size = @ + n, !.tail = tail]
    BY <1>1
  <2> HIDE DEF e, x, y
  <2>2. y \in Entry /\ y.ext = x /\ y.size = e.size + n /\ y.tail = tail
        /\ y.deferred = e.deferred /\ y.held = e.held /\ y.heldTail = e.heldTail
    BY <2>1 DEF Entry
  <2>. QED  BY <2>2 DEF e
<1>3. WriteImpl(s, f, n, tail) = t
  BY DEF WriteImpl
<1> HIDE DEF x, y
<1>4. /\ AtEnd(a) /\ a.disk = s.disk /\ a.pos = s.pos /\ a.last = f /\ a.gaps = s.gaps /\ a.pads = s.pads
      /\ a.padsBefore = s.padsBefore /\ a.placed = s.placed /\ a.mirror = s.mirror
      /\ a.queue = s.queue /\ a.heldBytes = s.heldBytes
      /\ a.ent[f] = y /\ \A g \in Files : g # f => a.ent[g] = s.ent[g]
  <2>1. [s.ent EXCEPT ![f] = y] \in [Files -> Entry]
    BY <1>1, <1>2
  <2>2. /\ [s.ent EXCEPT ![f] = y][f] = y
        /\ \A g \in Files : g # f => [s.ent EXCEPT ![f] = y][g] = s.ent[g]
    BY <1>1
  <2> DEFINE m == [s.ent EXCEPT ![f] = y]
  <2>3. a = [s EXCEPT !.ent = m, !.last = f, !.lastEntry = f]
    BY <1>1 DEF Image
  <2>4. m \in [Files -> Entry] /\ m[f] = y /\ \A g \in Files : g # f => m[g] = s.ent[g]
    BY <2>1, <2>2
  <2> HIDE DEF m, a
  <2>5. a \in Image
    BY <1>1, <2>3, <2>4 DEF Image, Names
  <2>6. /\ a.disk = s.disk /\ a.pos = s.pos /\ a.last = f /\ a.gaps = s.gaps /\ a.pads = s.pads
        /\ a.padsBefore = s.padsBefore /\ a.placed = s.placed /\ a.mirror = s.mirror
        /\ a.queue = s.queue /\ a.heldBytes = s.heldBytes /\ a.ent = m
    BY <1>1, <2>3 DEF Image
  <2>. QED  BY <1>1, <2>4, <2>5, <2>6 DEF AtEnd
<1> HIDE DEF a
<1>5. c \in Nat /\ cells = [k \in 1..c |-> cells[k]] /\ \A k \in 1..c : cells[k] = <<f, size + k>>
  OBVIOUS
<1>6. cells \in Seq(Cell) /\ Len(cells) = c
  <2>1. \A k \in 1..c : cells[k] \in Cell
    <3> SUFFICES ASSUME NEW k \in 1..c PROVE cells[k] \in Cell
      OBVIOUS
    <3>1. size + k \in Nat
      BY <1>1, <1>5
    <3>. QED  BY <1>5, <3>1, NotFiles
  <2>2. c \in Nat /\ cells = [k \in 1..c |-> cells[k]]
    BY <1>5
  <2> HIDE DEF cells, c
  <2>3. cells \in [1..c -> Cell]
    BY <2>1, <2>2
  <2>4. cells \in Seq(Cell) /\ Len(cells) = c
    BY <2>2, <2>3
  <2>. QED  BY <2>4
<1> HIDE DEF cells, c
<1>7. /\ t = [a EXCEPT !.disk = a.disk \o cells, !.pos = a.pos + Len(cells)]
      /\ AtEnd(t) /\ Len(t.disk) = Len(a.disk) + Len(cells)
      /\ \A i \in 1..Len(a.disk) : t.disk[i] = a.disk[i]
      /\ \A i \in 1..Len(cells) : t.disk[Len(a.disk) + i] = cells[i]
  <2>1. AtEnd(a) /\ cells \in Seq(Cell)
    BY <1>4, <1>6
  <2>. QED  BY <2>1, PutAtEnd
<1>8. /\ t.last = a.last /\ t.gaps = a.gaps /\ t.pads = a.pads /\ t.padsBefore = a.padsBefore
      /\ t.placed = a.placed /\ t.mirror = a.mirror /\ t.queue = a.queue /\ t.heldBytes = a.heldBytes
      /\ t.ent = a.ent
  BY <1>4, <1>7 DEF AtEnd, Image
<1> HIDE DEF t
<1>9. c = IF tail THEN n - 1 ELSE n
  BY DEF c
<1>11. t.ent[f] = y /\ \A g \in Files : g # f => t.ent[g] = s.ent[g]
  BY <1>4, <1>8
<1>12. Len(t.disk) = Len(s.disk) + c /\ \A j \in 1..c : t.disk[Len(s.disk) + j] = <<f, size + j>>
  BY <1>4, <1>5, <1>6, <1>7
<1>10. Wrote(s, t, f, n, tail)
  <2>1. AtEnd(s) /\ AtEnd(t) /\ Len(t.disk) = Len(s.disk) + (IF tail THEN n - 1 ELSE n)
    BY <1>7, <1>9, <1>12
  <2>2. \A i \in 1..Len(s.disk) : t.disk[i] = s.disk[i]
    BY <1>4, <1>7
  <2>3. \A j \in 1..(IF tail THEN n - 1 ELSE n) : t.disk[Len(s.disk) + j] = <<f, s.ent[f].size + j>>
    BY <1>9, <1>12 DEF size
  <2>4. /\ \A g \in Files : g # f => t.ent[g] = s.ent[g]
        /\ t.ent[f].ext = Longer(s.ent[f].ext, s.last = f, s.pos, n)
        /\ t.ent[f].size = s.ent[f].size + n /\ t.ent[f].tail = tail
        /\ t.ent[f].deferred = s.ent[f].deferred
        /\ t.ent[f].held = s.ent[f].held /\ t.ent[f].heldTail = s.ent[f].heldTail
    BY <1>2, <1>11 DEF x, size
  <2>5. /\ t.last = f /\ t.gaps = s.gaps /\ t.pads = s.pads /\ t.padsBefore = s.padsBefore
        /\ t.placed = s.placed /\ t.mirror = s.mirror /\ t.queue = s.queue
        /\ t.heldBytes = s.heldBytes
    BY <1>4, <1>8
  <2>. QED  BY <2>1, <2>2, <2>3, <2>4, <2>5 DEF Wrote
<1>. QED  BY <1>3, <1>10

\* t has what s has, and perhaps more behind it
Behind(s, t) ==
  /\ Len(s.disk) <= Len(t.disk) /\ (\A i \in 1..Len(s.disk) : t.disk[i] = s.disk[i])
  /\ t.gaps = s.gaps /\ t.placed = s.placed /\ t.mirror = s.mirror

(* What is written behind the mirror's place and the gaps leaves them      *)
(* empty.                                                                  *)
LEMMA BehindClear ==
  ASSUME NEW s, NEW t, AtEnd(s), AtEnd(t), Behind(s, t), MirrorClear(s), GapsClear(s)
  PROVE  MirrorClear(t) /\ GapsClear(t)
<1>1. /\ Len(s.disk) \in Nat /\ Len(t.disk) \in Nat /\ Len(s.disk) <= Len(t.disk)
      /\ \A i \in 1..Len(s.disk) : t.disk[i] = s.disk[i]
  BY FieldsOfImage DEF Behind
<1>2. MirrorClear(t)
  <2> SUFFICES ASSUME s.placed
               PROVE  /\ s.mirror \in 1..Len(t.disk) - Meta
                      /\ \A k \in s.mirror..s.mirror + Meta : t.disk[k] = Zero
    BY DEF MirrorClear, Behind
  <2>1. Meta \in Nat /\ s.mirror \in Nat
    BY <1>1, FieldsOfImage, Constants
  <2>2. /\ s.mirror \in 1..Len(s.disk) - Meta
        /\ \A k \in s.mirror..s.mirror + Meta : s.disk[k] = Zero
    BY DEF MirrorClear
  <2>3. \A k \in s.mirror..s.mirror + Meta : k \in 1..Len(s.disk)
    BY <1>1, <2>1, <2>2
  <2>4. s.mirror \in 1..Len(t.disk) - Meta
    BY <1>1, <2>1, <2>2
  <2>. QED  BY <1>1, <2>2, <2>3, <2>4
<1>3. GapsClear(t)
  <2>0. t.gaps = s.gaps
    BY DEF Behind
  <2> SUFFICES ASSUME NEW i \in 1..Len(s.gaps)
               PROVE  /\ s.gaps[i].to <= Len(t.disk)
                      /\ \A k \in s.gaps[i].from + 1..s.gaps[i].to : t.disk[k] = Zero
                      /\ \A j \in 1..Len(s.gaps) : i < j => s.gaps[i].to <= s.gaps[j].from
    BY <2>0 DEF GapsClear
  <2>1. /\ s.gaps[i].to <= Len(s.disk)
        /\ \A k \in s.gaps[i].from + 1..s.gaps[i].to : s.disk[k] = Zero
        /\ \A j \in 1..Len(s.gaps) : i < j => s.gaps[i].to <= s.gaps[j].from
    BY DEF GapsClear
  <2>2. s.gaps[i] \in Hole
    BY <1>1, FieldsOfImage
  <2>3. s.gaps[i].from \in Nat /\ s.gaps[i].to \in Nat
    BY <2>2 DEF Hole, Gap
  <2>4. \A k \in s.gaps[i].from + 1..s.gaps[i].to : k \in 1..Len(s.disk)
    BY <1>1, <2>1, <2>3
  <2>5. s.gaps[i].to <= Len(t.disk)
    BY <1>1, <2>1, <2>3
  <2>. QED  BY <1>1, <2>1, <2>4, <2>5
<1>. QED  BY <1>2, <1>3

(* Sectors of a file that reach no zone keep the image sound.              *)
LEMMA WroteSound ==
  ASSUME layout \in Layouts, NEW s, NEW t, Sound(s), NoTail(s), NEW f \in Files, f[1] # "ssif",
         ~s.ent[f].deferred, NEW n, OneWrite(n), NEW tail \in BOOLEAN,
         Clears(s.pos, n), Wrote(s, t, f, n, tail)
  PROVE  Sound(t)
<1> DEFINE c == IF tail THEN n - 1 ELSE n
           size == s.ent[f].size
           lack == IF tail THEN size + n ELSE 0
           x == Longer(s.ent[f].ext, s.last = f, s.pos, n)
<1>1. /\ AtEnd(s) /\ AtEnd(t) /\ s.disk \in Seq(Cell) /\ t.disk \in Seq(Cell)
      /\ Len(s.disk) \in Nat /\ Len(t.disk) \in Nat /\ s.pos = Len(s.disk) /\ t.pos = Len(t.disk)
      /\ \A i \in 1..Len(s.disk) : t.disk[i] = s.disk[i]
      /\ s.pos \in Nat
  BY FieldsOfImage DEF Wrote
<1>2. n \in 1..MaxExtent /\ n \in Nat \ {0} /\ c \in Nat /\ c <= n /\ MaxExtent \in Nat /\ (tail => c = n - 1)
      /\ (~tail => c = n)
  BY ShortWrite, Constants
<1>3. /\ s.ent[f].ext \in Seq(Extent) /\ size \in Nat /\ ~s.ent[f].tail /\ t.ent[f] \in Entry
  BY <1>1, OneEntry DEF NoTail
<1>4. Len(t.disk) = Len(s.disk) + c /\ \A j \in 1..c : t.disk[Len(s.disk) + j] = <<f, size + j>>
  BY DEF Wrote
<1> HIDE DEF c
<1>5. Len(s.disk) <= Len(t.disk)
  BY <1>1, <1>2, <1>4
<1>6. /\ x # <<>> /\ Last(x).lbn + Last(x).n = s.pos + n
      /\ ReadsFrom(t.disk, f, x, size + n, lack)
  <2> DEFINE d == t.disk  e == s.ent[f].ext  p == s.pos  b == s.last
  <2>1. ReadsFrom(s.disk, f, e, size, 0)
    BY <1>3 DEF Sound, AllRead, Lacking
  <2>2. ReadsFrom(d, f, e, size, 0)
    <3> DEFINE d0 == s.disk
    <3>1. d0 \in Seq(Cell) /\ d \in Seq(Cell) /\ Len(d0) <= Len(d) /\ (\A i \in 1..Len(d0) : d[i] = d0[i])
          /\ e \in Seq(Extent) /\ ReadsFrom(d0, f, e, size, 0)
      BY <1>1, <1>3, <1>5, <2>1
    <3> HIDE DEF d0, d, e, size
    <3>. QED  BY <3>1, ReadsOn
  <2>3. b = f => e # <<>> /\ Last(e).lbn + Last(e).n = p
    <3> SUFFICES ASSUME s.last = f PROVE e # <<>> /\ Last(e).lbn + Last(e).n = p
      OBVIOUS
    <3>1. s.last # None
      BY NotFiles
    <3>2. e # <<>> /\ Last(e).lbn + Last(e).n = p + 0
      BY <1>3, <3>1 DEF Sound, LastEnds
    <3>. QED  BY <1>1, <3>2
  <2>4. \A j \in 1..n : \/ size + j = lack
                        \/ p + j <= Len(d) /\ d[p + j] = <<f, size + j>>
    <3> SUFFICES ASSUME NEW j \in 1..n, size + j # lack
                 PROVE  p + j <= Len(d) /\ d[p + j] = <<f, size + j>>
      OBVIOUS
    <3>1. j \in 1..c
      <4>1. CASE tail
        BY <1>2, <1>3, <4>1
      <4>2. CASE ~tail
        BY <1>2, <4>2
      <4>. QED  BY <4>1, <4>2
    <3>. QED  BY <1>1, <1>2, <1>4, <3>1
  <2>5. d \in Seq(Cell) /\ p \in Nat /\ e \in Seq(Extent) /\ size \in Nat
    BY <1>1, <1>3
  <2>6. x = Longer(e, b = f, p, n) /\ size \in Nat /\ n \in 1..MaxExtent
    BY <1>2, <1>3
  <2> HIDE DEF d, e, p, b, x, size, lack
  <2>7. CASE b = f
    <3>1. TRUE => e # <<>> /\ Last(e).lbn + Last(e).n = p
      BY <2>3, <2>7
    <3>2. x = Longer(e, TRUE, p, n)
      BY <2>6, <2>7 DEF Longer
    <3>3. LET y == Longer(e, TRUE, p, n) IN
          /\ y \in Seq(Extent) /\ y # <<>> /\ Last(y).lbn + Last(y).n = p + n
          /\ ReadsFrom(d, f, y, size + n, lack)
      BY <2>2, <2>4, <2>5, <2>6, <3>1, LongerReads
    <3>. QED  BY <3>2, <3>3 DEF d, p
  <2>8. CASE b # f
    <3>1. FALSE => e # <<>> /\ Last(e).lbn + Last(e).n = p
      OBVIOUS
    <3>2. x = Longer(e, FALSE, p, n)
      BY <2>6, <2>8 DEF Longer
    <3>3. LET y == Longer(e, FALSE, p, n) IN
          /\ y \in Seq(Extent) /\ y # <<>> /\ Last(y).lbn + Last(y).n = p + n
          /\ ReadsFrom(d, f, y, size + n, lack)
      BY <2>2, <2>4, <2>5, <2>6, <3>1, LongerReads
    <3>. QED  BY <3>2, <3>3 DEF d, p
  <2>. QED  BY <2>7, <2>8
<1> HIDE DEF x
<1>7. t.ent[f].ext = x /\ t.ent[f].size = size + n /\ t.ent[f].tail = tail /\ Lacking(t.ent[f]) = lack
  BY DEF Wrote, Lacking, x
<1>8. AllRead(t)
  <2> SUFFICES ASSUME NEW g \in Files, g[1] # "ssif"
               PROVE  ReadsFrom(t.disk, g, t.ent[g].ext, t.ent[g].size, Lacking(t.ent[g]))
    BY DEF AllRead
  <2>1. CASE g = f
    BY <1>6, <1>7, <2>1
  <2>2. CASE g # f
    <3> DEFINE d == s.disk  e == t.disk  y == s.ent[g].ext  z == s.ent[g].size  l == Lacking(s.ent[g])
    <3>1. t.ent[g] = s.ent[g]
      BY <2>2 DEF Wrote
    <3>2. ReadsFrom(d, g, y, z, l) /\ y \in Seq(Extent)
      BY <1>1, OneEntry DEF Sound, AllRead
    <3>3. /\ d \in Seq(Cell) /\ e \in Seq(Cell) /\ Len(d) <= Len(e) /\ \A i \in 1..Len(d) : e[i] = d[i]
      BY <1>1, <1>5
    <3> HIDE DEF d, e, y, z, l
    <3>4. ReadsFrom(e, g, y, z, l)
      BY <3>2, <3>3, ReadsOn
    <3>. QED  BY <3>1, <3>4 DEF e, y, z, l
  <2>. QED  BY <2>1, <2>2
<1>9. LastEnds(t)
  <2>1. t.last = f
    BY DEF Wrote
  <2>2. t.pos + (IF tail THEN 1 ELSE 0) = s.pos + n
    <3>1. CASE tail
      <4>1. c = n - 1 /\ t.pos = s.pos + c
        BY <1>1, <1>2, <1>4, <3>1
      <4>2. t.pos + 1 = s.pos + n
        BY <1>1, <1>2, <4>1
      <4>. QED  BY <3>1, <4>2
    <3>2. CASE ~tail
      BY <1>1, <1>2, <1>4, <3>2
    <3>. QED  BY <3>1, <3>2
  <2>. QED  BY <1>6, <1>7, <2>1, <2>2 DEF LastEnds
<1>10. TailEnds(t)
  <2> SUFFICES ASSUME NEW g \in Files, t.ent[g].tail
               PROVE  t.last = g /\ ~t.ent[g].deferred /\ g[1] # "ssif" /\ ~InZone(t.pos)
    BY DEF TailEnds
  <2>1. g = f
    BY DEF Wrote, NoTail
  <2>2. t.last = f /\ ~t.ent[f].deferred /\ tail
    BY <1>7, <2>1 DEF Wrote
  <2>3. t.pos = s.pos + (n - 1)
    BY <1>1, <1>2, <1>4, <2>2
  <2>4. ASSUME InZone(t.pos) PROVE FALSE
    <3>1. PICK i \in Zones : ZoneStart(i) <= t.pos /\ t.pos < ZoneEnd(i)
      BY <2>4 DEF InZone
    <3>0. BreaksApart(layout)
      BY <2>4 DEF InZone
    <3>2. ZoneStart(i) \in Int /\ ZoneEnd(i) \in Nat
      BY Disc
    <3>3. Reaches(s.pos, n, i)
      BY <1>1, <1>2, <2>3, <3>1, <3>2 DEF Reaches
    <3>. QED  BY <3>0, <3>3 DEF Clears
  <2>. QED  BY <2>1, <2>2, <2>4
<1>11. Behind(s, t)
  BY <1>1, <1>5 DEF Behind, Wrote
<1>12. MirrorClear(t) /\ GapsClear(t)
  BY <1>1, <1>11, BehindClear DEF Sound
<1>13. DataFree(t)
  <2> SUFFICES ASSUME NEW k \in 1..Len(t.disk), InZone(k - 1) PROVE t.disk[k] \in {Zero, Mirror}
    BY DEF DataFree
  <2>1. CASE k <= Len(s.disk)
    <3>1. k \in 1..Len(s.disk)
      BY <1>1, <2>1
    <3>. QED  BY <1>1, <3>1 DEF Sound, DataFree
  <2>2. CASE ~(k <= Len(s.disk))
    <3>1. PICK i \in Zones : ZoneStart(i) <= k - 1 /\ k - 1 < ZoneEnd(i)
      BY DEF InZone
    <3>2. ZoneStart(i) \in Int /\ ZoneEnd(i) \in Nat
      BY Disc
    <3>3. s.pos <= k - 1 /\ k - 1 < s.pos + n
      BY <1>1, <1>2, <1>4, <2>2
    <3>4. Reaches(s.pos, n, i)
      BY <1>1, <1>2, <3>1, <3>2, <3>3 DEF Reaches
    <3>5. BreaksApart(layout)
      BY DEF InZone
    <3>. QED  BY <3>4, <3>5 DEF Clears
  <2>. QED  BY <2>1, <2>2
<1>14. HeldCounted(t)
  <2>1. \A g \in Files : t.ent[g].held = s.ent[g].held /\ t.ent[g].deferred = s.ent[g].deferred
    BY DEF Wrote
  <2>2. t.heldBytes = s.heldBytes
    BY DEF Wrote
  <2>3. \A p \in 1..MaxParts : <<"copy", p>> \in Files
    BY DEF Files
  <2>4. \A acc : Adds(s.ent, acc) => Adds(t.ent, acc)
    BY <2>1, <2>3 DEF Adds
  <2>. QED  BY <2>1, <2>2, <2>4 DEF Sound, HeldCounted
<1>15. t.padsBefore <= Len(t.pads)
  BY DEF Wrote, Sound
<1>. QED  BY <1>1, <1>8, <1>9, <1>10, <1>12, <1>13, <1>14, <1>15 DEF Sound

(* No extent writeImpl makes is larger than MAX_EXTENT_SIZE.               *)
LEMMA LongerParts ==
  ASSUME NEW ext \in Seq(Extent), NEW goesOn \in BOOLEAN, goesOn => ext # <<>>,
         NEW lbn \in Nat, NEW n \in 1..MaxExtent
  PROVE  Longer(ext, goesOn, lbn, n) \in Seq(Extent)
<1> DEFINE x == Longer(ext, goesOn, lbn, n)
           l == Last(ext)
<1>1. MaxExtent \in Nat \ {0} /\ n \in Nat \ {0} /\ n <= MaxExtent
  BY Constants
<1>2. CASE ~goesOn
  <2> DEFINE y == [lbn |-> lbn, n |-> n]
  <2>1. y \in Extent
    BY <1>1 DEF Extent
  <2>2. Min({0, n}) = 0
    BY <1>1, MinOfTwo
  <2>3. lbn + 0 = lbn /\ n - 0 = n /\ n > 0
    BY <1>1
  <2>4. x = Append(ext, y)
    BY <1>2, <2>2, <2>3 DEF Longer
  <2> HIDE DEF y
  <2>. QED  BY <2>1, <2>4
<1>3. CASE goesOn
  <2>1. ext # <<>> /\ Len(ext) \in 1..Len(ext) /\ l \in Extent
    BY <1>3, OneExtent DEF Last
  <2>2. l.n \in 1..MaxExtent /\ l.lbn \in Nat
    BY <2>1 DEF Extent
  <2> DEFINE room == MaxExtent - l.n
             head == IF room <= n THEN room ELSE n
             grown == Grown(ext, head)
  <2>3. room \in Nat /\ head \in Nat /\ head <= n /\ l.n + head <= MaxExtent
    BY <1>1, <2>2
  <2>4. Min({room, n}) = head
    BY <1>1, <2>3, MinOfTwo
  <2> HIDE DEF head, room, l
  <2>5. grown \in Seq(Extent)
    BY <2>1, <2>3, GrownParts DEF l
  <2>6. x = IF n > head THEN Append(grown, [lbn |-> lbn + head, n |-> n - head]) ELSE grown
    BY <1>3, <2>4 DEF Longer, Grown, room, l
  <2>7. ASSUME n > head PROVE [lbn |-> lbn + head, n |-> n - head] \in Extent
    BY <1>1, <2>3, <2>7 DEF Extent
  <2>. QED  BY <2>5, <2>6, <2>7
<1>. QED  BY <1>2, <1>3

\* What of a file's entry is the same, and what of the files held back
Kept(s, t) ==
  /\ \A g \in Files : /\ t.ent[g].deferred = s.ent[g].deferred /\ t.ent[g].held = s.ent[g].held
                      /\ t.ent[g].heldTail = s.ent[g].heldTail
  /\ t.queue = s.queue /\ t.heldBytes = s.heldBytes

(* What two steps leave of the files held back.                            *)
LEMMA KeptTwice ==
  ASSUME NEW r, NEW s, NEW t, Kept(r, s), Kept(s, t)
  PROVE  Kept(r, t)
BY DEF Kept

(* Padding leaves the files held back alone.                               *)
LEMMA KeptPadded ==
  ASSUME NEW s, NEW t, Padded(s, t)
  PROVE  Kept(s, t)
BY DEF Kept, Padded

(* writeImpl keeps the image sound when the sectors reach no zone.         *)
LEMMA WriteImplSound ==
  ASSUME layout \in Layouts, NEW s, Sound(s), NoTail(s), NEW f \in Files, f[1] # "ssif",
         ~s.ent[f].deferred, NEW n, OneWrite(n), NEW tail \in BOOLEAN,
         Clears(s.pos, n)
  PROVE  LET t == WriteImpl(s, f, n, tail) IN
         /\ Sound(t) /\ Kept(s, t) /\ (\A g \in Files : t.ent[g].tail => g = f /\ tail)
         /\ t.placed = s.placed
<1> DEFINE t == WriteImpl(s, f, n, tail)
<1>1. AtEnd(s) /\ s.ent[f].ext \in Seq(Extent) /\ s.pos \in Nat /\ n \in 1..MaxExtent /\ n \in Nat \ {0}
  BY FieldsOfImage, OneEntry, ShortWrite DEF Sound
<1>2. s.last = f => s.ent[f].ext # <<>>
  BY NotFiles DEF Sound, LastEnds
<1>3. Longer(s.ent[f].ext, s.last = f, s.pos, n) \in Seq(Extent)
  <2> DEFINE e == s.ent[f].ext  p == s.pos
  <2>1. CASE s.last = f
    <3>1. Longer(e, s.last = f, p, n) = Longer(e, TRUE, p, n)
      BY <2>1 DEF Longer
    <3>2. e \in Seq(Extent) /\ p \in Nat /\ e # <<>>
      BY <1>1, <1>2, <2>1
    <3> HIDE DEF e, p
    <3>3. Longer(e, TRUE, p, n) \in Seq(Extent)
      BY <1>1, <3>2, LongerParts
    <3>. QED  BY <3>1, <3>3 DEF e, p
  <2>2. CASE s.last # f
    <3>1. Longer(e, s.last = f, p, n) = Longer(e, FALSE, p, n)
      BY <2>2 DEF Longer
    <3>2. e \in Seq(Extent) /\ p \in Nat
      BY <1>1
    <3> HIDE DEF e, p
    <3>3. Longer(e, FALSE, p, n) \in Seq(Extent)
      BY <1>1, <3>2, LongerParts
    <3>. QED  BY <3>1, <3>3 DEF e, p
  <2>. QED  BY <2>1, <2>2
<1>4. Wrote(s, t, f, n, tail)
  BY <1>1, <1>3, WriteImplWrote
<1> HIDE DEF t
<1>5. Sound(t)
  BY <1>4, WroteSound
<1>6. Kept(s, t)
  BY <1>4 DEF Wrote, Kept
<1>7. \A g \in Files : t.ent[g].tail => g = f /\ tail
  BY <1>4 DEF Wrote, NoTail
<1>8. t.placed = s.placed
  BY <1>4 DEF Wrote
<1>. QED  BY <1>5, <1>6, <1>7, <1>8 DEF t

-----------------------------------------------------------------------------
(* What does not change where the data is *)

\* t is s but for what decides nothing of where data is.
Alike(s, t) ==
  /\ AtEnd(t) /\ t.disk = s.disk /\ t.pos = s.pos /\ t.last = s.last /\ t.gaps = s.gaps
  /\ t.padsBefore = s.padsBefore /\ t.pads = s.pads /\ t.placed = s.placed /\ t.mirror = s.mirror
  /\ \A f \in Files : /\ t.ent[f].ext = s.ent[f].ext /\ t.ent[f].size = s.ent[f].size
                      /\ t.ent[f].tail = s.ent[f].tail
  /\ Kept(s, t)

(* An image that differs in none of this is sound too.                     *)
LEMMA AlikeSound ==
  ASSUME NEW s, NEW t, Sound(s), Alike(s, t)
  PROVE  Sound(t) /\ (NoTail(s) => NoTail(t))
<1>1. \A f \in Files : Lacking(t.ent[f]) = Lacking(s.ent[f])
  BY DEF Alike, Lacking
<1>2. AllRead(t)
  BY <1>1 DEF Sound, AllRead, Alike
<1>3. LastEnds(t)
  <2>1. s.last # None => s.last \in Files
    BY FieldsOfImage DEF Sound, Names
  <2>. QED  BY <2>1 DEF Sound, LastEnds, Alike
<1>4. TailEnds(t)
  BY DEF Sound, TailEnds, Alike, Kept
<1>5. MirrorClear(t) /\ GapsClear(t) /\ DataFree(t)
  BY DEF Sound, MirrorClear, GapsClear, DataFree, Alike
<1>6. HeldCounted(t)
  <2>1. \A g \in Files : t.ent[g].held = s.ent[g].held /\ t.ent[g].deferred = s.ent[g].deferred
    BY DEF Alike, Kept
  <2>2. t.heldBytes = s.heldBytes
    BY DEF Alike, Kept
  <2>3. \A p \in 1..MaxParts : <<"copy", p>> \in Files
    BY DEF Files
  <2>4. \A acc : Adds(s.ent, acc) => Adds(t.ent, acc)
    BY <2>1, <2>3 DEF Adds
  <2>. QED  BY <2>1, <2>2, <2>4 DEF Sound, HeldCounted
<1>. QED  BY <1>2, <1>3, <1>4, <1>5, <1>6 DEF Sound, Alike, NoTail

-----------------------------------------------------------------------------
(* Before a piece *)

\* The entry of f is g
LEMMA EntryAs ==
  ASSUME NEW s, AtEnd(s), NEW f \in Files, NEW e \in Entry
  PROVE  LET t == [s EXCEPT !.ent[f] = e] IN
         /\ AtEnd(t) /\ t.ent[f] = e /\ (\A g \in Files : g # f => t.ent[g] = s.ent[g])
         /\ t.disk = s.disk /\ t.pos = s.pos /\ t.last = s.last /\ t.lastEntry = s.lastEntry
         /\ t.gaps = s.gaps /\ t.pads = s.pads /\ t.padsBefore = s.padsBefore
         /\ t.placed = s.placed /\ t.mirror = s.mirror /\ t.queue = s.queue
         /\ t.heldBytes = s.heldBytes
<1> DEFINE m == [s.ent EXCEPT ![f] = e]
<1>1. s \in Image /\ s.pos = Len(s.disk) /\ s.ent \in [Files -> Entry]
  BY FieldsOfImage
<1>2. m \in [Files -> Entry] /\ m[f] = e /\ \A g \in Files : g # f => m[g] = s.ent[g]
  BY <1>1
<1>3. [s EXCEPT !.ent[f] = e] = [s EXCEPT !.ent = m]
  BY <1>1 DEF Image
<1> HIDE DEF m
<1> DEFINE t == [s EXCEPT !.ent = m]
<1>4. /\ t.ent = m /\ t \in Image
      /\ t.disk = s.disk /\ t.pos = s.pos /\ t.last = s.last /\ t.lastEntry = s.lastEntry
      /\ t.gaps = s.gaps /\ t.pads = s.pads /\ t.padsBefore = s.padsBefore
      /\ t.placed = s.placed /\ t.mirror = s.mirror /\ t.queue = s.queue
      /\ t.heldBytes = s.heldBytes
  BY <1>1, <1>2 DEF Image
<1> HIDE DEF t
<1>5. AtEnd(t)
  BY <1>1, <1>4 DEF AtEnd
<1>. QED  BY <1>2, <1>3, <1>4, <1>5 DEF t

(* A look ahead keeps the image sound: the gap it notes is empty.          *)
LEMMA LookedAheadSound ==
  ASSUME layout \in Layouts, NEW s, NEW m, Sound(s), NoTail(s), Padded(s, m)
  PROVE  LET t == LookedAhead(s, m) IN Sound(t) /\ NoTail(t) /\ Kept(s, t)
<1> DEFINE gap == [from |-> s.pos, to |-> m.pos]
           more == Append(m.gaps, gap)
           before == IF s.gaps = <<>> THEN Len(s.pads) ELSE m.padsBefore
           by == m.byLookAhead \/ (m.placed /\ ~s.placed)
           t == [m EXCEPT !.padsBefore = before, !.byLookAhead = by, !.gaps = more]
<1>1. Sound(m) /\ NoTail(m) /\ Kept(s, m)
  BY PaddedSound, KeptPadded
<1>2. CASE m.pos = s.pos
  BY <1>1, <1>2 DEF LookedAhead
<1>3. CASE m.pos # s.pos
  <2>1. /\ AtEnd(s) /\ AtEnd(m) /\ s.pos \in Nat /\ m.pos \in Nat /\ s.pos <= m.pos
        /\ s.pos = Len(s.disk) /\ m.pos = Len(m.disk)
        /\ s.gaps \in Seq(Hole) /\ m.gaps = s.gaps /\ s.padsBefore \in Nat /\ m.padsBefore = s.padsBefore
        /\ Len(s.pads) \in Nat /\ Len(m.pads) \in Nat /\ Len(s.pads) <= Len(m.pads)
        /\ s.padsBefore <= Len(s.pads)
    BY FieldsOfImage DEF Padded, Sound
  <2>2. gap \in Hole /\ gap.from = s.pos /\ gap.to = m.pos
    BY <2>1 DEF Hole, Gap
  <2> HIDE DEF gap
  <2>3. /\ more \in Seq(Hole) /\ Len(more) = Len(s.gaps) + 1 /\ more[Len(s.gaps) + 1] = gap
        /\ \A i \in 1..Len(s.gaps) : more[i] = s.gaps[i]
        /\ Len(s.gaps) \in Nat
    BY <2>1, <2>2
  <2>4. before \in Nat /\ before <= Len(m.pads)
    BY <2>1
  <2>5. by \in BOOLEAN
    BY <2>1, FieldsOfImage
  <2> HIDE DEF more, before, by
  <2>6. /\ t \in Image /\ t.gaps = more /\ t.padsBefore = before /\ t.pads = m.pads
        /\ t.disk = m.disk /\ t.pos = m.pos /\ t.last = m.last /\ t.ent = m.ent
        /\ t.placed = m.placed /\ t.mirror = m.mirror /\ t.queue = m.queue /\ t.heldBytes = m.heldBytes
    BY <2>1, <2>3, <2>4, <2>5 DEF AtEnd, Image
  <2>7. AtEnd(t)
    BY <2>1, <2>6 DEF AtEnd
  <2>8. LookedAhead(s, m) = t
    BY <1>3 DEF LookedAhead, more, before, by, gap
  <2> HIDE DEF t
  <2>9. GapsClear(t)
    <3> SUFFICES ASSUME NEW i \in 1..Len(s.gaps) + 1
                 PROVE  /\ more[i].to <= Len(m.disk)
                        /\ \A k \in more[i].from + 1..more[i].to : m.disk[k] = Zero
                        /\ \A j \in 1..Len(s.gaps) + 1 : i < j => more[i].to <= more[j].from
      BY <2>3, <2>6 DEF GapsClear
    <3>1. CASE i = Len(s.gaps) + 1
      <4>1. more[i] = gap
        BY <2>3, <3>1
      <4>2. \A k \in s.pos + 1..m.pos : m.disk[k] = Zero
        BY <2>1 DEF Padded
      <4>3. \A j \in 1..Len(s.gaps) + 1 : ~(i < j)
        BY <2>3, <3>1
      <4>. QED  BY <2>1, <2>2, <4>1, <4>2, <4>3
    <3>2. CASE i # Len(s.gaps) + 1
      <4>1. i \in 1..Len(s.gaps) /\ more[i] = s.gaps[i]
        BY <2>3, <3>2
      <4>2. /\ s.gaps[i].to <= Len(m.disk)
            /\ \A k \in s.gaps[i].from + 1..s.gaps[i].to : m.disk[k] = Zero
            /\ \A j \in 1..Len(s.gaps) : i < j => s.gaps[i].to <= s.gaps[j].from
        BY <1>1, <2>1, <4>1 DEF Sound, GapsClear
      <4>3. s.gaps[i].to <= s.pos
        BY <2>1, <4>1 DEF Sound, GapsClear
      <4>4. ASSUME NEW j \in 1..Len(s.gaps) + 1, i < j PROVE more[i].to <= more[j].from
        <5>1. CASE j = Len(s.gaps) + 1
          BY <2>2, <2>3, <4>1, <4>3, <5>1
        <5>2. CASE j # Len(s.gaps) + 1
          <6>1. j \in 1..Len(s.gaps) /\ more[j] = s.gaps[j]
            BY <2>3, <5>2
          <6>. QED  BY <4>1, <4>2, <4>4, <6>1
        <5>. QED  BY <5>1, <5>2
      <4>. QED  BY <4>1, <4>2, <4>4
    <3>. QED  BY <3>1, <3>2
  <2>10. AllRead(t) /\ LastEnds(t) /\ TailEnds(t) /\ MirrorClear(t) /\ DataFree(t) /\ HeldCounted(t)
    BY <1>1, <2>6 DEF Sound, AllRead, LastEnds, TailEnds, MirrorClear, DataFree, HeldCounted
  <2>11. t.padsBefore <= Len(t.pads)
    BY <2>4, <2>6
  <2>12. Sound(t) /\ NoTail(t) /\ Kept(s, t)
    BY <1>1, <2>6, <2>7, <2>9, <2>10, <2>11 DEF Sound, NoTail, Kept
  <2>. QED  BY <2>8, <2>12
<1>. QED  BY <1>2, <1>3

(* beforePiece keeps the image sound.                                      *)
LEMMA BeforePieceSound ==
  ASSUME layout \in Layouts, NEW s, Sound(s), NoTail(s), NEW f \in Files
  PROVE  LET t == BeforePiece(s, f) IN Sound(t) /\ NoTail(t) /\ Kept(s, t)
<1> DEFINE y == [s.ent[f] EXCEPT !.leads = Leads(s, f)]
           a == IF s.ent[f].size = 0 THEN [s EXCEPT !.ent[f].leads = Leads(s, f)] ELSE s
           m == CheckLayerBreakPoint(a, LookAhead)
<1>1. AtEnd(s) /\ s.ent[f] \in Entry /\ s.ent \in [Files -> Entry]
  BY FieldsOfImage, OneEntry DEF Sound
<1>2. Leads(s, f) \in BOOLEAN
  BY DEF Leads
<1>3. [s EXCEPT !.ent[f].leads = Leads(s, f)] = [s EXCEPT !.ent[f] = y]
  BY <1>1 DEF AtEnd, Image, Entry
<1>4. /\ y \in Entry /\ y.ext = s.ent[f].ext /\ y.size = s.ent[f].size /\ y.tail = s.ent[f].tail
      /\ y.deferred = s.ent[f].deferred /\ y.held = s.ent[f].held /\ y.heldTail = s.ent[f].heldTail
  <2> DEFINE l == Leads(s, f)
  <2>1. l \in BOOLEAN
    BY <1>2
  <2> HIDE DEF l
  <2>2. LET z == [s.ent[f] EXCEPT !.leads = l] IN
        /\ z \in Entry /\ z.ext = s.ent[f].ext /\ z.size = s.ent[f].size /\ z.tail = s.ent[f].tail
        /\ z.deferred = s.ent[f].deferred /\ z.held = s.ent[f].held /\ z.heldTail = s.ent[f].heldTail
    BY <1>1, <2>1 DEF Entry
  <2>. QED  BY <2>2 DEF l
<1>5. Sound(a) /\ NoTail(a) /\ Kept(s, a)
  <2>1. CASE s.ent[f].size = 0
    <3> DEFINE t == [s EXCEPT !.ent[f] = y]
    <3> HIDE DEF y
    <3>1. /\ AtEnd(t) /\ t.ent[f] = y /\ (\A g \in Files : g # f => t.ent[g] = s.ent[g])
          /\ t.disk = s.disk /\ t.pos = s.pos /\ t.last = s.last
          /\ t.gaps = s.gaps /\ t.pads = s.pads /\ t.padsBefore = s.padsBefore
          /\ t.placed = s.placed /\ t.mirror = s.mirror /\ t.queue = s.queue
          /\ t.heldBytes = s.heldBytes
      BY <1>1, <1>4, EntryAs
    <3> HIDE DEF t
    <3>2. Alike(s, t)
      BY <1>4, <3>1 DEF Alike, Kept
    <3>3. Sound(t) /\ NoTail(t) /\ Kept(s, t)
      BY <3>2, AlikeSound DEF Alike
    <3>. QED  BY <1>3, <2>1, <3>3 DEF t
  <2>2. CASE s.ent[f].size # 0
    BY <2>2 DEF Kept
  <2>. QED  BY <2>1, <2>2
<1> HIDE DEF a
<1>6. Padded(a, m)
  BY <1>5, PaddedCheck, Constants DEF Sound
<1> HIDE DEF m
<1>7. Sound(LookedAhead(a, m)) /\ NoTail(LookedAhead(a, m)) /\ Kept(a, LookedAhead(a, m))
  BY <1>5, <1>6, LookedAheadSound
<1>8. BeforePiece(s, f) = a \/ BeforePiece(s, f) = LookedAhead(a, m)
  BY DEF BeforePiece, BeforePair, a, m
<1>. QED  BY <1>5, <1>7, <1>8, KeptTwice

-----------------------------------------------------------------------------
(* Writing, cut where the mirror or a zone is *)

(* A write that is cut at the mirror's place or a zone keeps the image     *)
(* sound.                                                                  *)
LEMMA WriteCutSound ==
  ASSUME layout \in Layouts, NEW s, Sound(s), NoTail(s), NEW f \in Files, f[1] # "ssif",
         ~s.ent[f].deferred, NEW n, OneWrite(n), NEW tail \in BOOLEAN
  PROVE  LET t == WriteCut(s, f, n, tail) IN
         Sound(t) /\ Kept(s, t) /\ (\A g \in Files : t.ent[g].tail => g = f /\ tail)
<1> DEFINE room == RoomBeforeMirror(s, n)
           head == IF room > 0 THEN WriteImpl(s, f, room, FALSE) ELSE s
           c == CheckLayerBreakPoint(head, n - room)
<1>1. n \in Nat \ {0} /\ s.pos \in Nat /\ MirrorStart \in Int
      /\ \A i \in Zones : ZoneStart(i) \in Int /\ ZoneEnd(i) \in Nat
  BY ShortWrite, FieldsOfImage, Disc, MirrorFirst DEF Sound, OneWrite
<1>2. /\ room \in 0..n - 1
      /\ room > 0 => MirrorPending(s) /\ s.pos + room = MirrorStart
  BY <1>1 DEF RoomBeforeMirror
<1>3. CASE NearLayerBreak(s, n)
  <2> HIDE DEF room
  <2>1. OneWrite(n - room) /\ (room > 0 => OneWrite(room)) /\ n - room \in Nat
    <3>1. n - room \in 1..n /\ (room > 0 => room \in 1..n)
      BY <1>1, <1>2
    <3>. QED  BY <3>1, ShortWrite
  <2>2. Sound(head) /\ NoTail(head) /\ Kept(s, head)
    <3>1. CASE room > 0
      <4>1. Clears(s.pos, room)
        <5> SUFFICES ASSUME BreaksApart(layout), NEW i \in Zones, Reaches(s.pos, room, i) PROVE FALSE
          BY DEF Clears
        <5>1. MirrorStart < ZoneStart(i)
          BY <1>2, <3>1, MirrorFirst DEF MirrorPending
        <5>. QED  BY <1>1, <1>2, <3>1, <5>1 DEF Reaches
      <4> DEFINE t == WriteImpl(s, f, room, FALSE)
      <4>2. FALSE \in BOOLEAN
        OBVIOUS
      <4>3. Sound(t) /\ Kept(s, t) /\ (\A g \in Files : t.ent[g].tail => g = f /\ FALSE)
        BY <2>1, <3>1, <4>1, <4>2, WriteImplSound
      <4> HIDE DEF t
      <4>4. NoTail(t)
        BY <4>3 DEF NoTail
      <4>. QED  BY <3>1, <4>3, <4>4 DEF t
    <3>2. CASE ~(room > 0)
      BY <3>2 DEF Kept
    <3>. QED  BY <3>1, <3>2
  <2> HIDE DEF head
  <2>3. Padded(head, c) /\ Clears(c.pos, n - room)
    BY <2>1, <2>2, PaddedCheck DEF Sound
  <2> HIDE DEF c
  <2>4. Sound(c) /\ NoTail(c) /\ Kept(s, c)
    BY <2>2, <2>3, PaddedSound, KeptPadded, KeptTwice
  <2>5. ~c.ent[f].deferred
    BY <2>4 DEF Kept
  <2> DEFINE t == WriteImpl(c, f, n - room, tail)  k == n - room
  <2>6. Sound(t) /\ Kept(c, t) /\ \A g \in Files : t.ent[g].tail => g = f /\ tail
    <3>1. OneWrite(k) /\ Clears(c.pos, k)
      BY <2>1, <2>3
    <3> HIDE DEF k
    <3>2. LET u == WriteImpl(c, f, k, tail) IN
          /\ Sound(u) /\ Kept(c, u) /\ (\A g \in Files : u.ent[g].tail => g = f /\ tail)
          /\ u.placed = c.placed
      BY <2>4, <2>5, <3>1, WriteImplSound
    <3>. QED  BY <3>2 DEF k
  <2>7. WriteCut(s, f, n, tail) = t
    BY <1>3 DEF WriteCut, c, head, room
  <2> HIDE DEF t
  <2>. QED  BY <2>4, <2>6, <2>7, KeptTwice
<1>4. CASE ~NearLayerBreak(s, n)
  <2>1. Clears(s.pos, n)
    BY <1>4 DEF NearLayerBreak, Clears
  <2>2. WriteCut(s, f, n, tail) = WriteImpl(s, f, n, tail)
    BY <1>4 DEF WriteCut
  <2>. QED  BY <2>1, <2>2, WriteImplSound
<1>. QED  BY <1>3, <1>4

(* A write that is not held back keeps the image sound.                    *)
LEMMA WriteNowSound ==
  ASSUME layout \in Layouts, NEW s, Sound(s), NoTail(s), NEW f \in Files, f[1] # "ssif",
         ~s.ent[f].deferred, NEW n, OneWrite(n), NEW tail \in BOOLEAN
  PROVE  LET t == WriteNow(s, f, n, tail) IN
         Sound(t) /\ Kept(s, t) /\ (\A g \in Files : t.ent[g].tail => g = f /\ tail)
<1> DEFINE a == IF s.last # f THEN BeforePiece(s, f) ELSE s
           t == WriteCut(a, f, n, tail)
<1>1. Sound(a) /\ NoTail(a) /\ Kept(s, a)
  <2>1. CASE s.last # f
    BY <2>1, BeforePieceSound
  <2>2. CASE s.last = f
    BY <2>2 DEF Kept
  <2>. QED  BY <2>1, <2>2
<1>2. WriteNow(s, f, n, tail) = t
  BY DEF WriteNow
<1> HIDE DEF a
<1>3. ~a.ent[f].deferred
  BY <1>1 DEF Kept
<1>4. Sound(t) /\ Kept(a, t) /\ (\A g \in Files : t.ent[g].tail => g = f /\ tail)
  BY <1>1, <1>3, WriteCutSound
<1>. QED  BY <1>1, <1>2, <1>4, KeptTwice

-----------------------------------------------------------------------------
(* Files held back *)

(* The names of the files that can be held back.                           *)
LEMMA CopyFile ==
  ASSUME NEW f \in Files, f[1] = "copy"
  PROVE  \E p \in 1..MaxParts : f = <<"copy", p>>
BY DEF Files

(* They are names of files.                                                *)
LEMMA CopyNames ==
  \A p \in 1..MaxParts : <<"copy", p>> \in Files /\ <<"copy", p>>[1] = "copy" /\ <<"copy", p>>[2] = p
BY DEF Files

(* What is held back of one file is no more than what is counted.          *)
LEMMA HeldBound ==
  ASSUME NEW s, AtEnd(s), HeldCounted(s)
  PROVE  s.heldBytes \in 0..MaxHeld /\ \A p \in 1..MaxParts : s.ent[<<"copy", p>>].held <= s.heldBytes
<1>1. PICK acc : Adds(s.ent, acc) /\ acc[MaxParts] = s.heldBytes
  BY DEF HeldCounted
<1>2. /\ acc \in [0..MaxParts -> Int] /\ acc[0] = 0 /\ MaxParts \in Nat /\ MaxHeld \in Nat
      /\ \A p \in 1..MaxParts : acc[p] = acc[p - 1] + s.ent[<<"copy", p>>].held
  BY <1>1, Constants DEF Adds
<1>3. \A p \in 1..MaxParts : s.ent[<<"copy", p>>].held \in Nat
  BY CopyNames, OneEntry
<1> DEFINE T == {q \in Nat : q > MaxParts \/
                   (acc[q] \in Nat /\ \A p \in 1..q : s.ent[<<"copy", p>>].held <= acc[q])}
<1>4. 0 \in T
  BY <1>2
<1>5. ASSUME NEW q \in Nat, q \in T PROVE q + 1 \in T
  <2>1. CASE q + 1 > MaxParts
    BY <2>1
  <2>2. CASE q + 1 <= MaxParts
    <3> DEFINE a == acc[q]  b == acc[q + 1]  h == s.ent[<<"copy", q + 1>>].held
    <3>1. /\ q + 1 \in 1..MaxParts /\ q \in 0..MaxParts /\ q + 1 - 1 = q /\ ~(q > MaxParts)
      BY <1>2, <2>2
    <3>2. a \in Nat /\ h \in Nat /\ b = a + h /\ \A p \in 1..q : s.ent[<<"copy", p>>].held <= a
      BY <1>2, <1>3, <1>5, <3>1
    <3>3. b \in Nat /\ a <= b /\ h <= b
      BY <3>2
    <3>4. ASSUME NEW p \in 1..q + 1 PROVE s.ent[<<"copy", p>>].held <= b
      <4>1. CASE p = q + 1
        BY <3>3, <4>1
      <4>2. CASE p # q + 1
        <5> DEFINE k == s.ent[<<"copy", p>>].held
        <5>1. p \in 1..q /\ p \in 1..MaxParts
          BY <1>2, <3>1, <4>2
        <5>2. k \in Nat /\ k <= a
          BY <1>3, <3>2, <5>1
        <5> HIDE DEF k, a, b
        <5>3. k <= b
          BY <3>2, <3>3, <5>2
        <5>. QED  BY <5>3 DEF k
      <4>. QED  BY <4>1, <4>2
    <3>. QED  BY <3>3, <3>4
  <2>. QED  BY <1>2, <2>1, <2>2
<1> HIDE DEF T
<1>6. MaxParts \in T
  BY <1>2, <1>4, <1>5, Induct
<1>7. s.heldBytes \in Nat /\ \A p \in 1..MaxParts : s.ent[<<"copy", p>>].held <= s.heldBytes
  BY <1>1, <1>2, <1>6 DEF T
<1>8. s.heldBytes <= MaxHeld
  BY DEF HeldCounted
<1>. QED  BY <1>2, <1>7, <1>8

\* What is held back is counted
Counted(ent, sum) == \E acc : Adds(ent, acc) /\ acc[MaxParts] = sum
\* The p-th file has h more held back
HoldsMore(old, ent, p, h) ==
  \A q \in 1..MaxParts : ent[<<"copy", q>>].held = old[<<"copy", q>>].held + (IF q = p THEN h ELSE 0)

(* The count when more or less is held back of one file.                   *)
LEMMA HeldMore ==
  ASSUME NEW s, AtEnd(s), NEW ent, NEW p \in 1..MaxParts, NEW h \in Int, NEW sum,
         Counted(s.ent, s.heldBytes), HoldsMore(s.ent, ent, p, h), sum = s.heldBytes + h
  PROVE  Counted(ent, sum)
<1>1. PICK acc : Adds(s.ent, acc) /\ acc[MaxParts] = s.heldBytes
  BY DEF Counted
<1>2. /\ acc \in [0..MaxParts -> Int] /\ acc[0] = 0 /\ MaxParts \in Nat
      /\ \A q \in 1..MaxParts : acc[q] = acc[q - 1] + s.ent[<<"copy", q>>].held
  BY <1>1, Constants DEF Adds
<1>3. \A q \in 1..MaxParts : s.ent[<<"copy", q>>].held \in Nat
  BY CopyNames, OneEntry
<1> DEFINE new == [q \in 0..MaxParts |-> IF q >= p THEN acc[q] + h ELSE acc[q]]
<1>4. new \in [0..MaxParts -> Int] /\ new[0] = 0 /\ new[MaxParts] = sum
  BY <1>1, <1>2
<1>5. ASSUME NEW q \in 1..MaxParts PROVE new[q] = new[q - 1] + ent[<<"copy", q>>].held
  <2> DEFINE a == acc[q]  b == acc[q - 1]  k == s.ent[<<"copy", q>>].held
             g == ent[<<"copy", q>>].held
  <2>1. /\ q \in 0..MaxParts /\ q - 1 \in 0..MaxParts /\ a = b + k /\ b \in Int /\ k \in Nat
        /\ g = k + (IF q = p THEN h ELSE 0)
    BY <1>2, <1>3 DEF HoldsMore
  <2>2. new[q] = (IF q >= p THEN a + h ELSE a) /\ new[q - 1] = (IF q - 1 >= p THEN b + h ELSE b)
    BY <2>1
  <2> HIDE DEF a, b, k, g, new
  <2>3. CASE q = p
    <3>1. new[q] = a + h /\ new[q - 1] = b /\ g = k + h
      BY <2>1, <2>2, <2>3
    <3>. QED  BY <2>1, <3>1 DEF g
  <2>4. CASE q > p
    <3>1. new[q] = a + h /\ new[q - 1] = b + h /\ g = k
      BY <2>1, <2>2, <2>4
    <3>. QED  BY <2>1, <3>1 DEF g
  <2>5. CASE q < p
    <3>1. new[q] = a /\ new[q - 1] = b /\ g = k
      BY <2>1, <2>2, <2>5
    <3>. QED  BY <2>1, <3>1 DEF g
  <2>. QED  BY <2>3, <2>4, <2>5
<1> HIDE DEF new
<1>6. Adds(ent, new)
  BY <1>4, <1>5 DEF Adds
<1>. QED  BY <1>4, <1>6 DEF Counted

\* What was held back of all files but f is as before
HeldElse(s, t, f) ==
  /\ \A g \in Files : g # f => t.ent[g].heldTail = s.ent[g].heldTail
  /\ t.ent[f].heldTail = s.ent[f].heldTail

(* What was held back of a file is written, is no longer counted, and the  *)
(* image stays sound.                                                      *)
LEMMA ReleaseSound ==
  ASSUME layout \in Layouts, NEW s, Sound(s), NoTail(s), NEW f \in Files, s.ent[f].deferred
  PROVE  LET t == Release(s, f) IN
         /\ Sound(t) /\ (\A g \in Files : t.ent[g].tail => g = f /\ s.ent[f].heldTail)
         /\ ~t.ent[f].deferred /\ HeldElse(s, t, f)
<1> DEFINE e == s.ent[f]
           y == [e EXCEPT !.deferred = FALSE, !.held = 0]
           a == [s EXCEPT !.ent[f] = y]
           r == [s EXCEPT !.heldBytes = @ - e.held, !.ent[f] = y]
           t == WriteNow(r, f, e.held, e.heldTail)
<1>1. AtEnd(s) /\ e \in Entry /\ e.held \in Nat /\ s.heldBytes \in Int /\ s.heldBytes - e.held \in Int /\ MaxHeld \in Nat
      /\ e.heldTail \in BOOLEAN
  BY FieldsOfImage, OneEntry, Constants DEF Sound
<1>2. PICK p \in 1..MaxParts : f = <<"copy", p>>
  BY CopyFile DEF Sound, HeldCounted
<1>3. e.held <= s.heldBytes /\ s.heldBytes <= MaxHeld
  BY <1>1, <1>2, HeldBound DEF Sound, HeldCounted
<1>4. f[1] = "copy" /\ f[1] # "ssif"
  BY <1>2
<1>5. /\ y \in Entry /\ y.ext = e.ext /\ y.size = e.size /\ y.tail = e.tail
      /\ y.deferred = FALSE /\ y.held = 0 /\ y.heldTail = e.heldTail
  <2> HIDE DEF e
  <2>. QED  BY <1>1 DEF Entry
<1> HIDE DEF y
<1>6. /\ AtEnd(a) /\ a.ent[f] = y /\ (\A g \in Files : g # f => a.ent[g] = s.ent[g])
      /\ a.disk = s.disk /\ a.pos = s.pos /\ a.last = s.last
      /\ a.gaps = s.gaps /\ a.pads = s.pads /\ a.padsBefore = s.padsBefore
      /\ a.placed = s.placed /\ a.mirror = s.mirror /\ a.queue = s.queue
      /\ a.heldBytes = s.heldBytes
  BY <1>1, <1>5, EntryAs
<1>7. r = [a EXCEPT !.heldBytes = s.heldBytes - e.held]
  BY <1>1 DEF AtEnd, Image
<1> HIDE DEF a
<1>8. /\ AtEnd(r) /\ r.disk = s.disk /\ r.pos = s.pos /\ r.last = s.last
      /\ r.gaps = s.gaps /\ r.pads = s.pads /\ r.padsBefore = s.padsBefore
      /\ r.placed = s.placed /\ r.mirror = s.mirror /\ r.queue = s.queue /\ r.ent = a.ent
      /\ r.heldBytes = s.heldBytes - e.held
  <2> DEFINE h == s.heldBytes - e.held  q == [a EXCEPT !.heldBytes = h]
  <2>1. h \in Int
    BY <1>1
  <2> HIDE DEF h
  <2>2. /\ q \in Image /\ q.disk = a.disk /\ q.pos = a.pos /\ q.last = a.last
        /\ q.gaps = a.gaps /\ q.pads = a.pads /\ q.padsBefore = a.padsBefore
        /\ q.placed = a.placed /\ q.mirror = a.mirror /\ q.queue = a.queue /\ q.ent = a.ent
        /\ q.heldBytes = h
    BY <1>6, <2>1 DEF AtEnd, Image
  <2> HIDE DEF r, q
  <2>3. r = q
    BY <1>7 DEF q, h
  <2>4. AtEnd(q)
    BY <1>6, <2>2 DEF AtEnd
  <2>. QED  BY <1>6, <2>2, <2>3, <2>4 DEF h
<1>9. Release(s, f) = IF e.held > 0 THEN t ELSE r
  BY DEF Release, y
<1> HIDE DEF r
<1>10. /\ \A g \in Files : /\ r.ent[g].ext = s.ent[g].ext /\ r.ent[g].size = s.ent[g].size
                           /\ r.ent[g].tail = s.ent[g].tail /\ r.ent[g].heldTail = s.ent[g].heldTail
                           /\ Lacking(r.ent[g]) = Lacking(s.ent[g])
       /\ \A g \in Files : g # f => r.ent[g] = s.ent[g]
       /\ ~r.ent[f].deferred /\ r.ent[f].held = 0
  BY <1>5, <1>6, <1>8 DEF Lacking
<1>11. Sound(r) /\ NoTail(r)
  <2>1. AllRead(r)
    BY <1>8, <1>10 DEF Sound, AllRead
  <2>2. LastEnds(r)
    <3>1. s.last # None => s.last \in Files
      BY FieldsOfImage DEF Sound, Names
    <3>. QED  BY <1>8, <1>10, <3>1 DEF Sound, LastEnds
  <2>3. TailEnds(r) /\ NoTail(r)
    BY <1>10 DEF NoTail, TailEnds
  <2>4. MirrorClear(r) /\ GapsClear(r) /\ DataFree(r) /\ r.padsBefore <= Len(r.pads)
    BY <1>8 DEF Sound, MirrorClear, GapsClear, DataFree
  <2>5. HeldCounted(r)
    <3> DEFINE h == -e.held  ent == r.ent  sum == r.heldBytes
    <3>1. h \in Int /\ sum = s.heldBytes + h
      BY <1>1, <1>8
    <3>2. HoldsMore(s.ent, ent, p, h)
      <4> SUFFICES ASSUME NEW q \in 1..MaxParts
                   PROVE  ent[<<"copy", q>>].held = s.ent[<<"copy", q>>].held + (IF q = p THEN h ELSE 0)
        BY DEF HoldsMore
      <4>0. s.ent[<<"copy", q>>].held \in Nat
        BY <1>1, CopyNames, OneEntry
      <4>1. CASE q = p
        <5>1. ent[<<"copy", q>>].held = 0 /\ s.ent[<<"copy", q>>].held = e.held
          BY <1>2, <1>10, <4>1
        <5>. QED  BY <1>1, <4>1, <5>1
      <4>2. CASE q # p
        <5>1. <<"copy", q>> # f /\ <<"copy", q>> \in Files
          BY <1>2, <4>2, CopyNames
        <5>. QED  BY <1>10, <4>0, <4>2, <5>1
      <4>. QED  BY <4>1, <4>2
    <3>3. Counted(s.ent, s.heldBytes)
      BY DEF Sound, HeldCounted, Counted
    <3> HIDE DEF h, ent, sum
    <3>4. Counted(ent, sum)
      BY <1>1, <3>1, <3>2, <3>3, HeldMore
    <3>5. r.heldBytes <= MaxHeld
      BY <1>1, <1>3, <1>8
    <3>6. \A g \in Files : r.ent[g].deferred => g[1] = "copy"
      BY <1>10 DEF Sound, HeldCounted
    <3>. QED  BY <3>4, <3>5, <3>6 DEF HeldCounted, Counted, ent, sum
  <2>. QED  BY <1>8, <2>1, <2>2, <2>3, <2>4, <2>5 DEF Sound
<1>12. HeldElse(s, r, f)
  BY <1>10 DEF HeldElse
<1>13. CASE e.held > 0
  <2>1. OneWrite(e.held)
    BY <1>1, <1>3, <1>13 DEF OneWrite
  <2> DEFINE h == e.held  l == e.heldTail
  <2>2. OneWrite(h) /\ l \in BOOLEAN
    BY <1>1, <2>1
  <2> HIDE DEF h, l
  <2>3. LET u == WriteNow(r, f, h, l) IN
        Sound(u) /\ Kept(r, u) /\ (\A g \in Files : u.ent[g].tail => g = f /\ l)
    BY <1>4, <1>10, <1>11, <2>2, WriteNowSound
  <2>4. Sound(t) /\ Kept(r, t) /\ \A g \in Files : t.ent[g].tail => g = f /\ e.heldTail
    BY <2>3 DEF h, l
  <2> HIDE DEF t
  <2>5. ~t.ent[f].deferred /\ HeldElse(s, t, f)
    BY <1>10, <1>12, <2>4 DEF Kept, HeldElse
  <2>. QED  BY <1>9, <1>13, <2>4, <2>5
<1>14. CASE ~(e.held > 0)
  <2>1. Release(s, f) = r
    BY <1>9, <1>14
  <2>. QED  BY <1>10, <1>11, <1>12, <2>1 DEF NoTail
<1>. QED  BY <1>13, <1>14

\* t is s but for what is held back, and which files
HeldApart(s, t) ==
  /\ AtEnd(t) /\ t.disk = s.disk /\ t.pos = s.pos /\ t.last = s.last /\ t.gaps = s.gaps
  /\ t.padsBefore = s.padsBefore /\ t.pads = s.pads /\ t.placed = s.placed /\ t.mirror = s.mirror
  /\ \A f \in Files : /\ t.ent[f].ext = s.ent[f].ext /\ t.ent[f].size = s.ent[f].size
                      /\ t.ent[f].tail = s.ent[f].tail

(* An image that differs only in what is held back is sound when that is   *)
(* counted.                                                                *)
LEMMA HeldApartSound ==
  ASSUME NEW s, NEW t, Sound(s), NoTail(s), HeldApart(s, t), HeldCounted(t)
  PROVE  Sound(t) /\ NoTail(t)
<1>1. \A f \in Files : Lacking(t.ent[f]) = Lacking(s.ent[f])
  BY DEF HeldApart, Lacking
<1>2. AllRead(t)
  BY <1>1 DEF Sound, AllRead, HeldApart
<1>3. LastEnds(t)
  <2>1. s.last # None => s.last \in Files
    BY FieldsOfImage DEF Sound, Names
  <2>. QED  BY <2>1 DEF Sound, LastEnds, HeldApart
<1>4. NoTail(t) /\ TailEnds(t)
  BY DEF NoTail, TailEnds, HeldApart
<1>5. MirrorClear(t) /\ GapsClear(t) /\ DataFree(t)
  BY DEF Sound, MirrorClear, GapsClear, DataFree, HeldApart
<1>. QED  BY <1>2, <1>3, <1>4, <1>5 DEF Sound, HeldApart

\* n sectors more of f are held back
Hold(s, f, n, tail) ==
  [s EXCEPT !.heldBytes = @ + n, !.ent[f] = [s.ent[f] EXCEPT !.held = @ + n, !.heldTail = tail]]

(* Holding back within MAX_DEFERRED_BYTES keeps the image sound.           *)
LEMMA HoldSound ==
  ASSUME NEW s, Sound(s), NoTail(s), NEW f \in Files, s.ent[f].deferred, NEW n \in Nat,
         s.heldBytes + n <= MaxHeld, NEW tail \in BOOLEAN
  PROVE  LET t == Hold(s, f, n, tail) IN
         /\ Sound(t) /\ NoTail(t) /\ t.ent[f].heldTail = tail
         /\ \A g \in Files : g # f => t.ent[g].heldTail = s.ent[g].heldTail
<1> DEFINE e == s.ent[f]
           y == [e EXCEPT !.held = @ + n, !.heldTail = tail]
           a == [s EXCEPT !.ent[f] = y]
           b == s.heldBytes + n
           t == [a EXCEPT !.heldBytes = b]
<1>1. AtEnd(s) /\ e \in Entry /\ e.held \in Nat /\ s.heldBytes \in Int /\ b \in Int
  BY FieldsOfImage, OneEntry DEF Sound
<1>2. PICK p \in 1..MaxParts : f = <<"copy", p>>
  BY CopyFile DEF Sound, HeldCounted
<1>3. /\ y \in Entry /\ y.ext = e.ext /\ y.size = e.size /\ y.tail = e.tail
      /\ y.deferred = e.deferred /\ y.held = e.held + n /\ y.heldTail = tail
  <2> DEFINE h == e.held + n
  <2>1. h \in Nat
    BY <1>1
  <2>2. y = [e EXCEPT !.held = h, !.heldTail = tail]
    OBVIOUS
  <2> HIDE DEF e, h, y
  <2>3. /\ y \in Entry /\ y.ext = e.ext /\ y.size = e.size /\ y.tail = e.tail
        /\ y.deferred = e.deferred /\ y.held = h /\ y.heldTail = tail
    BY <1>1, <2>1, <2>2 DEF Entry
  <2>. QED  BY <2>3 DEF h
<1>4. Hold(s, f, n, tail) = t
  BY <1>1 DEF AtEnd, Image, Hold
<1> HIDE DEF y
<1>5. /\ AtEnd(a) /\ a.ent[f] = y /\ (\A g \in Files : g # f => a.ent[g] = s.ent[g])
      /\ a.disk = s.disk /\ a.pos = s.pos /\ a.last = s.last
      /\ a.gaps = s.gaps /\ a.pads = s.pads /\ a.padsBefore = s.padsBefore
      /\ a.placed = s.placed /\ a.mirror = s.mirror
  BY <1>1, <1>3, EntryAs
<1> HIDE DEF a, b
<1>6. /\ AtEnd(t) /\ t.ent = a.ent /\ t.disk = s.disk /\ t.pos = s.pos /\ t.last = s.last
      /\ t.gaps = s.gaps /\ t.pads = s.pads /\ t.padsBefore = s.padsBefore
      /\ t.placed = s.placed /\ t.mirror = s.mirror /\ t.heldBytes = b
  BY <1>1, <1>5 DEF AtEnd, Image
<1> HIDE DEF t
<1>7. HeldApart(s, t)
  BY <1>3, <1>5, <1>6 DEF HeldApart
<1>8. HeldCounted(t)
  <2> DEFINE ent == t.ent
  <2>1. HoldsMore(s.ent, ent, p, n)
    <3> SUFFICES ASSUME NEW q \in 1..MaxParts
                 PROVE  ent[<<"copy", q>>].held = s.ent[<<"copy", q>>].held + (IF q = p THEN n ELSE 0)
      BY DEF HoldsMore
    <3>1. s.ent[<<"copy", q>>].held \in Nat /\ <<"copy", q>> \in Files
      BY <1>1, CopyNames, OneEntry
    <3>2. CASE q = p
      BY <1>2, <1>3, <1>5, <1>6, <3>2
    <3>3. CASE q # p
      <4>1. <<"copy", q>> # f
        BY <1>2, <3>3
      <4>. QED  BY <1>5, <1>6, <3>1, <3>3, <4>1
    <3>. QED  BY <3>2, <3>3
  <2>2. Counted(s.ent, s.heldBytes)
    BY DEF Sound, HeldCounted, Counted
  <2> HIDE DEF ent
  <2>3. n \in Int /\ b = s.heldBytes + n
    BY DEF b
  <2>4. Counted(ent, b)
    BY <1>1, <2>1, <2>2, <2>3, HeldMore
  <2>5. \A g \in Files : t.ent[g].deferred => g[1] = "copy"
    BY <1>2, <1>5, <1>6 DEF Sound, HeldCounted
  <2>6. t.heldBytes <= MaxHeld
    BY <1>6 DEF b
  <2>. QED  BY <1>6, <2>4, <2>5, <2>6 DEF HeldCounted, Counted, ent
<1>9. Sound(t) /\ NoTail(t)
  BY <1>7, <1>8, HeldApartSound
<1>. QED  BY <1>3, <1>4, <1>5, <1>6, <1>9

(* A write, held back or not, keeps the image sound.                       *)
LEMMA WriteSound ==
  ASSUME layout \in Layouts, NEW s, Sound(s), NoTail(s), NEW f \in Files, f[1] # "ssif",
         ~s.ent[f].heldTail, NEW n, OneWrite(n), NEW tail \in BOOLEAN
  PROVE  LET t == Write(s, f, n, tail) IN
         /\ Sound(t) /\ (\A g \in Files : t.ent[g].tail => g = f /\ tail)
         /\ \A g \in Files : t.ent[g].heldTail => \/ s.ent[g].heldTail
                                                  \/ g = f /\ tail /\ s.ent[f].deferred
<1>1. n \in Nat
  BY DEF OneWrite
<1>2. CASE s.ent[f].deferred /\ s.heldBytes + n <= MaxHeld
  <2>1. Write(s, f, n, tail) = Hold(s, f, n, tail)
    BY <1>2 DEF Write, Hold
  <2> DEFINE t == Hold(s, f, n, tail)
  <2>2. /\ Sound(t) /\ NoTail(t) /\ t.ent[f].heldTail = tail
        /\ \A g \in Files : g # f => t.ent[g].heldTail = s.ent[g].heldTail
    BY <1>1, <1>2, HoldSound
  <2> HIDE DEF t
  <2>3. \A g \in Files : t.ent[g].heldTail => \/ s.ent[g].heldTail
                                              \/ g = f /\ tail /\ s.ent[f].deferred
    BY <1>2, <2>2
  <2>. QED  BY <2>1, <2>2, <2>3 DEF t, NoTail
<1>3. CASE s.ent[f].deferred /\ ~(s.heldBytes + n <= MaxHeld)
  <2> DEFINE r == Release(s, f)  t == WriteNow(r, f, n, tail)
  <2>1. Write(s, f, n, tail) = t
    BY <1>3 DEF Write
  <2>2. /\ Sound(r) /\ (\A g \in Files : r.ent[g].tail => g = f /\ s.ent[f].heldTail)
        /\ ~r.ent[f].deferred /\ HeldElse(s, r, f)
    BY <1>3, ReleaseSound
  <2> HIDE DEF r
  <2>3. NoTail(r)
    BY <2>2 DEF NoTail
  <2>4. Sound(t) /\ Kept(r, t) /\ (\A g \in Files : t.ent[g].tail => g = f /\ tail)
    BY <2>2, <2>3, WriteNowSound
  <2> HIDE DEF t
  <2>5. \A g \in Files : t.ent[g].heldTail => s.ent[g].heldTail
    BY <2>2, <2>4 DEF HeldElse, Kept
  <2>. QED  BY <2>1, <2>4, <2>5
<1>4. CASE ~s.ent[f].deferred
  <2> DEFINE t == WriteNow(s, f, n, tail)
  <2>1. Write(s, f, n, tail) = t
    BY <1>4 DEF Write
  <2>2. Sound(t) /\ Kept(s, t) /\ (\A g \in Files : t.ent[g].tail => g = f /\ tail)
    BY <1>4, WriteNowSound
  <2> HIDE DEF t
  <2>. QED  BY <2>1, <2>2 DEF Kept
<1>. QED  BY <1>2, <1>3, <1>4

-----------------------------------------------------------------------------
(* Opening and closing a file *)

(* Opening a file keeps the image sound.                                   *)
LEMMA OpenSound ==
  ASSUME layout \in Layouts, NEW s, Sound(s), NoTail(s), NEW f \in Files
  PROVE  LET t == Open(s, f) IN
         /\ Sound(t) /\ NoTail(t) /\ \A g \in Files : t.ent[g].heldTail = s.ent[g].heldTail
<1>1. AtEnd(s)
  BY DEF Sound
<1>2. CASE f[1] = "copy"
  <2> DEFINE e == s.ent[f]
             y == [e EXCEPT !.deferred = TRUE]
             a == [s EXCEPT !.ent[f] = y]
             q == Append(s.queue, f)
             t == [a EXCEPT !.queue = q]
  <2>1. e \in Entry /\ q \in Seq(Files)
    BY <1>1, FieldsOfImage, OneEntry
  <2>2. /\ y \in Entry /\ y.ext = e.ext /\ y.size = e.size /\ y.tail = e.tail
        /\ y.held = e.held /\ y.heldTail = e.heldTail
    <3> HIDE DEF e
    <3>. QED  BY <2>1 DEF Entry
  <2>3. Open(s, f) = t
    BY <1>1, <1>2 DEF AtEnd, Image, Open
  <2> HIDE DEF y, q
  <2>4. /\ AtEnd(a) /\ a.ent[f] = y /\ (\A g \in Files : g # f => a.ent[g] = s.ent[g])
        /\ a.disk = s.disk /\ a.pos = s.pos /\ a.last = s.last
        /\ a.gaps = s.gaps /\ a.pads = s.pads /\ a.padsBefore = s.padsBefore
        /\ a.placed = s.placed /\ a.mirror = s.mirror /\ a.heldBytes = s.heldBytes
    BY <1>1, <2>2, EntryAs
  <2> HIDE DEF a
  <2>5. /\ AtEnd(t) /\ t.ent = a.ent /\ t.disk = s.disk /\ t.pos = s.pos /\ t.last = s.last
        /\ t.gaps = s.gaps /\ t.pads = s.pads /\ t.padsBefore = s.padsBefore
        /\ t.placed = s.placed /\ t.mirror = s.mirror /\ t.heldBytes = s.heldBytes
    BY <2>1, <2>4 DEF AtEnd, Image
  <2> HIDE DEF t
  <2>6. HeldApart(s, t)
    BY <2>2, <2>4, <2>5 DEF HeldApart
  <2>7. \A g \in Files : t.ent[g].held = s.ent[g].held /\ t.ent[g].heldTail = s.ent[g].heldTail
    BY <2>2, <2>4, <2>5
  <2>8. HeldCounted(t)
    <3>1. \A p \in 1..MaxParts : <<"copy", p>> \in Files
      BY CopyNames
    <3>2. \A acc : Adds(s.ent, acc) => Adds(t.ent, acc)
      BY <2>7, <3>1 DEF Adds
    <3>3. \A g \in Files : t.ent[g].deferred => g[1] = "copy"
      BY <1>2, <2>4, <2>5 DEF Sound, HeldCounted
    <3>. QED  BY <2>5, <3>2, <3>3 DEF Sound, HeldCounted
  <2>9. Sound(t) /\ NoTail(t)
    BY <2>6, <2>8, HeldApartSound
  <2>. QED  BY <2>3, <2>7, <2>9
<1>3. CASE f[1] # "copy"
  <2> DEFINE t == Open(s, f)
  <2>1. Padded(s, t)
    BY <1>1, <1>3, PaddedAlign, PaddedSame DEF Open
  <2> HIDE DEF t
  <2>2. Sound(t) /\ NoTail(t)
    BY <2>1, PaddedSound
  <2>3. t.ent = s.ent
    BY <2>1 DEF Padded
  <2>. QED  BY <2>2, <2>3 DEF t
<1>. QED  BY <1>2, <1>3

(* Only the last sector of a file is its last.                             *)
LEMMA SumsGrow ==
  ASSUME NEW ext \in Seq(Extent), NEW size, NEW off, Sums(ext, size, off), NEW i \in 1..Len(ext),
         i < Len(ext)
  PROVE  off[i] < size
<1> DEFINE L == Len(ext)
           T == {k \in Nat : k >= L \/ k = 0 \/ off[L - k] < size}
<1>1. L \in Nat /\ off[L] = size /\ off \in [0..L -> Nat] /\ size \in Nat
  BY DEF Sums
<1>2. 0 \in T
  OBVIOUS
<1>3. ASSUME NEW k \in Nat, k \in T PROVE k + 1 \in T
  <2>1. CASE k + 1 >= L
    BY <2>1
  <2>2. CASE ~(k + 1 >= L)
    <3> DEFINE a == off[L - (k + 1)]  b == off[L - k]  n == ext[L - k].n
    <3>1. L - k \in 1..L /\ L - k - 1 = L - (k + 1) /\ L - k \in 0..L /\ L - (k + 1) \in 0..L
      BY <1>1, <2>2
    <3>2. a \in Nat /\ b \in Nat /\ b = a + n
      BY <1>1, <3>1 DEF Sums
    <3>3. n \in Nat \ {0}
      BY <3>1, OneExtent
    <3>4. b <= size
      <4>1. CASE k = 0
        BY <1>1, <4>1
      <4>2. CASE k # 0
        BY <1>1, <1>3, <2>2, <3>2, <4>2
      <4>. QED  BY <4>1, <4>2
    <3> HIDE DEF a, b, n
    <3>5. a < size
      BY <1>1, <3>2, <3>3, <3>4
    <3>. QED  BY <3>5 DEF a
  <2>. QED  BY <2>1, <2>2
<1> HIDE DEF T
<1>5. Nat \subseteq T
  BY <1>2, <1>3, Induct
<1>4. L - i \in T /\ ~(L - i >= L) /\ L - i # 0 /\ L - (L - i) = i
  <2>1. L - i \in Nat /\ ~(L - i >= L) /\ L - i # 0 /\ L - (L - i) = i
    BY <1>1
  <2>. QED  BY <1>5, <2>1
<1> HIDE DEF L
<1>. QED  BY <1>4 DEF T

(* A file that lacks its last sector reads back when the sector is stored  *)
(* at the end of its last extent.                                          *)
LEMMA ReadsWhole ==
  ASSUME NEW d, NEW f, NEW ext \in Seq(Extent), ext # <<>>, NEW size,
         ReadsFrom(d, f, ext, size, size),
         Last(ext).lbn + Last(ext).n <= Len(d), d[Last(ext).lbn + Last(ext).n] = <<f, size>>
  PROVE  ReadsFrom(d, f, ext, size, 0)
<1>1. PICK off : Sums(ext, size, off) /\ Stored(d, f, ext, off, size)
  BY DEF ReadsFrom
<1>2. Len(ext) \in Nat \ {0} /\ Last(ext) = ext[Len(ext)]
  BY DEF Last
<1>3. ASSUME NEW i \in 1..Len(ext), NEW j \in 1..ext[i].n
      PROVE  ext[i].lbn + j <= Len(d) /\ d[ext[i].lbn + j] = <<f, off[i - 1] + j>>
  <2>1. CASE off[i - 1] + j # size
    BY <1>1, <2>1 DEF Stored
  <2>2. CASE off[i - 1] + j = size
    <3>1. off[i - 1] \in Nat /\ off[i] \in Nat /\ off[i] = off[i - 1] + ext[i].n /\ ext[i].n \in Nat
      BY <1>1, OneSum, OneExtent
    <3>2. size <= off[i]
      BY <2>2, <3>1
    <3>3. i = Len(ext)
      <4>1. i < Len(ext) => off[i] < size
        BY <1>1, SumsGrow
      <4>2. size \in Nat
        BY <2>2, <3>1
      <4>. QED  BY <1>2, <3>1, <3>2, <4>1, <4>2
    <3>4. off[i] = size
      BY <1>1, <3>3 DEF Sums
    <3>5. j = ext[i].n
      BY <2>2, <3>1, <3>4
    <3>. QED  BY <1>2, <2>2, <3>3, <3>5
  <2>. QED  BY <2>1, <2>2
<1>4. Stored(d, f, ext, off, 0)
  BY <1>3 DEF Stored
<1>. QED  BY <1>1, <1>4 DEF ReadsFrom

\* t is s with the last sector of f behind it
TailPut(s, t, f) ==
  /\ AtEnd(s) /\ AtEnd(t) /\ Len(t.disk) = Len(s.disk) + 1
  /\ \A i \in 1..Len(s.disk) : t.disk[i] = s.disk[i]
  /\ t.disk[Len(s.disk) + 1] = <<f, s.ent[f].size>>
  /\ t.ent[f].ext = s.ent[f].ext /\ t.ent[f].size = s.ent[f].size /\ ~t.ent[f].tail
  /\ \A g \in Files : g # f => t.ent[g] = s.ent[g]
  /\ t.last = s.last /\ t.gaps = s.gaps /\ t.pads = s.pads /\ t.padsBefore = s.padsBefore
  /\ t.placed = s.placed /\ t.mirror = s.mirror
  /\ Kept(s, t)

(* The last sector, stored when its file is closed, keeps the image sound. *)
LEMMA TailPutSound ==
  ASSUME layout \in Layouts, NEW s, NEW t, Sound(s), NEW f \in Files, s.ent[f].tail, TailPut(s, t, f)
  PROVE  Sound(t) /\ NoTail(t)
<1> DEFINE x == s.ent[f].ext
           size == s.ent[f].size
<1>1. /\ AtEnd(s) /\ AtEnd(t) /\ s.disk \in Seq(Cell) /\ t.disk \in Seq(Cell)
      /\ Len(s.disk) \in Nat /\ Len(t.disk) = Len(s.disk) + 1 /\ s.pos = Len(s.disk) /\ t.pos = Len(t.disk)
      /\ \A i \in 1..Len(s.disk) : t.disk[i] = s.disk[i]
      /\ t.disk[Len(s.disk) + 1] = <<f, size>>
  BY FieldsOfImage DEF TailPut
<1>2. /\ x \in Seq(Extent) /\ size \in Nat /\ s.last = f /\ f[1] # "ssif" /\ ~InZone(s.pos)
  BY <1>1, OneEntry DEF Sound, TailEnds
<1>3. x # <<>> /\ Last(x).lbn + Last(x).n = s.pos + 1
  <2>1. s.last # None /\ s.ent[s.last].tail
    BY <1>2, NotFiles
  <2>. QED  BY <1>2, <2>1 DEF Sound, LastEnds
<1>4. Len(s.disk) <= Len(t.disk)
  BY <1>1
<1>5. NoTail(t) /\ TailEnds(t)
  <2>1. \A g \in Files : g # f => ~s.ent[g].tail
    BY <1>2 DEF Sound, TailEnds
  <2>2. NoTail(t)
    BY <2>1 DEF NoTail, TailPut
  <2>. QED  BY <2>2 DEF NoTail, TailEnds
<1>6. ASSUME NEW g \in Files, g[1] # "ssif"
      PROVE  ReadsFrom(t.disk, g, s.ent[g].ext, s.ent[g].size, Lacking(s.ent[g]))
  <2> DEFINE d == s.disk  e == t.disk  y == s.ent[g].ext  z == s.ent[g].size  l == Lacking(s.ent[g])
  <2>1. ReadsFrom(d, g, y, z, l) /\ y \in Seq(Extent)
    BY <1>1, <1>6, OneEntry DEF Sound, AllRead
  <2>2. d \in Seq(Cell) /\ e \in Seq(Cell) /\ Len(d) <= Len(e) /\ \A i \in 1..Len(d) : e[i] = d[i]
    BY <1>1, <1>4
  <2> HIDE DEF d, e, y, z, l
  <2>3. ReadsFrom(e, g, y, z, l)
    BY <2>1, <2>2, ReadsOn
  <2>. QED  BY <2>3 DEF e, y, z, l
<1>7. AllRead(t)
  <2> SUFFICES ASSUME NEW g \in Files, g[1] # "ssif"
               PROVE  ReadsFrom(t.disk, g, t.ent[g].ext, t.ent[g].size, Lacking(t.ent[g]))
    BY DEF AllRead
  <2>1. CASE g = f
    <3>1. t.ent[g].ext = x /\ t.ent[g].size = size /\ Lacking(t.ent[g]) = 0 /\ Lacking(s.ent[f]) = size
      BY <2>1 DEF TailPut, Lacking
    <3> DEFINE e == t.disk
    <3>2. ReadsFrom(e, f, x, size, size)
      BY <1>2, <1>6, <3>1
    <3>3. Last(x).lbn + Last(x).n <= Len(e) /\ e[Last(x).lbn + Last(x).n] = <<f, size>>
      BY <1>1, <1>3
    <3> HIDE DEF e, x, size
    <3>4. ReadsFrom(e, f, x, size, 0)
      BY <1>2, <1>3, <3>2, <3>3, ReadsWhole
    <3>. QED  BY <2>1, <3>1, <3>4 DEF e
  <2>2. CASE g # f
    <3>1. t.ent[g] = s.ent[g]
      BY <2>2 DEF TailPut
    <3>. QED  BY <1>6, <3>1
  <2>. QED  BY <2>1, <2>2
<1>8. LastEnds(t)
  <2>1. t.last = f /\ t.ent[f].ext = x /\ ~t.ent[f].tail /\ t.pos = s.pos + 1 /\ t.pos + 0 = t.pos
    BY <1>1, <1>2 DEF TailPut
  <2>. QED  BY <1>3, <2>1 DEF LastEnds
<1>9. Behind(s, t)
  BY <1>1, <1>4 DEF Behind, TailPut
<1>10. MirrorClear(t) /\ GapsClear(t)
  BY <1>1, <1>9, BehindClear DEF Sound
<1>11. DataFree(t)
  <2> SUFFICES ASSUME NEW k \in 1..Len(t.disk), InZone(k - 1) PROVE t.disk[k] \in {Zero, Mirror}
    BY DEF DataFree
  <2>1. CASE k <= Len(s.disk)
    <3>1. k \in 1..Len(s.disk)
      BY <1>1, <2>1
    <3>. QED  BY <1>1, <3>1 DEF Sound, DataFree
  <2>2. CASE ~(k <= Len(s.disk))
    <3>1. k - 1 = s.pos
      BY <1>1, <2>2
    <3>. QED  BY <1>2, <3>1
  <2>. QED  BY <2>1, <2>2
<1>12. HeldCounted(t)
  <2>1. \A g \in Files : t.ent[g].held = s.ent[g].held /\ t.ent[g].deferred = s.ent[g].deferred
    BY DEF TailPut, Kept
  <2>2. t.heldBytes = s.heldBytes
    BY DEF TailPut, Kept
  <2>3. \A p \in 1..MaxParts : <<"copy", p>> \in Files
    BY CopyNames
  <2>4. \A acc : Adds(s.ent, acc) => Adds(t.ent, acc)
    BY <2>1, <2>3 DEF Adds
  <2>. QED  BY <2>1, <2>2, <2>4 DEF Sound, HeldCounted
<1>13. t.padsBefore <= Len(t.pads)
  BY DEF TailPut, Sound
<1>. QED  BY <1>1, <1>5, <1>7, <1>8, <1>10, <1>11, <1>12, <1>13 DEF Sound

(* Closing a file keeps the image sound, and the file lacks nothing.       *)
LEMMA CloseFileSound ==
  ASSUME layout \in Layouts, NEW s, Sound(s), NEW f \in Files
  PROVE  LET t == CloseFile(s, f) IN
         /\ Sound(t) /\ Kept(s, t)
         /\ \A g \in Files : t.ent[g].tail => s.ent[g].tail /\ g # f
<1> DEFINE e == s.ent[f]
           y == [e EXCEPT !.tail = FALSE, !.closed = TRUE]
           m == Last(e.ext).lbn + Last(e.ext).n
           a == [s EXCEPT !.pos = m - 1]
           w == LastSector(s, f)
           b == IF e.tail THEN w ELSE s
           t == [b EXCEPT !.ent[f] = y]
<1>1. /\ AtEnd(s) /\ e \in Entry /\ e.size \in Nat /\ s.pos \in Nat /\ e.tail \in BOOLEAN
      /\ s.ent \in [Files -> Entry]
  BY FieldsOfImage, OneEntry DEF Sound
<1>2. /\ y \in Entry /\ y.ext = e.ext /\ y.size = e.size /\ ~y.tail /\ y.deferred = e.deferred
      /\ y.held = e.held /\ y.heldTail = e.heldTail
  <2> HIDE DEF e
  <2>. QED  BY <1>1 DEF Entry
<1>3. CASE e.deferred
  <2>1. CloseFile(s, f) = s
    BY <1>3 DEF CloseFile
  <2>2. \A g \in Files : s.ent[g].tail => g # f
    BY <1>3 DEF Sound, TailEnds
  <2>. QED  BY <2>1, <2>2 DEF Kept
<1>4. CASE ~e.deferred /\ ~e.tail
  <2> DEFINE u == [s EXCEPT !.ent[f] = y]
  <2>1. CloseFile(s, f) = u
    BY <1>4 DEF CloseFile
  <2> HIDE DEF y, e
  <2>2. /\ AtEnd(u) /\ u.ent[f] = y /\ (\A g \in Files : g # f => u.ent[g] = s.ent[g])
        /\ u.disk = s.disk /\ u.pos = s.pos /\ u.last = s.last
        /\ u.gaps = s.gaps /\ u.pads = s.pads /\ u.padsBefore = s.padsBefore
        /\ u.placed = s.placed /\ u.mirror = s.mirror /\ u.queue = s.queue
        /\ u.heldBytes = s.heldBytes
    BY <1>1, <1>2, EntryAs
  <2> HIDE DEF u
  <2>3. Alike(s, u) /\ Kept(s, u)
    <3>1. \A g \in Files : /\ u.ent[g].ext = s.ent[g].ext /\ u.ent[g].size = s.ent[g].size
                           /\ u.ent[g].deferred = s.ent[g].deferred /\ u.ent[g].held = s.ent[g].held
                           /\ u.ent[g].heldTail = s.ent[g].heldTail
      BY <1>2, <2>2 DEF e
    <3>2. u.ent[f].tail = s.ent[f].tail
      <4>1. e.tail = FALSE /\ y.tail = FALSE
        <5>1. e.tail \in BOOLEAN /\ y.tail \in BOOLEAN
          BY <1>1, <1>2 DEF Entry
        <5>. QED  BY <1>2, <1>4, <5>1
      <4>. QED  BY <2>2, <4>1 DEF e
    <3>3. Kept(s, u)
      BY <2>2, <3>1 DEF Kept
    <3>. QED  BY <2>2, <3>1, <3>2, <3>3 DEF Alike
  <2>4. Sound(u)
    BY <2>3, AlikeSound
  <2>5. \A g \in Files : u.ent[g].tail => s.ent[g].tail /\ g # f
    BY <1>2, <2>2
  <2>. QED  BY <2>1, <2>3, <2>4, <2>5
<1>5. CASE ~e.deferred /\ e.tail
  <2>1. CloseFile(s, f) = [w EXCEPT !.ent[f] = y]
    <3>. QED  BY <1>5 DEF CloseFile
  <2> HIDE DEF b, t, y
  <2>2. s.last = f /\ s.last # None /\ f[1] # "ssif"
    BY <1>5, NotFiles DEF Sound, TailEnds
  <2>3. m = s.pos + 1
    BY <1>5, <2>2 DEF Sound, LastEnds
  <2> HIDE DEF m
  <2>15. m - 1 = s.pos
    BY <1>1, <2>3
  <2>5. a = s
    BY <1>1, <2>15 DEF AtEnd, Image
  <2> DEFINE c == <<<<f, e.size>>>>
  <2>6. c \in Seq(Cell) /\ Len(c) = 1 /\ c[1] = <<f, e.size>>
    BY <1>1, NotFiles
  <2> DEFINE v == Put(s, c)
  <2>7. w = v
    <3>1. LastSector(s, f) = Put(a, <<<<f, e.size>>>>)
      BY DEF LastSector, m
    <3> HIDE DEF w, a, e
    <3>. QED  BY <2>5, <3>1 DEF w
  <2> HIDE DEF c, w, b, t, y, e
  <2>8. /\ v = [s EXCEPT !.disk = s.disk \o c, !.pos = s.pos + Len(c)]
        /\ AtEnd(v) /\ Len(v.disk) = Len(s.disk) + 1
        /\ (\A i \in 1..Len(s.disk) : v.disk[i] = s.disk[i])
        /\ v.disk[Len(s.disk) + 1] = <<f, e.size>>
    <3>1. /\ Put(s, c) = [s EXCEPT !.disk = s.disk \o c, !.pos = s.pos + Len(c)]
          /\ AtEnd(Put(s, c)) /\ Len(Put(s, c).disk) = Len(s.disk) + Len(c)
          /\ (\A i \in 1..Len(s.disk) : Put(s, c).disk[i] = s.disk[i])
          /\ (\A i \in 1..Len(c) : Put(s, c).disk[Len(s.disk) + i] = c[i])
      <4>1. AtEnd(s) /\ c \in Seq(Cell)
        BY <1>1, <2>6
      <4>. QED  BY <4>1, PutAtEnd, Zenon
    <3> HIDE DEF v
    <3>2. 1 \in 1..Len(c)
      BY <2>6
    <3>. QED  BY <2>6, <3>1, <3>2 DEF v
  <2> HIDE DEF v
  <2>16. AtEnd(v) /\ y \in Entry
    BY <1>2, <2>8
  <2>9. /\ v.ent = s.ent /\ v.last = s.last /\ v.gaps = s.gaps /\ v.pads = s.pads
        /\ v.padsBefore = s.padsBefore /\ v.placed = s.placed /\ v.mirror = s.mirror
        /\ v.queue = s.queue /\ v.heldBytes = s.heldBytes
    BY <1>1, <2>8 DEF AtEnd, Image
  <2> DEFINE u == [v EXCEPT !.ent[f] = y]
  <2>10. /\ AtEnd(u) /\ u.ent[f] = y /\ (\A g \in Files : g # f => u.ent[g] = v.ent[g])
         /\ u.disk = v.disk /\ u.pos = v.pos /\ u.last = v.last
         /\ u.gaps = v.gaps /\ u.pads = v.pads /\ u.padsBefore = v.padsBefore
         /\ u.placed = v.placed /\ u.mirror = v.mirror /\ u.queue = v.queue
         /\ u.heldBytes = v.heldBytes
    BY <2>16, EntryAs
  <2> HIDE DEF u
  <2>11. Kept(s, u)
    BY <1>2, <2>9, <2>10 DEF Kept, e
  <2>12. TailPut(s, u, f)
    BY <1>1, <1>2, <2>8, <2>9, <2>10, <2>11 DEF TailPut, e
  <2>13. Sound(u) /\ NoTail(u)
    BY <1>5, <2>12, TailPutSound DEF e
  <2>14. CloseFile(s, f) = u
    BY <2>1, <2>7 DEF u
  <2>. QED  BY <2>11, <2>13, <2>14 DEF NoTail
<1>. QED  BY <1>3, <1>4, <1>5

-----------------------------------------------------------------------------
(* The values of a fold *)

\* v[m] is the fold of the first m
Values(S, n, b, F, v) ==
  /\ v \in [0..n -> S] /\ v[0] = b
  /\ \A m \in 1..n : v[m] = F[m][v[m - 1]]

\* it is that fold of every set of places
FoldsSets(S, n, b, F, it) ==
  /\ it[{}] = b
  /\ \A x \in SUBSET (1..n) : x # {} /\ it[x \ {Max(x)}] \in S =>
       it[x] = F[Max(x)][it[x \ {Max(x)}]]

(* The values of a fold, place after place.                                *)
LEMMA FoldValues ==
  ASSUME NEW S, NEW b \in S, NEW n \in Nat, NEW F \in [1..n -> [S -> S]], NEW it,
         FoldsSets(S, n, b, F, it)
  PROVE  \E v : Values(S, n, b, F, v) /\ v[n] = it[1..n]
<1> DEFINE v == [m \in 0..n |-> it[1..m]]
           T == {m \in Nat : m > n \/ v[m] \in S}
<1>1. v[0] = b
  <2>1. 1..0 = {} /\ 0 \in 0..n
    OBVIOUS
  <2>2. v[0] = it[1..0]
    BY <2>1
  <2> HIDE DEF v
  <2>. QED  BY <2>1, <2>2 DEF FoldsSets
<1>2. ASSUME NEW m \in Nat, m + 1 <= n, v[m] \in S PROVE v[m + 1] = F[m + 1][v[m]]
  <2>1. 1..(m + 1) \in SUBSET (1..n) /\ 1..(m + 1) # {} /\ m \in 0..n /\ m + 1 \in 0..n
    <3> HIDE DEF v
    <3>1. m + 1 \in Nat /\ 1 <= m + 1 /\ m + 1 <= n /\ m <= n
      BY <1>2
    <3>2. \A i \in 1..(m + 1) : i \in 1..n
      BY <3>1
    <3>3. m \in 0..n /\ m + 1 \in 0..n /\ m + 1 \in 1..(m + 1)
      BY <3>1
    <3>. QED  BY <3>2, <3>3
  <2>2. Max(1..(m + 1)) = m + 1 /\ (1..(m + 1)) \ {m + 1} = 1..m
    <3> DEFINE k == m + 1
    <3>1. k \in Nat \ {0} /\ k - 1 = m
      OBVIOUS
    <3> HIDE DEF k
    <3>2. Max(1..k) = k /\ (1..k) \ {k} = 1..(k - 1)
      BY <3>1, MaxOfInterval
    <3>. QED  BY <3>1, <3>2 DEF k
  <2>3. v[m] = it[1..m] /\ v[m + 1] = it[1..(m + 1)]
    BY <2>1
  <2> DEFINE x == 1..(m + 1)
  <2>4. x \in SUBSET (1..n) /\ x # {} /\ Max(x) = m + 1 /\ x \ {Max(x)} = 1..m
    BY <2>1, <2>2
  <2> HIDE DEF v
  <2>5. v[m + 1] = it[x] /\ v[m] = it[1..m]
    BY <2>3
  <2> HIDE DEF x
  <2>6. it[x] = F[Max(x)][it[x \ {Max(x)}]]
    BY <1>2, <2>4, <2>5 DEF FoldsSets
  <2>. QED  BY <2>4, <2>5, <2>6
<1>3. 0 \in T
  BY <1>1
<1>4. ASSUME NEW m \in Nat, m \in T PROVE m + 1 \in T
  <2>1. CASE m + 1 > n
    BY <2>1
  <2>2. CASE ~(m + 1 > n)
    <3>1. m + 1 <= n /\ v[m] \in S /\ m + 1 \in 1..n
      BY <1>4, <2>2
    <3>2. v[m + 1] = F[m + 1][v[m]]
      BY <1>2, <3>1
    <3>3. v[m + 1] \in S
      BY <3>1, <3>2
    <3>. QED  BY <3>3
  <2>. QED  BY <2>1, <2>2
<1> HIDE DEF T
<1>5. Nat \subseteq T
  BY <1>3, <1>4, Induct
<1>6. \A m \in 0..n : v[m] \in S
  <2> SUFFICES ASSUME NEW m \in 0..n PROVE v[m] \in S
    OBVIOUS
  <2>1. m \in T /\ ~(m > n)
    BY <1>5
  <2>. QED  BY <2>1 DEF T
<1>7. \A m \in 1..n : v[m] = F[m][v[m - 1]]
  <2> SUFFICES ASSUME NEW m \in 1..n PROVE v[m] = F[m][v[m - 1]]
    OBVIOUS
  <2>1. m - 1 \in Nat /\ m - 1 \in 0..n /\ m - 1 + 1 = m /\ m <= n
    OBVIOUS
  <2>2. v[m - 1] \in S
    BY <1>6, <2>1
  <2> HIDE DEF v
  <2>3. v[m - 1 + 1] = F[m - 1 + 1][v[m - 1]]
    BY <1>2, <2>1, <2>2
  <2>. QED  BY <2>1, <2>3
<1>8. v \in [0..n -> S] /\ v[n] = it[1..n]
  BY <1>6
<1>9. Values(S, n, b, F, v)
  <2> HIDE DEF v
  <2>. QED  BY <1>1, <1>7, <1>8 DEF Values
<1>. QED  BY <1>8, <1>9

\* The images in which everything is where it belongs
Whole == {x \in Image : Sound(x) /\ NoTail(x)}

(* Writing a file that was held back keeps the image whole.                *)
LEMMA WriteDeferredSound ==
  ASSUME layout \in Layouts, NEW s \in Whole, NEW f \in Files
  PROVE  WriteDeferred(s, f) \in Whole
<1>1. Sound(s) /\ NoTail(s)
  BY DEF Whole
<1>2. CASE s.ent[f].deferred
  <2> DEFINE r == Release(s, f)  t == CloseFile(r, f)
  <2>1. WriteDeferred(s, f) = t
    BY <1>2 DEF WriteDeferred
  <2>2. Sound(r) /\ \A g \in Files : r.ent[g].tail => g = f /\ s.ent[f].heldTail
    BY <1>1, <1>2, ReleaseSound
  <2> HIDE DEF r
  <2>3. Sound(t) /\ \A g \in Files : t.ent[g].tail => r.ent[g].tail /\ g # f
    BY <2>2, CloseFileSound
  <2> HIDE DEF t
  <2>. QED  BY <2>1, <2>2, <2>3 DEF Whole, NoTail, Sound, AtEnd
<1>3. CASE ~s.ent[f].deferred
  BY <1>3 DEF WriteDeferred
<1>. QED  BY <1>2, <1>3

(* So does writing all of them.                                            *)
LEMMA DeferredFold ==
  ASSUME layout \in Layouts, NEW b \in Whole, NEW q \in Seq(Files)
  PROVE  FoldLeft(WriteDeferred, b, q) \in Whole
<1> DEFINE n == Len(q)
           F == [m \in 1..n |-> [z \in Whole |-> WriteDeferred(z, q[m])]]
           Is(it) == it = [x \in SUBSET DOMAIN q |->
                             IF x = {} THEN b ELSE WriteDeferred(it[x \ {Max(x)}], q[Max(x)])]
           it == CHOOSE it : Is(it)
<1>1. FoldLeft(WriteDeferred, b, q) = it[DOMAIN q]
  BY DEF FoldLeft, MapThenFoldSet
<1>2. n \in Nat /\ DOMAIN q = 1..n
  OBVIOUS
<1>3. \A m \in 1..n : q[m] \in Files
  OBVIOUS
<1> HIDE DEF n
<1>4. F \in [1..n -> [Whole -> Whole]]
  BY <1>3, WriteDeferredSound
<1>5. \A x \in SUBSET (1..n) : x # {} => Max(x) \in 1..n
  BY <1>2, LargestOfPart
<1>6. \E j : Is(j)
  <2>1. HasFold(Whole, n, b, F)
    <3> HIDE DEF F
    <3>. QED  BY <1>2, <1>4, FoldOfPlaces
  <2>2. PICK j \in [SUBSET (1..n) -> Whole] : FoldsPlaces(j, n, b, F)
    BY <2>1 DEF HasFold
  <2>3. \A x \in SUBSET (1..n) : x # {} =>
          F[Max(x)][j[x \ {Max(x)}]] = WriteDeferred(j[x \ {Max(x)}], q[Max(x)])
    BY <1>5
  <2> HIDE DEF F
  <2>4. j = [x \in SUBSET DOMAIN q |->
               IF x = {} THEN b ELSE WriteDeferred(j[x \ {Max(x)}], q[Max(x)])]
    BY <1>2, <2>2, <2>3 DEF FoldsPlaces
  <2>. QED  BY <2>4
<1>7. Is(it)
  BY <1>6, Zenon
<1> HIDE DEF it
<1>8. /\ it[{}] = b
      /\ \A x \in SUBSET (1..n) : x # {} => it[x] = WriteDeferred(it[x \ {Max(x)}], q[Max(x)])
  BY <1>2, <1>7
<1> HIDE DEF Is
<1>9. FoldsSets(Whole, n, b, F, it)
  BY <1>5, <1>8 DEF FoldsSets
<1> HIDE DEF F
<1>10. PICK v : Values(Whole, n, b, F, v) /\ v[n] = it[1..n]
  BY <1>2, <1>4, <1>9, FoldValues
<1>. QED  BY <1>1, <1>2, <1>10 DEF Values

-----------------------------------------------------------------------------
(* The file made of two views *)

(* addExtent makes no extent larger than MAX_EXTENT_SIZE.                  *)
LEMMA AddExtentParts ==
  ASSUME NEW ext \in Seq(Extent), NEW e \in Extent
  PROVE  AddExtent(ext, e) \in Seq(Extent)
<1>1. CASE ext # <<>> /\ Last(ext).lbn + Last(ext).n = e.lbn /\ Last(ext).n + e.n <= MaxExtent
  <2>1. AddExtent(ext, e) = Grown(ext, e.n)
    BY <1>1 DEF AddExtent, Grown
  <2>2. e.n \in Nat
    BY Constants DEF Extent
  <2> DEFINE h == e.n
  <2>3. h \in Nat /\ Last(ext).n + h <= MaxExtent /\ ext # <<>>
    BY <1>1, <2>2
  <2> HIDE DEF h
  <2>4. Grown(ext, h) \in Seq(Extent)
    BY <2>3, GrownParts
  <2>. QED  BY <2>1, <2>4 DEF h
<1>2. CASE ~(ext # <<>> /\ Last(ext).lbn + Last(ext).n = e.lbn /\ Last(ext).n + e.n <= MaxExtent)
  BY <1>2, AppendedParts DEF AddExtent
<1>. QED  BY <1>1, <1>2

(* Nor do many of them.                                                    *)
LEMMA ExtentFold ==
  ASSUME NEW q \in Seq(Extent)
  PROVE  FoldLeft(AddExtent, <<>>, q) \in Seq(Extent)
<1> DEFINE n == Len(q)
           b == <<>>
           S == Seq(Extent)
           F == [m \in 1..n |-> [z \in S |-> AddExtent(z, q[m])]]
           Is(it) == it = [x \in SUBSET DOMAIN q |->
                             IF x = {} THEN b ELSE AddExtent(it[x \ {Max(x)}], q[Max(x)])]
           it == CHOOSE it : Is(it)
<1>1. FoldLeft(AddExtent, <<>>, q) = it[DOMAIN q]
  BY DEF FoldLeft, MapThenFoldSet
<1>2. n \in Nat /\ DOMAIN q = 1..n /\ b \in S
  OBVIOUS
<1>3. \A m \in 1..n : q[m] \in Extent
  OBVIOUS
<1> HIDE DEF n, b
<1>4. F \in [1..n -> [S -> S]]
  BY <1>3, AddExtentParts
<1>5. \A x \in SUBSET (1..n) : x # {} => Max(x) \in 1..n
  BY <1>2, LargestOfPart
<1> HIDE DEF S
<1>6. \E j : Is(j)
  <2>1. HasFold(S, n, b, F)
    <3> HIDE DEF F
    <3>. QED  BY <1>2, <1>4, FoldOfPlaces
  <2>2. PICK j \in [SUBSET (1..n) -> S] : FoldsPlaces(j, n, b, F)
    BY <2>1 DEF HasFold
  <2>3. \A x \in SUBSET (1..n) : x # {} =>
          F[Max(x)][j[x \ {Max(x)}]] = AddExtent(j[x \ {Max(x)}], q[Max(x)])
    BY <1>5
  <2> HIDE DEF F
  <2>4. j = [x \in SUBSET DOMAIN q |->
               IF x = {} THEN b ELSE AddExtent(j[x \ {Max(x)}], q[Max(x)])]
    BY <1>2, <2>2, <2>3 DEF FoldsPlaces
  <2>. QED  BY <2>4
<1>7. Is(it)
  BY <1>6, Zenon
<1> HIDE DEF it
<1>8. /\ it[{}] = b
      /\ \A x \in SUBSET (1..n) : x # {} => it[x] = AddExtent(it[x \ {Max(x)}], q[Max(x)])
  BY <1>2, <1>7
<1> HIDE DEF Is
<1>9. FoldsSets(S, n, b, F, it)
  BY <1>5, <1>8 DEF FoldsSets
<1> HIDE DEF F
<1>10. PICK v : Values(S, n, b, F, v) /\ v[n] = it[1..n]
  BY <1>2, <1>4, <1>9, FoldValues
<1>11. it[1..n] \in S
  BY <1>2, <1>10 DEF Values
<1>. QED  BY <1>1, <1>2, <1>11 DEF S

(* The extents of two views in turn are extents.                           *)
LEMMA InTurnParts ==
  ASSUME NEW d \in Seq(Extent), NEW b \in Seq(Extent), Len(d) = Len(b)
  PROVE  InTurn(d, b) \in Seq(Extent)
<1>1. Len(d) \in Nat /\ 2 * Len(d) \in Nat
  OBVIOUS
<1>2. ASSUME NEW i \in 1..(2 * Len(d))
      PROVE  (IF i % 2 = 1 THEN d[(i + 1) \div 2] ELSE b[i \div 2]) \in Extent
  <2> DEFINE h == i \div 2
  <2>1. CASE i % 2 = 1
    <3>1. (i + 1) \div 2 \in 1..Len(d)
      BY <1>1, <2>1
    <3>. QED  BY <2>1, <3>1
  <2>2. CASE i % 2 # 1
    <3>1. i \div 2 \in 1..Len(b)
      BY <1>1, <2>2
    <3>. QED  BY <2>2, <3>1
  <2>. QED  BY <2>1, <2>2
<1> DEFINE q == [i \in 1..(2 * Len(d)) |-> IF i % 2 = 1 THEN d[(i + 1) \div 2] ELSE b[i \div 2]]
<1>3. q = [i \in 1..(2 * Len(d)) |-> q[i]] /\ \A i \in 1..(2 * Len(d)) : q[i] \in Extent
  BY <1>2
<1>4. InTurn(d, b) = q
  BY DEF InTurn
<1> HIDE DEF q
<1> DEFINE n == 2 * Len(d)
<1>5. n \in Nat /\ q = [i \in 1..n |-> q[i]] /\ \A i \in 1..n : q[i] \in Extent
  BY <1>1, <1>3
<1> HIDE DEF n
<1>6. q \in Seq(Extent)
  BY <1>5, SequenceOf
<1>. QED  BY <1>4, <1>6

\* Both views have the extents to be one file.
Parted(s, p) == p \in 1..MaxParts /\ CanInterleave(s, p)

(* The names of the files of a part.                                       *)
LEMMA PartFiles ==
  ASSUME NEW p \in 1..MaxParts
  PROVE  /\ <<"dep", p>> \in Files /\ <<"base", p>> \in Files /\ <<"ssif", p>> \in Files
         /\ <<"ssif", p>>[1] = "ssif" /\ <<"dep", p>>[1] = "dep" /\ <<"base", p>>[1] = "base"
BY DEF Files

(* createInterleavedFile changes the file of both views only.              *)
LEMMA InterleaveSound ==
  ASSUME NEW s, Sound(s), NEW p \in 1..MaxParts, CanInterleave(s, p)
  PROVE  LET t == CreateInterleavedFile(s, p) IN
         /\ Sound(t) /\ Kept(s, t) /\ (\A g \in Files : t.ent[g].tail = s.ent[g].tail)
         /\ \A g \in Files : g[1] # "ssif" => t.ent[g] = s.ent[g]
<1> DEFINE f == <<"ssif", p>>
           d == s.ent[<<"dep", p>>]
           b == s.ent[<<"base", p>>]
           x == FoldLeft(AddExtent, <<>>, InTurn(d.ext, b.ext))
           z == d.size + b.size
           e == s.ent[f]
           y == [e EXCEPT !.ext = x, !.size = z]
           t == [s EXCEPT !.ent[f] = y]
<1>1. /\ AtEnd(s) /\ e \in Entry /\ f \in Files /\ f[1] = "ssif"
      /\ d.ext \in Seq(Extent) /\ b.ext \in Seq(Extent) /\ d.size \in Nat /\ b.size \in Nat
      /\ Len(d.ext) = Len(b.ext)
  BY PartFiles, OneEntry DEF Sound, CanInterleave
<1>2. z \in Nat /\ x \in Seq(Extent)
  <2>1. z \in Nat
    BY <1>1
  <2> DEFINE i == d.ext  k == b.ext
  <2>2. i \in Seq(Extent) /\ k \in Seq(Extent) /\ Len(i) = Len(k)
    BY <1>1
  <2> HIDE DEF i, k
  <2>3. InTurn(i, k) \in Seq(Extent)
    BY <2>2, InTurnParts
  <2> DEFINE q == InTurn(i, k)
  <2> HIDE DEF q
  <2>4. FoldLeft(AddExtent, <<>>, q) \in Seq(Extent)
    BY <2>3, ExtentFold DEF q
  <2>. QED  BY <2>1, <2>4 DEF q, i, k
<1>3. CreateInterleavedFile(s, p) = [s EXCEPT !.ent[f].ext = x, !.ent[f].size = z]
  BY DEF CreateInterleavedFile
<1> HIDE DEF x, z
<1>4. CreateInterleavedFile(s, p) = t
  BY <1>1, <1>3 DEF AtEnd, Image
<1>5. /\ y \in Entry /\ y.tail = e.tail /\ y.deferred = e.deferred /\ y.held = e.held
      /\ y.heldTail = e.heldTail
  <2> HIDE DEF e
  <2>. QED  BY <1>1, <1>2 DEF Entry
<1> HIDE DEF y, d, b, e, f
<1>6. /\ AtEnd(t) /\ t.ent[f] = y /\ (\A g \in Files : g # f => t.ent[g] = s.ent[g])
      /\ t.disk = s.disk /\ t.pos = s.pos /\ t.last = s.last
      /\ t.gaps = s.gaps /\ t.pads = s.pads /\ t.padsBefore = s.padsBefore
      /\ t.placed = s.placed /\ t.mirror = s.mirror /\ t.queue = s.queue
      /\ t.heldBytes = s.heldBytes
  BY <1>1, <1>5, EntryAs
<1> HIDE DEF t
<1>7. \A g \in Files : g[1] # "ssif" => t.ent[g] = s.ent[g]
  BY <1>1, <1>6
<1>8. \A g \in Files : /\ t.ent[g].tail = s.ent[g].tail
                       /\ t.ent[g].deferred = s.ent[g].deferred /\ t.ent[g].held = s.ent[g].held
                       /\ t.ent[g].heldTail = s.ent[g].heldTail
  BY <1>5, <1>6 DEF e
<1>9. Kept(s, t)
  BY <1>6, <1>8 DEF Kept
<1>10. AllRead(t)
  BY <1>6, <1>7 DEF Sound, AllRead
<1>11. LastEnds(t)
  <2>1. s.last # None => s.last \in Files
    BY <1>1, FieldsOfImage DEF Names
  <2>. QED  BY <1>6, <1>7, <2>1 DEF Sound, LastEnds
<1>12. TailEnds(t)
  BY <1>6, <1>8 DEF Sound, TailEnds
<1>13. MirrorClear(t) /\ GapsClear(t) /\ DataFree(t)
  BY <1>6 DEF Sound, MirrorClear, GapsClear, DataFree
<1>14. HeldCounted(t)
  <2>1. \A q \in 1..MaxParts : <<"copy", q>> \in Files
    BY CopyNames
  <2>2. \A acc : Adds(s.ent, acc) => Adds(t.ent, acc)
    BY <1>8, <2>1 DEF Adds
  <2>. QED  BY <1>6, <1>8, <2>2 DEF Sound, HeldCounted
<1>15. Sound(t)
  BY <1>6, <1>10, <1>11, <1>12, <1>13, <1>14 DEF Sound
<1>. QED  BY <1>4, <1>7, <1>8, <1>9, <1>15

(* So does making that of every part.                                      *)
LEMMA InterleaveFold ==
  ASSUME NEW s, Sound(s), NoTail(s), NEW n \in Nat, n <= MaxParts,
         \A p \in 1..n : CanInterleave(s, p)
  PROVE  LET t == FoldLeft(CreateInterleavedFile, s, [p \in 1..n |-> p]) IN
         /\ Sound(t) /\ NoTail(t) /\ \A g \in Files : t.ent[g].heldTail = s.ent[g].heldTail
<1> DEFINE q == [p \in 1..n |-> p]
           S == {x \in Image : /\ Sound(x) /\ NoTail(x) /\ (\A p \in 1..n : CanInterleave(x, p))
                               /\ \A g \in Files : x.ent[g].heldTail = s.ent[g].heldTail}
           F == [m \in 1..n |-> [z \in S |-> CreateInterleavedFile(z, m)]]
           Is(it) == it = [x \in SUBSET DOMAIN q |->
                             IF x = {} THEN s ELSE CreateInterleavedFile(it[x \ {Max(x)}], q[Max(x)])]
           it == CHOOSE it : Is(it)
<1>1. FoldLeft(CreateInterleavedFile, s, q) = it[DOMAIN q]
  BY DEF FoldLeft, MapThenFoldSet
<1>2. DOMAIN q = 1..n /\ (\A m \in 1..n : q[m] = m) /\ s \in S /\ MaxParts \in Nat
  BY Constants DEF Sound, AtEnd
<1>3. ASSUME NEW z \in S, NEW m \in 1..n PROVE CreateInterleavedFile(z, m) \in S
  <2> DEFINE t == CreateInterleavedFile(z, m)
  <2>1. /\ Sound(z) /\ NoTail(z) /\ (\A p \in 1..n : CanInterleave(z, p)) /\ m \in 1..MaxParts
        /\ \A g \in Files : z.ent[g].heldTail = s.ent[g].heldTail
    BY <1>2
  <2> HIDE DEF S
  <2>2. /\ Sound(t) /\ Kept(z, t) /\ (\A g \in Files : t.ent[g].tail = z.ent[g].tail)
        /\ \A g \in Files : g[1] # "ssif" => t.ent[g] = z.ent[g]
    BY <2>1, InterleaveSound
  <2> HIDE DEF t
  <2>3. NoTail(t) /\ t \in Image /\ \A g \in Files : t.ent[g].heldTail = s.ent[g].heldTail
    BY <2>1, <2>2 DEF NoTail, Sound, AtEnd, Kept
  <2>4. \A p \in 1..n : CanInterleave(t, p)
    <3> SUFFICES ASSUME NEW p \in 1..n PROVE CanInterleave(t, p)
      OBVIOUS
    <3>1. p \in 1..MaxParts
      BY <1>2
    <3>2. t.ent[<<"dep", p>>] = z.ent[<<"dep", p>>] /\ t.ent[<<"base", p>>] = z.ent[<<"base", p>>]
      BY <2>2, <3>1, PartFiles
    <3>. QED  BY <2>1, <3>2 DEF CanInterleave
  <2>. QED  BY <2>2, <2>3, <2>4 DEF S, t
<1>4. \A x \in S : Sound(x) /\ NoTail(x) /\ \A g \in Files : x.ent[g].heldTail = s.ent[g].heldTail
  OBVIOUS
<1> HIDE DEF q, S
<1>5. F \in [1..n -> [S -> S]]
  BY <1>3
<1>6. \A x \in SUBSET (1..n) : x # {} => Max(x) \in 1..n
  BY LargestOfPart
<1>7. \E j : Is(j)
  <2>1. HasFold(S, n, s, F)
    <3> HIDE DEF F
    <3>. QED  BY <1>2, <1>5, FoldOfPlaces
  <2>2. PICK j \in [SUBSET (1..n) -> S] : FoldsPlaces(j, n, s, F)
    BY <2>1 DEF HasFold
  <2>3. \A x \in SUBSET (1..n) : x # {} =>
          F[Max(x)][j[x \ {Max(x)}]] = CreateInterleavedFile(j[x \ {Max(x)}], q[Max(x)])
    BY <1>2, <1>6
  <2> HIDE DEF F
  <2>4. j = [x \in SUBSET DOMAIN q |->
               IF x = {} THEN s ELSE CreateInterleavedFile(j[x \ {Max(x)}], q[Max(x)])]
    BY <1>2, <2>2, <2>3 DEF FoldsPlaces
  <2>. QED  BY <2>4
<1>8. Is(it)
  BY <1>7, Zenon
<1> HIDE DEF it
<1>9. /\ it[{}] = s
      /\ \A x \in SUBSET (1..n) : x # {} => it[x] = CreateInterleavedFile(it[x \ {Max(x)}], q[Max(x)])
  BY <1>2, <1>8
<1> HIDE DEF Is
<1>10. FoldsSets(S, n, s, F, it)
  BY <1>2, <1>6, <1>9 DEF FoldsSets
<1> HIDE DEF F
<1>11. PICK v : Values(S, n, s, F, v) /\ v[n] = it[1..n]
  BY <1>2, <1>5, <1>10, FoldValues
<1>12. it[1..n] \in S
  BY <1>11 DEF Values
<1>13. FoldLeft(CreateInterleavedFile, s, q) \in S
  BY <1>1, <1>2, <1>12
<1>. QED  BY <1>4, <1>13 DEF q

-----------------------------------------------------------------------------
(* Moving back over what the look ahead left empty *)

(* The whole blocks of a gap are no more than the gap.                     *)
LEMMA Blocks ==
  ASSUME NEW gap \in Hole
  PROVE  WholeBlocks(gap) \in Nat /\ WholeBlocks(gap) <= gap.to - gap.from
<1> DEFINE n == gap.to - gap.from  k == n \div Block
<1>1. gap.from \in Nat /\ gap.to \in Nat /\ n \in Nat
  BY DEF Hole, Gap
<1>2. Block \in Nat \ {0}
  BY Constants
<1> HIDE DEF n
<1>3. k \in Nat /\ n = (Block * k) + (n % Block) /\ n % Block \in Nat
  BY <1>1, <1>2
<1> HIDE DEF k
<1>4. k * Block = Block * k /\ Block * k \in Nat
  BY <1>2, <1>3
<1>5. k * Block \in Nat /\ k * Block <= n
  BY <1>1, <1>3, <1>4
<1>. QED  BY <1>5 DEF WholeBlocks, n, k

\* acc[m] is what the first m of the gaps have to move back over
BackSums(q, acc) ==
  /\ acc \in [0..Len(q) -> Nat] /\ acc[0] = 0
  /\ \A m \in 1..Len(q) : acc[m] = acc[m - 1] + WholeBlocks(q[m])

(* What the data is moved back over is the sum of the gaps' blocks.        *)
LEMMA BackFold ==
  ASSUME NEW q \in Seq(Hole)
  PROVE  \E acc : BackSums(q, acc) /\ acc[Len(q)] = FoldLeft(AddGap, 0, q)
<1> DEFINE n == Len(q)
           S == Nat
           b == 0
           F == [m \in 1..n |-> [z \in S |-> AddGap(z, q[m])]]
           Is(it) == it = [x \in SUBSET DOMAIN q |->
                             IF x = {} THEN b ELSE AddGap(it[x \ {Max(x)}], q[Max(x)])]
           it == CHOOSE it : Is(it)
<1>1. FoldLeft(AddGap, 0, q) = it[DOMAIN q]
  BY DEF FoldLeft, MapThenFoldSet
<1>2. n \in Nat /\ DOMAIN q = 1..n /\ b \in S
  OBVIOUS
<1>3. \A m \in 1..n : q[m] \in Hole
  OBVIOUS
<1> HIDE DEF n, b
<1>4. F \in [1..n -> [S -> S]]
  <2> SUFFICES ASSUME NEW m \in 1..n, NEW z \in Nat PROVE AddGap(z, q[m]) \in Nat
    OBVIOUS
  <2>1. WholeBlocks(q[m]) \in Nat
    BY <1>3, Blocks
  <2>. QED  BY <2>1 DEF AddGap
<1>5. \A x \in SUBSET (1..n) : x # {} => Max(x) \in 1..n
  BY <1>2, LargestOfPart
<1> HIDE DEF S
<1>6. \E j : Is(j)
  <2>1. HasFold(S, n, b, F)
    <3> HIDE DEF F
    <3>. QED  BY <1>2, <1>4, FoldOfPlaces
  <2>2. PICK j \in [SUBSET (1..n) -> S] : FoldsPlaces(j, n, b, F)
    BY <2>1 DEF HasFold
  <2>3. \A x \in SUBSET (1..n) : x # {} =>
          F[Max(x)][j[x \ {Max(x)}]] = AddGap(j[x \ {Max(x)}], q[Max(x)])
    BY <1>5
  <2> HIDE DEF F
  <2>4. j = [x \in SUBSET DOMAIN q |->
               IF x = {} THEN b ELSE AddGap(j[x \ {Max(x)}], q[Max(x)])]
    BY <1>2, <2>2, <2>3 DEF FoldsPlaces
  <2>. QED  BY <2>4
<1>7. Is(it)
  BY <1>6, Zenon
<1> HIDE DEF it
<1>8. /\ it[{}] = b
      /\ \A x \in SUBSET (1..n) : x # {} => it[x] = AddGap(it[x \ {Max(x)}], q[Max(x)])
  BY <1>2, <1>7
<1> HIDE DEF Is
<1>9. FoldsSets(S, n, b, F, it)
  BY <1>5, <1>8 DEF FoldsSets
<1>10. \A m \in 1..n : \A z \in S : F[m][z] = AddGap(z, q[m])
  OBVIOUS
<1> HIDE DEF F
<1>11. PICK v : Values(S, n, b, F, v) /\ v[n] = it[1..n]
  BY <1>2, <1>4, <1>9, FoldValues
<1>12. BackSums(q, v)
  <2>1. v \in [0..n -> S] /\ v[0] = b /\ \A m \in 1..n : v[m] = F[m][v[m - 1]]
    BY <1>11 DEF Values
  <2>2. \A m \in 1..n : v[m] = v[m - 1] + WholeBlocks(q[m])
    <3> SUFFICES ASSUME NEW m \in 1..n PROVE v[m] = v[m - 1] + WholeBlocks(q[m])
      OBVIOUS
    <3>1. v[m - 1] \in S
      BY <1>2, <2>1
    <3>. QED  BY <1>10, <2>1, <3>1 DEF AddGap
  <2>. QED  BY <2>1, <2>2 DEF BackSums, n, b, S
<1>. QED  BY <1>1, <1>2, <1>11, <1>12 DEF n

(* What an extent moved back over a gap is.                                *)
LEMMA MovedParts ==
  ASSUME NEW ext \in Seq(Extent), NEW gap \in Hole
  PROVE  /\ Moved(ext, gap) \in Seq(Extent) /\ Len(Moved(ext, gap)) = Len(ext)
         /\ \A i \in 1..Len(ext) :
              /\ Moved(ext, gap)[i].n = ext[i].n
              /\ Moved(ext, gap)[i].lbn =
                   IF ext[i].lbn >= gap.to THEN ext[i].lbn - WholeBlocks(gap) ELSE ext[i].lbn
<1> DEFINE n == Len(ext)
           w == WholeBlocks(gap)
           q == [i \in 1..n |-> IF ext[i].lbn >= gap.to THEN [ext[i] EXCEPT !.lbn = @ - w] ELSE ext[i]]
<1>1. n \in Nat /\ DOMAIN ext = 1..n
  OBVIOUS
<1>2. w \in Nat /\ w <= gap.to - gap.from /\ gap.to \in Nat /\ gap.from \in Nat
  BY Blocks DEF Hole, Gap
<1>3. Moved(ext, gap) = q
  BY <1>1 DEF Moved
<1> HIDE DEF w, n
<1>4. ASSUME NEW i \in 1..n
      PROVE  /\ q[i] \in Extent /\ q[i].n = ext[i].n
             /\ q[i].lbn = IF ext[i].lbn >= gap.to THEN ext[i].lbn - w ELSE ext[i].lbn
  <2>1. ext[i] \in Extent /\ ext[i].lbn \in Nat
    BY OneExtent DEF n
  <2>2. ext[i].lbn >= gap.to => ext[i].lbn - w \in Nat
    BY <1>2, <2>1
  <2>. QED  BY <2>1, <2>2 DEF Extent
<1>5. q = [i \in 1..n |-> q[i]] /\ \A i \in 1..n : q[i] \in Extent
  BY <1>4
<1> HIDE DEF q
<1>6. q \in Seq(Extent) /\ Len(q) = n
  BY <1>1, <1>5, SequenceOf
<1>. QED  BY <1>3, <1>4, <1>6 DEF n, w

(* What an image moved back over a gap is.                                 *)
LEMMA OverGapParts ==
  ASSUME NEW s \in Image, NEW gap \in Hole
  PROVE  LET t == OverGap(s, gap)  n == WholeBlocks(gap) IN
         /\ t \in Image /\ (n <= Len(s.disk) => Len(t.disk) = Len(s.disk) - n)
         /\ \A i \in 1..(Len(s.disk) - n) :
              t.disk[i] = IF i <= gap.to - n THEN s.disk[i] ELSE s.disk[i + n]
         /\ \A f \in Files :
              /\ t.ent[f].ext = Moved(s.ent[f].ext, gap) /\ t.ent[f].size = s.ent[f].size
              /\ t.ent[f].tail = s.ent[f].tail /\ t.ent[f].deferred = s.ent[f].deferred
              /\ t.ent[f].held = s.ent[f].held /\ t.ent[f].heldTail = s.ent[f].heldTail
         /\ t.gaps = s.gaps /\ t.pads = s.pads /\ t.padsBefore = s.padsBefore
         /\ t.queue = s.queue /\ t.heldBytes = s.heldBytes
<1> DEFINE n == WholeBlocks(gap)
           L == Len(s.disk)
           d == [i \in 1..(L - n) |-> IF i <= gap.to - n THEN s.disk[i] ELSE s.disk[i + n]]
           m == [f \in Files |-> [s.ent[f] EXCEPT !.ext = Moved(@, gap)]]
           t == [s EXCEPT !.disk = d, !.ent = m]
<1>1. /\ n \in Nat /\ n <= gap.to - gap.from /\ gap.to \in Nat /\ gap.from \in Nat
      /\ L \in Nat /\ s.disk \in Seq(Cell) /\ s.ent \in [Files -> Entry]
  BY Blocks DEF Hole, Gap, Image
<1>2. OverGap(s, gap) = t
  BY DEF OverGap
<1> DEFINE h == IF n <= L THEN L - n ELSE 0
<1>3. h \in Nat /\ 1..(L - n) = 1..h
  <2> HIDE DEF n, L
  <2>1. CASE n <= L
    BY <1>1, <2>1
  <2>2. CASE ~(n <= L)
    BY <1>1, <2>2
  <2>. QED  BY <2>1, <2>2
<1>4. \A i \in 1..(L - n) : d[i] \in Cell
  <2> SUFFICES ASSUME NEW i \in 1..(L - n)
               PROVE  (IF i <= gap.to - n THEN s.disk[i] ELSE s.disk[i + n]) \in Cell
    OBVIOUS
  <2> HIDE DEF n, L
  <2>1. i \in 1..L /\ i + n \in 1..L
    BY <1>1
  <2>. QED  BY <1>1, <2>1 DEF L
<1>5. d = [i \in 1..(L - n) |-> d[i]]
  OBVIOUS
<1>6. \A i \in 1..(L - n) : d[i] = IF i <= gap.to - n THEN s.disk[i] ELSE s.disk[i + n]
  OBVIOUS
<1> HIDE DEF d
<1>7. h \in Nat /\ d = [i \in 1..h |-> d[i]] /\ \A i \in 1..h : d[i] \in Cell
  BY <1>3, <1>4, <1>5
<1> HIDE DEF h
<1>8. d \in Seq(Cell) /\ Len(d) = h
  BY <1>7, SequenceOf
<1>9. ASSUME NEW f \in Files
      PROVE  /\ m[f] \in Entry /\ m[f].ext = Moved(s.ent[f].ext, gap) /\ m[f].size = s.ent[f].size
             /\ m[f].tail = s.ent[f].tail /\ m[f].deferred = s.ent[f].deferred
             /\ m[f].held = s.ent[f].held /\ m[f].heldTail = s.ent[f].heldTail
  <2> DEFINE e == s.ent[f]  x == Moved(e.ext, gap)  y == [e EXCEPT !.ext = x]
  <2>1. m[f] = y
    OBVIOUS
  <2>2. e \in Entry /\ e.ext \in Seq(Extent)
    BY <1>1 DEF Entry
  <2> HIDE DEF m, e
  <2>3. x \in Seq(Extent)
    BY <2>2, MovedParts
  <2> HIDE DEF x
  <2>4. /\ y \in Entry /\ y.ext = x /\ y.size = e.size /\ y.tail = e.tail
        /\ y.deferred = e.deferred /\ y.held = e.held /\ y.heldTail = e.heldTail
    BY <2>2, <2>3 DEF Entry
  <2> HIDE DEF y
  <2>. QED  BY <2>1, <2>4 DEF x, e
<1>10. m \in [Files -> Entry]
  BY <1>9
<1> HIDE DEF m, n, L
<1>11. /\ t \in Image /\ t.disk = d /\ t.ent = m
       /\ t.gaps = s.gaps /\ t.pads = s.pads /\ t.padsBefore = s.padsBefore
       /\ t.queue = s.queue /\ t.heldBytes = s.heldBytes
  BY <1>8, <1>10 DEF Image
<1> HIDE DEF t
<1>. QED  BY <1>2, <1>6, <1>8, <1>9, <1>11 DEF h, n, L

\* e is d moved back over a gap
MovedOver(d, e, gap) ==
  /\ d \in Seq(Cell) /\ e \in Seq(Cell) /\ gap.to <= Len(d)
  /\ Len(e) = Len(d) - WholeBlocks(gap)
  /\ \A i \in 1..(Len(d) - WholeBlocks(gap)) :
       e[i] = IF i <= gap.to - WholeBlocks(gap) THEN d[i] ELSE d[i + WholeBlocks(gap)]

\* There is nothing in a gap.
IsEmpty(d, gap) == \A k \in gap.from + 1..gap.to : d[k] = Zero
\* N sectors of data
AreData(d, lbn, N) == \A i \in 1..N : lbn + i <= Len(d) /\ d[lbn + i] # Zero

(* Where a sector of data is after the move.                               *)
LEMMA MovedCell ==
  ASSUME NEW d, NEW e, NEW gap \in Hole, MovedOver(d, e, gap), IsEmpty(d, gap),
         NEW lbn \in Nat, NEW N \in Nat, NEW j \in 1..N, AreData(d, lbn, N)
  PROVE  LET x == IF lbn >= gap.to THEN lbn - WholeBlocks(gap) ELSE lbn IN
         x + j <= Len(e) /\ e[x + j] = d[lbn + j]
<1> DEFINE n == WholeBlocks(gap)  L == Len(d)  to == gap.to  from == gap.from
<1>1. /\ n \in Nat /\ n <= to - from /\ to \in Nat /\ from \in Nat
      /\ L \in Nat /\ to <= L /\ Len(e) = L - n
      /\ \A i \in 1..(L - n) : e[i] = IF i <= to - n THEN d[i] ELSE d[i + n]
      /\ \A k \in from + 1..to : d[k] = Zero
      /\ \A i \in 1..N : lbn + i <= L /\ d[lbn + i] # Zero
  BY Blocks DEF MovedOver, Hole, Gap, IsEmpty, AreData
<1> HIDE DEF n, L, to, from
<1>2. CASE lbn >= to
  <2> DEFINE i == lbn - n + j
  <2>3. lbn + j <= L /\ j \in Nat \ {0}
    BY <1>1
  <2>1. i \in 1..(L - n) /\ ~(i <= to - n) /\ i + n = lbn + j
    BY <1>1, <1>2, <2>3
  <2>2. e[i] = d[i + n]
    BY <1>1, <2>1
  <2>. QED  BY <1>1, <1>2, <2>1, <2>2 DEF n, to
<1>3. CASE ~(lbn >= to) /\ n = 0
  <2> DEFINE i == lbn + j
  <2>1. i \in 1..L /\ L - n = L /\ i + n = i
    BY <1>1, <1>3
  <2>2. e[i] = d[i]
    BY <1>1, <2>1
  <2>. QED  BY <1>1, <1>3, <2>1, <2>2 DEF n, to
<1>4. CASE ~(lbn >= to) /\ n # 0
  <2> DEFINE i == lbn + j
  <2>1. from < to
    BY <1>1, <1>4
  <2>2. ASSUME i > from PROVE FALSE
    <3>1. CASE lbn <= from
      <4>1. from + 1 - lbn \in 1..N /\ lbn + (from + 1 - lbn) = from + 1 /\ from + 1 \in from + 1..to
        BY <1>1, <2>1, <2>2, <3>1
      <4>. QED  BY <1>1, <4>1
    <3>2. CASE ~(lbn <= from)
      <4>1. 1 \in 1..N /\ lbn + 1 \in from + 1..to
        BY <1>1, <1>4, <3>2
      <4>. QED  BY <1>1, <4>1
    <3>. QED  BY <3>1, <3>2
  <2>3. i <= to - n
    BY <1>1, <2>2
  <2>4. i \in 1..(L - n)
    BY <1>1, <2>3
  <2>. QED  BY <1>1, <1>4, <2>3, <2>4 DEF n, to
<1>. QED  BY <1>2, <1>3, <1>4

(* A file reads back when its extents are moved with its data.             *)
LEMMA ReadsMoved ==
  ASSUME NEW d, NEW e, NEW gap \in Hole, MovedOver(d, e, gap), IsEmpty(d, gap),
         NEW f \in Files, NEW ext \in Seq(Extent), NEW size, ReadsFrom(d, f, ext, size, 0)
  PROVE  ReadsFrom(e, f, Moved(ext, gap), size, 0)
<1> DEFINE g == Moved(ext, gap)
<1>1. PICK off : Sums(ext, size, off) /\ Stored(d, f, ext, off, 0)
  BY DEF ReadsFrom
<1>2. /\ g \in Seq(Extent) /\ Len(g) = Len(ext)
      /\ \A i \in 1..Len(ext) :
           /\ g[i].n = ext[i].n
           /\ g[i].lbn = IF ext[i].lbn >= gap.to THEN ext[i].lbn - WholeBlocks(gap) ELSE ext[i].lbn
  BY MovedParts
<1> HIDE DEF g
<1>3. Sums(g, size, off)
  BY <1>1, <1>2 DEF Sums
<1>4. ASSUME NEW i \in 1..Len(ext), NEW j \in 1..ext[i].n
      PROVE  /\ ext[i].lbn + j <= Len(d) /\ d[ext[i].lbn + j] = <<f, off[i - 1] + j>>
             /\ d[ext[i].lbn + j] # Zero
  <2>1. off[i - 1] \in Nat /\ j \in Nat \ {0} /\ off[i - 1] + j \in Nat /\ off[i - 1] + j # 0
    BY <1>1, OneSum, OneExtent
  <2>2. ext[i].lbn + j <= Len(d) /\ d[ext[i].lbn + j] = <<f, off[i - 1] + j>>
    BY <1>1, <2>1 DEF Stored
  <2>. QED  BY <2>1, <2>2, NotFiles
<1>5. ASSUME NEW i \in 1..Len(ext), NEW j \in 1..ext[i].n
      PROVE  g[i].lbn + j <= Len(e) /\ e[g[i].lbn + j] = <<f, off[i - 1] + j>>
  <2> DEFINE lbn == ext[i].lbn  N == ext[i].n
             x == IF lbn >= gap.to THEN lbn - WholeBlocks(gap) ELSE lbn
  <2>1. lbn \in Nat /\ N \in Nat /\ j \in 1..N
    BY OneExtent
  <2>2. AreData(d, lbn, N)
    BY <1>4 DEF AreData
  <2>3. g[i].lbn = x /\ d[lbn + j] = <<f, off[i - 1] + j>>
    BY <1>2, <1>4
  <2> HIDE DEF lbn, N
  <2>4. x + j <= Len(e) /\ e[x + j] = d[lbn + j]
    BY <2>1, <2>2, MovedCell
  <2> HIDE DEF x
  <2>. QED  BY <2>3, <2>4
<1>6. Stored(e, f, g, off, 0)
  BY <1>2, <1>5 DEF Stored
<1>. QED  BY <1>3, <1>6 DEF ReadsFrom, g

\* x is s with the data moved back over all but the first m gaps
Shifted(s, x, m) ==
  /\ x \in Image /\ x.gaps = s.gaps /\ x.pads = s.pads /\ x.padsBefore = s.padsBefore
  /\ x.queue = s.queue /\ x.heldBytes = s.heldBytes
  /\ \A f \in Files : f[1] # "ssif" => ReadsFrom(x.disk, f, x.ent[f].ext, s.ent[f].size, 0)
  /\ \A f \in Files : /\ x.ent[f].size = s.ent[f].size /\ x.ent[f].tail = s.ent[f].tail
                      /\ x.ent[f].deferred = s.ent[f].deferred /\ x.ent[f].held = s.ent[f].held
                      /\ x.ent[f].heldTail = s.ent[f].heldTail
  /\ \A i \in 1..m : s.gaps[i].to <= Len(x.disk) /\ IsEmpty(x.disk, s.gaps[i])

(* Moving back over the gap in front of those already closed.              *)
LEMMA ShiftedMore ==
  ASSUME NEW s, AtEnd(s), GapsClear(s), NEW m \in 1..Len(s.gaps), NEW x, Shifted(s, x, m)
  PROVE  LET t == OverGap(x, s.gaps[m]) IN
         /\ Shifted(s, t, m - 1)
         /\ Len(t.disk) = Len(x.disk) - WholeBlocks(s.gaps[m])
<1> DEFINE gap == s.gaps[m]  n == WholeBlocks(gap)  t == OverGap(x, gap)  L == Len(x.disk)
<1>1. /\ gap \in Hole /\ m \in Nat \ {0} /\ x \in Image /\ gap.to <= L /\ IsEmpty(x.disk, gap)
      /\ \A i \in 1..Len(s.gaps) : s.gaps[i] \in Hole
  BY FieldsOfImage DEF Shifted
<1>2. /\ x.disk \in Seq(Cell) /\ L \in Nat /\ x.ent \in [Files -> Entry]
      /\ gap.to \in Nat /\ gap.from \in Nat
  BY <1>1 DEF Image, Hole, Gap
<1> HIDE DEF gap
<1>3. n \in Nat /\ n <= gap.to - gap.from
  BY <1>1, Blocks
<1>4. n <= L
  <2> HIDE DEF n, L
  <2>. QED  BY <1>1, <1>2, <1>3
<1>5. /\ t \in Image /\ (n <= L => Len(t.disk) = L - n)
      /\ \A i \in 1..(L - n) : t.disk[i] = IF i <= gap.to - n THEN x.disk[i] ELSE x.disk[i + n]
      /\ \A f \in Files :
           /\ t.ent[f].ext = Moved(x.ent[f].ext, gap) /\ t.ent[f].size = x.ent[f].size
           /\ t.ent[f].tail = x.ent[f].tail /\ t.ent[f].deferred = x.ent[f].deferred
           /\ t.ent[f].held = x.ent[f].held /\ t.ent[f].heldTail = x.ent[f].heldTail
      /\ t.gaps = x.gaps /\ t.pads = x.pads /\ t.padsBefore = x.padsBefore
      /\ t.queue = x.queue /\ t.heldBytes = x.heldBytes
  BY <1>1, OverGapParts
<1> HIDE DEF t
<1>6. t.disk \in Seq(Cell)
  BY <1>5 DEF Image
<1>7. MovedOver(x.disk, t.disk, gap)
  BY <1>1, <1>2, <1>4, <1>5, <1>6 DEF MovedOver
<1>8. ASSUME NEW f \in Files, f[1] # "ssif" PROVE ReadsFrom(t.disk, f, t.ent[f].ext, s.ent[f].size, 0)
  <2> DEFINE d == x.disk  e == t.disk  y == x.ent[f].ext  z == s.ent[f].size
  <2>1. ReadsFrom(d, f, y, z, 0)
    BY <1>8 DEF Shifted
  <2>2. x.ent[f] \in Entry
    BY <1>2
  <2>3. y \in Seq(Extent)
    BY <2>2 DEF Entry
  <2>4. MovedOver(d, e, gap) /\ IsEmpty(d, gap)
    BY <1>1, <1>7
  <2>5. t.ent[f].ext = Moved(y, gap)
    BY <1>5
  <2> HIDE DEF d, e, y, z
  <2>6. ReadsFrom(e, f, Moved(y, gap), z, 0)
    BY <1>1, <2>1, <2>3, <2>4, ReadsMoved
  <2>. QED  BY <2>5, <2>6 DEF e, z
<1>9. ASSUME NEW i \in 1..m - 1
      PROVE  s.gaps[i].to <= Len(t.disk) /\ IsEmpty(t.disk, s.gaps[i])
  <2> DEFINE g == s.gaps[i]
  <2>1. i \in 1..m /\ i \in 1..Len(s.gaps) /\ i < m
    BY <1>1
  <2>2. g \in Hole /\ g.to <= L /\ IsEmpty(x.disk, g) /\ g.to <= gap.from
    BY <1>1, <2>1 DEF Shifted, GapsClear, gap
  <2>3. g.to \in Nat /\ g.from \in Nat
    BY <2>2 DEF Hole, Gap
  <2> HIDE DEF g, n, L
  <2>4. g.to <= L - n /\ g.to <= gap.to - n
    BY <1>1, <1>2, <1>3, <2>2, <2>3
  <2>5. \A k \in g.from + 1..g.to : k \in 1..(L - n) /\ k <= gap.to - n
    BY <1>2, <1>3, <2>3, <2>4
  <2>6. IsEmpty(t.disk, g)
    BY <1>5, <2>2, <2>5 DEF IsEmpty
  <2>. QED  BY <1>4, <1>5, <2>4, <2>6 DEF g
<1>10. Shifted(s, t, m - 1)
  BY <1>5, <1>8, <1>9 DEF Shifted
<1>. QED  BY <1>4, <1>5, <1>10 DEF t, gap

(* Moving back over all of them, the last first.                           *)
LEMMA OverGapFold ==
  ASSUME NEW s, AtEnd(s), GapsClear(s), Shifted(s, s, Len(s.gaps))
  PROVE  LET t == FoldLeft(OverGap, s, Reverse(s.gaps)) IN
         Shifted(s, t, 0) /\ Len(t.disk) = Len(s.disk) - Back(s)
<1> DEFINE q == Reverse(s.gaps)
           n == Len(s.gaps)
           S == Image
           F == [m \in 1..n |-> [z \in S |-> OverGap(z, q[m])]]
           Is(it) == it = [x \in SUBSET DOMAIN q |->
                             IF x = {} THEN s ELSE OverGap(it[x \ {Max(x)}], q[Max(x)])]
           it == CHOOSE it : Is(it)
<1>1. FoldLeft(OverGap, s, q) = it[DOMAIN q]
  BY DEF FoldLeft, MapThenFoldSet
<1>2. n \in Nat /\ s.gaps \in Seq(Hole) /\ s \in S /\ s.disk \in Seq(Cell) /\ Len(s.disk) \in Nat
  BY FieldsOfImage
<1>3. DOMAIN q = 1..n /\ \A m \in 1..n : q[m] = s.gaps[(n - m) + 1]
  BY <1>2 DEF Reverse
<1>4. \A m \in 1..n : (n - m) + 1 \in 1..n
  BY <1>2
<1>5. \A m \in 1..n : q[m] \in Hole
  <2> HIDE DEF q, n
  <2>1. \A m \in 1..n : s.gaps[m] \in Hole
    BY <1>2 DEF n
  <2>. QED  BY <1>3, <1>4, <2>1
<1> HIDE DEF q
<1>6. F \in [1..n -> [S -> S]]
  <2> HIDE DEF n
  <2> SUFFICES ASSUME NEW m \in 1..n, NEW z \in Image PROVE OverGap(z, q[m]) \in Image
    OBVIOUS
  <2> DEFINE g == q[m]
  <2>1. g \in Hole
    BY <1>5
  <2> HIDE DEF g
  <2>2. OverGap(z, g) \in Image
    BY <2>1, OverGapParts
  <2>. QED  BY <2>2 DEF g
<1> HIDE DEF S
<1>7. \A x \in SUBSET (1..n) : x # {} => Max(x) \in 1..n
  BY <1>2, LargestOfPart
<1> DEFINE gaps == s.gaps  back == FoldLeft(AddGap, 0, gaps)
<1>8. PICK acc : BackSums(gaps, acc) /\ acc[n] = back
  <2>1. gaps \in Seq(Hole)
    BY <1>2
  <2> HIDE DEF gaps
  <2>2. \E acc : BackSums(gaps, acc) /\ acc[Len(gaps)] = FoldLeft(AddGap, 0, gaps)
    BY <2>1, BackFold
  <2>. QED  BY <2>2 DEF gaps
<1>9. /\ acc \in [0..n -> Nat] /\ acc[0] = 0 /\ Back(s) = acc[n]
      /\ \A m \in 1..n : acc[m] = acc[m - 1] + WholeBlocks(s.gaps[m])
  BY <1>8 DEF BackSums, Back
<1> HIDE DEF gaps, back, n
<1>10. \E j : Is(j)
  <2>1. HasFold(S, n, s, F)
    <3> HIDE DEF F
    <3>. QED  BY <1>2, <1>6, FoldOfPlaces
  <2>2. PICK j \in [SUBSET (1..n) -> S] : FoldsPlaces(j, n, s, F)
    BY <2>1 DEF HasFold
  <2>3. \A x \in SUBSET (1..n) : x # {} =>
          F[Max(x)][j[x \ {Max(x)}]] = OverGap(j[x \ {Max(x)}], q[Max(x)])
    BY <1>7
  <2> HIDE DEF F
  <2>4. j = [x \in SUBSET DOMAIN q |->
               IF x = {} THEN s ELSE OverGap(j[x \ {Max(x)}], q[Max(x)])]
    BY <1>3, <2>2, <2>3 DEF FoldsPlaces
  <2>. QED  BY <2>4
<1>11. Is(it)
  BY <1>10, Zenon
<1> HIDE DEF it
<1>12. /\ it[{}] = s
       /\ \A x \in SUBSET (1..n) : x # {} => it[x] = OverGap(it[x \ {Max(x)}], q[Max(x)])
  BY <1>3, <1>11
<1> HIDE DEF Is
<1>13. FoldsSets(S, n, s, F, it)
  BY <1>7, <1>12 DEF FoldsSets
<1>14. \A m \in 1..n : \A z \in S : F[m][z] = OverGap(z, q[m])
  OBVIOUS
<1> HIDE DEF F
<1>21. n \in Nat /\ s \in S
  BY <1>2
<1>15. PICK v : Values(S, n, s, F, v) /\ v[n] = it[1..n]
  BY <1>6, <1>13, <1>21, FoldValues
<1>16. v \in [0..n -> S] /\ v[0] = s /\ \A m \in 1..n : v[m] = OverGap(v[m - 1], s.gaps[(n - m) + 1])
  <2>1. v \in [0..n -> S] /\ v[0] = s /\ \A m \in 1..n : v[m] = F[m][v[m - 1]]
    BY <1>15 DEF Values
  <2>2. ASSUME NEW m \in 1..n PROVE v[m] = OverGap(v[m - 1], s.gaps[(n - m) + 1])
    <3>1. v[m - 1] \in S
      BY <1>2, <2>1
    <3>2. F[m][v[m - 1]] = OverGap(v[m - 1], q[m])
      BY <1>14, <3>1
    <3>3. q[m] = s.gaps[(n - m) + 1] /\ v[m] = F[m][v[m - 1]]
      BY <1>3, <2>1
    <3>. QED  BY <3>2, <3>3
  <2>. QED  BY <2>1, <2>2
<1> DEFINE L == Len(s.disk)
           T == {m \in Nat : m > n \/ (/\ Shifted(s, v[m], n - m)
                                       /\ Len(v[m].disk) = L - (acc[n] - acc[n - m]))}
<1>17. 0 \in T
  <2>1. n - 0 = n /\ acc[n] - acc[n] = 0 /\ L - 0 = L
    BY <1>2, <1>9
  <2>2. Shifted(s, v[0], n) /\ Len(v[0].disk) = L
    BY <1>16 DEF n
  <2>3. Shifted(s, v[0], n - 0) /\ Len(v[0].disk) = L - (acc[n] - acc[n - 0])
    BY <2>1, <2>2
  <2>. QED  BY <2>3
<1>18. ASSUME NEW m \in Nat, m \in T PROVE m + 1 \in T
  <2>1. CASE m + 1 > n
    BY <2>1
  <2>2. CASE ~(m + 1 > n)
    <3> DEFINE k == n - m  x == v[m]  y == v[m + 1]  g == s.gaps[k]
    <3>1. /\ m + 1 \in 1..n /\ m + 1 - 1 = m /\ (n - (m + 1)) + 1 = k /\ k \in 1..n
          /\ n - (m + 1) = k - 1 /\ ~(m > n) /\ k - 1 \in 0..n /\ k \in 0..n
      BY <1>2, <2>2
    <3>2. Shifted(s, x, k) /\ Len(x.disk) = L - (acc[n] - acc[k])
      BY <1>18, <3>1
    <3>3. y = OverGap(x, g)
      BY <1>16, <3>1
    <3>4. acc[k] = acc[k - 1] + WholeBlocks(g) /\ acc[k] \in Nat /\ acc[k - 1] \in Nat /\ acc[n] \in Nat
      <4>1. n \in 0..n
        BY <1>2
      <4>. QED  BY <1>9, <3>1, <4>1
    <3>5. WholeBlocks(g) \in Nat
      <4>1. g \in Hole
        BY <1>2, <3>1 DEF n
      <4> HIDE DEF g
      <4>. QED  BY <4>1, Blocks
    <3>6. k \in 1..Len(s.gaps)
      BY <3>1 DEF n
    <3> HIDE DEF k, x, y
    <3>7. Shifted(s, OverGap(x, s.gaps[k]), k - 1)
          /\ Len(OverGap(x, s.gaps[k]).disk) = Len(x.disk) - WholeBlocks(s.gaps[k])
      BY <3>2, <3>6, ShiftedMore
    <3>8. Len(y.disk) = L - (acc[n] - acc[k - 1])
      <4> DEFINE a == acc[n]  b == acc[k]  c == acc[k - 1]  w == WholeBlocks(g)  l == Len(x.disk)
                 h == Len(y.disk)
      <4>1. a \in Nat /\ b \in Nat /\ c \in Nat /\ w \in Nat /\ b = c + w /\ l = L - (a - b) /\ h = l - w
        BY <3>2, <3>3, <3>4, <3>5, <3>7
      <4>2. L \in Nat
        BY <1>2
      <4> HIDE DEF a, b, c, w, l, h, L
      <4>3. h = L - (a - c)
        BY <4>1, <4>2
      <4>. QED  BY <4>3 DEF a, c, h
    <3>9. Shifted(s, y, k - 1)
      BY <3>3, <3>7
    <3> HIDE DEF g
    <3>10. Shifted(s, v[m + 1], n - (m + 1)) /\ Len(v[m + 1].disk) = L - (acc[n] - acc[n - (m + 1)])
      BY <3>1, <3>8, <3>9 DEF y
    <3>. QED  BY <3>10
  <2>. QED  BY <2>1, <2>2
<1> HIDE DEF T
<1>19. n \in T
  BY <1>2, <1>17, <1>18, Induct
<1>20. Shifted(s, v[n], 0) /\ Len(v[n].disk) = L - acc[n]
  <2>1. n - n = 0 /\ ~(n > n) /\ acc[n] - 0 = acc[n]
    <3>1. acc[n] \in Nat
      <4>1. n \in 0..n
        BY <1>2
      <4>. QED  BY <1>9, <4>1
    <3>. QED  BY <1>2, <3>1
  <2>. QED  BY <1>9, <1>19, <2>1 DEF T
<1>. QED  BY <1>1, <1>3, <1>9, <1>15, <1>20 DEF q

(* A sound image is one not yet moved over any gap.                        *)
LEMMA ShiftedSelf ==
  ASSUME NEW s, Sound(s), NoTail(s)
  PROVE  Shifted(s, s, Len(s.gaps))
<1>1. \A f \in Files : f[1] # "ssif" => ReadsFrom(s.disk, f, s.ent[f].ext, s.ent[f].size, 0)
  BY DEF Sound, AllRead, NoTail, Lacking
<1>2. \A i \in 1..Len(s.gaps) : s.gaps[i].to <= Len(s.disk) /\ IsEmpty(s.disk, s.gaps[i])
  BY DEF Sound, GapsClear, IsEmpty
<1>. QED  BY <1>1, <1>2 DEF Shifted, Sound, AtEnd

(* moveBackLookAhead keeps the image sound: what it closes is empty, and   *)
(* what it moves reads back.                                               *)
LEMMA MoveBackSound ==
  ASSUME layout \in Layouts, NEW s, Sound(s), NoTail(s)
  PROVE  LET t == MoveBackLookAhead(s) IN
         Sound(t) /\ NoTail(t) /\ \A g \in Files : t.ent[g].heldTail = s.ent[g].heldTail
<1>1. CASE ~MayMoveBack(s)
  BY <1>1 DEF MoveBackLookAhead
<1>2. CASE MayMoveBack(s)
  <2> DEFINE m == FoldLeft(OverGap, s, Reverse(s.gaps))
             pads == SubSeq(m.pads, 1, s.padsBefore)
             n == Len(m.disk)
             t == [m EXCEPT !.pos = n, !.pads = pads, !.placed = FALSE, !.last = None, !.gaps = <<>>]
  <2>1. MoveBackLookAhead(s) = t
    BY <1>2 DEF MoveBackLookAhead
  <2>2. AtEnd(s) /\ GapsClear(s) /\ Shifted(s, s, Len(s.gaps))
    BY ShiftedSelf DEF Sound
  <2>3. Shifted(s, m, 0) /\ n = Len(s.disk) - Back(s)
    BY <2>2, OverGapFold
  <2>4. /\ m \in Image /\ m.pads = s.pads /\ m.padsBefore = s.padsBefore /\ m.queue = s.queue
        /\ m.heldBytes = s.heldBytes
        /\ \A f \in Files : f[1] # "ssif" => ReadsFrom(m.disk, f, m.ent[f].ext, s.ent[f].size, 0)
        /\ \A f \in Files : /\ m.ent[f].size = s.ent[f].size /\ m.ent[f].tail = s.ent[f].tail
                            /\ m.ent[f].deferred = s.ent[f].deferred /\ m.ent[f].held = s.ent[f].held
                            /\ m.ent[f].heldTail = s.ent[f].heldTail
    BY <2>3 DEF Shifted
  <2>5. /\ s.pads \in Seq(Gap) /\ s.padsBefore \in Nat /\ s.padsBefore <= Len(s.pads)
        /\ Len(s.pads) \in Nat /\ s.pos = Len(s.disk) /\ s.pos \in Nat
    BY <2>2, FieldsOfImage DEF Sound
  <2>6. pads \in Seq(Gap) /\ Len(pads) = s.padsBefore
    <3> DEFINE o == s.pads  h == s.padsBefore
    <3>1. o \in Seq(Gap) /\ h \in Nat /\ h <= Len(o) /\ pads = SubSeq(o, 1, h)
      BY <2>4, <2>5
    <3> HIDE DEF o, h, pads
    <3>2. SubSeq(o, 1, h) \in Seq(Gap) /\ Len(SubSeq(o, 1, h)) = h
      BY <3>1
    <3>. QED  BY <3>1, <3>2 DEF h
  <2>7. n \in Nat /\ None \in Names /\ <<>> \in Seq(Hole)
    <3>1. m.disk \in Seq(Cell)
      BY <2>4 DEF Image
    <3>. QED  BY <3>1 DEF Names
  <2> HIDE DEF m, pads, n
  <2>8. /\ t \in Image /\ t.disk = m.disk /\ t.pos = n /\ t.pads = pads /\ t.placed = FALSE
        /\ t.last = None /\ t.gaps = <<>> /\ t.padsBefore = m.padsBefore /\ t.ent = m.ent
        /\ t.heldBytes = m.heldBytes
    BY <2>4, <2>6, <2>7 DEF Image
  <2> HIDE DEF t
  <2>9. NoTail(t) /\ TailEnds(t) /\ LastEnds(t) /\ MirrorClear(t) /\ GapsClear(t)
    BY <2>4, <2>8 DEF NoTail, TailEnds, LastEnds, MirrorClear, GapsClear
  <2>10. AtEnd(t)
    BY <2>8 DEF AtEnd, n
  <2>11. AllRead(t)
    BY <2>4, <2>8 DEF AllRead, Lacking, NoTail
  <2>12. t.padsBefore <= Len(t.pads)
    BY <2>4, <2>5, <2>6, <2>8
  <2>13. HeldCounted(t)
    <3>1. \A p \in 1..MaxParts : <<"copy", p>> \in Files
      BY CopyNames
    <3>2. \A acc : Adds(s.ent, acc) => Adds(t.ent, acc)
      BY <2>4, <2>8, <3>1 DEF Adds
    <3>. QED  BY <2>4, <2>8, <3>2 DEF Sound, HeldCounted
  <2>14. DataFree(t)
    <3> SUFFICES ASSUME NEW k \in 1..Len(t.disk), InZone(k - 1) PROVE FALSE
      BY DEF DataFree
    <3>1. PICK i \in Zones : ZoneStart(i) <= k - 1 /\ k - 1 < ZoneEnd(i)
      BY DEF InZone
    <3>2. ZoneStart(i) \in Int /\ MirrorStart \in Int /\ MirrorStart < ZoneStart(i)
      BY <1>2, Disc, MirrorFirst DEF MayMoveBack, InZone
    <3>3. n <= MirrorStart
      BY <1>2, <2>3, <2>5 DEF MayMoveBack
    <3>4. k <= n /\ k \in Nat
      BY <2>8 DEF n
    <3>. QED  BY <2>7, <3>1, <3>2, <3>3, <3>4
  <2>15. Sound(t)
    BY <2>9, <2>10, <2>11, <2>12, <2>13, <2>14 DEF Sound
  <2>. QED  BY <2>1, <2>4, <2>8, <2>9, <2>15
<1>. QED  BY <1>1, <1>2

-----------------------------------------------------------------------------
(* The mirror, and the end of the image *)

\* What holds of the image that is closed
Ended(s) == AtEnd(s) /\ AllRead(s) /\ DataFree(s) /\ HeldCounted(s) /\ NoTail(s)

\* t is s with the mirror where there was nothing
Mirrored(s, t) ==
  /\ AtEnd(s) /\ AtEnd(t) /\ t.ent = s.ent /\ t.heldBytes = s.heldBytes
  /\ Len(s.disk) <= Len(t.disk)
  /\ \A i \in 1..Len(s.disk) : t.disk[i] = s.disk[i] \/ (s.disk[i] = Zero /\ t.disk[i] = Mirror)
  /\ \A i \in Len(s.disk) + 1..Len(t.disk) : t.disk[i] \in {Zero, Mirror}

(* A file reads back when what is stored over is empty.                    *)
LEMMA ReadsData ==
  ASSUME NEW d \in Seq(Cell), NEW e \in Seq(Cell), Len(d) <= Len(e),
         \A i \in 1..Len(d) : d[i] # Zero => e[i] = d[i],
         NEW f \in Files, NEW ext \in Seq(Extent), NEW size, NEW lack, ReadsFrom(d, f, ext, size, lack)
  PROVE  ReadsFrom(e, f, ext, size, lack)
<1>1. PICK off : Sums(ext, size, off) /\ Stored(d, f, ext, off, lack)
  BY DEF ReadsFrom
<1>2. ASSUME NEW i \in 1..Len(ext), NEW j \in 1..ext[i].n, off[i - 1] + j # lack
      PROVE  ext[i].lbn + j <= Len(e) /\ e[ext[i].lbn + j] = <<f, off[i - 1] + j>>
  <2>1. ext[i].lbn + j <= Len(d) /\ d[ext[i].lbn + j] = <<f, off[i - 1] + j>>
    BY <1>1, <1>2 DEF Stored
  <2>2. off[i - 1] \in Nat /\ j \in Nat \ {0} /\ ext[i].lbn \in Nat /\ off[i - 1] + j \in Nat
    BY <1>1, OneSum, OneExtent
  <2>3. d[ext[i].lbn + j] # Zero
    BY <2>1, <2>2, NotFiles
  <2>4. ext[i].lbn + j \in 1..Len(d) /\ ext[i].lbn + j <= Len(e)
    BY <2>1, <2>2
  <2>. QED  BY <2>1, <2>3, <2>4
<1>3. Stored(e, f, ext, off, lack)
  BY <1>2 DEF Stored
<1>. QED  BY <1>1, <1>3 DEF ReadsFrom

(* The mirror and the anchor take no sector of data.                       *)
LEMMA MirroredEnded ==
  ASSUME NEW s, NEW t, Ended(s), Mirrored(s, t)
  PROVE  Ended(t)
<1>1. /\ AtEnd(s) /\ AtEnd(t) /\ s.disk \in Seq(Cell) /\ t.disk \in Seq(Cell) /\ t.ent = s.ent
      /\ Len(s.disk) \in Nat /\ Len(t.disk) \in Nat /\ Len(s.disk) <= Len(t.disk)
  BY FieldsOfImage DEF Mirrored
<1>2. AllRead(t)
  <2> SUFFICES ASSUME NEW f \in Files, f[1] # "ssif"
               PROVE  ReadsFrom(t.disk, f, s.ent[f].ext, s.ent[f].size, Lacking(s.ent[f]))
    BY <1>1 DEF AllRead
  <2> DEFINE d == s.disk  e == t.disk  y == s.ent[f].ext  z == s.ent[f].size  l == Lacking(s.ent[f])
  <2>1. ReadsFrom(d, f, y, z, l) /\ y \in Seq(Extent)
    BY <1>1, OneEntry DEF Ended, AllRead
  <2>2. /\ d \in Seq(Cell) /\ e \in Seq(Cell) /\ Len(d) <= Len(e)
        /\ \A i \in 1..Len(d) : d[i] # Zero => e[i] = d[i]
    BY <1>1 DEF Mirrored
  <2> HIDE DEF d, e, y, z, l
  <2>3. ReadsFrom(e, f, y, z, l)
    BY <2>1, <2>2, ReadsData
  <2>. QED  BY <2>3 DEF e, y, z, l
<1>3. DataFree(t)
  <2> SUFFICES ASSUME NEW k \in 1..Len(t.disk), InZone(k - 1) PROVE t.disk[k] \in {Zero, Mirror}
    BY DEF DataFree
  <2>1. CASE k <= Len(s.disk)
    <3>1. k \in 1..Len(s.disk)
      BY <1>1, <2>1
    <3>2. s.disk[k] \in {Zero, Mirror}
      BY <3>1 DEF Ended, DataFree
    <3>. QED  BY <3>1, <3>2 DEF Mirrored
  <2>2. CASE ~(k <= Len(s.disk))
    <3>1. k \in Len(s.disk) + 1..Len(t.disk)
      BY <1>1, <2>2
    <3>. QED  BY <3>1 DEF Mirrored
  <2>. QED  BY <2>1, <2>2
<1>4. HeldCounted(t) /\ NoTail(t)
  BY <1>1 DEF Ended, HeldCounted, NoTail, Mirrored
<1>. QED  BY <1>1, <1>2, <1>3, <1>4 DEF Ended

(* Padding takes no sector of data.                                        *)
LEMMA PaddedMirrored ==
  ASSUME NEW s, NEW t, Padded(s, t)
  PROVE  Mirrored(s, t)
BY DEF Padded, Mirrored

\* The mirror begins with its file entry
MirrorAt(s, lbn) == Put([s EXCEPT !.pos = lbn - 1], Same(Mirror, 1 + Meta))

(* The sectors of the mirror.                                              *)
LEMMA MirrorCells ==
  /\ Same(Mirror, 1 + Meta) \in Seq(Cell) /\ Len(Same(Mirror, 1 + Meta)) = 1 + Meta
  /\ \A i \in 1..1 + Meta : Same(Mirror, 1 + Meta)[i] = Mirror
<1> DEFINE n == 1 + Meta
<1>1. n \in Int /\ n > 0
  BY Constants
<1> HIDE DEF n
<1>2. /\ Same(Mirror, n) \in Seq({Mirror}) /\ Len(Same(Mirror, n)) = (IF n > 0 THEN n ELSE 0)
      /\ \A i \in 1..n : Same(Mirror, n)[i] = Mirror
  BY <1>1, SameCells
<1>3. {Mirror} \subseteq Cell
  BY NotFiles
<1>4. Same(Mirror, n) \in Seq(Cell) /\ Len(Same(Mirror, n)) = n
  BY <1>1, <1>2, <1>3
<1>. QED  BY <1>2, <1>4 DEF n

\* t is s with the mirror, wherever the next write goes
MirrorPut(s, t) ==
  /\ t \in Image /\ t.ent = s.ent /\ t.heldBytes = s.heldBytes
  /\ Len(s.disk) <= Len(t.disk)
  /\ \A i \in 1..Len(s.disk) : t.disk[i] = s.disk[i] \/ (s.disk[i] = Zero /\ t.disk[i] = Mirror)
  /\ \A i \in Len(s.disk) + 1..Len(t.disk) : t.disk[i] \in {Zero, Mirror}

(* A mirror behind the data takes no sector of it.                         *)
LEMMA MirrorBehind ==
  ASSUME NEW s, AtEnd(s)
  PROVE  MirrorPut(s, MirrorAt(s, s.pos + 1))
<1> DEFINE c == Same(Mirror, 1 + Meta)  n == 1 + Meta  L == Len(s.disk)  t == Put(s, c)
<1>1. /\ s \in Image /\ s.pos \in Nat /\ s.disk \in Seq(Cell) /\ L \in Nat /\ Meta \in Nat
  BY FieldsOfImage, Constants
<1>2. MirrorAt(s, s.pos + 1) = t
  <2>1. (s.pos + 1) - 1 = s.pos
    BY <1>1
  <2>2. [s EXCEPT !.pos = (s.pos + 1) - 1] = s
    BY <1>1, <2>1 DEF Image
  <2> HIDE DEF c
  <2>. QED  BY <2>2 DEF MirrorAt, c
<1>3. c \in Seq(Cell) /\ Len(c) = n /\ \A i \in 1..n : c[i] = Mirror
  BY MirrorCells
<1> HIDE DEF c
<1>4. /\ t = [s EXCEPT !.disk = s.disk \o c, !.pos = s.pos + Len(c)]
      /\ AtEnd(t) /\ Len(t.disk) = L + Len(c)
      /\ (\A i \in 1..L : t.disk[i] = s.disk[i])
      /\ \A i \in 1..Len(c) : t.disk[L + i] = c[i]
  BY <1>3, PutAtEnd
<1> HIDE DEF t
<1>5. t \in Image /\ t.ent = s.ent /\ t.heldBytes = s.heldBytes
  BY <1>1, <1>4 DEF AtEnd, Image
<1> HIDE DEF L
<1>6. \A i \in L + 1..Len(t.disk) : t.disk[i] = Mirror
  <2> SUFFICES ASSUME NEW i \in L + 1..L + n PROVE t.disk[i] = Mirror
    BY <1>3, <1>4
  <2>1. i - L \in 1..n /\ L + (i - L) = i
    BY <1>1
  <2>. QED  BY <1>3, <1>4, <2>1
<1>7. L <= Len(t.disk)
  BY <1>1, <1>3, <1>4
<1>. QED  BY <1>2, <1>4, <1>5, <1>6, <1>7 DEF MirrorPut, L

(* Nor does one at the place kept for it.                                  *)
LEMMA MirrorInPlace ==
  ASSUME NEW s, AtEnd(s), s.placed, MirrorClear(s)
  PROVE  MirrorPut(s, MirrorAt(s, s.mirror))
<1> DEFINE c == Same(Mirror, 1 + Meta)  n == 1 + Meta  L == Len(s.disk)  p == s.mirror - 1
           a == [s EXCEPT !.pos = p]  t == Put(a, c)
<1>1. /\ s \in Image /\ s.disk \in Seq(Cell) /\ L \in Nat /\ Meta \in Nat
      /\ s.mirror \in 1..L - Meta /\ \A k \in s.mirror..s.mirror + Meta : s.disk[k] = Zero
  BY FieldsOfImage, Constants DEF MirrorClear
<1>2. MirrorAt(s, s.mirror) = t
  BY DEF MirrorAt
<1>3. c \in Seq(Cell) /\ Len(c) = n /\ \A i \in 1..n : c[i] = Mirror
  BY MirrorCells
<1>4. p \in Nat /\ p + n <= L /\ p + 1 = s.mirror /\ p + n = s.mirror + Meta
  BY <1>1
<1> HIDE DEF c, p
<1>5. a \in Image /\ a.pos = p /\ a.disk = s.disk /\ a.ent = s.ent /\ a.heldBytes = s.heldBytes
  BY <1>1, <1>4 DEF Image
<1>6. a.pos + Len(c) <= Len(a.disk)
  BY <1>3, <1>4, <1>5
<1> HIDE DEF a
<1>7. /\ t \in Image /\ t = [a EXCEPT !.disk = t.disk, !.pos = a.pos + Len(c)]
      /\ Len(t.disk) = Len(a.disk)
      /\ \A i \in 1..Len(a.disk) : t.disk[i] =
           IF i \in a.pos + 1..a.pos + Len(c) THEN c[i - a.pos] ELSE a.disk[i]
  BY <1>3, <1>5, <1>6, PutOver
<1> HIDE DEF t
<1>8. t.ent = s.ent /\ t.heldBytes = s.heldBytes
  BY <1>5, <1>7 DEF Image
<1>9. ASSUME NEW i \in 1..L
      PROVE  t.disk[i] = s.disk[i] \/ (s.disk[i] = Zero /\ t.disk[i] = Mirror)
  <2>1. t.disk[i] = IF i \in p + 1..p + n THEN c[i - p] ELSE s.disk[i]
    BY <1>3, <1>5, <1>7
  <2>2. CASE i \in p + 1..p + n
    <3>1. i - p \in 1..n /\ i \in s.mirror..s.mirror + Meta
      BY <1>1, <1>4, <2>2
    <3>. QED  BY <1>1, <1>3, <2>1, <2>2, <3>1
  <2>3. CASE i \notin p + 1..p + n
    BY <2>1, <2>3
  <2>. QED  BY <2>2, <2>3
<1>10. Len(t.disk) = L
  BY <1>5, <1>7
<1> HIDE DEF L
<1>11. L + 1..L = {}
  BY <1>1
<1>. QED  BY <1>1, <1>2, <1>7, <1>8, <1>9, <1>10, <1>11 DEF MirrorPut, L

(* How far the next block is.                                              *)
LEMMA ToBlockNat ==
  ASSUME NEW lbn \in Int
  PROVE  ToBlock(lbn) \in Nat
BY Constants DEF ToBlock

(* The mirror, the padding and the anchor leave every file readable.       *)
LEMMA WriteMirrorEnds ==
  ASSUME layout \in Layouts, NEW s, Sound(s), NoTail(s)
  PROVE  Ended(WriteMirror(s))
<1> DEFINE end == IF s.placed THEN ToBlock(s.pos) ELSE ToBlock(s.pos + 1)
           p == FillZeroSectors(s, end)
           lbn == IF s.placed THEN s.mirror ELSE p.pos + 1
           m == MirrorAt(p, lbn)
           n == Len(m.disk)
           e == [m EXCEPT !.pos = n, !.mirror = lbn]
           t == FillZeroSectors(e, Block)
<1>1. WriteMirror(s) = t
  BY DEF WriteMirror, MirrorAt
<1>2. AtEnd(s) /\ s.pos \in Nat /\ s.placed \in BOOLEAN
  BY FieldsOfImage DEF Sound
<1>3. end \in Int
  <2>1. s.pos \in Int /\ s.pos + 1 \in Int
    BY <1>2
  <2>2. ToBlock(s.pos) \in Nat /\ ToBlock(s.pos + 1) \in Nat
    BY <2>1, ToBlockNat
  <2>. QED  BY <2>2
<1> HIDE DEF end
<1>4. Padded(s, p) /\ p.placed = s.placed
  BY <1>2, <1>3, PaddedFill
<1>5. Sound(p) /\ NoTail(p)
  BY <1>4, PaddedSound
<1> HIDE DEF p
<1>6. AtEnd(p) /\ p.pos \in Nat /\ p.mirror \in Nat /\ (s.placed => p.mirror = s.mirror)
  BY <1>4, <1>5, FieldsOfImage DEF Sound, Padded
<1>7. MirrorPut(p, m) /\ lbn \in Nat
  <2>1. CASE s.placed
    <3>1. lbn = p.mirror
      BY <1>6, <2>1
    <3>2. MirrorPut(p, MirrorAt(p, p.mirror))
      BY <1>4, <1>5, <1>6, <2>1, MirrorInPlace DEF Sound
    <3>. QED  BY <1>6, <3>1, <3>2
  <2>2. CASE ~s.placed
    <3>1. lbn = p.pos + 1
      BY <2>2
    <3>2. MirrorPut(p, MirrorAt(p, p.pos + 1))
      BY <1>6, MirrorBehind
    <3>. QED  BY <1>6, <3>1, <3>2
  <2>. QED  BY <2>1, <2>2
<1> HIDE DEF m, lbn
<1>8. m \in Image /\ n \in Nat
  <2>1. m \in Image
    BY <1>7 DEF MirrorPut
  <2>. QED  BY <2>1 DEF Image
<1> HIDE DEF n
<1>9. e \in Image /\ e.disk = m.disk /\ e.pos = n /\ e.ent = m.ent /\ e.heldBytes = m.heldBytes
  BY <1>7, <1>8 DEF Image
<1> HIDE DEF e
<1>10. Mirrored(p, e)
  BY <1>6, <1>7, <1>9 DEF Mirrored, MirrorPut, AtEnd, n
<1>11. Ended(p)
  BY <1>5 DEF Ended, Sound
<1>12. Ended(e)
  BY <1>10, <1>11, MirroredEnded
<1>13. Padded(e, t)
  BY <1>12, Constants, PaddedFill DEF Ended
<1> HIDE DEF t
<1>14. Ended(t)
  BY <1>12, <1>13, PaddedMirrored, MirroredEnded
<1>. QED  BY <1>1, <1>14

(* The image that is closed                                                *)
LEMMA CloseEnds ==
  ASSUME layout \in Layouts, NEW s, Sound(s), NoTail(s)
  PROVE  Ended(WriteMirror(WriteDeferredFiles(MoveBackLookAhead(s))))
<1> DEFINE b == MoveBackLookAhead(s)
           q == b.queue
           w == FoldLeft(WriteDeferred, b, q)
           d == [w EXCEPT !.queue = <<>>]
<1>1. Sound(b) /\ NoTail(b)
  BY MoveBackSound
<1> HIDE DEF b
<1>2. b \in Whole /\ q \in Seq(Files)
  BY <1>1, FieldsOfImage DEF Whole, Sound, AtEnd
<1> HIDE DEF q
<1>3. w \in Whole
  BY <1>2, DeferredFold
<1>4. WriteDeferredFiles(b) = d
  BY DEF WriteDeferredFiles, q
<1> HIDE DEF w
<1>5. Sound(w) /\ NoTail(w) /\ AtEnd(w)
  BY <1>3 DEF Whole, Sound
<1>6. /\ AtEnd(d) /\ d.disk = w.disk /\ d.pos = w.pos /\ d.last = w.last /\ d.gaps = w.gaps
      /\ d.padsBefore = w.padsBefore /\ d.pads = w.pads /\ d.placed = w.placed
      /\ d.mirror = w.mirror /\ d.ent = w.ent /\ d.heldBytes = w.heldBytes
  <2>1. <<>> \in Seq(Files)
    OBVIOUS
  <2>. QED  BY <1>5, <2>1 DEF AtEnd, Image
<1> HIDE DEF d
<1>7. HeldApart(w, d) /\ HeldCounted(d)
  BY <1>5, <1>6 DEF HeldApart, HeldCounted, Sound
<1>8. Sound(d) /\ NoTail(d)
  BY <1>5, <1>7, HeldApartSound
<1>9. Ended(WriteMirror(d))
  BY <1>8, WriteMirrorEnds
<1>. QED  BY <1>4, <1>9 DEF b

-----------------------------------------------------------------------------
(* The invariant *)

Place == [turn : {"dep", "base"}, piece : Nat, dep : Nat, base : Nat, item : Nat]

\* Where the job is
Placing ==
  /\ layout \in Layouts /\ job \in Jobs
  /\ phase \in {"pairs", "items", "copying", "written", "closed", "refused"}
  /\ at \in Place /\ at.base \in 1..MaxParts /\ at.item # 0
  /\ phase = "pairs" => job.switcher # "" /\ at.base <= at.dep /\ at.dep <= MaxParts
  /\ phase = "copying" =>
       /\ at.item <= Len(job.items) /\ at.piece # 0
       /\ at.piece <= Len(Item.pieces) => at.dep < Item.pieces[at.piece]

\* The last piece of the item is written.
Ending == phase = "copying" /\ at.piece > Len(Item.pieces)

\* A partial sector waits in the item that ends, held back or not, or in a copy before it.
Tails ==
  \A f \in Files : iso.ent[f].tail =>
    Ending /\ (f = Name(at.item) \/ (Item.kind = "group" /\ f = <<"base", at.item>>))
HeldTails ==
  phase # "closed" =>
    \A f \in Files : iso.ent[f].heldTail =>
      f[1] = "copy" /\ (f[2] < at.item \/ (f[2] = at.item /\ Ending))
\* The image, until it is closed and after.
StoredWell == IF phase = "closed" THEN Ended(iso) ELSE Sound(iso)
IInv == Placing /\ Tails /\ HeldTails /\ StoredWell

\* What an action that ends no item leaves
Clear(s) == Sound(s) /\ NoTail(s)

(* An item of the job                                                      *)
LEMMA OneItem ==
  ASSUME job \in Jobs, NEW i \in 1..Len(job.items)
  PROVE  /\ i \in 1..MaxParts /\ Name(i) \in Files /\ Name(i)[1] # "ssif" /\ Name(i)[2] = i
         /\ (Name(i)[1] = "copy" => job.items[i].kind = "copy")
         /\ <<"base", i>> \in Files /\ <<"dep", i>> \in Files
         /\ job.items[i].kind \in {"stream", "file", "copy", "group"}
         /\ job.items[i].pieces \in Seq(Nat \ {0}) /\ Len(job.items[i].pieces) \in Nat
         /\ job.items[i].tail \in BOOLEAN
         /\ job.items[i].kind = "group" => Len(job.items[i].pieces) % 2 = 0
         /\ job.items[i].kind = "group" => Name(i) = <<"dep", i>>
         /\ job.items[i].kind # "group" => Name(i) = <<job.items[i].kind, i>>
<1> DEFINE Item1 == [kind : {"stream", "file", "copy", "group"}, pieces : Seq(Nat \ {0}), tail : BOOLEAN]
<1>1. IsJob(job) /\ Len(job.items) <= MaxParts
  BY IsoAssumption
<1>2. job.items \in Seq(Item1)
  BY <1>1 DEF IsJob
<1> HIDE DEF Item1
<1>3. i \in DOMAIN job.items /\ job.items[i] \in Item1 /\ Len(job.items) \in Nat
  BY <1>2
<1>4. job.items[i].kind = "group" => Len(job.items[i].pieces) % 2 = 0
  BY <1>1, <1>3 DEF IsJob
<1>5. /\ job.items[i].kind \in {"stream", "file", "copy", "group"} /\ job.items[i].tail \in BOOLEAN
      /\ job.items[i].pieces \in Seq(Nat \ {0})
  BY <1>3 DEF Item1
<1>6. i \in 1..MaxParts
  BY <1>1, <1>3, Constants
<1>7. Len(job.items[i].pieces) \in Nat
  BY <1>5
<1> DEFINE kind == job.items[i].kind
           name == IF kind = "group" THEN "dep" ELSE kind
<1>8. name \in {"dep", "stream", "file", "copy"}
  BY <1>5
<1>9. Name(i) = <<name, i>> /\ (kind = "group" => name = "dep") /\ (kind # "group" => name = kind)
  BY DEF Name
<1>10. <<"base", i>> \in Files /\ <<"dep", i>> \in Files
  BY <1>6 DEF Files
<1> HIDE DEF kind, name
<1>11. Name(i) \in Files /\ Name(i)[1] # "ssif" /\ Name(i)[1] = name /\ Name(i)[2] = i
  BY <1>6, <1>8, <1>9 DEF Files
<1>12. /\ Name(i)[1] = "copy" => kind = "copy"
       /\ kind = "group" => Name(i) = <<"dep", i>>
       /\ kind # "group" => Name(i) = <<kind, i>>
  BY <1>9, <1>11
<1>. QED  BY <1>4, <1>5, <1>6, <1>7, <1>10, <1>11, <1>12 DEF kind

(* The first states                                                        *)
LEMMA InitInv == Init => IInv
<1> SUFFICES ASSUME Init PROVE IInv
  OBVIOUS
<1>1. Empty \in Image
  <2>1. Fresh \in Entry
    BY DEF Fresh, Entry
  <2>2. [f \in Files |-> Fresh] \in [Files -> Entry] /\ None \in Names
    BY <2>1 DEF Names
  <2>. QED  BY <2>2 DEF Empty, Image
<1>2. /\ AtEnd(Empty) /\ Empty.disk = <<>> /\ Empty.last = None /\ Empty.placed = FALSE
      /\ Empty.gaps = <<>> /\ Empty.pads = <<>> /\ Empty.padsBefore = 0 /\ Empty.heldBytes = 0
      /\ \A f \in Files : Empty.ent[f] = Fresh
  BY <1>1 DEF Empty, AtEnd
<1>3. /\ Fresh.ext = <<>> /\ Fresh.size = 0 /\ Fresh.tail = FALSE /\ Fresh.deferred = FALSE
      /\ Fresh.held = 0 /\ Fresh.heldTail = FALSE
  BY DEF Fresh
<1>4. AllRead(Empty)
  <2> SUFFICES ASSUME NEW f \in Files PROVE ReadsFrom(Empty.disk, f, <<>>, 0, 0)
    BY <1>2, <1>3 DEF AllRead, Lacking
  <2> DEFINE off == [i \in 0..Len(<<>>) |-> 0]
  <2>1. Sums(<<>>, 0, off) /\ Stored(Empty.disk, f, <<>>, off, 0)
    BY DEF Sums, Stored
  <2> HIDE DEF off
  <2>. QED  BY <2>1 DEF ReadsFrom
<1>5. HeldCounted(Empty)
  <2> DEFINE acc == [p \in 0..MaxParts |-> 0]
  <2>1. \A p \in 1..MaxParts : <<"copy", p>> \in Files
    BY CopyNames
  <2>2. Adds(Empty.ent, acc) /\ acc[MaxParts] = 0
    BY <1>2, <1>3, <2>1, Constants DEF Adds
  <2> HIDE DEF acc
  <2>. QED  BY <1>2, <1>3, <2>2, Constants DEF HeldCounted
<1>6. Sound(Empty)
  BY <1>2, <1>3, <1>4, <1>5 DEF Sound, LastEnds, TailEnds, MirrorClear, GapsClear, DataFree
<1>7. Placing
  <2>1. 1 \in 1..MaxParts
    BY Constants
  <2>2. at = [turn |-> "dep", piece |-> 0, dep |-> 1, base |-> 1, item |-> 1] /\ layout \in Layouts
        /\ job \in Jobs /\ phase = IF job.switcher # "" THEN "pairs" ELSE "items"
    BY DEF Init
  <2>3. at \in Place /\ at.base = 1 /\ at.dep = 1 /\ at.item = 1
    BY <2>2 DEF Place
  <2>4. phase \in {"pairs", "items"} /\ (phase = "pairs" => job.switcher # "")
    BY <2>2
  <2>5. MaxParts \in Nat /\ 1 <= MaxParts
    BY Constants
  <2>6. at.base \in 1..MaxParts /\ at.item # 0 /\ at.base <= at.dep /\ at.dep <= MaxParts
    BY <2>1, <2>3, <2>5
  <2>7. phase # "copying" /\ phase \in {"pairs", "items", "copying", "written", "closed", "refused"}
    BY <2>4
  <2>8. layout \in Layouts /\ job \in Jobs /\ at \in Place
    BY <2>2, <2>3
  <2>. QED  BY <2>4, <2>6, <2>7, <2>8 DEF Placing
<1>8. iso = Empty /\ phase \in {"pairs", "items"}
  BY DEF Init
<1>. QED  BY <1>2, <1>3, <1>6, <1>7, <1>8 DEF IInv, Tails, HeldTails, StoredWell

(* Where no item ends, no sector waits, but in the copies before.          *)
LEMMA BetweenItems ==
  ASSUME IInv, ~Ending, phase # "closed"
  PROVE  /\ Sound(iso) /\ NoTail(iso) /\ layout \in Layouts
         /\ \A f \in Files : iso.ent[f].heldTail => f[1] = "copy" /\ f[2] < at.item
<1>1. Sound(iso) /\ layout \in Layouts
  BY DEF IInv, StoredWell, Placing
<1>2. NoTail(iso)
  BY DEF IInv, Tails, NoTail
<1>3. \A f \in Files : iso.ent[f].heldTail => f[1] = "copy" /\ f[2] < at.item
  BY DEF IInv, HeldTails
<1>. QED  BY <1>1, <1>2, <1>3

(* The disc does not change.                                               *)
LEMMA SameDisc ==
  ASSUME layout' = layout
  PROVE  (Sound(iso') => Sound(iso)') /\ (Ended(iso') => Ended(iso)')
<1>1. (AllRead(iso') <=> AllRead(iso)') /\ (LastEnds(iso') <=> LastEnds(iso)')
  BY DEF AllRead, LastEnds
<1>2. (MirrorClear(iso') <=> MirrorClear(iso)') /\ (GapsClear(iso') <=> GapsClear(iso)')
  BY DEF MirrorClear, GapsClear
<1>3. (HeldCounted(iso') <=> HeldCounted(iso)') /\ (NoTail(iso') <=> NoTail(iso)')
  BY DEF HeldCounted, NoTail
<1>4. \A lbn : InZone(lbn)' <=> InZone(lbn)
  BY DEF InZone, BreaksApart, Zones, ZoneStart, ZoneEnd
<1>5. (DataFree(iso') <=> DataFree(iso)') /\ (TailEnds(iso') <=> TailEnds(iso)')
  BY <1>4 DEF DataFree, TailEnds, InZone, BreaksApart, Zones, ZoneStart, ZoneEnd
<1>6. AtEnd(iso') <=> AtEnd(iso)'
  BY DEF AtEnd
<1>. QED  BY <1>1, <1>2, <1>3, <1>5, <1>6 DEF Sound, Ended

(* An action between two items: no sector waits after it.                  *)
LEMMA StaysClear ==
  ASSUME IInv, phase # "closed", ~Ending, Sound(iso'), NoTail(iso'), phase' # "closed", Placing',
         layout' = layout, at'.item = at.item,
         \A f \in Files : iso'.ent[f].heldTail => iso.ent[f].heldTail
  PROVE  IInv'
<1>1. \A f \in Files : ~iso'.ent[f].tail
  BY DEF NoTail
<1>2. Tails'
  BY <1>1 DEF Tails
<1>3. \A f \in Files : iso'.ent[f].heldTail => f[1] = "copy" /\ f[2] < at.item
  BY BetweenItems
<1>4. HeldTails'
  BY <1>3 DEF HeldTails
<1>5. StoredWell'
  BY SameDisc DEF StoredWell
<1>. QED  BY <1>2, <1>4, <1>5 DEF IInv

(* A piece of a view                                                       *)
LEMMA WritePieceInv ==
  ASSUME IInv, NEW f \in Files, f[1] \in {"dep", "base"}, NEW n, OneWrite(n), NEW piece \in Nat,
         WritePiece(f, n, piece)
  PROVE  IInv'
<1>1. /\ phase = "pairs" /\ phase' = "pairs" /\ layout' = layout /\ job' = job
      /\ iso' = Write(iso, f, n, FALSE) /\ at' = [at EXCEPT !.turn = f[1], !.piece = piece]
  BY DEF WritePiece
<1>2. ~Ending /\ phase # "closed"
  BY <1>1 DEF Ending
<1>3. /\ Sound(iso) /\ NoTail(iso) /\ layout \in Layouts /\ ~iso.ent[f].heldTail
  BY <1>2, BetweenItems
<1>4. LET t == Write(iso, f, n, FALSE) IN
      /\ Sound(t) /\ (\A g \in Files : t.ent[g].tail => g = f /\ FALSE)
      /\ \A g \in Files : t.ent[g].heldTail => \/ iso.ent[g].heldTail
                                               \/ g = f /\ FALSE /\ iso.ent[f].deferred
  BY <1>3, WriteSound
<1>5. Sound(iso') /\ NoTail(iso') /\ \A g \in Files : iso'.ent[g].heldTail => iso.ent[g].heldTail
  BY <1>1, <1>4 DEF NoTail
<1>6. Placing' /\ at'.item = at.item
  <2>1. Placing
    BY DEF IInv
  <2>2. at' \in Place /\ at'.base = at.base /\ at'.dep = at.dep /\ at'.item = at.item
    BY <1>1, <2>1 DEF Placing, Place
  <2>. QED  BY <1>1, <2>1, <2>2 DEF Placing
<1>. QED  BY <1>1, <1>2, <1>5, <1>6, StaysClear

(* A view goes on with its next part.                                      *)
LEMMA NextFileSound ==
  ASSUME layout \in Layouts, NEW s, Clear(s), NEW view \in {"dep", "base"}, NEW p \in 1..MaxParts,
         p + 1 \in 1..MaxParts
  PROVE  LET t == NextFile(s, view, p) IN
         Clear(t) /\ \A g \in Files : t.ent[g].heldTail = s.ent[g].heldTail
<1> DEFINE f == <<view, p>>
           h == <<view, p + 1>>
           c == CloseFile(s, f)
           t == Open(c, h)
<1>1. f \in Files /\ h \in Files
  BY DEF Files
<1>2. NextFile(s, view, p) = t
  BY DEF NextFile
<1> HIDE DEF f, h
<1>3. Sound(c) /\ Kept(s, c) /\ \A g \in Files : c.ent[g].tail => s.ent[g].tail /\ g # f
  BY <1>1, CloseFileSound DEF Clear
<1>4. Sound(c) /\ NoTail(c) /\ \A g \in Files : c.ent[g].heldTail = s.ent[g].heldTail
  BY <1>3 DEF Kept, NoTail, Clear
<1> HIDE DEF c
<1>5. Sound(t) /\ NoTail(t) /\ \A g \in Files : t.ent[g].heldTail = c.ent[g].heldTail
  BY <1>1, <1>4, OpenSound
<1>. QED  BY <1>2, <1>4, <1>5 DEF Clear

(* A view's next part keeps the image sound.                               *)
LEMMA NextFileInv ==
  ASSUME NEW s, layout \in Layouts, Clear(s), NEW p, p \in 1..MaxParts, p + 1 \in 1..MaxParts
  PROVE  /\ Clear(NextFile(s, "dep", p)) /\ Clear(NextFile(s, "base", p))
         /\ \A g \in Files : /\ NextFile(s, "dep", p).ent[g].heldTail = s.ent[g].heldTail
                             /\ NextFile(s, "base", p).ent[g].heldTail = s.ent[g].heldTail
BY NextFileSound

(* What is left of an action of a 3D mux                                   *)
LEMMA PairsInv ==
  ASSUME IInv, phase = "pairs", NEW t, Clear(t),
         \A g \in Files : t.ent[g].heldTail = iso.ent[g].heldTail,
         iso' = t, layout' = layout, job' = job, phase' \in {"pairs", "items"},
         at' \in Place, at'.item = at.item, at'.base \in 1..MaxParts,
         at'.base <= at'.dep, at'.dep <= MaxParts
  PROVE  IInv'
<1>1. ~Ending /\ phase # "closed" /\ phase' # "closed"
  BY DEF Ending
<1>2. Sound(iso') /\ NoTail(iso') /\ \A g \in Files : iso'.ent[g].heldTail => iso.ent[g].heldTail
  BY DEF Clear
<1>3. Placing
  BY DEF IInv
<1>4. job.switcher # "" /\ at.item # 0 /\ layout \in Layouts /\ job \in Jobs
  BY <1>3 DEF Placing
<1>5. phase' # "copying" /\ phase' \in {"pairs", "items", "copying", "written", "closed", "refused"}
  OBVIOUS
<1>6. Placing'
  BY <1>4, <1>5 DEF Placing
<1>. QED  BY <1>1, <1>2, <1>6, StaysClear

(* What the invariant says during a 3D mux.                                *)
LEMMA PairsClear ==
  ASSUME IInv, phase = "pairs"
  PROVE  /\ Clear(iso) /\ layout \in Layouts /\ at \in Place /\ at.item # 0
         /\ at.base \in 1..MaxParts /\ at.base <= at.dep /\ at.dep <= MaxParts
         /\ at.dep \in Nat /\ at.base \in Nat /\ at.piece \in Nat /\ MaxParts \in Nat
         /\ at.turn \in {"dep", "base"}
<1>1. ~Ending /\ phase # "closed"
  BY DEF Ending
<1>2. at \in Place /\ at.base \in 1..MaxParts /\ at.base <= at.dep /\ at.dep <= MaxParts /\ at.item # 0
  BY DEF IInv, Placing
<1>3. at.dep \in Nat /\ at.base \in Nat /\ at.piece \in Nat /\ at.turn \in {"dep", "base"}
  BY <1>2 DEF Place
<1>. QED  BY <1>1, <1>2, <1>3, Constants, BetweenItems DEF Clear

(* A piece of the second view keeps the invariant.                         *)
LEMMA WriteDepInv ==
  ASSUME IInv, NEW n \in 1..DepMax, WriteDep(n)
  PROVE  IInv'
<1> DEFINE f == <<"dep", at.dep>>
<1>1. \E piece : WritePiece(f, n, piece) /\ (piece = at.piece + n \/ piece = n)
  BY DEF WriteDep
<1>2. PICK piece : WritePiece(f, n, piece) /\ (piece = at.piece + n \/ piece = n)
  BY <1>1
<1>3. phase = "pairs"
  BY <1>2 DEF WritePiece
<1>4. at.dep \in 1..MaxParts /\ piece \in Nat
  <2>1. DepMax \in Nat /\ n \in Nat
    BY Constants
  <2>. QED  BY <1>2, <1>3, <2>1, PairsClear
<1>5. f \in Files /\ f[1] = "dep"
  BY <1>4 DEF Files
<1>6. OneWrite(n)
  <2>1. DepMax \in Nat /\ n \in Nat \ {0} /\ n <= DepMax
    BY Constants
  <2>. QED  BY <2>1 DEF OneWrite
<1> HIDE DEF f
<1>. QED  BY <1>2, <1>4, <1>5, <1>6, WritePieceInv

(* A piece of the base view keeps the invariant.                           *)
LEMMA WriteBaseInv ==
  ASSUME IInv, NEW n \in 1..BaseMax, WriteBase(n)
  PROVE  IInv'
<1> DEFINE f == <<"base", at.base>>
<1>1. \E piece : WritePiece(f, n, piece) /\ (piece = at.piece + n \/ piece = n)
  BY DEF WriteBase
<1>2. PICK piece : WritePiece(f, n, piece) /\ (piece = at.piece + n \/ piece = n)
  BY <1>1
<1>3. phase = "pairs"
  BY <1>2 DEF WritePiece
<1>4. at.base \in 1..MaxParts /\ piece \in Nat
  <2>1. BaseMax \in Nat /\ n \in Nat
    BY Constants
  <2>. QED  BY <1>2, <1>3, <2>1, PairsClear
<1>5. f \in Files /\ f[1] = "base"
  BY <1>4 DEF Files
<1>6. OneWrite(n)
  <2>1. BaseMax \in Nat /\ n \in Nat \ {0} /\ n <= BaseMax
    BY Constants
  <2>. QED  BY <2>1 DEF OneWrite
<1> HIDE DEF f
<1>. QED  BY <1>2, <1>4, <1>5, <1>6, WritePieceInv

(* Both views going on to a new part keeps the invariant.                  *)
LEMMA BaseSwitchesInv == ASSUME IInv, BaseSwitches PROVE IInv'
<1> DEFINE c == NextFile(iso, "dep", at.dep)
           t == NextFile(c, "base", at.base)
<1>1. /\ phase = "pairs" /\ at.base < MaxParts /\ at.dep = at.base /\ iso' = t /\ phase' = "pairs"
      /\ at' = [at EXCEPT !.dep = @ + 1, !.base = @ + 1, !.turn = "dep", !.piece = 0]
      /\ layout' = layout /\ job' = job
  BY DEF BaseSwitches, PairDone
<1>2. at.base + 1 \in 1..MaxParts /\ at.base \in 1..MaxParts
  BY <1>1, PairsClear
<1>3. Clear(c) /\ \A g \in Files : c.ent[g].heldTail = iso.ent[g].heldTail
  BY <1>1, <1>2, PairsClear, NextFileInv
<1> HIDE DEF c
<1>4. Clear(t) /\ \A g \in Files : t.ent[g].heldTail = c.ent[g].heldTail
  BY <1>1, <1>2, <1>3, PairsClear, NextFileInv
<1>5. at' \in Place /\ at'.item = at.item /\ at'.base = at.base + 1 /\ at'.dep = at.dep + 1
  <2>1. at \in Place /\ at.base + 1 \in Nat /\ at.dep + 1 \in Nat /\ 0 \in Nat
    BY <1>1, PairsClear
  <2> HIDE DEF t
  <2>2. at' = [at EXCEPT !.dep = at.dep + 1, !.base = at.base + 1, !.turn = "dep", !.piece = 0]
    BY <1>1
  <2>. QED  BY <2>1, <2>2 DEF Place
<1>6. at'.base \in 1..MaxParts /\ at'.base <= at'.dep /\ at'.dep <= MaxParts
  BY <1>1, <1>2, <1>5
<1>. QED  BY <1>1, <1>3, <1>4, <1>5, <1>6, PairsInv

(* The second view going on to a new part keeps the invariant.             *)
LEMMA DepSwitchesInv == ASSUME IInv, DepSwitches PROVE IInv'
<1> DEFINE t == NextFile(iso, "dep", at.dep)
<1>1. /\ phase = "pairs" /\ at.dep < MaxParts /\ at.dep = at.base /\ iso' = t /\ phase' = "pairs"
      /\ at' = [at EXCEPT !.dep = @ + 1] /\ layout' = layout /\ job' = job
  BY DEF DepSwitches
<1>2. at.dep + 1 \in 1..MaxParts /\ at.dep \in 1..MaxParts
  BY <1>1, PairsClear
<1>3. Clear(t) /\ \A g \in Files : t.ent[g].heldTail = iso.ent[g].heldTail
  BY <1>1, <1>2, PairsClear, NextFileInv
<1> HIDE DEF t
<1>4. at' \in Place /\ at'.item = at.item /\ at'.base = at.base /\ at'.dep = at.dep + 1
  BY <1>1, PairsClear DEF Place
<1>5. at'.base \in 1..MaxParts /\ at'.base <= at'.dep /\ at'.dep <= MaxParts
  BY <1>1, <1>2, <1>4
<1>. QED  BY <1>1, <1>3, <1>4, <1>5, PairsInv

(* The base view following it keeps the invariant.                         *)
LEMMA BaseFollowsInv == ASSUME IInv, BaseFollows PROVE IInv'
<1> DEFINE t == NextFile(iso, "base", at.base)
<1>1. /\ phase = "pairs" /\ at.base < at.dep /\ iso' = t /\ phase' = "pairs"
      /\ at' = [at EXCEPT !.base = @ + 1, !.turn = "dep", !.piece = 0]
      /\ layout' = layout /\ job' = job
  BY DEF BaseFollows
<1>2. at.base + 1 \in 1..MaxParts /\ at.base \in 1..MaxParts
  BY <1>1, PairsClear
<1>3. Clear(t) /\ \A g \in Files : t.ent[g].heldTail = iso.ent[g].heldTail
  BY <1>1, <1>2, PairsClear, NextFileInv
<1> HIDE DEF t
<1>4. at' \in Place /\ at'.item = at.item /\ at'.base = at.base + 1 /\ at'.dep = at.dep
  <2>1. at \in Place /\ at.base + 1 \in Nat /\ 0 \in Nat
    BY <1>1, PairsClear
  <2>2. at' = [at EXCEPT !.base = at.base + 1, !.turn = "dep", !.piece = 0]
    BY <1>1
  <2>. QED  BY <2>1, <2>2 DEF Place
<1>5. at'.base \in 1..MaxParts /\ at'.base <= at'.dep /\ at'.dep <= MaxParts
  BY <1>1, <1>2, <1>4, PairsClear
<1>. QED  BY <1>1, <1>3, <1>4, <1>5, PairsInv

(* Closing a file that lacks nothing changes no held back file.            *)
LEMMA ClosedClear ==
  ASSUME layout \in Layouts, NEW s, Clear(s), NEW f \in Files
  PROVE  LET t == CloseFile(s, f) IN
         Clear(t) /\ \A g \in Files : t.ent[g].heldTail = s.ent[g].heldTail
<1> DEFINE t == CloseFile(s, f)
<1>1. Sound(t) /\ Kept(s, t) /\ \A g \in Files : t.ent[g].tail => s.ent[g].tail /\ g # f
  BY CloseFileSound DEF Clear
<1> HIDE DEF t
<1>2. Clear(t) /\ \A g \in Files : t.ent[g].heldTail = s.ent[g].heldTail
  BY <1>1 DEF Kept, NoTail, Clear
<1>. QED  BY <1>2 DEF t

(* The end of a 3D mux keeps the invariant.                                *)
LEMMA EndOfMuxInv == ASSUME IInv, EndOfMux PROVE IInv'
<1> DEFINE f == <<"dep", at.dep>>
           h == <<"base", at.base>>
           c == CloseFile(iso, f)
           t == CloseFile(c, h)
<1>1. phase = "pairs" /\ iso' = t /\ phase' = "items" /\ at' = at /\ layout' = layout /\ job' = job
  BY DEF EndOfMux
<1>2. /\ Clear(iso) /\ layout \in Layouts /\ at \in Place /\ at.base \in 1..MaxParts
      /\ at.base <= at.dep /\ at.dep <= MaxParts /\ at.dep \in Nat /\ at.base \in Nat /\ MaxParts \in Nat
  BY <1>1, PairsClear
<1>3. at.dep \in 1..MaxParts
  BY <1>2
<1>4. f \in Files /\ h \in Files
  BY <1>2, <1>3 DEF Files
<1> HIDE DEF f, h
<1>5. Clear(c) /\ \A g \in Files : c.ent[g].heldTail = iso.ent[g].heldTail
  BY <1>2, <1>4, ClosedClear
<1> HIDE DEF c
<1>6. Clear(t) /\ \A g \in Files : t.ent[g].heldTail = c.ent[g].heldTail
  BY <1>2, <1>4, <1>5, ClosedClear
<1> HIDE DEF t
<1>. QED  BY <1>1, <1>2, <1>5, <1>6, PairsInv

\* t is s but for what is left empty
Spaced(s, t) == Clear(t) /\ \A g \in Files : t.ent[g].heldTail = s.ent[g].heldTail

(* Padding leaves the held back files alone.                               *)
LEMMA PaddedSpaced ==
  ASSUME layout \in Layouts, NEW s, Clear(s), NEW t, Padded(s, t)
  PROVE  Spaced(s, t)
<1>1. Sound(t) /\ NoTail(t)
  BY PaddedSound DEF Clear
<1>. QED  BY <1>1 DEF Spaced, Clear, Padded

(* Opening a file leaves the ends of the held back files alone.            *)
LEMMA OpenSpaced ==
  ASSUME layout \in Layouts, NEW s, Clear(s), NEW f \in Files
  PROVE  Spaced(s, Open(s, f))
BY OpenSound DEF Spaced, Clear

(* Layer-fit placement only pads.                                          *)
LEMMA FittedSpaced ==
  ASSUME layout \in Layouts, Clear(iso)
  PROVE  Spaced(iso, Fitted)
<1>1. Fitted = iso \/ Fitted = PadOverZoneIfFileCrosses(iso, Sectors(Item), Rest, IsStreamItem(Item))
  BY Zenon DEF Fitted
<1> DEFINE b == IsStreamItem(Item)
           n == Sectors(Item)
           r == Rest
<1>2. Fitted = iso \/ Fitted = PadOverZoneIfFileCrosses(iso, n, r, b)
  BY <1>1, Zenon
<1> HIDE DEF b, n, r
<1>3. AtEnd(iso)
  BY DEF Clear, Sound
<1>4. Padded(iso, PadOverZoneIfFileCrosses(iso, n, r, b))
  BY <1>3, PaddedOverZone, Zenon
<1>5. Spaced(iso, iso)
  BY DEF Spaced
<1>. QED  BY <1>2, <1>4, <1>5, PaddedSpaced

(* Where the job is, in the item                                           *)
LEMMA AtItem ==
  ASSUME IInv
  PROVE  /\ layout \in Layouts /\ job \in Jobs /\ at \in Place /\ at.item \in Nat \ {0}
         /\ at.piece \in Nat /\ at.dep \in Nat /\ at.base \in 1..MaxParts
         /\ Len(job.items) \in Nat /\ Item = job.items[at.item]
<1>1. layout \in Layouts /\ job \in Jobs /\ at \in Place /\ at.item # 0 /\ at.base \in 1..MaxParts
  BY DEF IInv, Placing
<1>2. IsJob(job)
  BY <1>1, IsoAssumption
<1>3. Len(job.items) \in Nat
  <2> DEFINE Item1 == [kind : {"stream", "file", "copy", "group"}, pieces : Seq(Nat \ {0}), tail : BOOLEAN]
  <2>1. job.items \in Seq(Item1)
    BY <1>2 DEF IsJob
  <2> HIDE DEF Item1
  <2>. QED  BY <2>1
<1>. QED  BY <1>1, <1>3 DEF Place, Item

(* The start of an item keeps the invariant.                               *)
LEMMA StartItemInv == ASSUME IInv, StartItem PROVE IInv'
<1> DEFINE b == IF Item.kind = "group" THEN Open(Fitted, <<"base", at.item>>) ELSE Fitted
           t == Open(b, Name(at.item))
<1>1. /\ phase = "items" /\ at.item <= Len(job.items) /\ iso' = t /\ phase' = "copying"
      /\ at' = [at EXCEPT !.turn = "dep", !.piece = 1, !.dep = 0]
      /\ layout' = layout /\ job' = job
  BY DEF StartItem, ItemsLeft
<1>2. ~Ending /\ phase # "closed" /\ phase' # "closed"
  BY <1>1 DEF Ending
<1>3. Clear(iso) /\ layout \in Layouts
  BY <1>2, BetweenItems DEF Clear
<1>4. at.item \in 1..Len(job.items) /\ job \in Jobs
  BY <1>1, AtItem
<1>5. Name(at.item) \in Files /\ <<"base", at.item>> \in Files
  BY <1>4, OneItem
<1>6. Spaced(iso, b)
  <2>1. Spaced(iso, Fitted)
    BY <1>3, FittedSpaced
  <2>2. Spaced(Fitted, Open(Fitted, <<"base", at.item>>))
    BY <1>3, <1>5, <2>1, OpenSpaced DEF Spaced
  <2>. QED  BY <2>1, <2>2 DEF Spaced
<1> HIDE DEF b
<1>7. Spaced(b, t)
  BY <1>3, <1>5, <1>6, OpenSpaced DEF Spaced
<1> HIDE DEF t
<1>8. Sound(iso') /\ NoTail(iso') /\ \A f \in Files : iso'.ent[f].heldTail => iso.ent[f].heldTail
  BY <1>1, <1>6, <1>7 DEF Spaced, Clear
<1>9. at' \in Place /\ at'.item = at.item /\ at'.piece = 1 /\ at'.dep = 0 /\ at'.base = at.base
  BY <1>1, AtItem DEF Place
<1>10. Placing'
  <2>1. at.item # 0 /\ at.base \in 1..MaxParts
    BY AtItem
  <2>2. at'.piece <= Len(Item'.pieces) => at'.dep < Item'.pieces[at'.piece]
    <3>1. Item' = job.items[at.item]
      BY <1>1, <1>9 DEF Item
    <3> DEFINE pieces == job.items[at.item].pieces
    <3>2. pieces \in Seq(Nat \ {0})
      BY <1>4, OneItem
    <3> HIDE DEF pieces
    <3>3. 1 <= Len(pieces) => pieces[1] \in Nat \ {0}
      BY <3>2
    <3>. QED  BY <1>9, <3>1, <3>3 DEF pieces
  <2>3. phase' = "copying"
    BY <1>1
  <2>. QED  BY <1>1, <1>3, <1>4, <1>9, <2>1, <2>2, <2>3 DEF Placing
<1>. QED  BY <1>1, <1>2, <1>8, <1>9, <1>10, StaysClear

(* A write of the item                                                     *)
LEMMA CopyStep ==
  ASSUME IInv, phase = "copying", at.piece <= Len(Item.pieces),
         NEW r, Spaced(iso, r), NEW f,
         f = Name(at.item) \/ (Item.kind = "group" /\ f = <<"base", at.item>>),
         NEW n, OneWrite(n), NEW tail \in BOOLEAN, iso' = Write(r, f, n, tail),
         phase' = phase, layout' = layout, job' = job, at'.item = at.item, Placing',
         tail => at'.piece > Len(Item.pieces)
  PROVE  IInv'
<1>1. at.item \in 1..Len(job.items) /\ job \in Jobs /\ layout \in Layouts
  <2>1. at.item <= Len(job.items)
    BY DEF IInv, Placing
  <2>. QED  BY <2>1, AtItem
<1>2. f \in Files /\ f[1] # "ssif" /\ f[2] = at.item /\ at.item \in Nat
  <2>1. Name(at.item) \in Files /\ Name(at.item)[1] # "ssif" /\ Name(at.item)[2] = at.item
        /\ <<"base", at.item>> \in Files
    BY <1>1, OneItem
  <2>. QED  BY <1>1, <2>1
<1>3. ~Ending /\ phase # "closed"
  BY <1>1, OneItem, AtItem DEF Ending
<1>4. \A g \in Files : iso.ent[g].heldTail => g[1] = "copy" /\ g[2] < at.item
  BY <1>3, BetweenItems
<1>5. Clear(r) /\ \A g \in Files : r.ent[g].heldTail = iso.ent[g].heldTail
  BY DEF Spaced
<1>6. ~r.ent[f].heldTail
  BY <1>2, <1>4, <1>5
<1>7. LET t == Write(r, f, n, tail) IN
      /\ Sound(t) /\ (\A g \in Files : t.ent[g].tail => g = f /\ tail)
      /\ \A g \in Files : t.ent[g].heldTail => \/ r.ent[g].heldTail
                                               \/ g = f /\ tail /\ r.ent[f].deferred
  BY <1>1, <1>2, <1>5, <1>6, WriteSound DEF Clear
<1>8. r.ent[f].deferred => f[1] = "copy"
  BY <1>2, <1>5 DEF Clear, Sound, HeldCounted
<1>9. Item' = Item /\ (tail => Ending')
  <2>1. Item' = Item
    BY DEF Item
  <2>. QED  BY <2>1 DEF Ending
<1>10. Name(at.item)' = Name(at.item)
  BY DEF Name
<1>11. Tails'
  <2> SUFFICES ASSUME NEW g \in Files, iso'.ent[g].tail
               PROVE  Ending' /\ (g = Name(at.item) \/ (Item.kind = "group" /\ g = <<"base", at.item>>))
    BY <1>9, <1>10 DEF Tails
  <2>1. g = f /\ tail
    BY <1>7
  <2>. QED  BY <1>9, <2>1
<1>12. HeldTails'
  <2> SUFFICES ASSUME NEW g \in Files, iso'.ent[g].heldTail
               PROVE  g[1] = "copy" /\ (g[2] < at.item \/ (g[2] = at.item /\ Ending'))
    BY DEF HeldTails
  <2>1. r.ent[g].heldTail \/ (g = f /\ tail /\ r.ent[f].deferred)
    BY <1>7
  <2>. QED  BY <1>2, <1>4, <1>5, <1>8, <1>9, <2>1
<1>13. Sound(iso')
  BY <1>7
<1>14. StoredWell'
  BY <1>3, <1>13, SameDisc DEF StoredWell
<1>. QED  BY <1>11, <1>12, <1>14 DEF IInv

(* A write of an item keeps the invariant.                                 *)
LEMMA CopyWriteInv == ASSUME IInv, CopyWrite PROVE IInv'
<1> DEFINE size == Item.pieces[at.piece]
           n == Min({Buffer, size - at.dep})
           first == Item.kind = "group" /\ at.piece % 2 = 1 /\ at.dep = 0
           r == IF first THEN PadBeforeInterleavedPair(iso, size + Item.pieces[at.piece + 1]) ELSE iso
           f == IF Item.kind = "group" /\ at.piece % 2 = 0 THEN <<"base", at.item>> ELSE Name(at.item)
           whole == at.dep + n = size
           ends == Item.tail /\ whole /\ at.piece = Len(Item.pieces)
<1>1. /\ phase = "copying" /\ at.piece <= Len(Item.pieces) /\ phase' = phase
      /\ layout' = layout /\ job' = job
      /\ iso' = Write(r, f, n, ends)
      /\ at' = IF whole THEN [at EXCEPT !.piece = @ + 1, !.dep = 0] ELSE [at EXCEPT !.dep = @ + n]
  BY Zenon DEF CopyWrite
<1>2. /\ at.item \in 1..Len(job.items) /\ job \in Jobs /\ layout \in Layouts /\ at \in Place
      /\ at.piece \in Nat \ {0} /\ at.dep \in Nat /\ at.base \in 1..MaxParts /\ at.dep < size
  <2>1. at.item <= Len(job.items) /\ at.piece # 0 /\ at.dep < size
    BY <1>1 DEF IInv, Placing
  <2>. QED  BY <2>1, AtItem
<1>3. /\ Item.pieces \in Seq(Nat \ {0}) /\ Len(Item.pieces) \in Nat
      /\ Item.kind = "group" => Len(Item.pieces) % 2 = 0
  BY <1>2, OneItem DEF Item
<1>4. size \in Nat \ {0}
  BY <1>1, <1>2, <1>3
<1>5. n \in Nat \ {0} /\ n <= Buffer /\ n <= size - at.dep
  <2>1. Buffer \in Nat \ {0} /\ size - at.dep \in Nat \ {0}
    BY <1>2, <1>4, Constants
  <2> DEFINE left == size - at.dep
  <2>2. Min({Buffer, left}) = IF Buffer <= left THEN Buffer ELSE left
    BY <2>1, MinOfTwo
  <2>. QED  BY <2>1, <2>2
<1>6. OneWrite(n)
  BY <1>5 DEF OneWrite
<1>7. ~Ending /\ Clear(iso)
  <2>1. ~Ending
    BY <1>1, <1>2, <1>3 DEF Ending
  <2>. QED  BY <1>1, <2>1, BetweenItems DEF Clear
<1>8. Spaced(iso, r)
  <2>1. CASE first
    <3>1. at.piece + 1 <= Len(Item.pieces)
      <4> DEFINE p == at.piece
                 m == Len(Item.pieces)
      <4>1. p \in Nat /\ m \in Nat /\ p % 2 = 1 /\ m % 2 = 0 /\ p <= m
        BY <1>1, <1>2, <1>3, <2>1
      <4> HIDE DEF p, m
      <4>2. p # m
        BY <4>1
      <4>3. p + 1 <= m
        BY <4>1, <4>2
      <4>. QED  BY <4>3 DEF p, m
    <3>2. size + Item.pieces[at.piece + 1] \in Nat
      <4>1. Item.pieces[at.piece + 1] \in Nat
        BY <1>2, <1>3, <3>1
      <4>. QED  BY <1>4, <4>1
    <3>3. Padded(iso, PadBeforeInterleavedPair(iso, size + Item.pieces[at.piece + 1]))
      BY <1>2, <1>7, <3>2, PaddedPair DEF Clear, Sound
    <3>. QED  BY <1>2, <1>7, <2>1, <3>3, PaddedSpaced
  <2>2. CASE ~first
    BY <1>7, <2>2 DEF Spaced
  <2>. QED  BY <2>1, <2>2
<1>9. f = Name(at.item) \/ (Item.kind = "group" /\ f = <<"base", at.item>>)
  OBVIOUS
<1> HIDE DEF r, f, n
<1>10. /\ at' \in Place /\ at'.item = at.item /\ at'.base = at.base
       /\ whole => at'.piece = at.piece + 1 /\ at'.dep = 0
       /\ ~whole => at'.piece = at.piece /\ at'.dep = at.dep + n
  <2>1. at.piece + 1 \in Nat /\ at.dep + n \in Nat /\ 0 \in Nat
    BY <1>2, <1>5
  <2> DEFINE p == at.piece + 1
             d == at.dep + n
  <2>2. at' = IF whole THEN [at EXCEPT !.piece = p, !.dep = 0] ELSE [at EXCEPT !.dep = d]
    BY <1>1
  <2> HIDE DEF p, d, whole
  <2>3. p \in Nat /\ d \in Nat
    BY <2>1 DEF p, d
  <2>4. /\ at' \in Place /\ at'.item = at.item /\ at'.base = at.base
        /\ whole => at'.piece = p /\ at'.dep = 0
        /\ ~whole => at'.piece = at.piece /\ at'.dep = d
    BY <1>2, <2>2, <2>3 DEF Place
  <2>. QED  BY <2>4 DEF p, d
<1>11. Item' = Item
  BY <1>1, <1>10 DEF Item
<1>12. at'.piece <= Len(Item.pieces) => at'.dep < Item.pieces[at'.piece]
  <2>1. CASE whole
    <3>1. at.piece + 1 <= Len(Item.pieces) => Item.pieces[at.piece + 1] \in Nat \ {0}
      BY <1>2, <1>3
    <3>. QED  BY <1>10, <2>1, <3>1
  <2>2. CASE ~whole
    BY <1>2, <1>4, <1>5, <1>10, <2>2
  <2>. QED  BY <2>1, <2>2
<1>13. at'.piece # 0
  BY <1>2, <1>10
<1>14. Placing'
  <2>1. at.item # 0 /\ at.item <= Len(job.items)
    BY <1>2
  <2> HIDE DEF size, whole
  <2>. QED  BY <1>1, <1>2, <1>10, <1>11, <1>12, <1>13, <2>1 DEF Placing
<1>15. whole /\ at.piece = Len(Item.pieces) => at'.piece > Len(Item.pieces)
  BY <1>2, <1>3, <1>10
<1>16. CASE ends
  <2>1. iso' = Write(r, f, n, TRUE)
    <3>1. ends = TRUE
      BY <1>16
    <3>. QED  BY <1>1, <3>1
  <2>2. at'.piece > Len(Item.pieces)
    BY <1>15, <1>16
  <2> HIDE DEF ends, whole, size
  <2>. QED  BY <1>1, <1>6, <1>8, <1>9, <1>10, <1>14, <2>1, <2>2, CopyStep
<1>17. CASE ~ends
  <2>1. iso' = Write(r, f, n, FALSE)
    <3>1. ends = FALSE
      BY <1>17
    <3>. QED  BY <1>1, <3>1
  <2> HIDE DEF ends, whole, size
  <2>. QED  BY <1>1, <1>6, <1>8, <1>9, <1>10, <1>14, <2>1, CopyStep
<1>. QED  BY <1>16, <1>17

(* What is left when an item is at its end                                 *)
LEMMA EndItemStep ==
  ASSUME IInv, phase = "copying", NEW t, iso' = t, Clear(t),
         \A g \in Files : t.ent[g].heldTail = iso.ent[g].heldTail,
         phase' \in {"items", "refused"}, layout' = layout, job' = job,
         at' = [at EXCEPT !.item = @ + 1]
  PROVE  IInv'
<1>1. at \in Place /\ at.item \in Nat \ {0} /\ at.base \in 1..MaxParts /\ layout \in Layouts /\ job \in Jobs
  BY AtItem
<1>2. at' \in Place /\ at'.item = at.item + 1 /\ at'.base = at.base
  <2> DEFINE i == at.item + 1
  <2>1. i \in Nat /\ at' = [at EXCEPT !.item = i]
    BY <1>1
  <2> HIDE DEF i
  <2>2. at' \in Place /\ at'.item = i /\ at'.base = at.base
    BY <1>1, <2>1 DEF Place
  <2>. QED  BY <2>2 DEF i
<1>3. Placing'
  <2>1. phase' # "copying" /\ phase' # "pairs" /\ at'.item # 0
        /\ phase' \in {"pairs", "items", "copying", "written", "closed", "refused"}
    BY <1>1, <1>2
  <2>. QED  BY <1>1, <1>2, <2>1 DEF Placing
<1>4. Tails'
  BY DEF Tails, Clear, NoTail
<1>5. HeldTails'
  <2> SUFFICES ASSUME NEW g \in Files, iso'.ent[g].heldTail
               PROVE  g[1] = "copy" /\ g[2] < at'.item
    BY DEF HeldTails
  <2>1. iso.ent[g].heldTail /\ phase # "closed"
    OBVIOUS
  <2>2. g[1] = "copy" /\ (g[2] < at.item \/ g[2] = at.item)
    BY <2>1 DEF IInv, HeldTails
  <2>3. g[2] \in Nat
    BY Constants DEF Files
  <2>. QED  BY <1>1, <1>2, <2>2, <2>3
<1>6. StoredWell'
  <2>1. Sound(iso') /\ phase' # "closed"
    BY DEF Clear
  <2>. QED  BY <2>1, SameDisc DEF StoredWell
<1>. QED  BY <1>3, <1>4, <1>5, <1>6 DEF IInv

(* The end of an item keeps the invariant.                                 *)
LEMMA EndItemInv == ASSUME IInv, EndItem PROVE IInv'
<1>1. /\ phase = "copying" /\ at.piece > Len(Item.pieces) /\ layout' = layout /\ job' = job
      /\ at' = [at EXCEPT !.item = @ + 1]
  BY DEF EndItem
<1>2. /\ at.item \in 1..Len(job.items) /\ job \in Jobs /\ layout \in Layouts /\ Sound(iso) /\ Tails
  <2>1. at.item <= Len(job.items) /\ Sound(iso) /\ Tails
    BY <1>1 DEF IInv, Placing, StoredWell
  <2>. QED  BY <2>1, AtItem
<1> DEFINE nm == Name(at.item)
           base == <<"base", at.item>>
<1>3. /\ nm \in Files /\ base \in Files /\ at.item \in 1..MaxParts
      /\ Item.kind = "group" => nm = <<"dep", at.item>>
  BY <1>2, OneItem DEF Item
<1>4. CASE Item.kind # "group"
  <2> DEFINE t == CloseFile(iso, nm)
  <2>1. iso' = t /\ phase' = "items"
    BY <1>4 DEF EndItem
  <2>2. Sound(t) /\ Kept(iso, t) /\ \A g \in Files : t.ent[g].tail => iso.ent[g].tail /\ g # nm
    BY <1>2, <1>3, CloseFileSound
  <2> HIDE DEF t
  <2>3. Clear(t)
    <3>1. \A g \in Files : ~t.ent[g].tail
      BY <1>2, <1>4, <2>2 DEF Tails
    <3>. QED  BY <2>2, <3>1 DEF Clear, NoTail
  <2>4. \A g \in Files : t.ent[g].heldTail = iso.ent[g].heldTail
    BY <2>2 DEF Kept
  <2>. QED  BY <1>1, <2>1, <2>3, <2>4, EndItemStep
<1>5. CASE Item.kind = "group"
  <2> DEFINE b == CloseFile(iso, base)
             s == CloseFile(b, <<"dep", at.item>>)
             t == CreateInterleavedFile(s, at.item)
  <2>1. Closed(iso, at.item) = s
    BY DEF Closed
  <2>2. \/ CanInterleave(s, at.item) /\ iso' = t /\ phase' = "items"
        \/ iso' = s /\ phase' = "refused"
    BY <1>5, <2>1 DEF EndItem
  <2>3. Sound(b) /\ Kept(iso, b) /\ \A g \in Files : b.ent[g].tail => iso.ent[g].tail /\ g # base
    BY <1>2, <1>3, CloseFileSound
  <2>4. nm = <<"dep", at.item>>
    BY <1>3, <1>5
  <2> HIDE DEF b
  <2>5. Sound(s) /\ Kept(b, s) /\ \A g \in Files : s.ent[g].tail => b.ent[g].tail /\ g # nm
    BY <1>2, <1>3, <2>3, <2>4, CloseFileSound
  <2> HIDE DEF s
  <2>6. Clear(s)
    <3>1. \A g \in Files : ~s.ent[g].tail
      BY <1>2, <2>3, <2>5 DEF Tails
    <3>. QED  BY <2>5, <3>1 DEF Clear, NoTail
  <2>7. \A g \in Files : s.ent[g].heldTail = iso.ent[g].heldTail
    BY <2>3, <2>5 DEF Kept
  <2>8. CASE CanInterleave(s, at.item) /\ iso' = t /\ phase' = "items"
    <3>1. Sound(t) /\ Kept(s, t) /\ (\A g \in Files : t.ent[g].tail = s.ent[g].tail)
      BY <1>3, <2>5, <2>8, InterleaveSound
    <3> HIDE DEF t
    <3>2. Clear(t)
      BY <2>6, <3>1 DEF Clear, NoTail
    <3>3. \A g \in Files : t.ent[g].heldTail = iso.ent[g].heldTail
      BY <2>7, <3>1 DEF Kept
    <3>. QED  BY <1>1, <2>8, <3>2, <3>3, EndItemStep
  <2>9. CASE iso' = s /\ phase' = "refused"
    BY <1>1, <2>6, <2>7, <2>9, EndItemStep
  <2>. QED  BY <2>2, <2>8, <2>9
<1>. QED  BY <1>4, <1>5

(* The end of the job keeps the invariant.                                 *)
LEMMA EndOfItemsInv == ASSUME IInv, EndOfItems PROVE IInv'
<1> DEFINE n == IF job.switcher = "" THEN 0 ELSE at.base
           parts == [p \in 1..n |-> p]
           t == FoldLeft(CreateInterleavedFile, iso, parts)
<1>1. /\ phase = "items" /\ layout' = layout /\ job' = job /\ at' = at
      /\ \/ (\A p \in 1..n : CanInterleave(iso, p)) /\ iso' = t /\ phase' = "written"
         \/ phase' = "refused" /\ iso' = iso
  BY Zenon DEF EndOfItems
<1>2. ~Ending /\ phase # "closed" /\ phase' # "closed"
  BY <1>1 DEF Ending
<1>3. Sound(iso) /\ NoTail(iso) /\ Placing
  BY <1>2, BetweenItems DEF IInv
<1>4. n \in Nat /\ n <= MaxParts
  <2>1. at.base \in 1..MaxParts /\ MaxParts \in Nat
    BY AtItem, Constants
  <2>2. at.base \in Nat /\ at.base <= MaxParts /\ 0 <= MaxParts
    BY <2>1
  <2>3. CASE job.switcher = ""
    BY <2>2, <2>3
  <2>4. CASE job.switcher # ""
    BY <2>2, <2>4
  <2>. QED  BY <2>3, <2>4
<1>5. Placing' /\ at'.item = at.item
  BY <1>1, <1>3 DEF Placing
<1>6. CASE (\A p \in 1..n : CanInterleave(iso, p)) /\ iso' = t /\ phase' = "written"
  <2> HIDE DEF n
  <2>1. Sound(t) /\ NoTail(t) /\ \A g \in Files : t.ent[g].heldTail = iso.ent[g].heldTail
    BY <1>3, <1>4, <1>6, InterleaveFold
  <2> HIDE DEF t
  <2>. QED  BY <1>1, <1>2, <1>5, <1>6, <2>1, StaysClear
<1>7. CASE phase' = "refused" /\ iso' = iso
  BY <1>1, <1>2, <1>3, <1>5, <1>7, StaysClear
<1>. QED  BY <1>1, <1>6, <1>7

(* Closing the image keeps the invariant.                                  *)
LEMMA CloseInv == ASSUME IInv, Close PROVE IInv'
<1>1. /\ phase = "written" /\ phase' = "closed" /\ layout' = layout /\ job' = job /\ at' = at
      /\ iso' = WriteMirror(WriteDeferredFiles(MoveBackLookAhead(iso)))
  BY DEF Close
<1>2. Sound(iso) /\ NoTail(iso) /\ layout \in Layouts
  BY <1>1, BetweenItems DEF Ending
<1>3. Ended(iso')
  BY <1>1, <1>2, CloseEnds
<1>4. StoredWell'
  BY <1>1, <1>3, SameDisc DEF StoredWell
<1>5. Tails'
  BY <1>3 DEF Tails, Ended, NoTail
<1>6. Placing'
  BY <1>1 DEF IInv, Placing
<1>7. HeldTails'
  BY <1>1 DEF HeldTails
<1>. QED  BY <1>4, <1>5, <1>6, <1>7 DEF IInv

(* A step that changes nothing keeps the invariant.                        *)
LEMMA StutterInv == ASSUME IInv, UNCHANGED vars PROVE IInv'
<1>1. layout' = layout /\ job' = job /\ iso' = iso /\ phase' = phase /\ at' = at
  BY DEF vars
<1>2. Placing'
  BY <1>1 DEF IInv, Placing, Item
<1>3. Tails' /\ HeldTails'
  BY <1>1 DEF IInv, Tails, HeldTails, Ending, Item, Name
<1>4. StoredWell'
  <2>1. IF phase' = "closed" THEN Ended(iso') ELSE Sound(iso')
    BY <1>1 DEF IInv, StoredWell
  <2>. QED  BY <1>1, <2>1, SameDisc DEF StoredWell
<1>. QED  BY <1>2, <1>3, <1>4 DEF IInv

(* Every step keeps the invariant.                                         *)
LEMMA NextInv == IInv /\ [Next]_vars => IInv'
<1> SUFFICES ASSUME IInv, [Next]_vars PROVE IInv'
  OBVIOUS
<1>1. CASE \E n \in 1..DepMax : WriteDep(n)
  BY <1>1, WriteDepInv
<1>2. CASE \E n \in 1..BaseMax : WriteBase(n)
  BY <1>2, WriteBaseInv
<1>3. CASE BaseSwitches
  BY <1>3, BaseSwitchesInv
<1>4. CASE DepSwitches
  BY <1>4, DepSwitchesInv
<1>5. CASE BaseFollows
  BY <1>5, BaseFollowsInv
<1>6. CASE EndOfMux
  BY <1>6, EndOfMuxInv
<1>7. CASE StartItem
  BY <1>7, StartItemInv
<1>8. CASE CopyWrite
  BY <1>8, CopyWriteInv
<1>9. CASE EndItem
  BY <1>9, EndItemInv
<1>10. CASE EndOfItems
  BY <1>10, EndOfItemsInv
<1>11. CASE Close
  BY <1>11, CloseInv
<1>12. CASE UNCHANGED vars
  BY <1>12, StutterInv
<1>. QED
  BY <1>1, <1>2, <1>3, <1>4, <1>5, <1>6, <1>7, <1>8, <1>9, <1>10, <1>11, <1>12 DEF Next

(* The invariant of the image writer holds: in whatever order the writer   *)
(* (iso_writer.cpp) pads, places the mirror, cuts files, holds copies back *)
(* and moves data, every file reads back from its extents.                 *)
THEOREM InvHolds == Spec => []IInv
<1>1. Init => IInv
  BY InitInv
<1>2. IInv /\ [Next]_vars => IInv'
  BY NextInv
<1>. QED  BY <1>1, <1>2, PTL DEF Spec

-----------------------------------------------------------------------------
(* What follows *)

(* What the invariant says of the image, closed or not.                    *)
LEMMA InvEnded ==
  ASSUME IInv
  PROVE  AtEnd(iso) /\ AllRead(iso) /\ DataFree(iso) /\ HeldCounted(iso) /\ layout \in Layouts
<1>1. Sound(iso) \/ Ended(iso)
  BY DEF IInv, StoredWell
<1>2. layout \in Layouts
  BY DEF IInv, Placing
<1>. QED  BY <1>1, <1>2 DEF Sound, Ended

(* No extent the writer makes is larger than MAX_EXTENT_SIZE or empty,     *)
(* what is held back is no more than MAX_DEFERRED_BYTES, and the writer is *)
(* at the end of the image after every call (FileEntryInfo::writeImpl and  *)
(* write, iso_writer.cpp).                                                 *)
THEOREM ImageTyped == Spec => []TypeOK
<1>1. IInv => TypeOK
  <2> SUFFICES ASSUME IInv PROVE TypeOK
    OBVIOUS
  <2>1. AtEnd(iso) /\ HeldCounted(iso)
    BY InvEnded
  <2>2. iso.heldBytes \in 0..MaxHeld /\ iso.pos = Len(iso.disk)
    BY <2>1, HeldBound DEF AtEnd
  <2>3. ASSUME NEW f \in Files, NEW i \in DOMAIN Extents(f)
        PROVE  Extents(f)[i].n \in 1..MaxExtent /\ Extents(f)[i].lbn \in Nat
    <3>1. Extents(f) \in Seq(Extent)
      BY <2>1, OneEntry DEF Extents
    <3>2. i \in 1..Len(Extents(f))
      BY <3>1
    <3>. QED  BY <3>1, <3>2, OneExtent
  <2>4. phase \in {"pairs", "items", "copying", "written", "closed", "refused"}
    BY DEF IInv, Placing
  <2>. QED  BY <2>2, <2>3, <2>4 DEF TypeOK
<1>. QED  BY <1>1, InvHolds, PTL

(* On a disc whose layer breaks are far apart no data is stored in the     *)
(* zone around any of them: by the writes, their cuts, the moves back of   *)
(* moveBackLookAhead or the last sectors stored when files are closed      *)
(* (checkLayerBreakPoint and its callers, iso_writer.cpp).                 *)
THEOREM ZonesStayFree == Spec => []ZonesFree
<1>1. IInv => ZonesFree
  <2> SUFFICES ASSUME IInv, BreaksApart(layout), NEW i \in Zones, NEW lbn \in Nat, lbn \in ZoneStart(i)..(ZoneEnd(i) - 1),
                      lbn < Len(iso.disk)
               PROVE  Sector(lbn) \in {Zero, Mirror}
    BY DEF ZonesFree, AnyZoneFree
  <2>1. AtEnd(iso) /\ DataFree(iso) /\ layout \in Layouts
    BY InvEnded
  <2>2. ZoneStart(i) \in Int /\ ZoneEnd(i) \in Int /\ Len(iso.disk) \in Nat
    BY <2>1, Disc, FieldsOfImage
  <2>3. ZoneStart(i) <= lbn /\ lbn < ZoneEnd(i) /\ lbn + 1 \in 1..Len(iso.disk) /\ (lbn + 1) - 1 = lbn
    BY <2>2
  <2>4. InZone((lbn + 1) - 1)
    BY <2>3 DEF InZone
  <2>5. iso.disk[lbn + 1] \in {Zero, Mirror}
    BY <2>1, <2>3, <2>4 DEF DataFree
  <2>. QED  BY <2>5 DEF Sector
<1>. QED  BY <1>1, InvHolds, PTL

\* The sequence of the first sequences of q
Flat(q, m, g) == g = [i \in 1..m |-> IF i = 1 THEN q[i] ELSE g[i - 1] \o q[i]]

(* The lists flattened up to the first.                                    *)
LEMMA FlatOne ==
  ASSUME NEW q
  PROVE  \E g : Flat(q, 1, g)
<1> DEFINE g == [i \in 1..1 |-> q[i]]
<1>1. g = [i \in 1..1 |-> IF i = 1 THEN q[i] ELSE g[i - 1] \o q[i]]
  OBVIOUS
<1> HIDE DEF g
<1>. QED  BY <1>1 DEF Flat

(* And up to one more.                                                     *)
LEMMA FlatMore ==
  ASSUME NEW q, NEW m \in Nat \ {0}, \E g : Flat(q, m, g)
  PROVE  \E h : Flat(q, m + 1, h)
<1>1. PICK g : Flat(q, m, g)
  OBVIOUS
<1> DEFINE last == g[m] \o q[m + 1]
           h == [i \in 1..m + 1 |-> IF i = m + 1 THEN last ELSE g[i]]
<1>2. \A i \in 1..m : h[i] = g[i]
  OBVIOUS
<1>3. h[m + 1] = last /\ h = [i \in 1..m + 1 |-> h[i]]
  <2>1. m + 1 \in 1..m + 1
    OBVIOUS
  <2> HIDE DEF last
  <2>2. h[m + 1] = last
    BY <2>1
  <2>3. h = [i \in 1..m + 1 |-> h[i]]
    OBVIOUS
  <2>. QED  BY <2>2, <2>3
<1> HIDE DEF h
<1>4. ASSUME NEW i \in 1..m + 1 PROVE h[i] = IF i = 1 THEN q[i] ELSE h[i - 1] \o q[i]
  <2>1. CASE i = m + 1
    <3>1. h[m] = g[m] /\ i - 1 = m /\ i # 1
      BY <1>2, <2>1
    <3>. QED  BY <1>3, <2>1, <3>1
  <2>2. CASE i # m + 1
    <3>1. i \in 1..m
      BY <2>2
    <3>2. g[i] = IF i = 1 THEN q[i] ELSE g[i - 1] \o q[i]
      BY <1>1, <3>1 DEF Flat
    <3>3. i # 1 => h[i - 1] = g[i - 1]
      BY <1>2, <3>1
    <3>. QED  BY <1>2, <3>1, <3>2, <3>3
  <2>. QED  BY <2>1, <2>2
<1>5. h = [i \in 1..m + 1 |-> IF i = 1 THEN q[i] ELSE h[i - 1] \o q[i]]
  BY <1>3, <1>4, Zenon
<1>. QED  BY <1>5 DEF Flat

(* So up to any number.                                                    *)
LEMMA FlatSome ==
  ASSUME NEW q, NEW n \in Nat \ {0}
  PROVE  \E g : Flat(q, n, g)
<1> DEFINE T == {m \in Nat : \E g : Flat(q, m + 1, g)}
<1>1. 0 \in T
  <2>1. 0 + 1 = 1
    OBVIOUS
  <2>. QED  BY <2>1, FlatOne
<1>2. \A m \in Nat : m \in T => m + 1 \in T
  <2> SUFFICES ASSUME NEW m \in Nat, \E g : Flat(q, m + 1, g) PROVE \E g : Flat(q, (m + 1) + 1, g)
    OBVIOUS
  <2>1. m + 1 \in Nat \ {0}
    OBVIOUS
  <2>. QED  BY <2>1, FlatMore
<1>3. n - 1 \in Nat /\ (n - 1) + 1 = n
  OBVIOUS
<1> HIDE DEF T
<1>4. n - 1 \in T
  BY <1>1, <1>2, <1>3, Induct
<1>. QED  BY <1>3, <1>4 DEF T

\* The sequence of the sectors of an extent
Run(e) == [k \in 1..e.n |-> e.lbn + k - 1]
\* c lists the sectors of the first m extents.
Listed(ext, off, m, c) ==
  /\ c \in Seq(Nat) /\ Len(c) = off[m]
  /\ \A k \in 1..off[m] : \E i \in 1..m : \E j \in 1..ext[i].n :
       k = off[i - 1] + j /\ c[k] = (ext[i].lbn + j) - 1

(* The sectors of one extent.                                              *)
LEMMA RunOf ==
  ASSUME NEW e \in Extent
  PROVE  /\ Run(e) \in Seq(Nat) /\ Len(Run(e)) = e.n /\ \A k \in 1..e.n : Run(e)[k] = (e.lbn + k) - 1
         /\ e.n \in Nat \ {0} /\ e.lbn \in Nat
<1>1. e.n \in Nat \ {0} /\ e.lbn \in Nat
  BY Constants DEF Extent
<1>2. \A k \in 1..e.n : e.lbn + k - 1 \in Nat
  BY <1>1
<1>. QED  BY <1>1, <1>2 DEF Run

(* One list of sectors behind another.                                     *)
LEMMA JoinedNats ==
  \A a, b \in Seq(Nat) :
    /\ a \o b \in Seq(Nat) /\ Len(a \o b) = Len(a) + Len(b)
    /\ \A i \in 1..Len(a) : (a \o b)[i] = a[i]
    /\ \A i \in 1..Len(b) : (a \o b)[Len(a) + i] = b[i]
OBVIOUS

(* The sectors of the first extent.                                        *)
LEMMA ListedFirst ==
  ASSUME NEW ext \in Seq(Extent), NEW size, NEW off, Sums(ext, size, off), 1 <= Len(ext)
  PROVE  Listed(ext, off, 1, Run(ext[1]))
<1>1. ext[1] \in Extent /\ 1 \in 1..Len(ext) /\ 1 - 1 = 0
  OBVIOUS
<1>2. off[1] = off[0] + ext[1].n /\ off[0] = 0
  BY <1>1 DEF Sums
<1>3. off[1] = ext[1].n
  BY <1>1, <1>2, RunOf
<1>4. ASSUME NEW k \in 1..off[1]
      PROVE  \E i \in 1..1 : \E j \in 1..ext[i].n :
               k = off[i - 1] + j /\ Run(ext[1])[k] = (ext[i].lbn + j) - 1
  <2>1. k \in 1..ext[1].n /\ Run(ext[1])[k] = (ext[1].lbn + k) - 1 /\ k = off[1 - 1] + k
    BY <1>1, <1>2, <1>3, RunOf
  <2>. QED  BY <2>1
<1>. QED  BY <1>1, <1>3, <1>4, RunOf DEF Listed

(* And of one more.                                                        *)
LEMMA ListedMore ==
  ASSUME NEW ext \in Seq(Extent), NEW size, NEW off, Sums(ext, size, off), NEW m \in Nat \ {0},
         m + 1 <= Len(ext), NEW c, Listed(ext, off, m, c)
  PROVE  Listed(ext, off, m + 1, c \o Run(ext[m + 1]))
<1> DEFINE p == m + 1
           r == Run(ext[p])
           d == c \o r
<1>1. p \in 1..Len(ext) /\ p - 1 = m /\ ext[p] \in Extent /\ p \in Nat
  OBVIOUS
<1>2. off[p] = off[m] + ext[p].n /\ off[m] \in Nat
  BY <1>1, OneSum
<1>3. r \in Seq(Nat) /\ Len(r) = ext[p].n /\ (\A k \in 1..ext[p].n : r[k] = (ext[p].lbn + k) - 1)
      /\ ext[p].n \in Nat \ {0}
  BY <1>1, RunOf
<1>4. c \in Seq(Nat) /\ Len(c) = off[m]
  BY DEF Listed
<1> HIDE DEF r, p
<1>5. /\ d \in Seq(Nat) /\ Len(d) = Len(c) + Len(r)
      /\ (\A i \in 1..Len(c) : d[i] = c[i]) /\ \A i \in 1..Len(r) : d[Len(c) + i] = r[i]
  BY <1>3, <1>4, JoinedNats
<1> HIDE DEF d
<1>6. ASSUME NEW k \in 1..off[p]
      PROVE  \E i \in 1..p : \E j \in 1..ext[i].n : k = off[i - 1] + j /\ d[k] = (ext[i].lbn + j) - 1
  <2>1. CASE k <= off[m]
    <3>1. k \in 1..off[m] /\ d[k] = c[k]
      BY <1>2, <1>3, <1>4, <1>5, <2>1
    <3>2. PICK i \in 1..m : \E j \in 1..ext[i].n : k = off[i - 1] + j /\ c[k] = (ext[i].lbn + j) - 1
      BY <3>1 DEF Listed
    <3>3. i \in 1..p
      BY <1>1
    <3>. QED  BY <3>1, <3>2, <3>3
  <2>2. CASE k > off[m]
    <3> DEFINE j == k - off[m]
    <3>1. j \in 1..ext[p].n /\ k = off[m] + j
      BY <1>2, <1>3, <2>2
    <3> HIDE DEF j
    <3>2. d[k] = (ext[p].lbn + j) - 1
      BY <1>3, <1>4, <1>5, <3>1
    <3>3. p \in 1..p /\ off[p - 1] = off[m]
      BY <1>1
    <3>. QED  BY <3>1, <3>2, <3>3
  <2>. QED  BY <1>2, <1>3, <2>1, <2>2
<1>7. Listed(ext, off, p, d)
  BY <1>2, <1>3, <1>4, <1>5, <1>6 DEF Listed
<1>. QED  BY <1>7 DEF d, r, p

(* The sectors of a file are those of its extents in order.                *)
LEMMA LbnsListed ==
  ASSUME NEW ext \in Seq(Extent), NEW size, NEW off, Sums(ext, size, off), Len(ext) # 0
  PROVE  Listed(ext, off, Len(ext), Lbns(ext))
<1> DEFINE n == Len(ext)
           q == [i \in DOMAIN ext |-> [k \in 1..ext[i].n |-> ext[i].lbn + k - 1]]
           fl == CHOOSE g : g = [i \in 1..Len(q) |-> IF i = 1 THEN q[i] ELSE g[i - 1] \o q[i]]
<1>1. Lbns(ext) = FlattenSeq(q)
  BY DEF Lbns
<1>2. n \in Nat \ {0} /\ DOMAIN ext = 1..n
  OBVIOUS
<1>3. Len(q) = n /\ \A i \in 1..n : q[i] = Run(ext[i])
  BY <1>2 DEF Run
<1> HIDE DEF q
<1>4. FlattenSeq(q) = fl[n]
  BY <1>2, <1>3, Zenon DEF FlattenSeq
<1> HIDE DEF n
<1>5. \E g : g = [i \in 1..Len(q) |-> IF i = 1 THEN q[i] ELSE g[i - 1] \o q[i]]
  BY <1>2, <1>3, FlatSome DEF Flat
<1>6. fl = [i \in 1..Len(q) |-> IF i = 1 THEN q[i] ELSE fl[i - 1] \o q[i]]
  BY <1>5, Zenon
<1> HIDE DEF fl
<1>7. \A i \in 1..n : fl[i] = IF i = 1 THEN q[i] ELSE fl[i - 1] \o q[i]
  BY <1>3, <1>6
<1> DEFINE T == {m \in Nat : m + 1 <= n => Listed(ext, off, m + 1, fl[m + 1])}
<1>8. 0 \in T
  <2>1. 1 \in 1..n /\ 0 + 1 = 1
    BY <1>2
  <2>2. fl[1] = Run(ext[1])
    BY <1>3, <1>7, <2>1
  <2>3. Listed(ext, off, 1, fl[1])
    BY <1>2, <2>2, ListedFirst DEF n
  <2>. QED  BY <2>1, <2>3
<1>9. \A m \in Nat : m \in T => m + 1 \in T
  <2> SUFFICES ASSUME NEW m \in Nat, m + 1 <= n => Listed(ext, off, m + 1, fl[m + 1]), (m + 1) + 1 <= n
               PROVE  Listed(ext, off, (m + 1) + 1, fl[(m + 1) + 1])
    OBVIOUS
  <2> DEFINE p == m + 1
  <2>1. p \in Nat \ {0} /\ p + 1 \in 1..n /\ p + 1 # 1 /\ (p + 1) - 1 = p /\ p <= n
    BY <1>2
  <2>2. Listed(ext, off, p, fl[p])
    BY <2>1
  <2> HIDE DEF p
  <2>3. fl[p + 1] = fl[p] \o Run(ext[p + 1])
    BY <1>3, <1>7, <2>1
  <2>4. p + 1 <= Len(ext)
    BY <1>2, <2>1 DEF n
  <2>5. Listed(ext, off, p + 1, fl[p] \o Run(ext[p + 1]))
    BY <2>1, <2>2, <2>4, ListedMore
  <2>. QED  BY <2>3, <2>5 DEF p
<1>10. n - 1 \in Nat /\ (n - 1) + 1 = n
  BY <1>2
<1>11. n - 1 \in T
  <2> HIDE DEF T
  <2>. QED  BY <1>8, <1>9, <1>10, Induct
<1>12. Listed(ext, off, n, fl[n])
  BY <1>2, <1>10, <1>11
<1>. QED  BY <1>1, <1>4, <1>12 DEF n

(* A file without extents has no sectors.                                  *)
LEMMA LbnsNone == ASSUME NEW ext \in Seq(Extent), Len(ext) = 0 PROVE Len(Lbns(ext)) = 0
<1> DEFINE q == [i \in DOMAIN ext |-> [k \in 1..ext[i].n |-> ext[i].lbn + k - 1]]
<1>1. DOMAIN ext = 1..0
  OBVIOUS
<1>2. Len(q) = 0
  BY <1>1
<1>3. Lbns(ext) = FlattenSeq(q)
  BY DEF Lbns
<1> HIDE DEF q
<1>. QED  BY <1>2, <1>3 DEF FlattenSeq

(* Whatever the writer (iso_writer.cpp) left empty, moved or wrote since,  *)
(* reading the extents of a file the directory holds gives what was        *)
(* written to it, in order.                                                *)
THEOREM FilesReadBack == Spec => []ReadsBack
<1>1. IInv => ReadsBack
  <2> SUFFICES ASSUME IInv, NEW f \in Files, f[1] # "ssif"
               PROVE  LET lbns == Lbns(Extents(f)) IN
                      /\ Len(lbns) = iso.ent[f].size
                      /\ \A k \in 1..(iso.ent[f].size - (IF iso.ent[f].tail THEN 1 ELSE 0)) :
                           lbns[k] < Len(iso.disk) /\ Sector(lbns[k]) = <<f, k>>
    BY Zenon DEF ReadsBack
  <2> DEFINE ext == iso.ent[f].ext
             size == iso.ent[f].size
             lack == Lacking(iso.ent[f])
             lbns == Lbns(ext)
             top == size - (IF iso.ent[f].tail THEN 1 ELSE 0)
  <2>1. AtEnd(iso) /\ AllRead(iso)
    BY InvEnded
  <2>2. ext \in Seq(Extent) /\ size \in Nat /\ Len(iso.disk) \in Nat /\ iso.ent[f].tail \in BOOLEAN
    BY <2>1, OneEntry, FieldsOfImage
  <2>3. ReadsFrom(iso.disk, f, ext, size, lack)
    BY <2>1 DEF AllRead
  <2>4. top <= size /\ top \in Int /\ \A k \in 1..top : k # lack
    BY <2>2 DEF Lacking
  <2> HIDE DEF ext, size, lack, lbns, top
  <2>5. PICK off : Sums(ext, size, off) /\ Stored(iso.disk, f, ext, off, lack)
    BY <2>3 DEF ReadsFrom
  <2>6. Len(lbns) = size
    <3>1. CASE Len(ext) = 0
      <4>1. size = 0
        BY <2>5, <3>1 DEF Sums
      <4>. QED  BY <2>2, <3>1, <4>1, LbnsNone DEF lbns
    <3>2. CASE Len(ext) # 0
      <4>1. Listed(ext, off, Len(ext), lbns)
        BY <2>2, <2>5, <3>2, LbnsListed DEF lbns
      <4>. QED  BY <2>5, <4>1 DEF Listed, Sums
    <3>. QED  BY <3>1, <3>2
  <2>7. ASSUME NEW k \in 1..top PROVE lbns[k] < Len(iso.disk) /\ Sector(lbns[k]) = <<f, k>>
    <3>1. Len(ext) # 0
      BY <2>4, <2>5 DEF Sums
    <3>2. Listed(ext, off, Len(ext), lbns) /\ k \in 1..size /\ off[Len(ext)] = size
      BY <2>2, <2>4, <2>5, <3>1, LbnsListed DEF lbns, Sums
    <3>a. PICK i \in 1..Len(ext) :
            \E j \in 1..ext[i].n : k = off[i - 1] + j /\ lbns[k] = (ext[i].lbn + j) - 1
      BY <3>2 DEF Listed
    <3>3. PICK j \in 1..ext[i].n : k = off[i - 1] + j /\ lbns[k] = (ext[i].lbn + j) - 1
      BY <3>a
    <3>4. ext[i].lbn + j <= Len(iso.disk) /\ iso.disk[ext[i].lbn + j] = <<f, k>>
      BY <2>4, <2>5, <3>3 DEF Stored
    <3>5. ext[i].lbn \in Nat /\ j \in Nat
      BY <2>2, OneExtent
    <3>6. lbns[k] + 1 = ext[i].lbn + j /\ lbns[k] < Len(iso.disk)
      BY <2>2, <3>3, <3>4, <3>5
    <3>. QED  BY <3>4, <3>6 DEF Sector
  <2>. QED  BY <2>6, <2>7 DEF Extents, ext, size, lbns, top
<1>. QED  BY <1>1, InvHolds, PTL

================================================================================

------------------------ MODULE RelationScan_proofs ------------------------
(***************************************************************************)
(* Relation scans are right for every number of scans, frames, pages and   *)
(* slots: the pins and the dirty marks are exact, and the scans implement  *)
(* RecordCursor, hence answer every record once and in order and never     *)
(* fail once they have begun.                                              *)
(***************************************************************************)
EXTENDS RelationScan, FiniteSetTheorems, WellFoundedInduction, TLAPS

USE ScanAssumption DEF Pages, Slots

Tables == [Scans -> [Pages -> 0 .. 1]]
PinSet(table) == {k \in Scans \X Pages : table[k[1]][k[2]] > 0}

\* A scan that holds a page is at one of its records.
Positioned ==
  \A s \in Scans : scan[s] # NULL =>
    /\ scan[s].filePageIter \in 0 .. Len(relation)
    /\ scan[s].curPage # NULL =>
         /\ scan[s].curPage = scan[s].filePageIter
         /\ scan[s].filePageIter # 0
         /\ scan[s].pageRecordIter \in relation[scan[s].filePageIter]

FramesBounded == PinnedFrames(pins) <= NumBufs

IInv == TypeOK /\ Positioned /\ PinsExact /\ DirtyExact /\ FramesBounded

-----------------------------------------------------------------------------
(* Pages, slots and sets of pins.                                          *)

(* A nonempty set of naturals has a least element.                         *)
LEMMA LeastElement ==
  ASSUME NEW T \in SUBSET Nat, T # {}
  PROVE  \E x \in T : \A y \in T : x <= y
<1>1. PICK x \in T : \A y \in T : ~(<<y, x>> \in OpToRel(<, Nat))
  BY NatLessThanWellFounded, WFMin
<1>2. ASSUME NEW y \in T PROVE ~(y < x)
  BY <1>1 DEF OpToRel
<1>. QED BY <1>2

(* PageWithRecord finds the first page that has a record, if there is one. *)
LEMMA PageFound ==
  ASSUME relation \in Seq(SUBSET Slots), NEW p \in Nat \ {0}
  PROVE  LET q == PageWithRecord(p) IN
         \/ /\ q = 0
            /\ \A r \in p .. Len(relation) : relation[r] = {}
         \/ /\ q \in p .. Len(relation)
            /\ relation[q] # {}
            /\ \A r \in p .. Len(relation) : relation[r] # {} => q <= r
<1> DEFINE found == {q \in p .. Len(relation) : relation[q] # {}}
<1>1. CASE found = {}
  BY <1>1 DEF PageWithRecord
<1>2. CASE found # {}
  <2>1. found \in SUBSET Nat
    OBVIOUS
  <2>2. \E q \in found : \A r \in found : q <= r
    BY <1>2, <2>1, LeastElement
  <2>3. PageWithRecord(p) = CHOOSE q \in found : \A r \in found : q <= r
    BY <1>2 DEF PageWithRecord
  <2>. HIDE DEF found
  <2>4. PageWithRecord(p) \in found /\ \A r \in found : PageWithRecord(p) <= r
    BY <2>2, <2>3
  <2>. QED BY <2>4 DEF found
<1>. QED BY <1>1, <1>2

(* getNextUsedSlot finds the first used slot after start, if there is one. *)
LEMMA SlotFound ==
  ASSUME relation \in Seq(SUBSET Slots), NEW p \in 1 .. Len(relation),
         NEW start \in Nat
  PROVE  LET i == getNextUsedSlot(p, start) IN
         \/ i = 0 /\ \A j \in relation[p] : j <= start
         \/ /\ i \in relation[p] /\ i > start /\ i # 0
            /\ \A j \in relation[p] : j > start => i <= j
<1> DEFINE used == {i \in relation[p] : i > start}
<1>0. relation[p] \in SUBSET Slots
  OBVIOUS
<1>1. CASE used = {}
  BY <1>0, <1>1 DEF getNextUsedSlot
<1>2. CASE used # {}
  <2>1. used \in SUBSET Nat
    BY <1>0
  <2>2. \E i \in used : \A j \in used : i <= j
    BY <1>2, <2>1, LeastElement
  <2>3. getNextUsedSlot(p, start) = CHOOSE i \in used : \A j \in used : i <= j
    BY <1>2 DEF getNextUsedSlot
  <2>. HIDE DEF used
  <2>4. /\ getNextUsedSlot(p, start) \in used
        /\ \A j \in used : getNextUsedSlot(p, start) <= j
    BY <2>2, <2>3
  <2>. QED BY <2>4 DEF used
<1>. QED BY <1>1, <1>2

(* There are finitely many pins.                                           *)
LEMMA PinsFinite ==
  ASSUME NEW table
  PROVE  IsFiniteSet(PinSet(table)) /\ Cardinality(PinSet(table)) \in Nat
<1>0. IsFiniteSet(Scans) /\ IsFiniteSet(1 .. MaxPages)
  <2>1. 1 \in Int /\ MaxPages \in Int
    OBVIOUS
  <2>. QED BY <2>1, FS_Interval
<1>1. IsFiniteSet(Scans \X Pages)
  BY <1>0, FS_Product
<1>. QED BY <1>1, FS_Subset, FS_CardinalityType DEF PinSet

(* Giving a pin back frees a frame.                                        *)
LEMMA AfterUnpin ==
  ASSUME NEW table \in Tables, NEW s \in Scans, NEW p \in Pages,
         table[s][p] = 1, held \in Nat
  PROVE  /\ Unpinned(table, s, p) \in Tables
         /\ PinnedFrames(Unpinned(table, s, p)) = PinnedFrames(table) - 1
<1>1. Unpinned(table, s, p) \in Tables
  BY DEF Tables, Unpinned
<1>2. PinSet(Unpinned(table, s, p)) = PinSet(table) \ {<<s, p>>}
  BY DEF Tables, Unpinned, PinSet
<1>3. <<s, p>> \in PinSet(table)
  BY DEF PinSet
<1>4. /\ Cardinality(PinSet(table) \ {<<s, p>>}) = Cardinality(PinSet(table)) - 1
  BY <1>3, PinsFinite, FS_RemoveElement
<1>5. /\ PinnedFrames(table) = held + Cardinality(PinSet(table))
      /\ PinnedFrames(Unpinned(table, s, p))
           = held + Cardinality(PinSet(Unpinned(table, s, p)))
  BY DEF PinnedFrames, PinSet
<1>. QED BY <1>1, <1>2, <1>4, <1>5, PinsFinite

(* Pinning a page takes one frame.                                         *)
LEMMA AfterPin ==
  ASSUME NEW table \in Tables, NEW s \in Scans, NEW p \in Pages,
         table[s][p] = 0, held \in Nat
  PROVE  /\ Pinned(table, s, p) \in Tables
         /\ PinnedFrames(Pinned(table, s, p)) = PinnedFrames(table) + 1
<1>1. Pinned(table, s, p) \in Tables
  BY DEF Tables, Pinned
<1>2. PinSet(Pinned(table, s, p)) = PinSet(table) \cup {<<s, p>>}
  BY DEF Tables, Pinned, PinSet
<1>3. <<s, p>> \notin PinSet(table)
  BY DEF PinSet
<1>4. /\ Cardinality(PinSet(table) \cup {<<s, p>>}) = Cardinality(PinSet(table)) + 1
  BY <1>3, PinsFinite, FS_AddElement
<1>5. /\ PinnedFrames(table) = held + Cardinality(PinSet(table))
      /\ PinnedFrames(Pinned(table, s, p))
           = held + Cardinality(PinSet(Pinned(table, s, p)))
  BY DEF PinnedFrames, PinSet
<1>. QED BY <1>1, <1>2, <1>4, <1>5, PinsFinite

-----------------------------------------------------------------------------
(* Where a call of scanNext leaves its scan.                               *)

\* object and table keep the invariant; dirtied' is what the call made it.
Keeps(s, object, table) ==
  /\ object \in FileScan /\ table \in Tables
  /\ object.filePageIter \in 0 .. Len(relation)
  /\ object.curPage # NULL =>
       /\ object.curPage = object.filePageIter
       /\ object.filePageIter # 0
       /\ object.pageRecordIter \in relation[object.filePageIter]
  /\ \A p \in Pages : table[s][p] = IF object.curPage = p THEN 1 ELSE 0
  /\ \A t \in Scans \ {s} : table[t] = pins[t]
  /\ PinnedFrames(table) <= NumBufs
  /\ dirtied' \in [Scans -> SUBSET Pages]
  /\ \A t \in Scans \ {s} : dirtied'[t] = dirtied[t]
  /\ marked[s] = dirtied'[s] \cup
       (IF object.curPage # NULL /\ object.curDirtyFlag
        THEN {object.curPage} ELSE {})

(* Whatever keeps the invariant for one scan keeps it.                     *)
LEMMA OutcomeKeeps ==
  ASSUME IInv, NEW s \in Scans, scan[s] # NULL, NEW object, NEW table,
         NEW result, Outcome(s, object, table, result), Keeps(s, object, table)
  PROVE  IInv'
<1>. USE DEF Outcome, Keeps, IInv
<1>0. object # NULL
  BY DEF Keeps
<1>1. TypeOK'
  BY DEF TypeOK, Tables
<1>2. Positioned'
  BY <1>0 DEF Positioned, TypeOK
<1>3. PinsExact'
  BY <1>0 DEF PinsExact, TypeOK, Tables
<1>4. DirtyExact'
  BY <1>0 DEF DirtyExact, TypeOK
<1>5. FramesBounded'
  BY DEF FramesBounded, PinnedFrames
<1>. QED BY <1>1, <1>2, <1>3, <1>4, <1>5

\* The answer is the one RecordCursor gives at position c.
Lands(c, object, result) ==
  \/ /\ object.filePageIter = 0
     /\ c = << >> \/ Cursor!Following(c) = {}
     /\ result = Threw("EndOfFile")
  \/ /\ object.filePageIter # 0 /\ object.curPage = NULL
     /\ c = <<0, 0>>
     /\ result = Threw("BufferExceeded")
  \/ /\ object.filePageIter # 0 /\ object.curPage # NULL
     /\ c # << >>
     /\ LET r == <<object.filePageIter, object.pageRecordIter>> IN
        /\ r \in Cursor!Following(c)
        /\ \A q \in Cursor!Following(c) \ {r} : Cursor!Precedes(r, q)
     /\ result = Returned(object.filePageIter, object.pageRecordIter)

\* From page p on with no page held: what FromPage is given.
ReadyFrom(s, p, table, flag, c) ==
  /\ p \in 1 .. Len(relation) + 1
  /\ table \in Tables /\ flag \in BOOLEAN
  /\ \A q \in Pages : table[s][q] = 0
  /\ \A t \in Scans \ {s} : table[t] = pins[t]
  /\ PinnedFrames(table) <= NumBufs
  /\ c = <<0, 0>> \/ PinnedFrames(table) < NumBufs
  /\ dirtied' \in [Scans -> SUBSET Pages]
  /\ \A t \in Scans \ {s} : dirtied'[t] = dirtied[t]
  /\ marked[s] = dirtied'[s]
  /\ c # << >>
  /\ Cursor!Following(c) = {r \in Cursor!Stored : r[1] >= p}

(* The loop of scanNext finds the first record from page p on, and fails   *)
(* only before the first record.                                           *)
LEMMA LoopLands ==
  ASSUME IInv, NEW s \in Scans, NEW p, NEW table, NEW flag, NEW c,
         ReadyFrom(s, p, table, flag, c), FromPage(s, p, table, flag)
  PROVE  \E object, tbl, result :
           /\ Outcome(s, object, tbl, result)
           /\ Keeps(s, object, tbl)
           /\ Lands(c, object, result)
<1> DEFINE q == PageWithRecord(p)
           i == getNextUsedSlot(q, 0)
<1>. USE DEF ReadyFrom
<1>1. /\ relation \in Seq(SUBSET Slots) /\ Len(relation) \in 0 .. MaxPages
      /\ held \in Nat
      /\ \A r \in 1 .. Len(relation) : relation[r] \in SUBSET Slots
      /\ NULL \notin Pages
  BY DEF IInv, TypeOK
<1>2. Cursor!Stored = {r \in (1 .. Len(relation)) \X Slots : r[2] \in relation[r[1]]}
  BY <1>1 DEF Cursor!Stored
<1>3. ASSUME NEW n \in {0, p}, n <= Len(relation), NEW f \in BOOLEAN
      PROVE  Keeps(s, NoPage(n, f), table)
  BY <1>1, <1>3 DEF Keeps, NoPage, FileScan
<1>4. CASE /\ p > Len(relation)
           /\ Outcome(s, NoPage(0, flag), table, Threw("EndOfFile"))
  <2>1. Cursor!Following(c) = {}
    BY <1>1, <1>2, <1>4
  <2>2. Lands(c, NoPage(0, flag), Threw("EndOfFile"))
    BY <2>1 DEF Lands, NoPage
  <2>3. Keeps(s, NoPage(0, flag), table)
    BY <1>1, <1>3
  <2>. QED BY <1>4, <2>2, <2>3
<1>5. CASE /\ p <= Len(relation) /\ ~CanRead(table, s, p)
           /\ Outcome(s, NoPage(p, flag), table, Threw("BufferExceeded"))
  <2>1. c = <<0, 0>>
    BY <1>5 DEF CanRead
  <2>2. Lands(c, NoPage(p, flag), Threw("BufferExceeded"))
    BY <2>1, <1>1 DEF Lands, NoPage
  <2>3. Keeps(s, NoPage(p, flag), table)
    BY <1>1, <1>3, <1>5
  <2>. QED BY <1>5, <2>2, <2>3
<1>6. CASE /\ p <= Len(relation) /\ q = 0
           /\ Outcome(s, NoPage(0, FALSE), table, Threw("EndOfFile"))
  <2>1. \A r \in p .. Len(relation) : relation[r] = {}
    BY <1>1, <1>6, PageFound
  <2>2. Cursor!Following(c) = {}
    BY <1>1, <1>2, <2>1
  <2>3. Lands(c, NoPage(0, FALSE), Threw("EndOfFile"))
    BY <2>2 DEF Lands, NoPage
  <2>4. Keeps(s, NoPage(0, FALSE), table)
    <3>1. 0 \in {0, p} /\ 0 <= Len(relation) /\ FALSE \in BOOLEAN
      BY <1>1
    <3>. QED BY <3>1, <1>3
  <2>. QED BY <1>6, <2>3, <2>4
<1>7. CASE /\ p <= Len(relation) /\ CanRead(table, s, p) /\ q # 0
           /\ Outcome(s, AtRecord(q, i, FALSE), Pinned(table, s, q),
                      Returned(q, i))
  <2>1. /\ q \in p .. Len(relation) /\ relation[q] # {}
        /\ \A r \in p .. Len(relation) : relation[r] # {} => q <= r
    BY <1>1, <1>7, PageFound
  <2>2. q \in Pages
    BY <1>1, <2>1
  <2>3. /\ i \in relation[q] /\ i \in Slots
        /\ \A j \in relation[q] : i <= j
    BY <1>1, <2>1, SlotFound
  <2>4. PinnedFrames(table) < NumBufs
    BY <1>1, <1>7, <2>1 DEF CanRead
  <2>5. /\ Pinned(table, s, q) \in Tables
        /\ PinnedFrames(Pinned(table, s, q)) = PinnedFrames(table) + 1
    BY <1>1, <2>2, AfterPin
  <2>6. PinnedFrames(table) \in Nat
    <3>1. PinnedFrames(table) = held + Cardinality(PinSet(table))
      BY DEF PinnedFrames, PinSet
    <3>. QED BY <1>1, <3>1, PinsFinite
  <2>7. Keeps(s, AtRecord(q, i, FALSE), Pinned(table, s, q))
    <3>. HIDE DEF q, i
    <3>1. \A r \in Pages : Pinned(table, s, q)[s][r] = IF q = r THEN 1 ELSE 0
      BY <2>2 DEF Pinned, Tables
    <3>2. \A t \in Scans \ {s} : Pinned(table, s, q)[t] = pins[t]
      BY <2>2 DEF Pinned, Tables
    <3>. QED BY <1>1, <2>1, <2>2, <2>3, <2>4, <2>5, <2>6, <3>1, <3>2
             DEF Keeps, AtRecord, FileScan
  <2>8. Lands(c, AtRecord(q, i, FALSE), Returned(q, i))
    <3>. HIDE DEF q, i
    <3>1. <<q, i>> \in Cursor!Following(c)
      BY <1>1, <1>2, <2>1, <2>2, <2>3
    <3>2. ASSUME NEW r \in Cursor!Following(c), r # <<q, i>>
          PROVE  Cursor!Precedes(<<q, i>>, r)
      <4>1. /\ r \in (1 .. Len(relation)) \X Slots
            /\ r[1] >= p /\ r[2] \in relation[r[1]]
        BY <1>2
      <4>2. q <= r[1]
        BY <4>1, <2>1, <1>1
      <4>3. r[1] = q => i <= r[2] /\ i # r[2]
        BY <4>1, <2>3, <3>2
      <4>. QED BY <1>1, <2>1, <2>3, <4>1, <4>2, <4>3 DEF Cursor!Precedes
    <3>3. q # 0 /\ q # NULL
      BY <2>2
    <3>. QED BY <3>1, <3>2, <3>3 DEF Lands, AtRecord
  <2>. QED BY <1>7, <2>7, <2>8
<1>. QED BY <1>4, <1>5, <1>6, <1>7 DEF FromPage

(* A call of scanNext keeps the invariant and answers as RecordCursor.     *)
LEMMA ScanNextLands ==
  ASSUME IInv, NEW s \in Scans, scanNext(s)
  PROVE  /\ scan[s] # NULL
         /\ \E object, table, result :
              /\ Outcome(s, object, table, result)
              /\ Keeps(s, object, table)
              /\ Lands(Position(s), object, result)
<1>0. scan[s] # NULL
  BY DEF scanNext, Ended, First, SamePage, NextPage
<1>1. /\ scan[s] \in FileScan /\ pins \in Tables /\ held \in Nat
      /\ relation \in Seq(SUBSET Slots) /\ Len(relation) \in 0 .. MaxPages
      /\ \A r \in 1 .. Len(relation) : relation[r] \in SUBSET Slots
      /\ marked \in [Scans -> SUBSET Pages] /\ dirtied \in [Scans -> SUBSET Pages]
      /\ PinnedFrames(pins) <= NumBufs
      /\ NULL \notin Pages
  BY <1>0 DEF IInv, TypeOK, Tables, FramesBounded
<1>2. /\ scan[s].filePageIter \in 0 .. Len(relation)
      /\ scan[s].curPage # NULL =>
           /\ scan[s].curPage = scan[s].filePageIter
           /\ scan[s].filePageIter # 0
           /\ scan[s].pageRecordIter \in relation[scan[s].filePageIter]
  BY <1>0 DEF IInv, Positioned
<1>3. \A p \in Pages : pins[s][p] = IF scan[s].curPage = p THEN 1 ELSE 0
  BY <1>0, <1>1, <1>2 DEF IInv, PinsExact
<1>4. marked[s] = dirtied[s] \cup
        (IF scan[s].curPage # NULL /\ scan[s].curDirtyFlag
         THEN {scan[s].curPage} ELSE {})
  BY <1>0 DEF IInv, DirtyExact
<1>5. Cursor!Stored = {r \in (1 .. Len(relation)) \X Slots : r[2] \in relation[r[1]]}
  BY <1>1 DEF Cursor!Stored
<1>6. CASE Ended(s)
  <2>1. Outcome(s, scan[s], pins, Threw("EndOfFile")) /\ dirtied' = dirtied
    BY <1>6 DEF Ended
  <2>2. scan[s].filePageIter = 0 /\ scan[s].curPage = NULL
    BY <1>6, <1>2 DEF Ended
  <2>3. Keeps(s, scan[s], pins)
    BY <1>1, <1>2, <1>3, <1>4, <2>1 DEF Keeps
  <2>4. Lands(Position(s), scan[s], Threw("EndOfFile"))
    BY <1>0, <2>2 DEF Lands, Position
  <2>. QED BY <1>0, <2>1, <2>3, <2>4
<1>7. CASE First(s)
  <2>1. /\ scan[s].filePageIter # 0 /\ scan[s].curPage = NULL
        /\ FromPage(s, begin, pins, scan[s].curDirtyFlag)
        /\ dirtied' = dirtied
    BY <1>7 DEF First
  <2>2. begin = 1 /\ 1 \in 1 .. Len(relation) + 1
    BY <1>1, <1>2, <2>1 DEF begin
  <2>3. Position(s) = <<0, 0>>
    BY <1>0, <2>1 DEF Position
  <2>4. Cursor!Following(<<0, 0>>) = {r \in Cursor!Stored : r[1] >= 1}
    BY <1>5 DEF Cursor!Following, Cursor!Precedes
  <2>5. ReadyFrom(s, 1, pins, scan[s].curDirtyFlag, <<0, 0>>)
    BY <1>1, <1>3, <1>4, <2>1, <2>2, <2>4 DEF ReadyFrom, FileScan
  <2>. QED BY <1>0, <2>1, <2>2, <2>3, <2>5, LoopLands
<1>8. ASSUME scan[s].filePageIter # 0, scan[s].curPage # NULL
      PROVE  /\ Position(s) = <<scan[s].filePageIter, scan[s].pageRecordIter>>
             /\ scan[s].filePageIter \in 1 .. Len(relation)
             /\ scan[s].filePageIter \in Pages
             /\ scan[s].pageRecordIter \in Slots
             /\ scan[s].curPage = scan[s].filePageIter
  BY <1>0, <1>1, <1>2, <1>8 DEF Position
<1>9. CASE SamePage(s)
  <2> DEFINE p == scan[s].filePageIter
             i == getNextUsedSlot(p, scan[s].pageRecordIter)
             object == [scan[s] EXCEPT !.pageRecordIter = i]
  <2>1. /\ p # 0 /\ scan[s].curPage # NULL /\ i # 0
        /\ Outcome(s, object, pins, Returned(p, i))
        /\ dirtied' = dirtied
    BY <1>9 DEF SamePage
  <2>2. /\ i \in relation[p] /\ i > scan[s].pageRecordIter
        /\ \A j \in relation[p] : j > scan[s].pageRecordIter => i <= j
    BY <1>1, <1>8, <2>1, SlotFound
  <2>3. /\ object \in FileScan
        /\ object.filePageIter = p /\ object.curPage = p
        /\ object.pageRecordIter = i
        /\ object.curDirtyFlag = scan[s].curDirtyFlag
    BY <1>1, <1>8, <2>1, <2>2 DEF FileScan
  <2>. HIDE DEF object
  <2>4. Keeps(s, object, pins)
    BY <1>1, <1>2, <1>3, <1>4, <1>8, <2>1, <2>2, <2>3 DEF Keeps
  <2>5. Lands(Position(s), object, Returned(p, i))
    <3>. HIDE DEF p, i
    <3>0. /\ Position(s) = <<p, scan[s].pageRecordIter>>
          /\ p \in 1 .. Len(relation) /\ p \in Nat /\ p # NULL
          /\ scan[s].pageRecordIter \in Nat
          /\ i \in Slots /\ i \in Nat
      BY <1>1, <1>8, <2>1, <2>2 DEF p
    <3>1. <<p, i>> \in Cursor!Following(Position(s))
      BY <1>5, <2>2, <3>0 DEF Cursor!Following, Cursor!Precedes
    <3>2. ASSUME NEW r \in Cursor!Following(Position(s)), r # <<p, i>>
          PROVE  Cursor!Precedes(<<p, i>>, r)
      <4>1. /\ r \in (1 .. Len(relation)) \X Slots /\ r[2] \in relation[r[1]]
            /\ \/ p < r[1]
               \/ p = r[1] /\ scan[s].pageRecordIter < r[2]
        BY <1>5, <3>0 DEF Cursor!Following, Cursor!Precedes
      <4>2. r[1] = p => i <= r[2] /\ i # r[2]
        BY <4>1, <2>2, <3>0, <3>2
      <4>. QED BY <3>0, <4>1, <4>2 DEF Cursor!Precedes
    <3>. QED BY <2>1, <2>3, <3>0, <3>1, <3>2 DEF Lands
  <2>. QED BY <1>0, <2>1, <2>4, <2>5
<1>10. CASE NextPage(s)
  <2> DEFINE p == scan[s].filePageIter
             table == Unpinned(pins, s, p)
             c == <<p, scan[s].pageRecordIter>>
  <2>1. /\ p # 0 /\ scan[s].curPage # NULL
        /\ getNextUsedSlot(p, scan[s].pageRecordIter) = 0
        /\ FromPage(s, p + 1, table, FALSE)
        /\ dirtied' = [dirtied EXCEPT ![s] =
                         IF scan[s].curDirtyFlag THEN @ \cup {p} ELSE @]
    BY <1>10 DEF NextPage
  <2>2. \A j \in relation[p] : j <= scan[s].pageRecordIter
    BY <1>1, <1>8, <2>1, SlotFound
  <2>3. Cursor!Following(c) = {r \in Cursor!Stored : r[1] >= p + 1}
    <3>1. ASSUME NEW r \in Cursor!Stored
          PROVE  Cursor!Precedes(c, r) <=> r[1] >= p + 1
      <4>1. /\ r[1] \in 1 .. Len(relation) /\ r[2] \in Slots
            /\ r[2] \in relation[r[1]]
        BY <1>5
      <4>. QED BY <1>8, <2>1, <2>2, <4>1 DEF Cursor!Precedes
    <3>. QED BY <3>1 DEF Cursor!Following
  <2>4. /\ table \in Tables
        /\ PinnedFrames(table) = PinnedFrames(pins) - 1
    BY <1>1, <1>3, <1>8, <2>1, AfterUnpin
  <2>5. PinnedFrames(pins) \in Nat
    <3>1. PinnedFrames(pins) = held + Cardinality(PinSet(pins))
      BY DEF PinnedFrames, PinSet
    <3>. QED BY <1>1, <3>1, PinsFinite
  <2>6. /\ \A q \in Pages : table[s][q] = 0
        /\ \A t \in Scans \ {s} : table[t] = pins[t]
    BY <1>1, <1>3, <1>8, <2>1 DEF Unpinned, Tables
  <2>7. /\ dirtied' \in [Scans -> SUBSET Pages]
        /\ \A t \in Scans \ {s} : dirtied'[t] = dirtied[t]
        /\ marked[s] = dirtied'[s]
    BY <1>1, <1>4, <1>8, <2>1
  <2>8. ReadyFrom(s, p + 1, table, FALSE, c)
    <3>. HIDE DEF table
    <3>1. p + 1 \in 1 .. Len(relation) + 1
      BY <1>1, <1>8, <2>1
    <3>. QED BY <1>1, <2>3, <2>4, <2>5, <2>6, <2>7, <3>1 DEF ReadyFrom
  <2>9. c = Position(s)
    BY <1>8, <2>1
  <2>. QED BY <1>0, <2>1, <2>8, <2>9, LoopLands
<1>. QED BY <1>0, <1>6, <1>7, <1>9, <1>10 DEF scanNext

-----------------------------------------------------------------------------
(* Every step keeps the invariant.                                         *)

(* No scan is open at first.                                               *)
LEMMA InitInv ==
  ASSUME Init PROVE IInv
<1>1. \A s \in Scans : scan[s] = NULL
  BY DEF Init
<1>2. TypeOK
  BY DEF Init, TypeOK
<1>3. Positioned /\ PinsExact /\ DirtyExact
  BY <1>1 DEF Init, Positioned, PinsExact, DirtyExact
<1>4. FramesBounded
  <2>1. PinSet(pins) = {}
    <3>1. \A k \in Scans \X Pages : pins[k[1]][k[2]] = 0
      BY DEF Init
    <3>. QED BY <3>1 DEF PinSet
  <2>2. PinnedFrames(pins) = held + Cardinality(PinSet(pins))
    BY DEF PinnedFrames, PinSet
  <2>3. Cardinality({}) = 0
    BY FS_EmptySet
  <2>4. held = 0
    BY DEF Init
  <2>. QED BY <2>1, <2>2, <2>3, <2>4 DEF FramesBounded
<1>. QED BY <1>2, <1>3, <1>4 DEF IInv

(* FileScan's constructor.                                                 *)
LEMMA OpenInv ==
  ASSUME IInv, NEW s \in Scans, Open(s) PROVE IInv'
<1>. USE DEF Open, IInv
<1>1. /\ begin \in 0 .. Len(relation)
      /\ NoPage(begin, FALSE) \in FileScan /\ NoPage(begin, FALSE) # NULL
      /\ NoPage(begin, FALSE).curPage = NULL
      /\ NoPage(begin, FALSE).filePageIter = begin
      /\ NULL \notin Pages
  <2>1. /\ Len(relation) \in 0 .. MaxPages
        /\ relation # << >> => Len(relation) # 0
    BY DEF TypeOK
  <2>2. begin \in 0 .. Len(relation) /\ begin \in Pages \cup {0}
    BY <2>1 DEF begin
  <2>3. NoPage(begin, FALSE) \in FileScan
    BY <2>2 DEF NoPage, FileScan
  <2>4. NoPage(begin, FALSE) # NULL
    BY <2>3
  <2>5. NULL \notin Pages
    OBVIOUS
  <2>6. /\ NoPage(begin, FALSE).curPage = NULL
        /\ NoPage(begin, FALSE).filePageIter = begin
    BY DEF NoPage
  <2>. QED BY <2>2, <2>3, <2>4, <2>5, <2>6
<1>2. TypeOK'
  BY <1>1 DEF TypeOK
<1>3. Positioned'
  BY <1>1 DEF Positioned, TypeOK
<1>4. PinsExact'
  BY <1>1 DEF PinsExact, TypeOK
<1>5. DirtyExact'
  BY <1>1 DEF DirtyExact, TypeOK
<1>6. FramesBounded'
  BY DEF FramesBounded, PinnedFrames
<1>. QED BY <1>2, <1>3, <1>4, <1>5, <1>6

(* markDirty.                                                              *)
LEMMA MarkDirtyInv ==
  ASSUME IInv, NEW s \in Scans, markDirty(s) PROVE IInv'
<1>. USE DEF markDirty, IInv
<1>1. /\ scan[s] \in FileScan
      /\ [scan[s] EXCEPT !.curDirtyFlag = TRUE] \in FileScan
      /\ scan' = [scan EXCEPT ![s] = [scan[s] EXCEPT !.curDirtyFlag = TRUE]]
      /\ scan'[s] # NULL
      /\ scan'[s].curDirtyFlag = TRUE
      /\ scan'[s].curPage = scan[s].curPage
      /\ scan'[s].filePageIter = scan[s].filePageIter
      /\ scan'[s].pageRecordIter = scan[s].pageRecordIter
      /\ \A t \in Scans \ {s} : scan'[t] = scan[t]
  BY DEF TypeOK, FileScan
<1>2. TypeOK'
  BY <1>1 DEF TypeOK, FileScan
<1>3. Positioned'
  BY <1>1 DEF Positioned
<1>4. PinsExact'
  BY <1>1 DEF PinsExact
<1>5. DirtyExact'
  <2>1. marked' = [marked EXCEPT ![s] =
           IF scan[s].curPage = NULL THEN @ ELSE @ \cup {scan[s].curPage}]
    OBVIOUS
  <2>2. \A t \in Scans \ {s} : marked'[t] = marked[t]
    BY <2>1 DEF TypeOK
  <2>3. scan[s].curPage = NULL => marked'[s] = marked[s]
    BY <2>1 DEF TypeOK
  <2>4. scan[s].curPage # NULL => marked'[s] = marked[s] \cup {scan[s].curPage}
    BY <2>1 DEF TypeOK
  <2>. QED BY <1>1, <2>2, <2>3, <2>4 DEF DirtyExact
<1>6. FramesBounded'
  BY DEF FramesBounded, PinnedFrames
<1>. QED BY <1>2, <1>3, <1>4, <1>5, <1>6

(* FileScan's destructor.                                                  *)
LEMMA CloseInv ==
  ASSUME IInv, NEW s \in Scans, Close(s) PROVE IInv'
<1> DEFINE p == scan[s].filePageIter
           holds == scan[s].curPage # NULL
<1>1. /\ scan[s] # NULL
      /\ pins' = IF holds THEN Unpinned(pins, s, p) ELSE pins
      /\ dirtied' = [dirtied EXCEPT ![s] =
           IF holds /\ scan[s].curDirtyFlag THEN @ \cup {p} ELSE @]
      /\ scan' = [scan EXCEPT ![s] = NULL]
      /\ UNCHANGED <<relation, held, marked>>
  BY DEF Close
<1>2. /\ scan[s] \in FileScan /\ pins \in Tables /\ held \in Nat
      /\ PinnedFrames(pins) <= NumBufs /\ NULL \notin Pages
      /\ holds => p \in Pages /\ scan[s].curPage = p
      /\ \A q \in Pages : pins[s][q] = IF scan[s].curPage = q THEN 1 ELSE 0
  <2>1. scan[s] \in FileScan
    BY <1>1 DEF IInv, TypeOK
  <2>2. holds => p \in Pages /\ scan[s].curPage = p
    BY <1>1, <2>1 DEF IInv, Positioned, FileScan
  <2>3. pins \in Tables /\ held \in Nat /\ PinnedFrames(pins) <= NumBufs
    BY DEF IInv, TypeOK, Tables, FramesBounded
  <2>4. \A q \in Pages : pins[s][q] = IF scan[s].curPage = q THEN 1 ELSE 0
    BY <1>1, <2>1, <2>2 DEF IInv, PinsExact
  <2>. QED BY <2>1, <2>2, <2>3, <2>4
<1>3. /\ pins' \in Tables
      /\ \A q \in Pages : pins'[s][q] = 0
      /\ \A t \in Scans \ {s} : pins'[t] = pins[t]
      /\ PinnedFrames(pins') <= NumBufs
  <2>1. CASE holds
    <3>1. /\ Unpinned(pins, s, p) \in Tables
          /\ PinnedFrames(Unpinned(pins, s, p)) = PinnedFrames(pins) - 1
      BY <1>2, <2>1, AfterUnpin
    <3>2. PinnedFrames(pins) = held + Cardinality(PinSet(pins))
      BY DEF PinnedFrames, PinSet
    <3>3. PinnedFrames(pins) \in Nat
      BY <1>2, <3>2, PinsFinite
    <3>4. /\ \A q \in Pages : Unpinned(pins, s, p)[s][q] = 0
          /\ \A t \in Scans \ {s} : Unpinned(pins, s, p)[t] = pins[t]
      BY <1>2, <2>1 DEF Unpinned, Tables
    <3>. QED BY <1>1, <1>2, <2>1, <3>1, <3>3, <3>4
  <2>2. CASE ~holds
    BY <1>1, <1>2, <2>2
  <2>. QED BY <2>1, <2>2
<1>4. scan'[s] = NULL /\ \A t \in Scans \ {s} : scan'[t] = scan[t]
  BY <1>1 DEF IInv, TypeOK
<1>5. TypeOK'
  BY <1>1, <1>2, <1>3 DEF IInv, TypeOK, Tables
<1>6. Positioned'
  BY <1>1, <1>4 DEF IInv, Positioned
<1>7. PinsExact'
  BY <1>3, <1>4 DEF IInv, PinsExact
<1>8. DirtyExact'
  <2>1. /\ \A t \in Scans \ {s} : dirtied'[t] = dirtied[t]
        /\ marked[s] = dirtied'[s]
    BY <1>1, <1>2 DEF IInv, TypeOK, DirtyExact
  <2>. QED BY <1>1, <1>4, <2>1 DEF IInv, DirtyExact
<1>9. FramesBounded'
  BY <1>1, <1>3 DEF FramesBounded, PinnedFrames
<1>. QED BY <1>5, <1>6, <1>7, <1>8, <1>9 DEF IInv

(* The steps of other clients of the pool.                                 *)
LEMMA OthersInv ==
  ASSUME IInv,
         (\E S \in SUBSET Slots : AddPage(S)) \/ OthersPin \/ OthersUnpin
  PROVE  IInv'
<1>1. ASSUME NEW S \in SUBSET Slots, AddPage(S) PROVE IInv'
  <2>. USE <1>1 DEF AddPage, IInv
  <2>1. /\ relation' = Append(relation, S) /\ relation' \in Seq(SUBSET Slots)
        /\ Len(relation') = Len(relation) + 1 /\ Len(relation) \in Nat
        /\ \A r \in 1 .. Len(relation) : relation'[r] = relation[r]
    BY DEF TypeOK
  <2>2. TypeOK'
    BY <2>1 DEF TypeOK
  <2>3. Positioned'
    BY <2>1 DEF Positioned
  <2>4. PinsExact' /\ DirtyExact' /\ FramesBounded'
    BY DEF PinsExact, DirtyExact, FramesBounded, PinnedFrames
  <2>. QED BY <2>2, <2>3, <2>4
<1>2. ASSUME OthersPin \/ OthersUnpin PROVE IInv'
  <2>1. /\ held \in 0 .. NumBufs /\ Cardinality(PinSet(pins)) \in Nat
        /\ PinnedFrames(pins) = held + Cardinality(PinSet(pins))
    BY PinsFinite DEF IInv, TypeOK, PinnedFrames, PinSet
  <2>2. /\ UNCHANGED <<relation, scan, pins, answer, marked, dirtied>>
        /\ held' \in 0 .. NumBufs
        /\ held' + Cardinality(PinSet(pins)) <= NumBufs
    BY <1>2, <2>1 DEF OthersPin, OthersUnpin, IInv, FramesBounded
  <2>3. FramesBounded'
    BY <2>2 DEF FramesBounded, PinnedFrames, PinSet
  <2>4. TypeOK'
    BY <2>2 DEF IInv, TypeOK
  <2>5. Positioned' /\ PinsExact' /\ DirtyExact'
    BY <2>2 DEF IInv, Positioned, PinsExact, DirtyExact
  <2>. QED BY <2>3, <2>4, <2>5 DEF IInv
<1>. QED BY <1>1, <1>2

-----------------------------------------------------------------------------
(* The invariant and what follows from it.                                 *)

(* Every step keeps the invariant.                                         *)
LEMMA NextInv ==
  ASSUME IInv, [Next]_vars PROVE IInv'
<1>1. ASSUME NEW s \in Scans, Open(s) PROVE IInv'
  BY <1>1, OpenInv
<1>2. ASSUME NEW s \in Scans, scanNext(s) PROVE IInv'
  BY <1>2, ScanNextLands, OutcomeKeeps
<1>3. ASSUME NEW s \in Scans, markDirty(s) PROVE IInv'
  BY <1>3, MarkDirtyInv
<1>4. ASSUME NEW s \in Scans, Close(s) PROVE IInv'
  BY <1>4, CloseInv
<1>5. CASE (\E S \in SUBSET Slots : AddPage(S)) \/ OthersPin \/ OthersUnpin
  BY <1>5, OthersInv
<1>6. CASE UNCHANGED vars
  BY <1>6 DEF vars, IInv, TypeOK, Positioned, PinsExact, DirtyExact,
              FramesBounded, PinnedFrames
<1>. QED BY <1>1, <1>2, <1>3, <1>4, <1>5, <1>6 DEF Next

(* The invariant holds in every reachable state.                           *)
LEMMA Invariant == Spec => []IInv
<1>1. Init => IInv
  BY InitInv
<1>2. IInv /\ [Next]_vars => IInv'
  BY NextInv
<1>. QED BY <1>1, <1>2, PTL DEF Spec

(* The state of every scan keeps its type.                                 *)
THEOREM TypeCorrect == Spec => []TypeOK
<1>1. IInv => TypeOK
  BY DEF IInv
<1>. QED BY <1>1, Invariant, PTL

(* A scan pins the page of its current record, once, and no other page:    *)
(* nothing stays pinned after the end, after a failed call or after the    *)
(* destructor.                                                             *)
THEOREM PinsAreExact == Spec => []PinsExact
<1>1. IInv => PinsExact
  BY DEF IInv
<1>. QED BY <1>1, Invariant, PTL

(* Pages are unpinned dirty exactly if the client marked them.             *)
THEOREM DirtyMarksAreExact == Spec => []DirtyExact
<1>1. IInv => DirtyExact
  BY DEF IInv
<1>. QED BY <1>1, Invariant, PTL

\* The variable cursor of RecordCursor.
cursor == [s \in Scans |-> Position(s)]

(* A call of scanNext is a step of RecordCursor.                           *)
LEMMA ScanNextRefines ==
  ASSUME IInv, NEW s \in Scans, scanNext(s)
  PROVE  Cursor!Next
<1>1. PICK object, table, result :
        /\ Outcome(s, object, table, result)
        /\ Keeps(s, object, table)
        /\ Lands(Position(s), object, result)
  BY ScanNextLands
<1>2. /\ scan[s] # NULL /\ scan[s] \in FileScan
      /\ scan' = [scan EXCEPT ![s] = object] /\ object # NULL
      /\ scan'[s] = object /\ \A t \in Scans \ {s} : scan'[t] = scan[t]
      /\ answer' = [answer EXCEPT ![s] = result]
      /\ relation' = relation
  BY <1>1, ScanNextLands DEF Outcome, Keeps, IInv, TypeOK
<1>3. /\ Position(s)' = IF object.filePageIter = 0 THEN << >>
                        ELSE IF object.curPage = NULL THEN <<0, 0>>
                        ELSE <<object.filePageIter, object.pageRecordIter>>
      /\ \A t \in Scans \ {s} : Position(t)' = Position(t)
  BY <1>2 DEF Position
<1>4. cursor' = [cursor EXCEPT ![s] = Position(s)']
  BY <1>3 DEF cursor
<1>5. cursor[s] = Position(s) /\ Position(s) # NULL
  BY <1>2 DEF cursor, Position, FileScan
<1>6. CASE /\ object.filePageIter = 0
           /\ Position(s) = << >> \/ Cursor!Following(Position(s)) = {}
           /\ result = Threw("EndOfFile")
  <2>1. Cursor!End(s)
    BY <1>2, <1>3, <1>4, <1>5, <1>6
       DEF Cursor!End, Cursor!After, Cursor!Threw, Threw, cursor
  <2>. QED BY <2>1 DEF Cursor!Next
<1>7. CASE /\ object.filePageIter # 0 /\ object.curPage = NULL
           /\ Position(s) = <<0, 0>>
           /\ result = Threw("BufferExceeded")
  <2>1. cursor' = cursor
    BY <1>3, <1>7 DEF cursor
  <2>2. Cursor!Fail(s)
    BY <1>2, <1>5, <1>7, <2>1
       DEF Cursor!Fail, Cursor!Before, Cursor!Threw, Threw, cursor
  <2>. QED BY <2>2 DEF Cursor!Next
<1>8. ASSUME object.filePageIter # 0, object.curPage # NULL,
             Position(s) # << >>,
             <<object.filePageIter, object.pageRecordIter>>
               \in Cursor!Following(Position(s)),
             \A q \in Cursor!Following(Position(s))
                        \ {<<object.filePageIter, object.pageRecordIter>>} :
               Cursor!Precedes(<<object.filePageIter, object.pageRecordIter>>, q),
             result = Returned(object.filePageIter, object.pageRecordIter)
      PROVE  Cursor!Next
  <2> DEFINE r == <<object.filePageIter, object.pageRecordIter>>
  <2>1. Position(s)' = r
    BY <1>3, <1>8
  <2>2. result = Cursor!Returned(r)
    BY <1>8 DEF Returned, Cursor!Returned
  <2>3. r \in Cursor!Stored
    BY <1>8 DEF Cursor!Following
  <2>. HIDE DEF r
  <2>4. Cursor!Fetch(s, r)
    BY <1>2, <1>4, <1>5, <1>8, <2>1, <2>2 DEF Cursor!Fetch, Cursor!After, cursor, r
  <2>. QED BY <2>3, <2>4 DEF Cursor!Next
<1>. QED BY <1>1, <1>6, <1>7, <1>8 DEF Lands

(* Opening, marking and closing change one position or none.               *)
LEMMA OtherCallsRefine ==
  ASSUME IInv, NEW s \in Scans, Open(s) \/ markDirty(s) \/ Close(s)
  PROVE  Cursor!Next \/ UNCHANGED <<relation, cursor, answer>>
<1>1. CASE Open(s)
  <2>1. /\ scan' = [scan EXCEPT ![s] = NoPage(begin, FALSE)]
        /\ scan[s] = NULL /\ relation' = relation
        /\ answer' = [answer EXCEPT ![s] = NULL]
    BY <1>1 DEF Open
  <2>2. /\ scan'[s] = NoPage(begin, FALSE)
        /\ \A t \in Scans \ {s} : scan'[t] = scan[t]
    BY <2>1 DEF IInv, TypeOK
  <2>3. NoPage(begin, FALSE) # NULL
    <3>1. NoPage(begin, FALSE) \in FileScan
      <4>1. Len(relation) \in 0 .. MaxPages /\ (relation # << >> => Len(relation) # 0)
        BY DEF IInv, TypeOK
      <4>2. begin \in Pages \cup {0}
        BY <4>1 DEF begin
      <4>. QED BY <4>2 DEF NoPage, FileScan
    <3>. QED BY <3>1
  <2>4. Position(s)' = IF relation = << >> THEN << >> ELSE <<0, 0>>
    BY <2>2, <2>3 DEF Position, NoPage, begin
  <2>5. \A t \in Scans \ {s} : Position(t)' = Position(t)
    BY <2>2 DEF Position
  <2>6. cursor' = [cursor EXCEPT ![s] = Position(s)']
    BY <2>5 DEF cursor
  <2>7. Position(s) = NULL
    BY <2>1 DEF Position
  <2>8. Cursor!Open(s)
    BY <2>1, <2>4, <2>6, <2>7
       DEF Cursor!Open, Cursor!After, Cursor!Before, cursor
  <2>. QED BY <2>8 DEF Cursor!Next
<1>2. CASE markDirty(s)
  <2>1. /\ relation' = relation /\ answer' = answer /\ scan[s] # NULL
        /\ scan' = [scan EXCEPT ![s].curDirtyFlag = TRUE]
    BY <1>2 DEF markDirty
  <2>2. scan[s] \in FileScan
    BY <2>1 DEF IInv, TypeOK
  <2>3. /\ scan'[s] = [scan[s] EXCEPT !.curDirtyFlag = TRUE]
        /\ \A t \in Scans \ {s} : scan'[t] = scan[t]
    BY <2>1 DEF IInv, TypeOK
  <2>4. /\ scan'[s] # NULL
        /\ scan'[s].filePageIter = scan[s].filePageIter
        /\ scan'[s].curPage = scan[s].curPage
        /\ scan'[s].pageRecordIter = scan[s].pageRecordIter
    <3>1. [scan[s] EXCEPT !.curDirtyFlag = TRUE] \in FileScan
      BY <2>2 DEF FileScan
    <3>. QED BY <2>2, <2>3, <3>1 DEF FileScan
  <2>5. \A t \in Scans : Position(t)' = Position(t)
    BY <2>1, <2>3, <2>4 DEF Position
  <2>6. cursor' = cursor
    BY <2>5 DEF cursor
  <2>. QED BY <2>1, <2>6
<1>3. CASE Close(s)
  <2>1. /\ scan' = [scan EXCEPT ![s] = NULL]
        /\ scan[s] # NULL /\ relation' = relation
        /\ answer' = [answer EXCEPT ![s] = NULL]
    BY <1>3 DEF Close
  <2>2. /\ scan'[s] = NULL /\ scan[s] \in FileScan
        /\ \A t \in Scans \ {s} : scan'[t] = scan[t]
    BY <2>1 DEF IInv, TypeOK
  <2>3. Position(s)' = NULL /\ \A t \in Scans \ {s} : Position(t)' = Position(t)
    BY <2>2 DEF Position
  <2>4. cursor' = [cursor EXCEPT ![s] = NULL]
    BY <2>3 DEF cursor
  <2>5. Position(s) # NULL
    <3>1. scan[s].filePageIter \in Nat
      BY <2>2 DEF FileScan
    <3>2. scan[s].pageRecordIter \in Nat
      BY <2>2 DEF FileScan
    <3>. QED BY <2>1, <3>1, <3>2 DEF Position
  <2>6. Cursor!Close(s)
    BY <2>1, <2>4, <2>5 DEF Cursor!Close, cursor
  <2>. QED BY <2>6 DEF Cursor!Next
<1>. QED BY <1>1, <1>2, <1>3

(* Scans implement RecordCursor: every record is answered once and in file *)
(* order, and only the first call of a scan can run out of frames.         *)
THEOREM ScansImplementCursor == Spec => ImplementsCursor
<1>1. Init => Cursor!Init
  <2>1. Init => \A s \in Scans : Position(s) = NULL
    BY DEF Init, Position
  <2>. QED BY <2>1 DEF Init, Cursor!Init
<1>2. IInv /\ [Next]_vars
        => Cursor!Next \/ UNCHANGED <<relation, [s \in Scans |-> Position(s)], answer>>
  <2> SUFFICES ASSUME IInv, [Next]_vars
               PROVE  Cursor!Next \/ UNCHANGED <<relation, cursor, answer>>
    BY DEF cursor
  <2>1. ASSUME NEW s \in Scans, Open(s) \/ markDirty(s) \/ Close(s)
        PROVE  Cursor!Next \/ UNCHANGED <<relation, cursor, answer>>
    BY <2>1, OtherCallsRefine
  <2>2. ASSUME NEW s \in Scans, scanNext(s) PROVE Cursor!Next
    BY <2>2, ScanNextRefines
  <2>3. ASSUME NEW S \in SUBSET Slots, AddPage(S) PROVE Cursor!Next
    <3>1. scan' = scan /\ answer' = answer /\ relation' = Append(relation, S)
      BY <2>3 DEF AddPage
    <3>2. cursor' = cursor
      BY <3>1 DEF cursor, Position
    <3>. QED BY <3>1, <3>2 DEF Cursor!Next, Cursor!Grow, cursor
  <2>4. CASE OthersPin \/ OthersUnpin \/ UNCHANGED vars
    <3>1. scan' = scan /\ answer' = answer /\ relation' = relation
      BY <2>4 DEF OthersPin, OthersUnpin, vars
    <3>. QED BY <3>1 DEF cursor, Position
  <2>. QED BY <2>1, <2>2, <2>3, <2>4 DEF Next
<1>. QED BY <1>1, <1>2, Invariant, PTL DEF Spec, ImplementsCursor, Cursor!Spec

=============================================================================

---------------------------- MODULE RelationScan ----------------------------
(***************************************************************************)
(* Scans of a relation file (p3/btree/src/filescan.cpp with FileIterator   *)
(* and PageIterator).  A scan keeps the page of its current record pinned  *)
(* between two calls, and several scans and other clients share the frames *)
(* of one buffer manager.                                                  *)
(*                                                                         *)
(* Of the buffer manager only the pins are kept: BadgerBufMgr checks that  *)
(* readPage throws BufferExceededException only if every frame is pinned   *)
(* (ExceededMeansAllPinned).  Each scan opens the file for itself, so its  *)
(* frames are not those of another scan.  The file may grow at its end     *)
(* while it is scanned; pages with records do not change.                  *)
(***************************************************************************)
EXTENDS Naturals, Sequences, FiniteSets

CONSTANTS
  Scans,
  NumBufs,
  MaxPages,      \* bound: pages of the file
  MaxSlots,      \* bound: slots of a page
  NULL

Pages == 1 .. MaxPages
Slots == 1 .. MaxSlots

\* 0 is the end: Page::INVALID_NUMBER, Page::INVALID_SLOT.
FileScan == [filePageIter : Pages \cup {0}, curPage : Pages \cup {NULL},
             pageRecordIter : Slots \cup {0}, curDirtyFlag : BOOLEAN]

ASSUME ScanAssumption ==
  /\ IsFiniteSet(Scans)
  /\ NumBufs \in Nat \ {0} /\ MaxPages \in Nat \ {0} /\ MaxSlots \in Nat \ {0}
  /\ NULL \notin Nat /\ NULL \notin FileScan
  /\ NULL # << >> /\ NULL \notin Nat \X Nat

VARIABLES
  relation,      \* used slots of each page of the file
  scan,          \* the FileScan objects, or NULL
  pins,          \* pins each scan's File has on each page
  held,          \* frames pinned by others
  answer,        \* what the last call of each scan returned or threw
  marked,        \* history: pages marked dirty while they were current
  dirtied        \* history: pages each scan unpinned as dirty

vars == <<relation, scan, pins, held, answer, marked, dirtied>>

TypeOK ==
  /\ relation \in Seq(SUBSET Slots) /\ Len(relation) <= MaxPages
  /\ scan \in [Scans -> FileScan \cup {NULL}]
  /\ pins \in [Scans -> [Pages -> 0 .. 1]]
  /\ held \in 0 .. NumBufs
  /\ marked \in [Scans -> SUBSET Pages] /\ dirtied \in [Scans -> SUBSET Pages]

Init ==
  /\ relation = << >>
  /\ scan = [s \in Scans |-> NULL]
  /\ pins = [s \in Scans |-> [p \in Pages |-> 0]]
  /\ held = 0
  /\ answer = [s \in Scans |-> NULL]
  /\ marked = [s \in Scans |-> {}]
  /\ dirtied = [s \in Scans |-> {}]

-----------------------------------------------------------------------------
(* The buffer manager, the two iterators.                                  *)

PinnedFrames(table) ==
  held + Cardinality({k \in Scans \X Pages : table[k[1]][k[2]] > 0})

CanRead(table, s, p) == table[s][p] > 0 \/ PinnedFrames(table) < NumBufs

Pinned(table, s, p) == [table EXCEPT ![s][p] = @ + 1]
Unpinned(table, s, p) == [table EXCEPT ![s][p] = @ - 1]

\* Page p, or the next one that has a record; 0 at the end of the file.
PageWithRecord(p) ==
  LET found == {q \in p .. Len(relation) : relation[q] # {}}
  IN  IF found = {} THEN 0 ELSE CHOOSE q \in found : \A r \in found : q <= r

getNextUsedSlot(p, start) ==
  LET used == {i \in relation[p] : i > start}
  IN  IF used = {} THEN 0 ELSE CHOOSE i \in used : \A j \in used : i <= j

begin == IF relation = << >> THEN 0 ELSE 1

AtRecord(p, i, flag) ==
  [filePageIter |-> p, curPage |-> p, pageRecordIter |-> i,
   curDirtyFlag |-> flag]

\* No page is held; the record iterator is no longer read.
NoPage(p, flag) ==
  [filePageIter |-> p, curPage |-> NULL, pageRecordIter |-> 0,
   curDirtyFlag |-> flag]

-----------------------------------------------------------------------------
(* The calls.                                                              *)

Open(s) ==
  /\ scan[s] = NULL
  /\ scan' = [scan EXCEPT ![s] = NoPage(begin, FALSE)]
  /\ answer' = [answer EXCEPT ![s] = NULL]
  /\ marked' = [marked EXCEPT ![s] = {}]
  /\ dirtied' = [dirtied EXCEPT ![s] = {}]
  /\ UNCHANGED <<relation, pins, held>>

Returned(p, i) == [rid |-> <<p, i>>, exc |-> "ok"]
Threw(e) == [rid |-> NULL, exc |-> e]

Outcome(s, object, table, result) ==
  /\ scan' = [scan EXCEPT ![s] = object]
  /\ pins' = table
  /\ answer' = [answer EXCEPT ![s] = result]
  /\ UNCHANGED <<relation, held, marked>>

\* filePageIter == file->end()
Ended(s) ==
  /\ scan[s] # NULL
  /\ scan[s].filePageIter = 0
  /\ Outcome(s, scan[s], pins, Threw("EndOfFile"))
  /\ UNCHANGED dirtied

\* The while loop from page p on, no page being held: each turn reads the
\* next page and, if it has no record, gives it back.
FromPage(s, p, table, flag) ==
  LET q == PageWithRecord(p)
      i == getNextUsedSlot(q, 0)
  IN
  \/ /\ p > Len(relation)
     /\ Outcome(s, NoPage(0, flag), table, Threw("EndOfFile"))
  \/ /\ p <= Len(relation) /\ ~CanRead(table, s, p)
     /\ Outcome(s, NoPage(p, flag), table, Threw("BufferExceeded"))
  \/ /\ p <= Len(relation) /\ CanRead(table, s, p) /\ q = 0
     /\ Outcome(s, NoPage(0, FALSE), table, Threw("EndOfFile"))
  \/ /\ p <= Len(relation) /\ CanRead(table, s, p) /\ q # 0
     /\ Outcome(s, AtRecord(q, i, FALSE), Pinned(table, s, q), Returned(q, i))

\* The first record: an exception of readPage leaves curPage NULL.
First(s) ==
  /\ scan[s] # NULL
  /\ scan[s].filePageIter # 0 /\ scan[s].curPage = NULL
  /\ FromPage(s, begin, pins, scan[s].curDirtyFlag)
  /\ UNCHANGED dirtied

SamePage(s) ==
  /\ scan[s] # NULL
  /\ scan[s].filePageIter # 0 /\ scan[s].curPage # NULL
  /\ LET p == scan[s].filePageIter
         i == getNextUsedSlot(p, scan[s].pageRecordIter)
     IN  /\ i # 0
         /\ Outcome(s, [scan[s] EXCEPT !.pageRecordIter = i], pins, Returned(p, i))
  /\ UNCHANGED dirtied

\* Variant with a bug: the next page is read before the last is given back.
NextPage_ReadFirst(s) ==
  /\ scan[s] # NULL
  /\ scan[s].filePageIter # 0 /\ scan[s].curPage # NULL
  /\ LET p == scan[s].filePageIter IN
     /\ getNextUsedSlot(p, scan[s].pageRecordIter) = 0
     /\ IF p < Len(relation) /\ ~CanRead(pins, s, p + 1)
        THEN Outcome(s, NoPage(p + 1, FALSE), Unpinned(pins, s, p),
                     Threw("BufferExceeded"))
        ELSE FromPage(s, p + 1, Unpinned(pins, s, p), FALSE)
     /\ dirtied' = [dirtied EXCEPT ![s] =
                      IF scan[s].curDirtyFlag THEN @ \cup {p} ELSE @]

\* Variant with a bug: at the end of the file the page is not given back.
NextPage_KeepsLast(s) ==
  /\ scan[s] # NULL
  /\ scan[s].filePageIter # 0 /\ scan[s].curPage # NULL
  /\ LET p == scan[s].filePageIter IN
     /\ getNextUsedSlot(p, scan[s].pageRecordIter) = 0
     /\ FromPage(s, p + 1,
                 IF p = Len(relation) THEN pins ELSE Unpinned(pins, s, p),
                 FALSE)
     /\ dirtied' = [dirtied EXCEPT ![s] =
                      IF scan[s].curDirtyFlag THEN @ \cup {p} ELSE @]

\* Variant with a bug: the page's dirty flag goes along to the next page.
NextPage_KeepsFlag(s) ==
  /\ scan[s] # NULL
  /\ scan[s].filePageIter # 0 /\ scan[s].curPage # NULL
  /\ LET p == scan[s].filePageIter
         q == PageWithRecord(p + 1)
     IN /\ getNextUsedSlot(p, scan[s].pageRecordIter) = 0
        /\ IF q = 0
           THEN FromPage(s, p + 1, Unpinned(pins, s, p), FALSE)
           ELSE Outcome(s, AtRecord(q, getNextUsedSlot(q, 0),
                                    scan[s].curDirtyFlag),
                        Pinned(Unpinned(pins, s, p), s, q),
                        Returned(q, getNextUsedSlot(q, 0)))
        /\ dirtied' = [dirtied EXCEPT ![s] =
                         IF scan[s].curDirtyFlag THEN @ \cup {p} ELSE @]

NextPage(s) ==
  /\ scan[s] # NULL
  /\ scan[s].filePageIter # 0 /\ scan[s].curPage # NULL
  /\ LET p == scan[s].filePageIter IN
     /\ getNextUsedSlot(p, scan[s].pageRecordIter) = 0
     /\ FromPage(s, p + 1, Unpinned(pins, s, p), FALSE)
     /\ dirtied' = [dirtied EXCEPT ![s] =
                      IF scan[s].curDirtyFlag THEN @ \cup {p} ELSE @]

scanNext(s) == Ended(s) \/ First(s) \/ SamePage(s) \/ NextPage(s)

markDirty(s) ==
  /\ scan[s] # NULL
  /\ scan' = [scan EXCEPT ![s].curDirtyFlag = TRUE]
  /\ marked' = [marked EXCEPT ![s] =
                  IF scan[s].curPage = NULL THEN @ ELSE @ \cup {scan[s].curPage}]
  /\ UNCHANGED <<relation, pins, held, answer, dirtied>>

\* The destructor.  It deletes the File object, which the frame of the page
\* still names; what the manager does with such a frame is beyond this module.
Close(s) ==
  /\ scan[s] # NULL
  /\ LET p == scan[s].filePageIter
         holds == scan[s].curPage # NULL
     IN  /\ pins' = IF holds THEN Unpinned(pins, s, p) ELSE pins
         /\ dirtied' = [dirtied EXCEPT ![s] =
              IF holds /\ scan[s].curDirtyFlag THEN @ \cup {p} ELSE @]
  /\ scan' = [scan EXCEPT ![s] = NULL]
  /\ answer' = [answer EXCEPT ![s] = NULL]
  /\ UNCHANGED <<relation, held, marked>>

\* Other clients: a page of records is added, a frame is pinned or given back.
AddPage(S) ==
  /\ Len(relation) < MaxPages
  /\ relation' = Append(relation, S)
  /\ UNCHANGED <<scan, pins, held, answer, marked, dirtied>>

OthersPin ==
  /\ PinnedFrames(pins) < NumBufs
  /\ held' = held + 1
  /\ UNCHANGED <<relation, scan, pins, answer, marked, dirtied>>

OthersUnpin ==
  /\ held > 0
  /\ held' = held - 1
  /\ UNCHANGED <<relation, scan, pins, answer, marked, dirtied>>

Next ==
  \/ \E s \in Scans : Open(s) \/ scanNext(s) \/ markDirty(s) \/ Close(s)
  \/ \E S \in SUBSET Slots : AddPage(S)
  \/ OthersPin \/ OthersUnpin

Spec == Init /\ [][Next]_vars

-----------------------------------------------------------------------------
(* "page is left pinned and the scan logic is required to unpin the page"  *)
(* (filescan.cpp): a scan has exactly one pin, on the page of its current  *)
(* record, and none before the first record, after the end of the file,    *)
(* after a failed call, or once it is destroyed.                           *)
PinsExact ==
  \A s \in Scans, p \in Pages :
    pins[s][p] = IF scan[s] # NULL /\ scan[s].curPage = p
                    /\ scan[s].filePageIter = p
                 THEN 1 ELSE 0

(* A page is unpinned dirty exactly if the client marked it while one of   *)
(* its records was current: a mark is neither lost when the scan leaves    *)
(* the page, ends or is destroyed, nor carried to another page.            *)
DirtyExact ==
  \A s \in Scans :
    IF scan[s] # NULL /\ scan[s].curPage # NULL
    THEN marked[s] = dirtied[s] \cup
           (IF scan[s].curDirtyFlag THEN {scan[s].curPage} ELSE {})
    ELSE marked[s] = dirtied[s]

\* The last record answered, in RecordCursor's terms.
Position(s) ==
  IF scan[s] = NULL THEN NULL
  ELSE IF scan[s].filePageIter = 0 THEN << >>
  ELSE IF scan[s].curPage = NULL THEN <<0, 0>>
  ELSE <<scan[s].filePageIter, scan[s].pageRecordIter>>

Cursor == INSTANCE RecordCursor WITH cursor <- [s \in Scans |-> Position(s)]

(* Every record is answered once and in file order, and no call fails but  *)
(* one for the first record: a scan under way never runs out of frames.    *)
ImplementsCursor == Cursor!Spec

=============================================================================

----------------------------- MODULE IndexScan -----------------------------
(***************************************************************************)
(* The B+ tree index of p3 (btree.cpp) over integer keys, as long as its   *)
(* root is a leaf: the constructor that builds or reopens it, the scans,   *)
(* and the pins they take in the buffer pool.                              *)
(*                                                                         *)
(* Entries are numbered from 0 as in the code.  The entry of a record is   *)
(* the record's position in the relation, for entries are only appended.   *)
(* The pool is taken to be large enough to keep the few pages.             *)
(***************************************************************************)
EXTENDS Integers, Sequences, FiniteSets

CONSTANTS
  Keys,          \* values of the indexed attribute, and of the scan ranges
  MaxRecords,    \* bound: records of the relation, at most leafOccupancy
  MaxPins        \* bound: pins of a page

ASSUME IndexAssumption ==
  Keys \subseteq Nat \ {0} /\ MaxRecords \in Nat /\ MaxPins \in Nat \ {0}

Operators == {"LT", "LTE", "GTE", "GT"}
IndexPages == {"meta", "root", "none"}    \* "none" is page number 0
NullRid == -1                             \* the record id that is all zeros

VARIABLES
  relation,         \* keys of the records, in the order of a file scan
  built,            \* the index file exists
  held,             \* this process has opened it, and has not closed it
  failed,           \* a read beyond its end failed, as all later ones will
  open,             \* there is a BTreeIndex
  pins,             \* pins on each page under the index's File object
  scanExecuting, lowVal, lowOp, highVal, highOp, nextEntry,
  currentPageNum,   \* a page, or "uninitialized"
  answers,          \* what the scan returned
  completed         \* the scan threw IndexScanCompletedException

scan == <<scanExecuting, lowVal, lowOp, highVal, highOp, nextEntry,
          currentPageNum, answers, completed>>
file == <<built, held, failed>>
vars == <<relation, file, open, pins, scan>>

Entries == 0 .. Len(relation) - 1     \* keyArray and ridArray of the leaf
Key(i) == relation[i + 1]

TypeOK ==
  /\ relation \in Seq(Keys) /\ Len(relation) <= MaxRecords
  /\ {built, held, failed, open, scanExecuting, completed} \subseteq BOOLEAN
  /\ pins \in [IndexPages -> 0 .. MaxPins]
  /\ {lowVal, highVal} \subseteq Keys \cup {0}
  /\ {lowOp, highOp} \subseteq Operators
  /\ nextEntry \in Nat
  /\ currentPageNum \in IndexPages \cup {"uninitialized"}
  /\ answers \in Seq(Entries \cup {NullRid})

-----------------------------------------------------------------------------
(* The constructor and the destructor.                                     *)

\* Members the constructor leaves uninitialized: nextEntry can be any number,
\* of which those beyond the leaf are alike.
NewIndex ==
  /\ open' = TRUE
  /\ scanExecuting' = FALSE
  /\ nextEntry' \in 0 .. MaxRecords
  /\ currentPageNum' = "uninitialized"
  /\ answers' = <<>> /\ completed' = FALSE
  /\ UNCHANGED <<lowVal, lowOp, highVal, highOp>>

\* There is no index file, or this process holds it: then the file is not
\* noticed to exist, and its header is written anew.  createInitialTree appends
\* every record to the leaf, unpins what it pinned, and the file can be flushed.
\* What is built over a stream that has failed is not modelled.
Build ==
  /\ ~open /\ (built => held) /\ ~failed
  /\ built' = TRUE /\ held' = TRUE
  /\ pins' = [p \in IndexPages |-> 0]
  /\ NewIndex
  /\ UNCHANGED <<relation, failed>>

\* A process that has not opened the file finds it: the meta page stays pinned,
\* and if it is of another index, so it does without an object that could unpin
\* it, while the file stays open too.
Reopen(matches) ==
  /\ ~open /\ built /\ ~held
  /\ held' = TRUE
  /\ IF matches
     THEN pins' = [p \in IndexPages |-> IF p = "meta" THEN 1 ELSE 0] /\ NewIndex
     ELSE UNCHANGED <<pins, open, scan>>
  /\ UNCHANGED <<relation, built, failed>>

\* No index any more, nor a scan.
Gone ==
  /\ open' = FALSE
  /\ scanExecuting' = FALSE
  /\ pins' = [p \in IndexPages |-> 0]
  /\ UNCHANGED <<relation, built, lowVal, lowOp, highVal, highOp, nextEntry,
                 currentPageNum, answers, completed>>

\* The destructor throws unless its one unPinPage leaves no page pinned; it does
\* not close the file.  A new index has a File object of its own, hence pins of
\* its own.
Destruct == open /\ Gone /\ UNCHANGED <<held, failed>>

\* The process ends, between two calls, and another begins.
Restart == Gone /\ held' = FALSE /\ failed' = FALSE

-----------------------------------------------------------------------------
(* Scans.                                                                  *)

\* Variant with a bug: stops at the last entry that has the low key.
FirstEntry_Last(low, op) ==
  LET notAbove == {i \in Entries : Key(i) <= low}
  IN  IF notAbove = {} THEN nextEntry
      ELSE CHOOSE i \in notAbove : \A j \in notAbove : j <= i

\* Where startScan begins: with GTE at the first entry that has the low key,
\* otherwise at the last that is not above it, and where the scan before ended
\* if there is none.
FirstEntry(low, op) ==
  LET notAbove == {i \in Entries : Key(i) <= low}
      equal == {i \in Entries : Key(i) = low}
  IN  IF op = "GTE" /\ equal # {}
      THEN CHOOSE i \in equal : \A j \in equal : i <= j
      ELSE IF notAbove = {} THEN nextEntry
      ELSE CHOOSE i \in notAbove : \A j \in notAbove : j <= i

\* startScan does nothing during a scan.  Every operator is taken for a bound
\* on either side; the meta page stays pinned.
StartScan(low, lop, high, hop) ==
  /\ open /\ ~scanExecuting
  /\ pins["meta"] < MaxPins
  /\ pins' = [pins EXCEPT !["meta"] = @ + 1]
  /\ lowVal' = low /\ lowOp' = lop /\ highVal' = high /\ highOp' = hop
  /\ IF low > high     \* BadScanrangeException
     THEN UNCHANGED <<scanExecuting, nextEntry, currentPageNum, answers, completed>>
     ELSE /\ scanExecuting' = TRUE
          /\ currentPageNum' = "root"
          /\ nextEntry' = FirstEntry(low, lop)
          /\ answers' = <<>> /\ completed' = FALSE
  /\ UNCHANGED <<relation, file, open>>

\* The key ends the scan.
Beyond(k) == k > highVal \/ (highOp = "LT" /\ k = highVal)

\* The record is returned, and the page it is on stays pinned.
Answer(page, rid) ==
  /\ pins[page] < MaxPins
  /\ pins' = [pins EXCEPT ![page] = @ + 1]
  /\ answers' = Append(answers, rid)
  /\ currentPageNum' = page
  /\ UNCHANGED completed

\* Variant with a bug: unpins the page of a scan that completes once more.
ScanLeaf_UnpinsTwice ==
  /\ open /\ scanExecuting
  /\ currentPageNum = "root" /\ nextEntry \in Entries
  /\ IF Beyond(Key(nextEntry))
     THEN /\ pins' = [pins EXCEPT !["root"] = IF @ > 0 THEN @ - 1 ELSE 0]
          /\ completed' = TRUE
          /\ UNCHANGED <<answers, currentPageNum, nextEntry>>
     ELSE Answer("root", nextEntry) /\ nextEntry' = nextEntry + 1
  /\ UNCHANGED <<relation, file, open, scanExecuting, lowVal, lowOp, highVal, highOp>>

\* scanNext on an entry of the leaf.
ScanLeaf ==
  /\ open /\ scanExecuting
  /\ currentPageNum = "root" /\ nextEntry \in Entries
  /\ IF Beyond(Key(nextEntry))
     THEN completed' = TRUE /\ UNCHANGED <<pins, answers, currentPageNum, nextEntry>>
     ELSE Answer("root", nextEntry) /\ nextEntry' = nextEntry + 1
  /\ UNCHANGED <<relation, file, open, scanExecuting, lowVal, lowOp, highVal, highOp>>

\* scanNext past the last entry goes on to rightSibPageNo, which is 0.  There
\* is no such page: what is read is a fresh Page, whose header passes for a
\* number of entries that never ends, and whose keys and record ids are zeros,
\* in every range of Keys.  The stream, which all handles of the name share,
\* stays failed.
ScanBeyondLeaf ==
  /\ open /\ scanExecuting
  /\ currentPageNum = "none" \/ nextEntry \notin Entries
  /\ Answer("none", NullRid)
  /\ nextEntry' = IF currentPageNum = "root" THEN 1 ELSE nextEntry + 1
  /\ failed' = TRUE
  /\ UNCHANGED <<relation, built, held, open, scanExecuting, lowVal, lowOp, highVal, highOp>>

\* endScan gives one pin back.  Without one it throws and the scan goes on.
EndScan ==
  /\ open /\ scanExecuting
  /\ pins[currentPageNum] > 0
  /\ pins' = [pins EXCEPT ![currentPageNum] = @ - 1]
  /\ scanExecuting' = FALSE
  /\ UNCHANGED <<relation, file, open, lowVal, lowOp, highVal, highOp, nextEntry,
                 currentPageNum, answers, completed>>

Relations == UNION {[1 .. n -> Keys] : n \in 0 .. MaxRecords}

Init ==
  /\ relation \in Relations
  /\ built = FALSE /\ held = FALSE /\ failed = FALSE /\ open = FALSE
  /\ pins = [p \in IndexPages |-> 0]
  /\ scanExecuting = FALSE
  /\ lowVal = 0 /\ highVal = 0 /\ lowOp = "GTE" /\ highOp = "LTE"
  /\ nextEntry = 0 /\ currentPageNum = "uninitialized"
  /\ answers = <<>> /\ completed = FALSE

Next ==
  \/ Build
  \/ \E matches \in BOOLEAN : Reopen(matches)
  \/ Destruct \/ Restart
  \/ \E low, high \in Keys, lop, hop \in Operators : StartScan(low, lop, high, hop)
  \/ ScanLeaf \/ ScanBeyondLeaf
  \/ EndScan

Spec == Init /\ [][Next]_vars

-----------------------------------------------------------------------------
(* Properties.                                                             *)

Sorted == \A i, j \in Entries : i <= j => Key(i) <= Key(j)

\* The ranges the index answers right: the relation is in the order of the
\* keys, the low key is one of them and in the range, and a key beyond the high
\* one ends the scan.
Answerable ==
  /\ Sorted
  /\ lowOp = "GTE" /\ \E i \in Entries : Key(i) = lowVal
  /\ highOp \in {"LT", "LTE"} /\ \E i \in Entries : Beyond(Key(i))

InRange == {i \in Entries : Key(i) >= lowVal /\ ~Beyond(Key(i))}

\* Such a scan answers the records of the range, each once and in the order of
\* their keys, whatever scans were made, refused or left before it; and it
\* completes when there is none left.
AnswersTheRange ==
  open /\ scanExecuting /\ Answerable =>
    /\ \A n \in 1 .. Len(answers) : answers[n] \in InRange
    /\ \A n \in 2 .. Len(answers) : answers[n] = answers[n - 1] + 1
    /\ completed => Len(answers) = Cardinality(InRange)

\* The page of a scan's last answer is pinned as long as the scan goes on, also
\* when it has completed: the pool does not take the frame that currentPageData
\* points into, and endScan has a pin to give back.  (A scan keeps more pins
\* than this one; the property does not ask for them.)
ScanPageStaysPinned ==
  open /\ scanExecuting /\ answers # <<>> => pins[currentPageNum] > 0

=============================================================================

------------------------- MODULE IndexScan_proofs -------------------------
(***************************************************************************)
(* What a scan of the p3 index answers, for every set of keys, every       *)
(* relation that fits in a leaf and every bound on the pins: within the    *)
(* ranges that the code answers right, the records of the range, each once *)
(* and in their order; and the page of the last answer is pinned while the *)
(* scan goes on.                                                           *)
(***************************************************************************)
EXTENDS IndexScan, FiniteSetTheorems, WellFoundedInduction, TLAPS

\* The state is of its types; a scan is on a page, and its range is one that
\* startScan did not refuse.
Typed ==
  /\ relation \in Seq(Keys)
  /\ pins \in [IndexPages -> Nat]
  /\ nextEntry \in Nat
  /\ answers \in Seq(Entries \cup {NullRid})
  /\ lowVal \in Nat /\ highVal \in Nat
  /\ scanExecuting => currentPageNum \in {"root", "none"} /\ lowVal <= highVal

\* f is the first entry with the low key.
IsFirst(f) ==
  /\ f \in Entries /\ Key(f) = lowVal
  /\ \A i \in Entries : Key(i) = lowVal => f <= i

\* The scan has answered the entries from f up to nextEntry.
AnsweredFrom(f) ==
  /\ nextEntry = f + Len(answers)
  /\ \A n \in 1 .. Len(answers) : answers[n] = f + n - 1
  /\ \A i \in Entries : f <= i /\ i < nextEntry => ~Beyond(Key(i))

OnTheLeaf ==
  open /\ scanExecuting /\ Answerable =>
    /\ currentPageNum = "root"
    /\ \E f \in Entries : IsFirst(f) /\ AnsweredFrom(f)
    /\ completed => nextEntry \in Entries /\ Beyond(Key(nextEntry))

IInv == Typed /\ OnTheLeaf

-----------------------------------------------------------------------------
(* Entries and where a scan begins.                                        *)

(* A set of natural numbers that is not empty has a least element.         *)
LEMMA LeastNatural ==
  ASSUME NEW S \in SUBSET Nat, S # {}
  PROVE  \E m \in S : \A k \in S : m <= k
<1>1. PICK m \in S : \A k \in S : ~(<<k, m>> \in OpToRel(<, Nat))
  BY NatLessThanWellFounded, WFMin
<1>2. ASSUME NEW k \in S PROVE ~(k < m)
  BY <1>1 DEF OpToRel
<1>. QED BY <1>2

(* A set of natural numbers that is not empty and has a bound has a        *)
(* greatest element.                                                       *)
LEMMA GreatestNatural ==
  ASSUME NEW S \in SUBSET Nat, S # {}, NEW n \in Nat, \A s \in S : s <= n
  PROVE  \E m \in S : \A k \in S : k <= m
<1>. DEFINE T == {k \in 0 .. n : n - k \in S}
<1>1. T # {}
  <2>1. PICK s \in S : TRUE
    OBVIOUS
  <2>2. n - s \in T /\ n - (n - s) = s
    BY <2>1
  <2>. QED BY <2>2
<1>2. T \in SUBSET Nat
  OBVIOUS
<1>3. PICK t \in T : \A k \in T : t <= k
  BY <1>1, <1>2, LeastNatural
<1>4. ASSUME NEW k \in S PROVE k <= n - t
  <2>1. n - k \in 0 .. n /\ n - (n - k) = k
    BY <1>4
  <2>2. n - k \in T
    BY <2>1
  <2>. QED BY <1>3, <2>2
<1>. QED BY <1>3, <1>4

(* The entries are numbers, and each has a key.                            *)
LEMMA EntriesAreKeyed ==
  ASSUME Typed
  PROVE  /\ Entries \subseteq Nat /\ Len(relation) \in Nat
         /\ \A i \in Entries : Key(i) \in Keys /\ Key(i) \in Nat
<1>1. Len(relation) \in Nat
  BY DEF Typed
<1>2. ASSUME NEW i \in Entries PROVE i \in Nat /\ Key(i) \in Keys /\ Key(i) \in Nat
  <2>1. i \in Nat /\ i + 1 \in 1 .. Len(relation)
    BY <1>1 DEF Entries
  <2>2. relation[i + 1] \in Keys
    BY <2>1 DEF Typed
  <2>. QED BY <2>1, <2>2, IndexAssumption DEF Key
<1>. QED BY <1>1, <1>2

(* A scan begins at an entry number, and with GTE at the first entry that  *)
(* has the low key if one has it.                                          *)
LEMMA WhereAScanBegins ==
  ASSUME Typed, NEW low \in Keys, NEW op \in Operators
  PROVE  /\ FirstEntry(low, op) \in Nat
         /\ op = "GTE" /\ (\E i \in Entries : Key(i) = low) =>
              /\ FirstEntry(low, op) \in Entries
              /\ Key(FirstEntry(low, op)) = low
              /\ \A i \in Entries : Key(i) = low => FirstEntry(low, op) <= i
<1>. DEFINE notAbove == {i \in Entries : Key(i) <= low}
            equal == {i \in Entries : Key(i) = low}
<1>1. notAbove \in SUBSET Nat /\ equal \in SUBSET Nat
  BY EntriesAreKeyed
<1>2. CASE op = "GTE" /\ equal # {}
  <2>1. \E m \in equal : \A k \in equal : m <= k
    BY <1>1, <1>2, LeastNatural
  <2>2. FirstEntry(low, op) = CHOOSE i \in equal : \A j \in equal : i <= j
    BY <1>2 DEF FirstEntry
  <2>3. FirstEntry(low, op) \in equal
        /\ \A j \in equal : FirstEntry(low, op) <= j
    BY <2>1, <2>2
  <2>. QED BY <1>1, <2>3
<1>3. CASE ~(op = "GTE" /\ equal # {}) /\ notAbove = {}
  <2>1. FirstEntry(low, op) = nextEntry
    BY <1>3 DEF FirstEntry
  <2>. QED BY <1>3, <2>1 DEF Typed
<1>4. CASE ~(op = "GTE" /\ equal # {}) /\ notAbove # {}
  <2>1. \E m \in notAbove : \A k \in notAbove : k <= m
    <3>1. \A k \in notAbove : k <= Len(relation)
      BY EntriesAreKeyed DEF Entries
    <3>. QED BY <1>1, <1>4, <3>1, EntriesAreKeyed, GreatestNatural
  <2>2. FirstEntry(low, op) = CHOOSE i \in notAbove : \A j \in notAbove : j <= i
    BY <1>4 DEF FirstEntry
  <2>3. FirstEntry(low, op) \in notAbove
    BY <2>1, <2>2
  <2>. QED BY <1>1, <1>4, <2>3
<1>. QED BY <1>2, <1>3, <1>4

(* In a range that is answered right, a scan that has come to nextEntry    *)
(* has an entry there: the key beyond the range is still to come.          *)
LEMMA AnEntryIsLeft ==
  ASSUME Typed, scanExecuting, Answerable,
         NEW f \in Entries, IsFirst(f), AnsweredFrom(f)
  PROVE  nextEntry \in Entries
<1>1. PICK i \in Entries : Beyond(Key(i))
  BY DEF Answerable
<1>2. f <= i
  <2>1. CASE i < f
    <3>1. Key(i) <= lowVal
      BY <2>1, EntriesAreKeyed DEF Answerable, Sorted, IsFirst
    <3>2. Key(i) = lowVal
      BY <1>1, <3>1, EntriesAreKeyed DEF Beyond, Typed
    <3>. QED BY <3>2 DEF IsFirst
  <2>. QED BY <2>1, EntriesAreKeyed
<1>3. nextEntry <= i
  BY <1>1, <1>2, EntriesAreKeyed DEF AnsweredFrom, Typed
<1>. QED BY <1>3, EntriesAreKeyed DEF Entries, Typed

-----------------------------------------------------------------------------
(* The invariant.                                                          *)

(* The initial states.                                                     *)
LEMMA InitIInv == Init => IInv
<1>. SUFFICES ASSUME Init PROVE IInv
  OBVIOUS
<1>1. relation \in Seq(Keys)
  <2>1. PICK n \in 0 .. MaxRecords : relation \in [1 .. n -> Keys]
    BY DEF Init, Relations
  <2>. QED BY <2>1, IndexAssumption
<1>2. Typed
  BY <1>1 DEF Init, Typed, IndexPages
<1>. QED BY <1>2 DEF Init, IInv, OnTheLeaf

(* startScan: the new scan has answered nothing yet.                       *)
LEMMA StartScanKeeps ==
  ASSUME IInv, NEW low \in Keys, NEW high \in Keys,
         NEW lop \in Operators, NEW hop \in Operators,
         StartScan(low, lop, high, hop)
  PROVE  IInv'
<1>1. low \in Nat /\ high \in Nat
  BY IndexAssumption
<1>2. pins' \in [IndexPages -> Nat]
  BY DEF StartScan, IInv, Typed, IndexPages
<1>3. CASE low > high
  <2>1. Typed'
    BY <1>1, <1>2, <1>3 DEF StartScan, IInv, Typed, Entries
  <2>. QED BY <1>3, <2>1 DEF StartScan, IInv, OnTheLeaf
<1>4. CASE ~(low > high)
  <2>1. /\ nextEntry' = FirstEntry(low, lop) /\ answers' = <<>>
        /\ currentPageNum' = "root" /\ completed' = FALSE
        /\ lowVal' = low /\ lowOp' = lop /\ highVal' = high
        /\ relation' = relation /\ Entries' = Entries
    BY <1>4 DEF StartScan, Entries
  <2>2. FirstEntry(low, lop) \in Nat
    BY WhereAScanBegins DEF IInv
  <2>3. Typed'
    BY <1>1, <1>2, <1>4, <2>1, <2>2 DEF IInv, Typed
  <2>4. ASSUME Answerable' PROVE \E f \in Entries' : IsFirst(f)' /\ AnsweredFrom(f)'
    <3>1. lop = "GTE" /\ \E i \in Entries : Key(i) = low
      BY <2>1, <2>4 DEF Answerable, Key
    <3>2. PICK f \in Entries : /\ f = FirstEntry(low, lop) /\ Key(f) = low
                              /\ \A i \in Entries : Key(i) = low => f <= i
      BY <3>1, WhereAScanBegins DEF IInv
    <3>3. IsFirst(f)'
      BY <2>1, <3>2 DEF IsFirst, Key
    <3>4. nextEntry' = f /\ f \in Nat
      BY <2>1, <2>2, <3>2
    <3>5. AnsweredFrom(f)'
      <4>1. Len(answers') = 0 /\ 1 .. 0 = {}
        BY <2>1
      <4>2. \A i \in Entries : ~(f <= i /\ i < f)
        BY <3>4, EntriesAreKeyed DEF IInv
      <4>3. nextEntry' = f + Len(answers')
        BY <3>4, <4>1
      <4>4. \A n \in 1 .. Len(answers') : answers'[n] = f + n - 1
        BY <4>1
      <4>5. \A i \in Entries' : ~(f <= i /\ i < nextEntry')
        BY <2>1, <3>4, <4>2
      <4>. QED BY <4>3, <4>4, <4>5 DEF AnsweredFrom
    <3>. QED BY <2>1, <3>2, <3>3, <3>5
  <2>. QED BY <2>1, <2>3, <2>4 DEF IInv, OnTheLeaf
<1>. QED BY <1>3, <1>4

(* scanNext on the leaf: one more entry is answered, or the scan completes *)
(* at a key beyond the range.                                              *)
LEMMA ScanLeafKeeps ==
  ASSUME IInv, ScanLeaf
  PROVE  IInv'
<1>1. /\ Entries' = Entries /\ relation' = relation
      /\ \A i : Key(i)' = Key(i)
      /\ \A k : Beyond(k)' = Beyond(k)
      /\ open /\ scanExecuting /\ currentPageNum = "root" /\ nextEntry \in Entries
      /\ lowVal' = lowVal /\ highVal' = highVal
      /\ (Answerable' <=> Answerable)
      /\ \A i : IsFirst(i)' <=> IsFirst(i)
  BY DEF ScanLeaf, Entries, Key, Beyond, Answerable, Sorted, IsFirst
<1>2. CASE Beyond(Key(nextEntry))
  <2>1. UNCHANGED <<pins, answers, currentPageNum, nextEntry>>
    BY <1>2 DEF ScanLeaf
  <2>2. Typed'
    BY <1>1, <2>1 DEF ScanLeaf, IInv, Typed
  <2>3. \A f : AnsweredFrom(f)' <=> AnsweredFrom(f)
    BY <1>1, <2>1 DEF AnsweredFrom
  <2>4. nextEntry' \in Entries' /\ Beyond(Key(nextEntry))'
    BY <1>1, <1>2, <2>1
  <2>. QED BY <1>1, <2>1, <2>2, <2>3, <2>4 DEF IInv, OnTheLeaf
<1>3. CASE ~Beyond(Key(nextEntry))
  <2>1. /\ answers' = Append(answers, nextEntry) /\ nextEntry' = nextEntry + 1
        /\ currentPageNum' = "root" /\ completed' = completed
        /\ pins' = [pins EXCEPT !["root"] = @ + 1]
    BY <1>3 DEF ScanLeaf, Answer
  <2>2. /\ nextEntry \in Nat /\ Len(answers) \in Nat /\ Len(answers') = Len(answers) + 1
        /\ answers' \in Seq(Entries \cup {NullRid})
        /\ answers'[Len(answers) + 1] = nextEntry
        /\ \A n \in 1 .. Len(answers) : answers'[n] = answers[n]
    BY <1>1, <2>1 DEF IInv, Typed
  <2>3. Typed'
    BY <1>1, <2>1, <2>2 DEF ScanLeaf, IInv, Typed, IndexPages
  <2>4. ASSUME Answerable
        PROVE  ~completed' /\ \E f \in Entries' : IsFirst(f)' /\ AnsweredFrom(f)'
    <3>1. PICK f \in Entries : IsFirst(f) /\ AnsweredFrom(f)
      BY <1>1, <2>4 DEF IInv, OnTheLeaf
    <3>2. ~completed
      BY <1>1, <1>3, <2>4 DEF IInv, OnTheLeaf
    <3>3. f \in Nat /\ nextEntry = f + Len(answers)
      BY <3>1, EntriesAreKeyed DEF IInv, AnsweredFrom
    <3>4. nextEntry' = f + Len(answers')
      BY <2>1, <2>2, <3>3
    <3>5. ASSUME NEW n \in 1 .. Len(answers') PROVE answers'[n] = f + n - 1
      <4>1. CASE n = Len(answers) + 1
        BY <2>2, <3>3, <4>1
      <4>2. CASE n \in 1 .. Len(answers)
        BY <2>2, <3>1, <4>2 DEF AnsweredFrom
      <4>. QED BY <2>2, <3>5, <4>1, <4>2
    <3>6. ASSUME NEW i \in Entries, f <= i, i < nextEntry' PROVE ~Beyond(Key(i))
      <4>1. i \in Nat /\ (i < nextEntry \/ i = nextEntry)
        BY <2>1, <2>2, <3>6, EntriesAreKeyed DEF IInv
      <4>. QED BY <1>3, <3>1, <3>6, <4>1 DEF AnsweredFrom
    <3>7. AnsweredFrom(f)'
      BY <1>1, <3>4, <3>5, <3>6 DEF AnsweredFrom
    <3>. QED BY <1>1, <2>1, <3>1, <3>2, <3>7
  <2>. QED BY <1>1, <2>1, <2>3, <2>4 DEF IInv, OnTheLeaf
<1>. QED BY <1>2, <1>3

(* scanNext beyond the leaf: no scan of a range that is answered right     *)
(* comes there.                                                            *)
LEMMA ScanBeyondLeafKeeps ==
  ASSUME IInv, ScanBeyondLeaf
  PROVE  IInv'
<1>1. /\ answers' = Append(answers, NullRid) /\ relation' = relation
      /\ currentPageNum' = "none" /\ nextEntry' \in {1, nextEntry + 1}
      /\ pins' = [pins EXCEPT !["none"] = @ + 1]
      /\ lowVal' = lowVal /\ highVal' = highVal /\ open /\ scanExecuting
  BY DEF ScanBeyondLeaf, Answer
<1>2. answers' \in Seq(Entries' \cup {NullRid})
  BY <1>1 DEF IInv, Typed, Entries
<1>3. Typed'
  BY <1>1, <1>2 DEF IInv, Typed, IndexPages
<1>4. ~Answerable
  <2>. SUFFICES ASSUME Answerable PROVE FALSE
    OBVIOUS
  <2>1. currentPageNum = "root" /\ \E f \in Entries : IsFirst(f) /\ AnsweredFrom(f)
    BY <1>1 DEF IInv, OnTheLeaf
  <2>2. nextEntry \in Entries
    BY <1>1, <2>1, AnEntryIsLeft DEF IInv
  <2>. QED BY <2>1, <2>2 DEF ScanBeyondLeaf
<1>5. Answerable' <=> Answerable
  BY DEF ScanBeyondLeaf, Answerable, Sorted, Entries, Key, Beyond
<1>. QED BY <1>3, <1>4, <1>5 DEF IInv, OnTheLeaf

(* The steps that leave no scan under way.                                 *)
LEMMA NoScanKeeps ==
  ASSUME IInv, relation' = relation, ~scanExecuting', pins' \in [IndexPages -> Nat],
         nextEntry' \in Nat, answers' = answers \/ answers' = <<>>,
         UNCHANGED <<lowVal, highVal>>
  PROVE  IInv'
<1>1. Entries' = Entries /\ answers' \in Seq(Entries \cup {NullRid})
  <2>1. <<>> \in Seq(Entries \cup {NullRid})
    OBVIOUS
  <2>. QED BY <2>1 DEF IInv, Typed, Entries
<1>2. Typed'
  BY <1>1 DEF IInv, Typed
<1>. QED BY <1>2 DEF IInv, OnTheLeaf

(* Every step.                                                             *)
LEMMA NextIInv == IInv /\ [Next]_vars => IInv'
<1>. SUFFICES ASSUME IInv, [Next]_vars PROVE IInv'
  OBVIOUS
<1>1. CASE Build
  BY <1>1, NoScanKeeps, IndexAssumption DEF Build, NewIndex, IndexPages
<1>2. ASSUME NEW matches \in BOOLEAN, Reopen(matches) PROVE IInv'
  <2>1. CASE matches
    BY <1>2, <2>1, NoScanKeeps, IndexAssumption DEF Reopen, NewIndex, IndexPages
  <2>2. CASE ~matches
    BY <1>2, <2>2 DEF Reopen, scan, IInv, Typed, OnTheLeaf, Entries, Answerable,
                      Sorted, Key, Beyond, IsFirst, AnsweredFrom
  <2>. QED BY <2>1, <2>2
<1>3. CASE Destruct \/ Restart
  BY <1>3, NoScanKeeps DEF Destruct, Restart, Gone, IndexPages, IInv, Typed
<1>4. ASSUME NEW low \in Keys, NEW high \in Keys,
             NEW lop \in Operators, NEW hop \in Operators,
             StartScan(low, lop, high, hop)
      PROVE  IInv'
  BY <1>4, StartScanKeeps
<1>5. CASE ScanLeaf
  BY <1>5, ScanLeafKeeps
<1>6. CASE ScanBeyondLeaf
  BY <1>6, ScanBeyondLeafKeeps
<1>7. CASE EndScan
  <2>1. pins' \in [IndexPages -> Nat]
    BY <1>7 DEF EndScan, IInv, Typed, IndexPages
  <2>. QED BY <1>7, <2>1, NoScanKeeps DEF EndScan, IInv, Typed
<1>8. CASE UNCHANGED vars
  BY <1>8 DEF vars, scan, IInv, Typed, OnTheLeaf, Entries, Answerable, Sorted, Key,
              Beyond, IsFirst, AnsweredFrom
<1>. QED BY <1>1, <1>2, <1>3, <1>4, <1>5, <1>6, <1>7, <1>8 DEF Next

(* In the states of the invariant a scan of a range that is answered right *)
(* has answered that range up to where it is.                              *)
LEMMA InvariantAnswers == IInv => AnswersTheRange
<1>. SUFFICES ASSUME IInv, open, scanExecuting, Answerable
              PROVE  /\ \A n \in 1 .. Len(answers) : answers[n] \in InRange
                     /\ \A n \in 2 .. Len(answers) : answers[n] = answers[n - 1] + 1
                     /\ completed => Len(answers) = Cardinality(InRange)
  BY DEF AnswersTheRange
<1>1. PICK f \in Entries : IsFirst(f) /\ AnsweredFrom(f)
  BY DEF IInv, OnTheLeaf
<1>2. /\ f \in Nat /\ Len(answers) \in Nat /\ nextEntry = f + Len(answers)
      /\ nextEntry \in Entries /\ Entries = 0 .. Len(relation) - 1
      /\ Len(relation) \in Nat
  <2>1. nextEntry \in Entries /\ f \in Nat
    BY <1>1, EntriesAreKeyed, AnEntryIsLeft DEF IInv
  <2>2. nextEntry = f + Len(answers) /\ Len(answers) \in Nat /\ Len(relation) \in Nat
    BY <1>1, EntriesAreKeyed DEF IInv, AnsweredFrom, Typed
  <2>. QED BY <2>1, <2>2 DEF Entries
<1>3. \A i \in f .. nextEntry - 1 : i \in InRange
  <2>. TAKE i \in f .. nextEntry - 1
  <2>1. i \in Entries /\ f <= i /\ i < nextEntry
    BY <1>2
  <2>2. Key(i) >= lowVal
    BY <1>1, <2>1, EntriesAreKeyed DEF IInv, Answerable, Sorted, IsFirst
  <2>. QED BY <1>1, <2>1, <2>2 DEF InRange, AnsweredFrom
<1>4. \A n \in 1 .. Len(answers) : answers[n] \in InRange
  <2>. TAKE n \in 1 .. Len(answers)
  <2>1. answers[n] = f + n - 1
    BY <1>1 DEF AnsweredFrom
  <2>2. f + n - 1 \in f .. nextEntry - 1
    BY <1>2
  <2>. QED BY <1>3, <2>1, <2>2
<1>5. \A n \in 2 .. Len(answers) : answers[n] = answers[n - 1] + 1
  <2>. TAKE n \in 2 .. Len(answers)
  <2>1. n \in 1 .. Len(answers) /\ n - 1 \in 1 .. Len(answers)
    BY <1>2
  <2>2. answers[n] = f + n - 1 /\ answers[n - 1] = f + (n - 1) - 1
    BY <1>1, <2>1 DEF AnsweredFrom
  <2>. QED BY <1>2, <2>2
<1>6. ASSUME completed PROVE Len(answers) = Cardinality(InRange)
  <2>1. Beyond(Key(nextEntry))
    BY <1>6 DEF IInv, OnTheLeaf
  <2>2. ASSUME NEW i \in InRange PROVE i \in f .. nextEntry - 1
    <3>1. i \in Entries /\ i \in Nat /\ Key(i) >= lowVal /\ ~Beyond(Key(i))
      BY <2>2, EntriesAreKeyed DEF IInv, InRange
    <3>2. f <= i
      <4>1. CASE i < f
        <5>1. Key(i) <= Key(f)
          BY <1>2, <3>1, <4>1 DEF Answerable, Sorted
        <5>2. Key(i) = lowVal
          BY <1>1, <3>1, <5>1, EntriesAreKeyed DEF IInv, IsFirst, Typed
        <5>. QED BY <1>1, <3>1, <5>2 DEF IsFirst
      <4>. QED BY <1>2, <3>1, <4>1
    <3>3. i < nextEntry
      <4>1. CASE nextEntry <= i
        <5>1. Key(nextEntry) <= Key(i)
          BY <1>2, <3>1, <4>1 DEF Answerable, Sorted
        <5>2. Beyond(Key(i))
          BY <1>2, <2>1, <3>1, <5>1, EntriesAreKeyed DEF IInv, Beyond, Typed
        <5>. QED BY <3>1, <5>2
      <4>. QED BY <1>2, <3>1, <4>1
    <3>. QED BY <1>2, <3>1, <3>2, <3>3
  <2>3. InRange = f .. nextEntry - 1
    BY <1>3, <2>2
  <2>4. Cardinality(f .. nextEntry - 1) =
          IF f > nextEntry - 1 THEN 0 ELSE nextEntry - 1 - f + 1
    <3>1. f \in Int /\ nextEntry - 1 \in Int
      BY <1>2
    <3>. QED BY <3>1, FS_Interval
  <2>. QED BY <1>2, <2>3, <2>4
<1>. QED BY <1>4, <1>5, <1>6

(* A scan of a range that is answered right, in any order of scans, of     *)
(* indexes reopened and of scans refused or left, answers the records of   *)
(* the range, each once, in their order, and completes only after the last *)
(* (startScan and scanNext of btree.cpp).                                  *)
THEOREM ScansAnswerTheRange == Spec => []AnswersTheRange
<1>1. Spec => []IInv
  BY InitIInv, NextIInv, PTL DEF Spec
<1>. QED BY <1>1, InvariantAnswers, PTL

-----------------------------------------------------------------------------
(* Pins.                                                                   *)

PInv == Typed /\ ScanPageStaysPinned

(* The initial states.                                                     *)
LEMMA InitPInv == Init => PInv
BY InitIInv DEF PInv, IInv, Init, ScanPageStaysPinned

(* Every step: an answer pins the page that the scan is then on, and only  *)
(* endScan, which ends the scan, takes a pin from it.                      *)
LEMMA NextPInv == PInv /\ Typed' /\ [Next]_vars => PInv'
<1>. SUFFICES ASSUME PInv, Typed', [Next]_vars PROVE ScanPageStaysPinned'
  BY DEF PInv
<1>1. CASE Build
  BY <1>1 DEF Build, NewIndex, ScanPageStaysPinned
<1>2. ASSUME NEW matches \in BOOLEAN, Reopen(matches) PROVE ScanPageStaysPinned'
  BY <1>2 DEF Reopen, NewIndex, scan, PInv, ScanPageStaysPinned
<1>3. CASE Destruct \/ Restart
  BY <1>3 DEF Destruct, Restart, Gone, ScanPageStaysPinned
<1>4. ASSUME NEW low \in Keys, NEW high \in Keys,
             NEW lop \in Operators, NEW hop \in Operators,
             StartScan(low, lop, high, hop)
      PROVE  ScanPageStaysPinned'
  BY <1>4 DEF StartScan, ScanPageStaysPinned
<1>5. ASSUME NEW page \in {"root", "none"}, NEW rid, Answer(page, rid)
      PROVE  ScanPageStaysPinned'
  <2>1. pins[page] \in Nat /\ pins'[page] = pins[page] + 1 /\ currentPageNum' = page
    BY <1>5 DEF Answer, PInv, Typed, IndexPages
  <2>. QED BY <2>1 DEF ScanPageStaysPinned
<1>6. CASE ScanLeaf
  <2>1. CASE Beyond(Key(nextEntry))
    BY <1>6, <2>1 DEF ScanLeaf, PInv, ScanPageStaysPinned
  <2>2. CASE ~Beyond(Key(nextEntry))
    BY <1>5, <1>6, <2>2 DEF ScanLeaf
  <2>. QED BY <2>1, <2>2
<1>7. CASE ScanBeyondLeaf
  BY <1>5, <1>7 DEF ScanBeyondLeaf
<1>8. CASE EndScan
  BY <1>8 DEF EndScan, ScanPageStaysPinned
<1>9. CASE UNCHANGED vars
  BY <1>9 DEF vars, scan, PInv, ScanPageStaysPinned
<1>. QED BY <1>1, <1>2, <1>3, <1>4, <1>6, <1>7, <1>8, <1>9 DEF Next

(* While a scan goes on, the page of its last answer is pinned, whatever   *)
(* the index did before (scanNext and endScan of btree.cpp).               *)
THEOREM ScanPagesStayPinned == Spec => []ScanPageStaysPinned
<1>1. Spec => []Typed
  <2>1. Spec => []IInv
    BY InitIInv, NextIInv, PTL DEF Spec
  <2>2. IInv => Typed
    BY DEF IInv
  <2>. QED BY <2>1, <2>2, PTL
<1>2. PInv => ScanPageStaysPinned
  BY DEF PInv
<1>. QED BY <1>1, <1>2, InitPInv, NextPInv, PTL DEF Spec

-----------------------------------------------------------------------------
(* Types.                                                                  *)

(* Every step keeps the types.                                             *)
LEMMA NextTypeOK == TypeOK /\ Typed /\ Typed' /\ [Next]_vars => TypeOK'
<1>. SUFFICES ASSUME TypeOK, Typed, Typed', [Next]_vars PROVE TypeOK'
  OBVIOUS
<1>. DEFINE Flags == /\ {built, held, failed, open, scanExecuting, completed}
                          \subseteq BOOLEAN
                    /\ currentPageNum \in IndexPages \cup {"uninitialized"}
            Range_ == /\ {lowVal, highVal} \subseteq Keys \cup {0}
                      /\ {lowOp, highOp} \subseteq Operators
            Pins == pins \in [IndexPages -> 0 .. MaxPins]
<1>1. Flags /\ Range_ /\ Pins /\ MaxPins \in Nat \ {0}
  BY IndexAssumption DEF TypeOK
<1>2. relation' = relation
  BY DEF Next, Build, Reopen, Destruct, Restart, Gone, StartScan, ScanLeaf,
         ScanBeyondLeaf, EndScan, vars
<1>3. ASSUME Flags', Range_', Pins' PROVE TypeOK'
  BY <1>2, <1>3 DEF TypeOK, Typed
<1>4. [p \in IndexPages |-> 0] \in [IndexPages -> 0 .. MaxPins]
  BY <1>1
<1>5. CASE Build
  BY <1>1, <1>3, <1>4, <1>5 DEF Build, NewIndex
<1>6. ASSUME NEW matches \in BOOLEAN, Reopen(matches) PROVE TypeOK'
  <2>1. CASE matches
    <3>1. [p \in IndexPages |-> IF p = "meta" THEN 1 ELSE 0] \in [IndexPages -> 0 .. MaxPins]
      BY <1>1
    <3>2. Pins'
      BY <1>6, <2>1, <3>1 DEF Reopen
    <3>3. Flags' /\ Range_'
      BY <1>1, <1>6, <2>1 DEF Reopen, NewIndex
    <3>. QED BY <1>3, <3>2, <3>3
  <2>2. CASE ~matches
    BY <1>1, <1>3, <1>6, <2>2 DEF Reopen, scan
  <2>. QED BY <2>1, <2>2
<1>7. CASE Destruct \/ Restart
  BY <1>1, <1>3, <1>4, <1>7 DEF Destruct, Restart, Gone
<1>8. ASSUME NEW low \in Keys, NEW high \in Keys,
             NEW lop \in Operators, NEW hop \in Operators,
             StartScan(low, lop, high, hop)
      PROVE  TypeOK'
  <2>1. Range_'
    BY <1>8 DEF StartScan
  <2>2. Flags'
    BY <1>1, <1>8 DEF StartScan, IndexPages, file
  <2>3. Pins'
    BY <1>1, <1>8 DEF StartScan, IndexPages
  <2>. QED BY <1>3, <2>1, <2>2, <2>3
<1>9. CASE ScanLeaf
  <2>1. Range_'
    BY <1>1, <1>9 DEF ScanLeaf
  <2>2. Flags'
    BY <1>1, <1>9 DEF ScanLeaf, Answer, IndexPages, file
  <2>3. Pins'
    <3>1. ASSUME NEW page \in IndexPages, NEW rid, Answer(page, rid) PROVE Pins'
      <4>1. pins[page] + 1 \in 0 .. MaxPins
        BY <1>1, <3>1 DEF Answer
      <4>. QED BY <1>1, <3>1, <4>1 DEF Answer
    <3>. QED BY <1>1, <1>9, <3>1 DEF ScanLeaf, IndexPages
  <2>. QED BY <1>3, <2>1, <2>2, <2>3
<1>10. CASE ScanBeyondLeaf
  <2>1. Range_'
    BY <1>1, <1>10 DEF ScanBeyondLeaf
  <2>2. Flags'
    BY <1>1, <1>10 DEF ScanBeyondLeaf, Answer, IndexPages
  <2>3. Pins'
    <3>1. ASSUME NEW page \in IndexPages, NEW rid, Answer(page, rid) PROVE Pins'
      <4>1. pins[page] + 1 \in 0 .. MaxPins
        BY <1>1, <3>1 DEF Answer
      <4>. QED BY <1>1, <3>1, <4>1 DEF Answer
    <3>. QED BY <1>1, <1>10, <3>1 DEF ScanBeyondLeaf, IndexPages
  <2>. QED BY <1>3, <2>1, <2>2, <2>3
<1>11. CASE EndScan
  <2>1. Range_' /\ Flags'
    BY <1>1, <1>11 DEF EndScan, file
  <2>2. currentPageNum \in IndexPages
    BY <1>11 DEF EndScan, Typed, IndexPages
  <2>3. pins[currentPageNum] \in 0 .. MaxPins
    BY <1>1, <2>2
  <2>4. pins[currentPageNum] - 1 \in 0 .. MaxPins
    BY <1>1, <1>11, <2>3 DEF EndScan
  <2>5. Pins'
    BY <1>1, <1>11, <2>2, <2>4 DEF EndScan
  <2>. QED BY <1>3, <2>1, <2>5
<1>12. CASE UNCHANGED vars
  BY <1>1, <1>3, <1>12 DEF vars, scan, file
<1>. QED BY <1>5, <1>6, <1>7, <1>8, <1>9, <1>10, <1>11, <1>12 DEF Next

(* Relation, pins and the members of the index keep their types.           *)
THEOREM TypeCorrect == Spec => []TypeOK
<1>1. Init => TypeOK
  <2>. SUFFICES ASSUME Init PROVE TypeOK
    OBVIOUS
  <2>1. PICK n \in 0 .. MaxRecords : relation \in [1 .. n -> Keys]
    BY DEF Init, Relations
  <2>2. relation \in Seq(Keys) /\ Len(relation) <= MaxRecords
    BY <2>1, IndexAssumption
  <2>3. pins \in [IndexPages -> 0 .. MaxPins]
    BY IndexAssumption DEF Init
  <2>4. answers \in Seq(Entries \cup {NullRid})
    BY DEF Init
  <2>. QED BY <2>2, <2>3, <2>4 DEF Init, TypeOK, Operators
<1>2. IInv => Typed
  BY DEF IInv
<1>. QED BY <1>1, <1>2, InitIInv, NextIInv, NextTypeOK, PTL DEF Spec

=============================================================================

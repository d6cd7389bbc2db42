------------------------- MODULE SlottedPage_proofs -------------------------
(***************************************************************************)
(* Theorems about SlottedPage, for pages and slots of any size and any     *)
(* records but empty ones: the records fill the end of the page without    *)
(* gaps, the counts of the header are those of the slots, and a page is a  *)
(* map from record numbers to records, wherever the bytes are moved.       *)
(***************************************************************************)
EXTENDS SlottedPage, FiniteSetTheorems, WellFoundedInduction, TLAPS

USE SizesAssumption

Slot == [used : BOOLEAN, offset : Offsets, length : Offsets]

InUse(q) == {t \in SlotIds : q[t].used}

End(q, t) == q[t].offset + q[t].length

\* The record of slot t covers byte b.
Covers(q, t, b) == q[t].offset <= b /\ b < End(q, t)

\* The records of slots q fill the bytes from top to the end of the page, no
\* two of them overlap, and none is empty: RecordsTile, by the ends.
Apart(q) ==
  \A t, v \in InUse(q) :
    t # v => End(q, t) <= q[v].offset \/ End(q, v) <= q[t].offset

Within(q, top) ==
  \A t \in InUse(q) :
    top <= q[t].offset /\ q[t].length > 0 /\ End(q, t) <= DataSize

NoGap(q, top) ==
  \A b \in top .. DataSize - 1 : \E t \in InUse(q) : Covers(q, t, b)

Tiled(q, top) == Within(q, top) /\ Apart(q) /\ NoGap(q, top)

\* The record of slot t in the bytes d.
RecordIn(q, d, t) == [i \in 1 .. q[t].length |-> d[q[t].offset + i - 1]]

Typed ==
  /\ num_slots \in SlotIds \cup {0}
  /\ num_free_slots \in Nat
  /\ lower \in Nat /\ upper \in Offsets /\ lower <= upper
  /\ slot \in [SlotIds -> Slot]
  /\ data \in [0 .. DataSize - 1 -> Bytes]
  /\ outcome \in {"ok", "InvalidRecord", "InsufficientSpace", "SlotInUse",
                  "Garbage"}

\* Only slots that are allocated are used, for records that were stored.
Stored ==
  \A s \in InUse(slot) : s <= num_slots /\ RecordIn(slot, data, s) \in Records

\* The counts of the header are those of the slots.
Counted ==
  /\ num_free_slots = Cardinality({s \in Slots : ~slot[s].used})
  /\ lower = SlotSize * num_slots
  /\ num_slots # 0 => slot[num_slots].used

\* The states in which clients go on calling: no slot was found stale.
IInv ==
  /\ Typed /\ outcome # "SlotInUse"
  /\ Tiled(slot, upper) /\ Stored /\ Counted

\* The slots over which records lie: without the one found stale.
Recorded ==
  IF outcome = "SlotInUse" THEN [slot EXCEPT ![num_slots].used = FALSE] ELSE slot

\* After an insertion was refused over a stale slot: the records fill the page
\* as before, and the one slot counted as free is that slot.
AfterStale ==
  /\ Typed /\ outcome = "SlotInUse"
  /\ num_slots \in SlotIds /\ slot[num_slots].used
  /\ Recorded \in [SlotIds -> Slot] /\ Tiled(Recorded, upper)
  /\ InUse(Recorded) = 1 .. num_slots - 1
  /\ num_free_slots = 1 /\ lower = SlotSize * num_slots

Inv == IInv \/ AfterStale

-----------------------------------------------------------------------------
(* Numbers.                                                                *)

(* A set of natural numbers that is not empty has a least element.         *)
LEMMA LeastNatural ==
  ASSUME NEW S \in SUBSET Nat, S # {}
  PROVE  \E m \in S : \A k \in S : m <= k
<1>1. PICK m \in S : \A k \in S : ~(<<k, m>> \in OpToRel(<, Nat))
  BY NatLessThanWellFounded, WFMin
<1>2. ASSUME NEW k \in S PROVE ~(k < m)
  BY <1>1 DEF OpToRel
<1>. QED BY <1>2

(* Min is the least element.                                               *)
LEMMA MinIsLeast ==
  ASSUME NEW S \in SUBSET Nat, S # {}
  PROVE  Min(S) \in S /\ \A k \in S : Min(S) <= k
  BY LeastNatural DEF Min

(* Max is the greatest element of a set that has a bound.                  *)
LEMMA MaxIsGreatest ==
  ASSUME NEW n \in Nat, NEW S \in SUBSET (0 .. n), S # {}
  PROVE  Max(S) \in S /\ \A k \in S : k <= Max(S)
<1>. DEFINE T == {k \in 0 .. n : n - k \in S}
<1>1. T # {}
  <2>1. PICK s \in S : TRUE
    OBVIOUS
  <2>2. n - s \in T /\ n - (n - s) = s
    BY <2>1
  <2>. QED BY <2>2
<1>2. PICK t \in T : \A k \in T : t <= k
  <2>1. T \in SUBSET Nat
    OBVIOUS
  <2>. QED BY <1>1, <2>1, LeastNatural
<1>3. ASSUME NEW k \in S PROVE k <= n - t
  <2>1. n - k \in 0 .. n /\ n - (n - k) = k
    BY <1>3
  <2>2. n - k \in T
    BY <2>1
  <2>3. t \in Nat /\ k \in Nat
    OBVIOUS
  <2>. HIDE DEF T
  <2>4. t <= n - k
    BY <1>2, <2>2
  <2>. QED BY <2>3, <2>4
<1>4. \E m \in S : \A k \in S : m >= k
  BY <1>2, <1>3
<1>. QED BY <1>4 DEF Max

(* Induction, for a set of natural numbers.                                *)
LEMMA AllNaturals ==
  ASSUME NEW P \in SUBSET Nat, 0 \in P, \A n \in P : n + 1 \in P
  PROVE  P = Nat
<1>. SUFFICES ASSUME Nat \ P # {} PROVE FALSE
  OBVIOUS
<1>1. PICK m \in Nat \ P : \A k \in Nat \ P : m <= k
  BY LeastNatural
<1>2. m - 1 \in Nat /\ m - 1 \in P
  BY <1>1
<1>3. m - 1 + 1 = m
  BY <1>1
<1>. QED BY <1>1, <1>2, <1>3

(* Slots lie one after the other from the low end of the page.             *)
LEMMA SlotsFit ==
  ASSUME NEW n \in Nat
  PROVE  /\ SlotSize * n \in Nat
         /\ SlotSize * (n + 1) = SlotSize * n + SlotSize
         /\ SlotSize * n <= DataSize /\ n # 0 => n \in SlotIds
         /\ \A m \in 0 .. n : /\ SlotSize * m <= SlotSize * n
                              /\ SlotSize * n - SlotSize * (n - m) = SlotSize * m
<1>1. SlotSize * n \in Nat /\ SlotSize * (n + 1) = SlotSize * n + SlotSize
  OBVIOUS
<1>2. SlotSize * n <= DataSize => n <= DataSize \div SlotSize
  OBVIOUS
<1>3. \A m \in 0 .. n : /\ SlotSize * m <= SlotSize * n
                        /\ SlotSize * n - SlotSize * (n - m) = SlotSize * m
  OBVIOUS
<1>. QED BY <1>1, <1>2, <1>3 DEF SlotIds

(* Two that move by the same distance stay apart.                          *)
LEMMA BothShift ==
  ASSUME NEW o \in Nat, NEW m \in Nat, NEW o2 \in Nat, NEW n \in Nat, o + m <= o2
  PROVE  o + n + m <= o2 + n
  OBVIOUS

(* The bytes of a record.                                                  *)
LEMMA InSpan ==
  ASSUME NEW o \in Nat, NEW n \in Nat, NEW b \in Span(o, n)
  PROVE  b \in Nat /\ o <= b /\ b < o + n
  BY DEF Span

(* There are finitely many slots.                                          *)
LEMMA SlotsAreFinite ==
  /\ SlotIds \in SUBSET Nat /\ IsFiniteSet(SlotIds)
  /\ DataSize \div SlotSize \in Nat
  /\ \A T \in SUBSET SlotIds : IsFiniteSet(T)
<1>1. DataSize \div SlotSize \in Nat
  OBVIOUS
<1>2. IsFiniteSet(SlotIds)
  BY <1>1, FS_Interval DEF SlotIds
<1>3. SlotIds \in SUBSET Nat
  BY <1>1 DEF SlotIds
<1>4. \A T \in SUBSET SlotIds : IsFiniteSet(T)
  BY <1>2, FS_Subset
<1>. QED BY <1>1, <1>2, <1>3, <1>4

-----------------------------------------------------------------------------
(* The number of bytes that deleteRecord moves.                            *)

\* The bytes of the page that the records of slots T cover.
Cover(q, T) == {b \in 0 .. DataSize - 1 : \E t \in T : Covers(q, t, b)}

Total(q, T) == MapThenSumSet(LAMBDA t : q[t].length, T)

PickOne(T) == CHOOSE t \in T : TRUE

\* f adds up the lengths of the records of every set of slots in T, as
\* MapThenSumSet does it.
Adds(q, T, f) ==
  f = [U \in SUBSET T |-> IF U = {} THEN 0
                          ELSE q[PickOne(U)].length + f[U \ {PickOne(U)}]]

(* A record more covers as many bytes more as it is long.                  *)
LEMMA CoverByOneMore ==
  ASSUME NEW q \in [SlotIds -> Slot], NEW top \in Offsets, Within(q, top), Apart(q),
         NEW U \in SUBSET InUse(q), NEW t \in U
  PROVE  /\ Cardinality(Cover(q, U)) = q[t].length + Cardinality(Cover(q, U \ {t}))
         /\ Cardinality(Cover(q, U)) \in Nat
<1>. DEFINE V == Cover(q, U \ {t})
            B == q[t].offset .. q[t].offset + q[t].length - 1
<1>1. /\ t \in InUse(q) /\ q[t] \in Slot /\ q[t].offset \in Nat /\ q[t].length \in Nat
      /\ q[t].length > 0 /\ q[t].offset + q[t].length <= DataSize
  BY DEF Within, InUse, Slot, Offsets, End
<1>2. Cover(q, U) = V \cup B
  BY <1>1 DEF Cover, Covers, End
<1>3. V \cap B = {}
  <2>. SUFFICES ASSUME NEW b \in V, b \in B PROVE FALSE
    OBVIOUS
  <2>1. PICK v \in U \ {t} : Covers(q, v, b)
    BY DEF Cover
  <2>2. v \in InUse(q) /\ v # t /\ b \in Int
    BY <2>1 DEF Cover
  <2>3. /\ q[v] \in Slot /\ q[v].offset \in Nat /\ q[v].length \in Nat
        /\ End(q, t) <= q[v].offset \/ End(q, v) <= q[t].offset
    BY <1>1, <2>2 DEF Apart, InUse, Slot, Offsets
  <2>. QED BY <1>1, <2>1, <2>2, <2>3 DEF Covers, End
<1>4. IsFiniteSet(B) /\ Cardinality(B) = q[t].length
  <2>. DEFINE m == q[t].offset
              n == q[t].length
              e == m + n - 1
  <2>1. m \in Nat /\ n \in Nat /\ n > 0
    BY <1>1
  <2>. HIDE DEF m, n
  <2>2. m \in Int /\ e \in Int /\ m <= e /\ e - m + 1 = n
    BY <2>1
  <2>. HIDE DEF e
  <2>3. IsFiniteSet(m .. e) /\ Cardinality(m .. e) = IF m > e THEN 0 ELSE e - m + 1
    BY <2>2, FS_Interval
  <2>4. Cardinality(m .. e) = n
    BY <2>2, <2>3
  <2>. QED BY <2>3, <2>4 DEF m, n, e
<1>5. IsFiniteSet(0 .. DataSize - 1)
  BY FS_Interval
<1>6. IsFiniteSet(V) /\ Cardinality(V) \in Nat
  <2>1. V \in SUBSET (0 .. DataSize - 1)
    BY DEF Cover
  <2>. QED BY <1>5, <2>1, FS_Subset, FS_CardinalityType
<1>. HIDE DEF V, B
<1>7. Cardinality(V \cup B) = Cardinality(V) + Cardinality(B)
  <2>1. Cardinality(V \cap B) = 0
    BY <1>3, FS_EmptySet
  <2>2. Cardinality(V \cup B) = Cardinality(V) + Cardinality(B) - Cardinality(V \cap B)
    BY <1>4, <1>6, FS_Union
  <2>. QED BY <1>1, <1>4, <1>6, <2>1, <2>2
<1>. QED BY <1>1, <1>2, <1>4, <1>6, <1>7 DEF V

(* The sum of the lengths of records that do not overlap is the number of  *)
(* bytes they cover.                                                       *)
LEMMA TotalIsCover ==
  ASSUME NEW q \in [SlotIds -> Slot], NEW top \in Offsets, Within(q, top), Apart(q),
         NEW T \in SUBSET InUse(q)
  PROVE  Total(q, T) = Cardinality(Cover(q, T))
<1>. DEFINE covered == [U \in SUBSET T |-> Cardinality(Cover(q, U))]
<1>1. Cover(q, {}) = {} /\ Cardinality(Cover(q, {})) = 0
  BY FS_EmptySet DEF Cover
<1>2. ASSUME NEW U \in SUBSET T, U # {}
      PROVE  /\ PickOne(U) \in U
             /\ Cardinality(Cover(q, U))
                  = q[PickOne(U)].length + Cardinality(Cover(q, U \ {PickOne(U)}))
  <2>1. PickOne(U) \in U
    BY <1>2 DEF PickOne
  <2>. QED BY <2>1, CoverByOneMore
<1>3. Adds(q, T, covered)
  <2>1. ASSUME NEW U \in SUBSET T
        PROVE  Cardinality(Cover(q, U)) =
                 IF U = {} THEN 0
                 ELSE q[PickOne(U)].length + covered[U \ {PickOne(U)}]
    <3>1. U \ {PickOne(U)} \in SUBSET T
      OBVIOUS
    <3>. QED BY <1>1, <1>2, <3>1
  <2>. QED BY <2>1 DEF Adds
<1>. DEFINE f == CHOOSE f : Adds(q, T, f)
<1>4. Adds(q, T, f)
  BY <1>3
<1>5. Total(q, T) = f[T]
  BY DEF Total, MapThenSumSet, MapThenFoldSet, Adds, PickOne
<1>. HIDE DEF f, covered
<1>. DEFINE P == {n \in Nat : \A U \in SUBSET T :
                     Cardinality(U) = n => f[U] = Cardinality(Cover(q, U))}
<1>6. IsFiniteSet(T) /\ \A U \in SUBSET T : IsFiniteSet(U)
  BY SlotsAreFinite DEF InUse
<1>7. 0 \in P
  <2>1. \A U \in SUBSET T : Cardinality(U) = 0 => U = {}
    BY <1>6, FS_EmptySet
  <2>2. f[{}] = 0
    BY <1>4 DEF Adds
  <2>. QED BY <1>1, <2>1, <2>2
<1>8. ASSUME NEW n \in P PROVE n + 1 \in P
  <2>. SUFFICES ASSUME NEW U \in SUBSET T, Cardinality(U) = n + 1
                PROVE  f[U] = Cardinality(Cover(q, U))
    OBVIOUS
  <2>1. U # {}
    <3>1. n \in Nat /\ n + 1 # 0
      OBVIOUS
    <3>. QED BY <3>1, FS_EmptySet
  <2>. DEFINE V == U \ {PickOne(U)}
  <2>2. V \in SUBSET T /\ PickOne(U) \in U
    BY <1>2, <2>1
  <2>3. Cardinality(V) = n
    <3>1. n \in Nat /\ IsFiniteSet(U)
      BY <1>6
    <3>2. Cardinality(V) = Cardinality(U) - 1
      BY <2>2, <3>1, FS_RemoveElement
    <3>. QED BY <3>1, <3>2
  <2>4. f[U] = q[PickOne(U)].length + f[V]
    BY <1>4, <2>1 DEF Adds
  <2>. HIDE DEF V
  <2>5. f[V] = Cardinality(Cover(q, V))
    BY <2>2, <2>3
  <2>. QED BY <1>2, <2>1, <2>4, <2>5 DEF V
<1>9. P = Nat
  BY <1>7, <1>8, AllNaturals
<1>. HIDE DEF P
<1>10. Cardinality(T) \in P
  BY <1>6, <1>9, FS_CardinalityType
<1>. QED BY <1>5, <1>10 DEF P

-----------------------------------------------------------------------------
(* deleteRecord: what is moved.                                            *)

(* The records at lower offsets end before the record begins, the others   *)
(* begin after it ends.                                                    *)
LEMMA LowerAndHigher ==
  ASSUME Typed, Tiled(slot, upper), Stored, NEW s \in InUse(slot)
  PROVE  /\ Below(s) = {t \in InUse(slot) : slot[t].offset < slot[s].offset}
         /\ \A t \in InUse(slot) :
              /\ slot[t] \in Slot /\ slot[t].used
              /\ slot[t].offset \in Nat /\ slot[t].length \in Nat
              /\ upper <= slot[t].offset /\ slot[t].length > 0
              /\ End(slot, t) <= DataSize
              /\ t \in Below(s) => End(slot, t) <= slot[s].offset
              /\ t # s /\ t \notin Below(s) => End(slot, s) <= slot[t].offset
         /\ s \notin Below(s)
<1>1. ASSUME NEW t \in InUse(slot) PROVE t \in Slots
  <2>1. t \in Nat /\ t >= 1
    BY DEF InUse, SlotIds
  <2>2. t <= num_slots /\ num_slots \in Nat
    BY SlotsAreFinite DEF Stored, Typed
  <2>. QED BY <2>1, <2>2 DEF Slots
<1>2. \A t \in Slots : t \in SlotIds
  BY DEF Slots, Typed, SlotIds
<1>3. Below(s) = {t \in InUse(slot) : slot[t].offset < slot[s].offset}
  BY <1>1, <1>2 DEF Below, InUse
<1>4. ASSUME NEW t \in InUse(slot)
      PROVE  /\ slot[t] \in Slot /\ slot[t].used
             /\ slot[t].offset \in Nat /\ slot[t].length \in Nat
             /\ upper <= slot[t].offset /\ slot[t].length > 0
             /\ End(slot, t) <= DataSize
  BY DEF Typed, InUse, Slot, Offsets, Tiled, Within
<1>5. ASSUME NEW t \in InUse(slot), t # s
      PROVE  \/ End(slot, t) <= slot[s].offset /\ slot[t].offset < slot[s].offset
             \/ End(slot, s) <= slot[t].offset /\ ~(slot[t].offset < slot[s].offset)
  <2>1. End(slot, t) <= slot[s].offset \/ End(slot, s) <= slot[t].offset
    BY <1>5 DEF Tiled, Apart
  <2>. QED BY <1>4, <2>1 DEF End
<1>6. s \notin Below(s)
  BY <1>3, <1>4
<1>. QED BY <1>3, <1>4, <1>5, <1>6

(* The slots after the move: one less is used, and the records below it    *)
(* have higher offsets.                                                    *)
LEMMA SlotsMove ==
  ASSUME Typed, Tiled(slot, upper), Stored, NEW s \in InUse(slot)
  PROVE  LET q == SlotsWithout(s)
         IN  /\ q \in [SlotIds -> Slot]
             /\ InUse(q) = InUse(slot) \ {s}
             /\ \A t \in InUse(q) :
                  /\ q[t].length = slot[t].length
                  /\ q[t].offset = IF t \in Below(s)
                                   THEN slot[t].offset + slot[s].length
                                   ELSE slot[t].offset
<1>. DEFINE q == SlotsWithout(s)
            len == slot[s].length
<1>1. Unused \in Slot /\ ~Unused.used
  BY DEF Unused, Slot, Offsets
<1>2. ASSUME NEW t \in SlotIds
      PROVE  /\ q[t] \in Slot
             /\ t \in InUse(q) <=> t \in InUse(slot) \ {s}
             /\ t \in InUse(slot) \ {s} =>
                  /\ q[t].length = slot[t].length
                  /\ q[t].offset = IF t \in Below(s) THEN slot[t].offset + len
                                   ELSE slot[t].offset
  <2>1. slot[t] \in Slot /\ s \in SlotIds
    BY DEF Typed, InUse
  <2>2. CASE t = s
    <3>1. q[t] = Unused
      BY <2>2 DEF SlotsWithout
    <3>. QED BY <1>1, <2>2, <3>1 DEF InUse
  <2>3. CASE t # s /\ t \in Below(s)
    <3>1. q[t] = [slot[t] EXCEPT !.offset = @ + len]
      BY <2>3 DEF SlotsWithout
    <3>2. t \in InUse(slot) /\ s \in InUse(slot)
      BY <2>3, LowerAndHigher
    <3>3. /\ slot[t].offset \in Nat /\ len \in Nat
          /\ slot[t].offset + slot[t].length <= slot[s].offset
          /\ slot[s].offset + len <= DataSize /\ slot[t].length > 0
          /\ slot[t].length \in Nat /\ slot[s].offset \in Nat
      BY <2>3, <3>2, LowerAndHigher DEF End
    <3>4. slot[t].offset + len \in Offsets
      BY <3>3 DEF Offsets
    <3>5. /\ q[t] \in Slot /\ q[t].used = slot[t].used /\ q[t].length = slot[t].length
          /\ q[t].offset = slot[t].offset + len
      BY <2>1, <3>1, <3>4 DEF Slot
    <3>. QED BY <2>3, <3>2, <3>5 DEF InUse
  <2>4. CASE t # s /\ t \notin Below(s)
    <3>1. q[t] = slot[t]
      BY <2>4 DEF SlotsWithout
    <3>. QED BY <2>1, <2>4, <3>1 DEF InUse
  <2>. QED BY <2>2, <2>3, <2>4
<1>3. q = [t \in SlotIds |-> q[t]]
  BY DEF SlotsWithout
<1>. HIDE DEF q
<1>4. q \in [SlotIds -> Slot]
  BY <1>2, <1>3
<1>5. InUse(q) = InUse(slot) \ {s}
  BY <1>2 DEF InUse
<1>. QED BY <1>2, <1>4, <1>5 DEF q, InUse

(* They fill the page from the new end of the free space on.               *)
LEMMA MovedRecordsTile ==
  ASSUME Typed, Tiled(slot, upper), Stored, NEW s \in InUse(slot)
  PROVE  /\ upper + slot[s].length \in Offsets
         /\ Tiled(SlotsWithout(s), upper + slot[s].length)
<1>. DEFINE q == SlotsWithout(s)
            len == slot[s].length
            off == slot[s].offset
            top == upper + len
<1>1. /\ InUse(q) = InUse(slot) \ {s}
      /\ \A t \in InUse(q) :
           /\ q[t].length = slot[t].length
           /\ q[t].offset = IF t \in Below(s) THEN slot[t].offset + len
                            ELSE slot[t].offset
  BY SlotsMove
<1>2. \A t \in InUse(slot) :
        /\ slot[t].offset \in Nat /\ slot[t].length \in Nat
        /\ upper <= slot[t].offset /\ slot[t].length > 0
        /\ slot[t].offset + slot[t].length <= DataSize
        /\ t \in Below(s) => slot[t].offset + slot[t].length <= off
        /\ t # s /\ t \notin Below(s) => off + len <= slot[t].offset
  BY LowerAndHigher DEF End
<1>3. /\ off \in Nat /\ len \in Nat /\ upper \in Nat /\ len > 0
      /\ upper <= off /\ off + len <= DataSize
  BY <1>2 DEF Typed, Offsets
<1>4. top \in Offsets
  BY <1>3 DEF Offsets
<1>. HIDE DEF q, off, len
<1>5. Within(q, top)
  <2>1. ASSUME NEW t \in InUse(q)
        PROVE  top <= q[t].offset /\ q[t].length > 0
               /\ q[t].offset + q[t].length <= DataSize
    <3>1. t \in InUse(slot) /\ t # s
      BY <1>1
    <3>2. CASE t \in Below(s)
      BY <1>1, <1>2, <1>3, <3>1, <3>2
    <3>3. CASE t \notin Below(s)
      BY <1>1, <1>2, <1>3, <3>1, <3>3
    <3>. QED BY <3>2, <3>3
  <2>. QED BY <2>1 DEF Within, End
<1>6. Apart(q)
  <2>1. ASSUME NEW t \in InUse(q), NEW v \in InUse(q), t # v
        PROVE  \/ q[t].offset + q[t].length <= q[v].offset
               \/ q[v].offset + q[v].length <= q[t].offset
    <3>1. t \in InUse(slot) /\ t # s /\ v \in InUse(slot) /\ v # s
      BY <1>1
    <3>2. \/ slot[t].offset + slot[t].length <= slot[v].offset
          \/ slot[v].offset + slot[v].length <= slot[t].offset
      BY <2>1, <3>1 DEF Tiled, Apart, End
    <3>3. CASE t \in Below(s) /\ v \in Below(s)
      <4>1. /\ q[t].length = slot[t].length /\ q[t].offset = slot[t].offset + len
            /\ q[v].length = slot[v].length /\ q[v].offset = slot[v].offset + len
        BY <1>1, <3>3
      <4>2. /\ slot[t].offset \in Nat /\ slot[t].length \in Nat
            /\ slot[v].offset \in Nat /\ slot[v].length \in Nat
        BY <1>2, <3>1
      <4>3. len \in Nat
        BY <1>3
      <4>4. CASE slot[t].offset + slot[t].length <= slot[v].offset
        BY <4>1, <4>2, <4>3, <4>4, BothShift
      <4>5. CASE slot[v].offset + slot[v].length <= slot[t].offset
        BY <4>1, <4>2, <4>3, <4>5, BothShift
      <4>. QED BY <3>2, <4>4, <4>5
    <3>4. CASE t \in Below(s) /\ v \notin Below(s)
      <4>1. slot[t].offset + slot[t].length + len <= slot[v].offset
        BY <1>2, <1>3, <3>1, <3>4
      <4>. QED BY <1>1, <1>2, <1>3, <3>1, <3>4, <4>1
    <3>5. CASE t \notin Below(s) /\ v \in Below(s)
      <4>1. slot[v].offset + slot[v].length + len <= slot[t].offset
        BY <1>2, <1>3, <3>1, <3>5
      <4>. QED BY <1>1, <1>2, <1>3, <3>1, <3>5, <4>1
    <3>6. CASE t \notin Below(s) /\ v \notin Below(s)
      BY <1>1, <3>1, <3>2, <3>6
    <3>. QED BY <3>3, <3>4, <3>5, <3>6
  <2>. QED BY <2>1 DEF Apart, End
<1>7. NoGap(q, top)
  <2>. SUFFICES ASSUME NEW b \in top .. DataSize - 1
                PROVE  \E t \in InUse(q) : Covers(q, t, b)
    BY DEF NoGap
  <2>1. b \in Nat /\ upper + len <= b /\ b <= DataSize - 1
    BY <1>3
  <2>2. CASE b < off + len
    <3>1. b - len \in upper .. DataSize - 1
      BY <1>3, <2>1
    <3>2. PICK t \in InUse(slot) : Covers(slot, t, b - len)
      BY <3>1 DEF Tiled, NoGap
    <3>3. slot[t].offset <= b - len /\ b - len < slot[t].offset + slot[t].length
      BY <3>2 DEF Covers, End
    <3>4. t \in Below(s) /\ t # s
      <4>1. slot[t].offset < off
        BY <1>2, <1>3, <2>1, <2>2, <3>3
      <4>. QED BY <4>1, LowerAndHigher DEF off
    <3>5. Covers(q, t, b)
      BY <1>1, <1>2, <1>3, <2>1, <3>3, <3>4 DEF Covers, End
    <3>. QED BY <1>1, <3>4, <3>5
  <2>3. CASE off + len <= b
    <3>1. b \in upper .. DataSize - 1
      BY <1>3, <2>1
    <3>2. PICK t \in InUse(slot) : Covers(slot, t, b)
      BY <3>1 DEF Tiled, NoGap
    <3>3. slot[t].offset <= b /\ b < slot[t].offset + slot[t].length
      BY <3>2 DEF Covers, End
    <3>4. t # s /\ t \notin Below(s)
      BY <1>2, <1>3, <2>1, <2>3, <3>3 DEF off, len
    <3>. QED BY <1>1, <3>3, <3>4 DEF Covers, End
  <2>. QED BY <1>3, <2>1, <2>2, <2>3
<1>. QED BY <1>4, <1>5, <1>6, <1>7 DEF Tiled, q, len

(* The bytes below the record are moved up by its length, all of them, as  *)
(* the sum of the lengths that deleteRecord takes says.                    *)
LEMMA BytesMove ==
  ASSUME Typed, Tiled(slot, upper), Stored, NEW s \in InUse(slot)
  PROVE  DataWithout(s) =
           [b \in 0 .. DataSize - 1 |->
              IF b \in upper + slot[s].length .. slot[s].offset + slot[s].length - 1
              THEN data[b - slot[s].length]
              ELSE IF b \in Span(slot[s].offset, slot[s].length) THEN 0
              ELSE data[b]]
<1>. DEFINE len == slot[s].length
            off == slot[s].offset
            B == Below(s)
            from == Min({slot[t].offset : t \in B \cup {s}})
            bytes == MapThenSumSet(LAMBDA t : slot[t].length, B)
            cleared == [b \in DOMAIN data |-> IF b \in Span(off, len) THEN 0 ELSE data[b]]
<1>1. /\ B = {t \in InUse(slot) : slot[t].offset < off}
      /\ \A t \in InUse(slot) :
           /\ slot[t].offset \in Nat /\ slot[t].length \in Nat
           /\ upper <= slot[t].offset /\ slot[t].length > 0
           /\ slot[t].offset + slot[t].length <= DataSize
           /\ t \in B => slot[t].offset + slot[t].length <= off
  BY LowerAndHigher DEF End
<1>2. /\ off \in Nat /\ len \in Nat /\ upper \in Nat /\ len > 0
      /\ upper <= off /\ off + len <= DataSize /\ upper < DataSize
  BY <1>1 DEF Typed, Offsets
<1>3. DOMAIN data = 0 .. DataSize - 1
  BY DEF Typed
<1>4. \E t \in B \cup {s} : slot[t].offset = upper
  <2>1. upper \in upper .. DataSize - 1
    BY <1>2
  <2>2. PICK t \in InUse(slot) : Covers(slot, t, upper)
    BY <2>1 DEF Tiled, NoGap
  <2>3. slot[t].offset = upper
    BY <1>1, <1>2, <2>2 DEF Covers, End
  <2>4. CASE upper < off
    BY <1>1, <2>3, <2>4
  <2>5. CASE upper = off
    BY <2>5
  <2>. QED BY <1>2, <2>3, <2>4, <2>5
<1>5. from = upper
  <2>. DEFINE S == {slot[t].offset : t \in B \cup {s}}
  <2>1. S \in SUBSET Nat /\ upper \in S /\ \A k \in S : upper <= k
    BY <1>1, <1>4
  <2>. HIDE DEF S
  <2>2. Min(S) \in S /\ \A k \in S : Min(S) <= k
    BY <2>1, MinIsLeast
  <2>3. Min(S) <= upper /\ upper <= Min(S) /\ Min(S) \in Nat
    BY <2>1, <2>2
  <2>. QED BY <1>2, <2>3 DEF S
<1>6. Cover(slot, B) = upper .. off - 1
  <2>1. ASSUME NEW b \in upper .. off - 1 PROVE \E t \in B : Covers(slot, t, b)
    <3>1. b \in upper .. DataSize - 1
      BY <1>2
    <3>2. PICK t \in InUse(slot) : Covers(slot, t, b)
      BY <3>1 DEF Tiled, NoGap
    <3>3. slot[t].offset < off
      BY <1>1, <1>2, <3>2 DEF Covers
    <3>. QED BY <1>1, <3>2, <3>3
  <2>2. ASSUME NEW b \in 0 .. DataSize - 1, NEW t \in B, Covers(slot, t, b)
        PROVE  b \in upper .. off - 1
    BY <1>1, <1>2, <2>2 DEF Covers, End
  <2>3. upper .. off - 1 \subseteq 0 .. DataSize - 1
    BY <1>2
  <2>. HIDE DEF B
  <2>. QED BY <2>1, <2>2, <2>3 DEF Cover
<1>7. bytes = off - upper
  <2>1. Total(slot, B) = Cardinality(Cover(slot, B))
    <3>1. B \in SUBSET InUse(slot)
      BY <1>1
    <3>. QED BY <3>1, TotalIsCover DEF Tiled, Typed
  <2>2. Cardinality(upper .. off - 1) = off - upper
    <3>. DEFINE e == off - 1
    <3>. HIDE DEF off
    <3>1. upper \in Int /\ e \in Int
      BY <1>2
    <3>2. (IF upper > e THEN 0 ELSE e - upper + 1) = off - upper
      BY <1>2
    <3>. HIDE DEF e
    <3>3. Cardinality(upper .. e) = IF upper > e THEN 0 ELSE e - upper + 1
      BY <3>1, FS_Interval
    <3>. QED BY <3>2, <3>3 DEF e
  <2>3. Total(slot, B) = bytes
    BY DEF Total
  <2>. QED BY <1>6, <2>1, <2>2, <2>3
<1>8. DataWithout(s) = [b \in DOMAIN data |-> IF b \in Span(from + len, bytes)
                                              THEN cleared[b - len] ELSE cleared[b]]
  BY DEF DataWithout
<1>. HIDE DEF from, bytes, len, off, B
<1>9. Span(from + len, bytes) = upper + len .. off + len - 1
  <2>1. upper + len + (off - upper) - 1 = off + len - 1
    BY <1>2
  <2>. QED BY <1>5, <1>7, <2>1 DEF Span
<1>10. ASSUME NEW b \in 0 .. DataSize - 1
       PROVE  /\ cleared[b] = IF b \in Span(off, len) THEN 0 ELSE data[b]
              /\ b \in upper + len .. off + len - 1 => cleared[b - len] = data[b - len]
  <2>1. b \in upper + len .. off + len - 1 =>
          b - len \in 0 .. DataSize - 1 /\ b - len \notin Span(off, len)
    BY <1>2 DEF Span
  <2>. QED BY <1>3, <2>1
<1>. HIDE DEF cleared
<1>11. \A b \in 0 .. DataSize - 1 :
         (IF b \in Span(from + len, bytes) THEN cleared[b - len] ELSE cleared[b])
           = IF b \in upper + len .. off + len - 1 THEN data[b - len]
             ELSE IF b \in Span(off, len) THEN 0 ELSE data[b]
  BY <1>9, <1>10
<1>12. DataWithout(s) = [b \in 0 .. DataSize - 1 |->
                           IF b \in upper + len .. off + len - 1 THEN data[b - len]
                           ELSE IF b \in Span(off, len) THEN 0 ELSE data[b]]
  BY <1>3, <1>8, <1>11
<1>. QED BY <1>12 DEF len, off

-----------------------------------------------------------------------------
(* What is read.                                                           *)

(* A record depends on the bytes it covers only.                           *)
LEMMA SameBytes ==
  ASSUME NEW q \in [SlotIds -> Slot], NEW top \in Offsets, Within(q, top),
         NEW t \in InUse(q), NEW d, NEW e,
         \A b \in top .. DataSize - 1 : e[b] = d[b]
  PROVE  RecordIn(q, e, t) = RecordIn(q, d, t)
<1>1. /\ q[t].offset \in Nat /\ q[t].length \in Nat /\ top \in Nat
      /\ top <= q[t].offset /\ q[t].offset + q[t].length <= DataSize
  BY DEF Within, InUse, Slot, Offsets, End
<1>2. \A i \in 1 .. q[t].length : q[t].offset + i - 1 \in top .. DataSize - 1
  BY <1>1
<1>3. \A i \in 1 .. q[t].length : e[q[t].offset + i - 1] = d[q[t].offset + i - 1]
  BY <1>2
<1>. QED BY <1>3 DEF RecordIn

(* The records that deleteRecord moves read as before.                     *)
LEMMA RecordsUnchanged ==
  ASSUME Typed, Tiled(slot, upper), Stored, NEW s \in InUse(slot),
         NEW t \in InUse(slot), t # s
  PROVE  RecordIn(SlotsWithout(s), DataWithout(s), t) = RecordIn(slot, data, t)
<1>. DEFINE q == SlotsWithout(s)
            d == DataWithout(s)
            len == slot[s].length
            off == slot[s].offset
<1>1. /\ q[t].length = slot[t].length
      /\ q[t].offset = IF t \in Below(s) THEN slot[t].offset + len ELSE slot[t].offset
  BY SlotsMove
<1>2. /\ slot[t].offset \in Nat /\ slot[t].length \in Nat
      /\ upper <= slot[t].offset /\ slot[t].length > 0
      /\ slot[t].offset + slot[t].length <= DataSize
      /\ t \in Below(s) => slot[t].offset + slot[t].length <= off
      /\ t \notin Below(s) => off + len <= slot[t].offset
  BY LowerAndHigher DEF End
<1>3. off \in Nat /\ len \in Nat /\ upper \in Nat /\ upper <= off /\ off + len <= DataSize
  BY LowerAndHigher DEF End, Typed, Offsets
<1>4. d = [b \in 0 .. DataSize - 1 |->
             IF b \in upper + len .. off + len - 1 THEN data[b - len]
             ELSE IF b \in Span(off, len) THEN 0 ELSE data[b]]
  BY BytesMove
<1>. HIDE DEF q, d, len, off
<1>5. ASSUME NEW i \in 1 .. slot[t].length
      PROVE  d[q[t].offset + i - 1] = data[slot[t].offset + i - 1]
  <2>1. CASE t \in Below(s)
    <3>. DEFINE b == slot[t].offset + len + i - 1
    <3>0. /\ i \in Nat /\ 1 <= i /\ i <= slot[t].length
          /\ slot[t].offset + slot[t].length <= off
      BY <1>2, <2>1
    <3>1. b \in upper + len .. off + len - 1 /\ b \in 0 .. DataSize - 1
      <4>1. b \in Nat
        BY <1>2, <1>3, <3>0
      <4>2. upper + len <= b
        BY <1>2, <1>3, <3>0
      <4>3. b <= off + len - 1
        BY <1>2, <1>3, <3>0
      <4>. HIDE DEF b
      <4>. QED BY <1>3, <4>1, <4>2, <4>3
    <3>2. b - len = slot[t].offset + i - 1 /\ b = q[t].offset + i - 1
      BY <1>1, <1>2, <1>3, <2>1
    <3>. HIDE DEF b
    <3>3. d[b] = data[b - len]
      BY <1>4, <3>1
    <3>. QED BY <3>2, <3>3
  <2>2. CASE t \notin Below(s)
    <3>. DEFINE b == slot[t].offset + i - 1
    <3>1. /\ b \notin upper + len .. off + len - 1 /\ b \in 0 .. DataSize - 1
          /\ b \notin Span(off, len)
      BY <1>2, <1>3, <2>2 DEF Span
    <3>2. b = q[t].offset + i - 1
      BY <1>1, <2>2
    <3>. HIDE DEF b
    <3>3. d[b] = data[b]
      BY <1>4, <3>1
    <3>. QED BY <3>2, <3>3 DEF b
  <2>. QED BY <2>1, <2>2
<1>6. RecordIn(q, d, t) = RecordIn(slot, data, t)
  BY <1>1, <1>5 DEF RecordIn
<1>. QED BY <1>6 DEF q, d

(* The bytes stay bytes.                                                   *)
LEMMA BytesStayBytes ==
  ASSUME Typed, Tiled(slot, upper), Stored, NEW s \in InUse(slot)
  PROVE  DataWithout(s) \in [0 .. DataSize - 1 -> Bytes]
<1>1. 0 \in Bytes
  BY DEF Bytes
<1>2. ASSUME NEW b \in 0 .. DataSize - 1,
             b \in upper + slot[s].length .. slot[s].offset + slot[s].length - 1
      PROVE  b - slot[s].length \in 0 .. DataSize - 1
  <2>1. upper \in Nat /\ slot[s].length \in Nat /\ slot[s].offset \in Nat
    BY LowerAndHigher DEF Typed, Offsets
  <2>. QED BY <1>2, <2>1
<1>3. \A b \in 0 .. DataSize - 1 : data[b] \in Bytes
  BY DEF Typed
<1>. QED BY <1>1, <1>2, <1>3, BytesMove

-----------------------------------------------------------------------------
(* Storing a record below the others.                                      *)

\* Slots p and bytes e are q and d with record r put in slot s: it reads as r,
\* and the others as before.
IsPut(p, e, q, d, top, s, r) ==
  /\ p \in [SlotIds -> Slot] /\ e \in [0 .. DataSize - 1 -> Bytes]
  /\ top - Len(r) \in Offsets /\ top - Len(r) <= top
  /\ Tiled(p, top - Len(r))
  /\ InUse(p) = InUse(q) \cup {s}
  /\ RecordIn(p, e, s) = r
  /\ \A t \in InUse(q) : RecordIn(p, e, t) = RecordIn(q, d, t)

(* What insertRecordInSlot does puts the record in the slot.               *)
LEMMA RecordPut ==
  ASSUME NEW q \in [SlotIds -> Slot], NEW d \in [0 .. DataSize - 1 -> Bytes],
         NEW top \in Offsets, Tiled(q, top), NEW s \in SlotIds, ~q[s].used,
         NEW r \in Records, r # <<>>, Len(r) <= top
  PROVE  IsPut([q EXCEPT ![s] = Filled(top, r)], Written(d, top, r),
               q, d, top, s, r)
<1>. DEFINE p == [q EXCEPT ![s] = Filled(top, r)]
            e == Written(d, top, r)
            n == Len(r)
            low == top - n
<1>1. r \in Seq(Nat) /\ n \in Nat /\ n > 0 /\ DOMAIN r = 1 .. n /\ r = [i \in 1 .. n |-> r[i]]
  OBVIOUS
<1>2. top \in Nat /\ top <= DataSize /\ low \in Offsets /\ low \in Nat /\ low < top
      /\ low + n = top
  BY <1>1 DEF Offsets
<1>3. Filled(top, r) = [used |-> TRUE, offset |-> low, length |-> n]
  BY DEF Filled
<1>. HIDE DEF n, low
<1>4. Filled(top, r) \in Slot
  <2>1. n \in Offsets
    BY <1>1, <1>2 DEF Offsets
  <2>. QED BY <1>2, <1>3, <2>1 DEF Slot
<1>5. p \in [SlotIds -> Slot]
  BY <1>4
<1>6. /\ InUse(p) = InUse(q) \cup {s} /\ s \notin InUse(q)
      /\ p[s].offset = low /\ p[s].length = n
      /\ \A t \in InUse(q) : p[t] = q[t] /\ t # s
  BY <1>3 DEF InUse
<1>7. e = [b \in 0 .. DataSize - 1 |-> IF b \in low .. top - 1
                                       THEN r[b - low + 1] ELSE d[b]]
  <2>1. Span(top - Len(r), Len(r)) = low .. top - 1
    BY <1>2 DEF Span, n, low
  <2>. QED BY <2>1 DEF Written, low, n
<1>. HIDE DEF p, e
<1>8. ASSUME NEW b \in low .. top - 1
      PROVE  b - low + 1 \in 1 .. n /\ b \in 0 .. DataSize - 1
  <2>1. b \in Nat /\ low <= b /\ b <= top - 1
    BY <1>2
  <2>2. b - low + 1 \in Nat /\ 1 <= b - low + 1 /\ b - low + 1 <= n
    <3>1. n \in Nat /\ low \in Nat /\ top \in Nat /\ low + n = top
      BY <1>1, <1>2
    <3>. QED BY <2>1, <3>1
  <2>3. 0 <= b /\ b <= DataSize - 1
    BY <1>2, <2>1
  <2>. QED BY <1>1, <2>1, <2>2, <2>3
<1>9. e \in [0 .. DataSize - 1 -> Bytes]
  <2>1. \A i \in 1 .. n : r[i] \in Bytes
    BY <1>1 DEF Bytes
  <2>. QED BY <1>7, <1>8, <2>1
<1>10. \A t \in InUse(q) :
         /\ q[t].offset \in Nat /\ q[t].length \in Nat
         /\ top <= q[t].offset /\ q[t].length > 0
         /\ q[t].offset + q[t].length <= DataSize
  BY DEF Tiled, Within, InUse, Slot, Offsets, End
<1>11. Within(p, low)
  <2>1. ASSUME NEW t \in InUse(p)
        PROVE  low <= p[t].offset /\ p[t].length > 0
               /\ p[t].offset + p[t].length <= DataSize
    <3>1. CASE t = s
      BY <1>1, <1>2, <1>6, <3>1
    <3>2. CASE t \in InUse(q)
      BY <1>2, <1>6, <1>10, <3>2
    <3>. QED BY <1>6, <3>1, <3>2
  <2>. QED BY <2>1 DEF Within, End
<1>12. Apart(p)
  <2>1. ASSUME NEW t \in InUse(p), NEW v \in InUse(p), t # v
        PROVE  End(p, t) <= p[v].offset \/ End(p, v) <= p[t].offset
    <3>1. CASE t \in InUse(q) /\ v \in InUse(q)
      BY <1>6, <2>1, <3>1 DEF Tiled, Apart, End
    <3>2. CASE t = s /\ v \in InUse(q)
      BY <1>2, <1>6, <1>10, <3>2 DEF End
    <3>3. CASE v = s /\ t \in InUse(q)
      BY <1>2, <1>6, <1>10, <3>3 DEF End
    <3>. QED BY <1>6, <2>1, <3>1, <3>2, <3>3
  <2>. QED BY <2>1 DEF Apart
<1>13. NoGap(p, low)
  <2>. SUFFICES ASSUME NEW b \in low .. DataSize - 1
                PROVE  \E t \in InUse(p) : Covers(p, t, b)
    BY DEF NoGap
  <2>1. CASE b < top
    <3>1. Covers(p, s, b)
      BY <1>2, <1>6, <2>1 DEF Covers, End
    <3>. QED BY <1>6, <3>1
  <2>2. CASE top <= b
    <3>1. b \in top .. DataSize - 1
      BY <1>2, <2>2
    <3>2. PICK t \in InUse(q) : Covers(q, t, b)
      BY <3>1 DEF Tiled, NoGap
    <3>. QED BY <1>6, <3>2 DEF Covers, End
  <2>. QED BY <1>2, <2>1, <2>2
<1>14. RecordIn(p, e, s) = r
  <2>1. ASSUME NEW i \in 1 .. n PROVE e[low + i - 1] = r[i]
    <3>0. i \in Nat /\ 1 <= i /\ i <= n
      BY <1>1
    <3>1. low + i - 1 \in low .. top - 1 /\ low + i - 1 - low + 1 = i
      <4>1. n \in Nat /\ low \in Nat /\ top \in Nat /\ low + n = top
        BY <1>1, <1>2
      <4>2. low + i - 1 \in Nat /\ low <= low + i - 1 /\ low + i - 1 <= top - 1
        BY <3>0, <4>1
      <4>3. low + i - 1 - low + 1 = i
        BY <3>0, <4>1
      <4>. QED BY <4>1, <4>2, <4>3
    <3>2. low + i - 1 \in 0 .. DataSize - 1
      BY <1>8, <3>1
    <3>. DEFINE b == low + i - 1
    <3>. HIDE DEF b
    <3>3. e[b] = r[b - low + 1]
      BY <1>7, <3>1, <3>2 DEF b
    <3>4. b - low + 1 = i
      BY <1>2, <3>0 DEF b
    <3>5. e[b] = r[i]
      BY <3>3, <3>4
    <3>. QED BY <3>5 DEF b
  <2>2. RecordIn(p, e, s) = [i \in 1 .. n |-> e[low + i - 1]]
    BY <1>6 DEF RecordIn
  <2>3. RecordIn(p, e, s) = [i \in 1 .. n |-> r[i]]
    BY <2>1, <2>2
  <2>. QED BY <1>1, <2>3
<1>15. ASSUME NEW t \in InUse(q) PROVE RecordIn(p, e, t) = RecordIn(q, d, t)
  <2>1. \A b \in top .. DataSize - 1 : e[b] = d[b]
    BY <1>2, <1>7
  <2>2. RecordIn(q, e, t) = RecordIn(q, d, t)
    BY <2>1, SameBytes DEF Tiled
  <2>. QED BY <1>6, <2>2 DEF RecordIn
<1>16. Tiled(p, low)
  BY <1>11, <1>12, <1>13 DEF Tiled
<1>17. low \in Offsets /\ low <= top
  BY <1>2
<1>18. InUse(p) = InUse(q) \cup {s}
  BY <1>6
<1>19. IsPut(p, e, q, d, top, s, r)
  BY <1>5, <1>9, <1>14, <1>15, <1>16, <1>17, <1>18 DEF low, n, IsPut
<1>. QED BY <1>19 DEF p, e

-----------------------------------------------------------------------------
(* The steps.                                                              *)

\* The records of a page as a map.
Read(q, d) ==
  [s \in SlotIds |-> IF s \in InUse(q) THEN RecordIn(q, d, s) ELSE NoRecord]

\* content of the refinement mapping.
Content == [s \in SlotIds |-> IF s \in UsedSlots THEN Record(s) ELSE NoRecord]

\* The unused ones of the first n slots.
Free(n, q) == (1 .. n) \ InUse(q)

(* The free slots are those that the used ones leave, and they are finite. *)
LEMMA FreeSlots ==
  ASSUME NEW n \in SlotIds \cup {0}, NEW q
  PROVE  /\ n \in Nat /\ 1 .. n \in SUBSET SlotIds
         /\ (1 .. n) \ {s \in 1 .. n : q[s].used} = Free(n, q)
         /\ IsFiniteSet(Free(n, q)) /\ Cardinality(Free(n, q)) \in Nat
<1>1. n \in Nat /\ 1 .. n \in SUBSET SlotIds
  BY SlotsAreFinite DEF SlotIds
<1>2. IsFiniteSet(1 .. n)
  BY <1>1, SlotsAreFinite
<1>3. Free(n, q) \in SUBSET (1 .. n)
  BY DEF Free
<1>4. IsFiniteSet(Free(n, q))
  BY <1>2, <1>3, FS_Subset
<1>. QED BY <1>1, <1>4, FS_CardinalityType DEF Free, InUse

(* Slots that are used are allocated, and a slot found stale has no record *)
(* in the map.                                                             *)
LEMMA UsedAreRecorded ==
  ASSUME Inv
  PROVE  UsedSlots = InUse(Recorded)
<1>1. num_slots \in Nat /\ SlotIds \in SUBSET Nat
  BY SlotsAreFinite DEF Inv, IInv, AfterStale, Typed
<1>2. CASE IInv
  <2>1. Recorded = slot /\ StaleSlots = {}
    BY <1>2 DEF IInv, Recorded, StaleSlots
  <2>2. ASSUME NEW s \in InUse(slot) PROVE s \in Slots
    <3>1. s \in SlotIds /\ s <= num_slots
      BY <1>2 DEF IInv, Stored, InUse
    <3>. QED BY <1>1, <3>1 DEF Slots, SlotIds
  <2>3. Slots \in SUBSET SlotIds
    BY <1>2, FreeSlots DEF Slots, IInv, Typed
  <2>. QED BY <2>1, <2>2, <2>3 DEF UsedSlots, InUse
<1>3. CASE AfterStale
  <2>1. StaleSlots = {num_slots} /\ Slots = 1 .. num_slots
    BY <1>3 DEF AfterStale, StaleSlots, Slots
  <2>2. /\ Recorded = [slot EXCEPT ![num_slots].used = FALSE]
        /\ InUse(Recorded) = 1 .. num_slots - 1
        /\ slot \in [SlotIds -> Slot]
    BY <1>3 DEF AfterStale, Recorded, Typed
  <2>3. Slots \ {num_slots} = 1 .. num_slots - 1 /\ Slots \in SUBSET SlotIds
    <3>1. Slots \ {num_slots} = 1 .. num_slots - 1
      BY <1>1, <2>1
    <3>2. Slots \in SUBSET SlotIds
      BY <1>3, FreeSlots DEF Slots, AfterStale
    <3>. QED BY <3>1, <3>2
  <2>4. ASSUME NEW s \in SlotIds, s # num_slots PROVE Recorded[s] = slot[s]
    BY <2>2, <2>4
  <2>5. ASSUME NEW s \in 1 .. num_slots - 1 PROVE slot[s].used
    <3>1. s \in InUse(Recorded) /\ s \in SlotIds /\ s # num_slots
      BY <1>1, <2>2, <2>3
    <3>. QED BY <2>4, <3>1 DEF InUse
  <2>6. UsedSlots = 1 .. num_slots - 1
    BY <2>1, <2>3, <2>5 DEF UsedSlots
  <2>. QED BY <2>2, <2>6
<1>. QED BY <1>2, <1>3 DEF Inv

(* The content of the page is read from the slots with records.            *)
LEMMA ContentIsRead ==
  ASSUME Inv
  PROVE  Content = Read(Recorded, data)
<1>1. ASSUME NEW s \in InUse(Recorded) PROVE Record(s) = RecordIn(Recorded, data, s)
  <2>1. Recorded[s].offset = slot[s].offset /\ Recorded[s].length = slot[s].length
    <3>1. CASE outcome = "SlotInUse"
      <4>1. slot \in [SlotIds -> Slot] /\ s \in SlotIds
        BY DEF InUse, Inv, IInv, AfterStale, Typed
      <4>2. slot[s] \in Slot
        BY <4>1
      <4>3. Recorded = [slot EXCEPT ![num_slots].used = FALSE]
        BY <3>1 DEF Recorded
      <4>4. CASE s = num_slots
        <5>1. Recorded[s] = [slot[s] EXCEPT !.used = FALSE]
          BY <4>1, <4>3, <4>4
        <5>. QED BY <4>2, <5>1 DEF Slot
      <4>5. CASE s # num_slots
        BY <4>1, <4>3, <4>5
      <4>. QED BY <4>4, <4>5
    <3>2. CASE outcome # "SlotInUse"
      BY <3>2 DEF Recorded
    <3>. QED BY <3>1, <3>2
  <2>. QED BY <2>1 DEF Record, RecordIn
<1>2. UsedSlots = InUse(Recorded)
  BY UsedAreRecorded
<1>. QED BY <1>1, <1>2 DEF Content, Read

\* What a step that changes the records leaves, but for the counts.
Kept(q, d, top) ==
  /\ q \in [SlotIds -> Slot] /\ d \in [0 .. DataSize - 1 -> Bytes]
  /\ top \in Offsets /\ Tiled(q, top)
  /\ \A t \in InUse(q) : RecordIn(q, d, t) \in Records

(* A record more, in a slot that is not used.                              *)
LEMMA InsertKeeps ==
  ASSUME NoEmptyRecord, IInv, NEW s \in SlotIds, s \notin InUse(slot),
         NEW r \in Records, Len(r) <= FreeSpace, Insert(s, r)
  PROVE  /\ Kept(slot', data', upper') /\ lower <= upper'
         /\ InUse(slot') = InUse(slot) \cup {s}
         /\ Read(slot', data') = [Read(slot, data) EXCEPT ![s] = r]
<1>1. r # <<>> /\ Len(r) \in Nat
  BY DEF NoEmptyRecord
<1>2. lower \in Nat /\ upper \in Nat /\ upper \in Offsets /\ lower <= upper - Len(r)
  BY <1>1 DEF FreeSpace, IInv, Typed, Offsets
<1>3. Len(r) <= upper
  BY <1>1, <1>2
<1>4. /\ slot' = [slot EXCEPT ![s] = Filled(upper, r)]
      /\ data' = Written(data, upper, r)
      /\ upper' = upper - Len(r)
  BY DEF Insert
<1>5. /\ slot' \in [SlotIds -> Slot] /\ data' \in [0 .. DataSize - 1 -> Bytes]
      /\ upper' \in Offsets /\ Tiled(slot', upper')
      /\ InUse(slot') = InUse(slot) \cup {s}
      /\ RecordIn(slot', data', s) = r
      /\ \A t \in InUse(slot) : RecordIn(slot', data', t) = RecordIn(slot, data, t)
  <2>. DEFINE p == [slot EXCEPT ![s] = Filled(upper, r)]
              e == Written(data, upper, r)
  <2>1. ~slot[s].used
    BY DEF InUse
  <2>2. /\ slot \in [SlotIds -> Slot] /\ data \in [0 .. DataSize - 1 -> Bytes]
        /\ Tiled(slot, upper)
    BY DEF IInv, Typed
  <2>3. /\ p \in [SlotIds -> Slot] /\ e \in [0 .. DataSize - 1 -> Bytes]
        /\ upper - Len(r) \in Offsets /\ Tiled(p, upper - Len(r))
        /\ InUse(p) = InUse(slot) \cup {s}
        /\ RecordIn(p, e, s) = r
        /\ \A t \in InUse(slot) : RecordIn(p, e, t) = RecordIn(slot, data, t)
    <3>. HIDE DEF p, e
    <3>1. IsPut([slot EXCEPT ![s] = Filled(upper, r)], Written(data, upper, r),
                slot, data, upper, s, r)
      BY <1>1, <1>2, <1>3, <2>1, <2>2, RecordPut
    <3>2. IsPut(p, e, slot, data, upper, s, r)
      BY <3>1 DEF p, e
    <3>. QED BY <3>2 DEF IsPut
  <2>4. slot' = p /\ data' = e
    BY <1>4
  <2>. HIDE DEF p, e
  <2>. QED BY <1>4, <2>3, <2>4
<1>6. \A t \in InUse(slot') : RecordIn(slot', data', t) \in Records
  BY <1>5 DEF IInv, Stored
<1>7. Read(slot', data') = [Read(slot, data) EXCEPT ![s] = r]
  BY <1>5 DEF Read
<1>. QED BY <1>2, <1>4, <1>5, <1>6, <1>7 DEF Kept

(* A record less.                                                          *)
LEMMA DeletingKeeps ==
  ASSUME IInv, NEW s \in InUse(slot)
  PROVE  /\ Kept(SlotsWithout(s), DataWithout(s), upper + slot[s].length)
         /\ InUse(SlotsWithout(s)) = InUse(slot) \ {s}
         /\ Read(SlotsWithout(s), DataWithout(s)) =
              [Read(slot, data) EXCEPT ![s] = NoRecord]
<1>. DEFINE q == SlotsWithout(s)
            d == DataWithout(s)
<1>1. Typed /\ Tiled(slot, upper) /\ Stored
  BY DEF IInv
<1>2. /\ q \in [SlotIds -> Slot] /\ InUse(q) = InUse(slot) \ {s}
      /\ d \in [0 .. DataSize - 1 -> Bytes]
      /\ upper + slot[s].length \in Offsets
      /\ Tiled(q, upper + slot[s].length)
  BY <1>1, SlotsMove, MovedRecordsTile, BytesStayBytes
<1>3. \A t \in InUse(slot) : t # s => RecordIn(q, d, t) = RecordIn(slot, data, t)
  BY <1>1, RecordsUnchanged
<1>. HIDE DEF q, d
<1>4. \A t \in InUse(q) : RecordIn(q, d, t) \in Records
  BY <1>1, <1>2, <1>3 DEF Stored
<1>5. s \in SlotIds
  BY DEF InUse
<1>6. Read(q, d) = [Read(slot, data) EXCEPT ![s] = NoRecord]
  BY <1>2, <1>3, <1>5 DEF Read
<1>7. Kept(q, d, upper + slot[s].length)
  BY <1>2, <1>4 DEF Kept
<1>. QED BY <1>2, <1>6, <1>7 DEF q, d

-----------------------------------------------------------------------------
(* The counts of the header.                                               *)

\* A step of RecordMap, or none, from records c to records e.
MapStep(c, e) ==
  \/ e = c
  \/ \E s \in SlotIds :
       \/ c[s] # NoRecord /\ e = [c EXCEPT ![s] = NoRecord]
       \/ \E r \in Records : e = [c EXCEPT ![s] = r]

(* What IInv says of the counts.                                           *)
LEMMA CountsHold ==
  ASSUME IInv
  PROVE  /\ num_slots \in SlotIds \cup {0} /\ num_slots \in Nat
         /\ lower = SlotSize * num_slots
         /\ Slots = 1 .. num_slots /\ InUse(slot) \in SUBSET Slots
         /\ {s \in Slots : ~slot[s].used} = Free(num_slots, slot)
         /\ IsFiniteSet(Free(num_slots, slot))
         /\ num_free_slots = Cardinality(Free(num_slots, slot))
         /\ num_free_slots \in Nat
         /\ num_slots # 0 => num_slots \in InUse(slot)
<1>1. num_slots \in SlotIds \cup {0} /\ lower = SlotSize * num_slots
  BY DEF IInv, Typed, Counted
<1>2. Slots = 1 .. num_slots
  BY DEF Slots
<1>3. /\ num_slots \in Nat /\ Slots \in SUBSET SlotIds
      /\ IsFiniteSet(Free(num_slots, slot)) /\ Cardinality(Free(num_slots, slot)) \in Nat
  BY <1>1, <1>2, FreeSlots
<1>4. InUse(slot) \in SUBSET Slots
  <2>1. ASSUME NEW s \in InUse(slot) PROVE s \in 1 .. num_slots
    <3>1. s \in Nat /\ 1 <= s
      BY SlotsAreFinite DEF InUse, SlotIds
    <3>2. s <= num_slots
      BY DEF IInv, Stored
    <3>. QED BY <1>3, <3>1, <3>2
  <2>. QED BY <1>2, <2>1
<1>5. {s \in Slots : ~slot[s].used} = Free(num_slots, slot)
  BY <1>2, <1>3 DEF Free, InUse
<1>6. num_slots # 0 => num_slots \in InUse(slot)
  BY <1>1 DEF IInv, Counted, InUse
<1>7. num_free_slots = Cardinality(Free(num_slots, slot))
  BY <1>5 DEF IInv, Counted
<1>. QED BY <1>1, <1>2, <1>3, <1>4, <1>5, <1>6, <1>7

(* And what is needed for IInv after a step.                               *)
LEMMA CountsKept ==
  ASSUME Kept(slot', data', upper'),
         num_slots' \in SlotIds \cup {0},
         lower' = SlotSize * num_slots', lower' <= upper',
         InUse(slot') \in SUBSET (1 .. num_slots'),
         num_free_slots' = Cardinality(Free(num_slots', slot')),
         num_slots' # 0 => num_slots' \in InUse(slot'),
         outcome' \in {"ok", "InvalidRecord", "InsufficientSpace", "Garbage"}
  PROVE  IInv'
<1>1. /\ num_slots' \in Nat
      /\ (1 .. num_slots') \ {s \in 1 .. num_slots' : slot'[s].used}
           = Free(num_slots', slot')
      /\ Cardinality(Free(num_slots', slot')) \in Nat
  BY FreeSlots
<1>2. SlotSize * num_slots' \in Nat
  BY <1>1, SlotsFit
<1>3. Typed'
  BY <1>1, <1>2 DEF Typed, Kept
<1>4. Tiled(slot, upper)'
  BY DEF Kept, Tiled, Within, Apart, NoGap, InUse, End, Covers
<1>5. Stored'
  <2>1. ASSUME NEW s \in InUse(slot') PROVE s <= num_slots'
    BY <1>1
  <2>2. \A s \in InUse(slot') : RecordIn(slot', data', s) \in Records
    BY DEF Kept
  <2>. QED BY <2>1, <2>2 DEF Stored, InUse, RecordIn
<1>6. Counted'
  <2>1. {s \in 1 .. num_slots' : ~slot'[s].used} = Free(num_slots', slot')
    BY <1>1
  <2>2. num_slots' # 0 => slot'[num_slots'].used
    BY DEF InUse
  <2>. QED BY <2>1, <2>2 DEF Counted, Slots
<1>. QED BY <1>3, <1>4, <1>5, <1>6 DEF IInv

(* A call that is refused.                                                 *)
LEMMA RefusalKeeps ==
  ASSUME IInv,
         NEW why \in {"InvalidRecord", "InsufficientSpace", "Garbage"},
         Refuse(why)
  PROVE  IInv' /\ MapStep(Read(slot, data), Read(slot', data'))
<1>1. /\ UNCHANGED <<num_slots, num_free_slots, lower, upper, slot, data>>
      /\ outcome' = why
  BY DEF Refuse
<1>2. Kept(slot', data', upper') /\ lower' <= upper'
  BY <1>1 DEF IInv, Typed, Stored, Kept
<1>3. IInv'
  BY <1>1, <1>2, CountsHold, CountsKept
<1>. QED BY <1>1, <1>3 DEF MapStep

-----------------------------------------------------------------------------
(* insertRecord.                                                           *)

(* insertRecord into the first free slot.                                  *)
LEMMA InsertReusingKeeps ==
  ASSUME NoEmptyRecord, IInv,
         NEW r \in Records, InsertReusing(r)
  PROVE  IInv' /\ MapStep(Read(slot, data), Read(slot', data'))
<1>. DEFINE s == Min({t \in Slots : ~slot[t].used})
            F == Free(num_slots, slot)
<1>1. /\ num_slots \in SlotIds \cup {0} /\ num_slots \in Nat
      /\ lower = SlotSize * num_slots
      /\ Slots = 1 .. num_slots /\ InUse(slot) \in SUBSET Slots
      /\ {t \in Slots : ~slot[t].used} = F
      /\ IsFiniteSet(F) /\ num_free_slots = Cardinality(F) /\ num_free_slots \in Nat
      /\ num_slots # 0 => num_slots \in InUse(slot)
  BY CountsHold
<1>2. /\ num_free_slots > 0 /\ Len(r) <= FreeSpace /\ Insert(s, r)
      /\ num_free_slots' = num_free_slots - 1
      /\ num_slots' = num_slots /\ lower' = lower
  BY DEF InsertReusing
<1>3. s \in F
  <2>1. F # {}
    BY <1>1, <1>2, FS_EmptySet
  <2>2. F \in SUBSET Nat
    BY <1>1 DEF Free
  <2>. QED BY <1>1, <2>1, <2>2, MinIsLeast
<1>4. s \in SlotIds /\ s \notin InUse(slot)
  BY <1>1, <1>3, FreeSlots DEF Free
<1>. HIDE DEF s
<1>5. /\ Kept(slot', data', upper') /\ lower <= upper'
      /\ InUse(slot') = InUse(slot) \cup {s}
      /\ Read(slot', data') = [Read(slot, data) EXCEPT ![s] = r]
  BY <1>2, <1>4, InsertKeeps
<1>6. Free(num_slots', slot') = F \ {s}
  BY <1>2, <1>5 DEF Free
<1>. HIDE DEF F
<1>7. num_free_slots' = Cardinality(Free(num_slots', slot'))
  <2>1. Cardinality(F \ {s}) = Cardinality(F) - 1
    BY <1>1, <1>3, FS_RemoveElement
  <2>. QED BY <1>1, <1>2, <1>6, <2>1
<1>8. InUse(slot') \in SUBSET (1 .. num_slots')
  BY <1>1, <1>2, <1>3, <1>5 DEF F, Free
<1>9. outcome' = "ok"
  BY <1>2 DEF Insert
<1>10. IInv'
  BY <1>1, <1>2, <1>5, <1>7, <1>8, <1>9, CountsKept
<1>. QED BY <1>4, <1>5, <1>10 DEF MapStep

(* A flag set and reset.                                                   *)
LEMMA FlagAndBack ==
  ASSUME NEW q \in [SlotIds -> Slot], NEW s \in SlotIds, ~q[s].used
  PROVE  [[q EXCEPT ![s].used = TRUE] EXCEPT ![s].used = FALSE] = q
<1>. DEFINE p == [q EXCEPT ![s].used = TRUE]
            e == [p EXCEPT ![s].used = FALSE]
<1>1. q[s] \in Slot /\ p[s] = [q[s] EXCEPT !.used = TRUE]
  OBVIOUS
<1>2. e[s] = [p[s] EXCEPT !.used = FALSE]
  OBVIOUS
<1>. HIDE DEF p, e
<1>3. /\ p[s] \in Slot
      /\ p[s].offset = q[s].offset /\ p[s].length = q[s].length
  BY <1>1 DEF Slot
<1>4. /\ e[s] \in Slot /\ ~e[s].used
      /\ e[s].offset = p[s].offset /\ e[s].length = p[s].length
  BY <1>2, <1>3 DEF Slot
<1>5. ASSUME NEW a \in Slot, NEW b \in Slot,
             a.used = b.used, a.offset = b.offset, a.length = b.length
      PROVE  a = b
  BY <1>5 DEF Slot
<1>. USE DEF p, e
<1>6. \A t \in SlotIds : t # s => e[t] = q[t]
  OBVIOUS
<1>7. e = [t \in SlotIds |-> e[t]] /\ q = [t \in SlotIds |-> q[t]]
  OBVIOUS
<1>. HIDE DEF p, e
<1>8. e[s] = q[s]
  <2>1. e[s].used = q[s].used
    BY <1>1, <1>4 DEF Slot
  <2>. QED BY <1>1, <1>3, <1>4, <1>5, <2>1
<1>9. e = q
  BY <1>6, <1>7, <1>8
<1>. QED BY <1>9 DEF p, e

(* insertRecord into a new slot.                                           *)
LEMMA InsertExtendingKeeps ==
  ASSUME NoEmptyRecord, IInv,
         NEW r \in Records, InsertExtending(r)
  PROVE  Inv' /\ MapStep(Read(Recorded, data), Read(Recorded', data'))
<1>. DEFINE s == num_slots + 1
            F == Free(num_slots, slot)
<1>1. /\ num_slots \in SlotIds \cup {0} /\ num_slots \in Nat
      /\ lower = SlotSize * num_slots
      /\ Slots = 1 .. num_slots /\ InUse(slot) \in SUBSET Slots
      /\ IsFiniteSet(F) /\ num_free_slots = Cardinality(F) /\ num_free_slots \in Nat
  BY CountsHold
<1>2. /\ num_free_slots = 0 /\ Len(r) + SlotSize <= upper - lower
      /\ num_slots' = s /\ lower' = SlotSize * s
  BY DEF InsertExtending, FreeSpace
<1>3. Len(r) \in Nat /\ upper \in Nat /\ lower \in Nat /\ upper <= DataSize
  BY DEF IInv, Typed, Offsets
<1>4. /\ SlotSize * s = SlotSize * num_slots + SlotSize
      /\ SlotSize * s \in Nat /\ s \in Nat /\ s # 0
      /\ SlotSize * s <= DataSize => s \in SlotIds
  BY <1>1, SlotsFit
<1>5. lower' = lower + SlotSize /\ lower' + Len(r) <= upper
  BY <1>1, <1>2, <1>3, <1>4
<1>6. s \in SlotIds
  BY <1>2, <1>3, <1>4, <1>5
<1>7. F = {}
  BY <1>1, <1>2, FS_EmptySet
<1>8. s \notin InUse(slot)
  BY <1>1
<1>9. 1 .. s = 1 .. num_slots \cup {s}
  BY <1>1
<1>. HIDE DEF s
<1>10. CASE UsedFlag(s)
  <2>1. /\ num_free_slots' = 1 /\ outcome' = "SlotInUse"
        /\ upper' = upper /\ data' = data
        /\ slot' = [slot EXCEPT ![s].used = TRUE]
    BY <1>10 DEF InsertExtending, s
  <2>2. /\ slot \in [SlotIds -> Slot] /\ slot[s] \in Slot /\ ~slot[s].used
        /\ Tiled(slot, upper)
    BY <1>6, <1>8 DEF IInv, Typed, InUse
  <2>3. slot' \in [SlotIds -> Slot] /\ slot'[s].used
    <3>1. [slot[s] EXCEPT !.used = TRUE] \in Slot
      BY <2>2 DEF Slot
    <3>2. slot'[s] = [slot[s] EXCEPT !.used = TRUE]
      BY <1>6, <2>1, <2>2
    <3>3. slot'[s].used
      BY <2>2, <3>2 DEF Slot
    <3>. QED BY <2>1, <2>2, <3>1, <3>3
  <2>4. Recorded' = slot
    <3>1. Recorded' = [slot' EXCEPT ![s].used = FALSE]
      BY <1>2, <2>1 DEF Recorded
    <3>. QED BY <1>6, <2>1, <2>2, <3>1, FlagAndBack
  <2>5. InUse(slot) = 1 .. num_slots /\ num_slots = s - 1
    <3>1. InUse(slot) \in SUBSET (1 .. num_slots) /\ (1 .. num_slots) \ InUse(slot) = {}
      BY <1>1, <1>7 DEF F, Free
    <3>2. num_slots = s - 1
      BY <1>1 DEF s
    <3>. QED BY <3>1, <3>2
  <2>6. lower' <= upper' /\ lower' \in Nat
    BY <1>2, <1>3, <1>4, <1>5, <2>1
  <2>7. Typed'
    BY <1>2, <1>6, <2>1, <2>3, <2>6 DEF IInv, Typed
  <2>8. AfterStale'
    <3>1. Tiled(Recorded', upper')
      BY <2>1, <2>2, <2>4
    <3>2. InUse(Recorded') = 1 .. num_slots' - 1
      BY <1>2, <2>4, <2>5
    <3>3. Tiled(Recorded, upper)' /\ InUse(Recorded)' = (1 .. num_slots - 1)'
      BY <3>1, <3>2 DEF Tiled, Within, Apart, NoGap, InUse, End, Covers
    <3>4. Recorded' \in [SlotIds -> Slot]
      BY <2>2, <2>4
    <3>. QED BY <1>2, <1>6, <2>1, <2>3, <2>7, <3>3, <3>4 DEF AfterStale
  <2>9. Read(Recorded', data') = Read(Recorded, data)
    <3>1. Recorded = slot
      BY DEF IInv, Recorded
    <3>. QED BY <2>1, <2>4, <3>1
  <2>. QED BY <2>8, <2>9 DEF MapStep, Inv
<1>11. CASE ~UsedFlag(s)
  <2>1. Insert(s, r) /\ num_free_slots' = num_free_slots
    BY <1>11 DEF InsertExtending, s
  <2>2. Len(r) <= FreeSpace
    BY <1>2, <1>3 DEF FreeSpace
  <2>3. /\ Kept(slot', data', upper')
        /\ InUse(slot') = InUse(slot) \cup {s}
        /\ Read(slot', data') = [Read(slot, data) EXCEPT ![s] = r]
    BY <1>6, <1>8, <2>1, <2>2, InsertKeeps
  <2>4. lower' <= upper' /\ outcome' = "ok"
    <3>1. upper' = upper - Len(r) /\ outcome' = "ok"
      BY <2>1 DEF Insert
    <3>. QED BY <1>2, <1>3, <1>4, <1>5, <3>1
  <2>5. Free(num_slots', slot') = F
    BY <1>2, <1>7, <1>9, <2>3 DEF Free, F
  <2>6. InUse(slot') \in SUBSET (1 .. num_slots')
    BY <1>1, <1>2, <1>9, <2>3
  <2>7. num_free_slots' = Cardinality(Free(num_slots', slot'))
    BY <1>1, <2>1, <2>5
  <2>8. num_slots' \in InUse(slot')
    BY <1>2, <2>3
  <2>9. IInv'
    BY <1>2, <1>6, <2>3, <2>4, <2>6, <2>7, <2>8, CountsKept
  <2>10. Recorded = slot /\ Recorded' = slot'
    BY <2>9 DEF IInv, Recorded
  <2>. QED BY <1>6, <2>3, <2>9, <2>10 DEF MapStep, Inv
<1>. QED BY <1>10, <1>11

-----------------------------------------------------------------------------
(* deleteRecord and updateRecord.                                          *)

(* The slot array shrinks to the last slot that stays in use.              *)
LEMMA LastSlotStays ==
  ASSUME IInv, NEW s \in InUse(slot)
  PROVE  LET last == LastSlotWithout(s)
         IN  /\ last \in 0 .. num_slots
             /\ InUse(slot) \ {s} \in SUBSET (1 .. last)
             /\ last # 0 => last \in InUse(slot) \ {s}
<1>. DEFINE last == LastSlotWithout(s)
            T == {t \in Slots \ {s} : slot[t].used} \cup {0}
<1>1. /\ num_slots \in Nat /\ Slots = 1 .. num_slots
      /\ Slots \in SUBSET SlotIds /\ InUse(slot) \in SUBSET Slots
      /\ num_slots # 0 => num_slots \in InUse(slot)
  BY CountsHold, FreeSlots
<1>2. CASE s # num_slots
  <2>1. last = num_slots
    BY <1>2 DEF LastSlotWithout
  <2>. QED BY <1>1, <1>2, <2>1
<1>3. CASE s = num_slots
  <2>1. last = Max(T)
    BY <1>3 DEF LastSlotWithout
  <2>2. T \in SUBSET (0 .. num_slots) /\ T # {}
    BY <1>1
  <2>3. T = (InUse(slot) \ {s}) \cup {0}
    BY <1>1 DEF InUse
  <2>. HIDE DEF T
  <2>4. Max(T) \in T /\ \A k \in T : k <= Max(T)
    BY <1>1, <2>2, MaxIsGreatest
  <2>. HIDE DEF last
  <2>5. last \in 0 .. num_slots /\ last \in Nat
    <3>1. last \in T /\ num_slots \in Nat
      BY <1>1, <2>1, <2>4
    <3>. QED BY <2>2, <3>1
  <2>6. ASSUME NEW t \in InUse(slot) \ {s} PROVE t \in 1 .. last
    <3>1. t \in 1 .. num_slots /\ num_slots \in Nat
      BY <1>1
    <3>2. t \in Nat /\ 1 <= t
      BY <3>1
    <3>3. t <= last
      BY <2>1, <2>3, <2>4
    <3>. QED BY <2>5, <3>2, <3>3
  <2>7. last # 0 => last \in InUse(slot) \ {s}
    BY <2>1, <2>3, <2>4
  <2>. QED BY <2>5, <2>6, <2>7 DEF last
<1>. QED BY <1>2, <1>3

(* The slots that go are unused, and the count of the unused ones falls by *)
(* as many.                                                                *)
LEMMA FreeAfterDelete ==
  ASSUME IInv, NEW s \in InUse(slot)
  PROVE  Cardinality(Free(LastSlotWithout(s), SlotsWithout(s)))
           = num_free_slots + 1 - (num_slots - LastSlotWithout(s))
<1>. DEFINE q == SlotsWithout(s)
            last == LastSlotWithout(s)
            F == Free(num_slots, slot)
            G == Free(last, q)
            H == last + 1 .. num_slots
<1>1. /\ num_slots \in Nat /\ Slots = 1 .. num_slots
      /\ InUse(slot) \in SUBSET (1 .. num_slots)
      /\ IsFiniteSet(F) /\ num_free_slots = Cardinality(F) /\ num_free_slots \in Nat
  BY CountsHold
<1>2. /\ last \in 0 .. num_slots /\ InUse(slot) \ {s} \in SUBSET (1 .. last)
  BY LastSlotStays
<1>3. InUse(q) = InUse(slot) \ {s}
  BY DeletingKeeps
<1>. HIDE DEF last, q
<1>4. F \cup {s} = G \cup H /\ G \cap H = {} /\ s \notin F
  <2>1. 1 .. num_slots = (1 .. last) \cup H /\ (1 .. last) \cap H = {}
    BY <1>1, <1>2
  <2>2. F \cup {s} = (1 .. num_slots) \ InUse(q)
    BY <1>1, <1>3 DEF Free
  <2>3. G = (1 .. last) \ InUse(q)
    BY DEF Free
  <2>. HIDE DEF H
  <2>4. H \cap InUse(q) = {}
    BY <1>2, <1>3, <2>1
  <2>. QED BY <2>1, <2>2, <2>3, <2>4 DEF Free
<1>5. IsFiniteSet(H) /\ Cardinality(H) = num_slots - last
  <2>. DEFINE k == last + 1
  <2>1. k \in Int /\ num_slots \in Int /\ last \in Nat
    BY <1>1, <1>2
  <2>2. (IF k > num_slots THEN 0 ELSE num_slots - k + 1) = num_slots - last
    BY <1>1, <1>2
  <2>. HIDE DEF k
  <2>3. IsFiniteSet(k .. num_slots)
        /\ Cardinality(k .. num_slots) = IF k > num_slots THEN 0 ELSE num_slots - k + 1
    BY <2>1, FS_Interval
  <2>. QED BY <2>2, <2>3 DEF k
<1>. HIDE DEF F, G, H
<1>6. Cardinality(F \cup {s}) = num_free_slots + 1 /\ IsFiniteSet(F \cup {s})
  BY <1>1, <1>4, FS_AddElement
<1>7. IsFiniteSet(G) /\ Cardinality(G) \in Nat
  <2>1. G \in SUBSET (F \cup {s})
    BY <1>4
  <2>. QED BY <1>6, <2>1, FS_Subset, FS_CardinalityType
<1>8. Cardinality(G \cup H) = Cardinality(G) + Cardinality(H)
  <2>1. Cardinality(G \cap H) = 0
    BY <1>4, FS_EmptySet
  <2>2. Cardinality(G \cup H) = Cardinality(G) + Cardinality(H) - Cardinality(G \cap H)
    BY <1>5, <1>7, FS_Union
  <2>3. Cardinality(H) \in Nat
    BY <1>5, FS_CardinalityType
  <2>. QED BY <1>7, <2>1, <2>2, <2>3
<1>9. Cardinality(G) = num_free_slots + 1 - (num_slots - last)
  <2>1. num_slots \in Nat /\ last \in Nat /\ num_free_slots \in Nat
    BY <1>1, <1>2
  <2>2. Cardinality(G) + (num_slots - last) = num_free_slots + 1
    BY <1>4, <1>5, <1>6, <1>8
  <2>3. Cardinality(G) \in Nat
    BY <1>7
  <2>. QED BY <2>1, <2>2, <2>3
<1>. QED BY <1>9 DEF G, last, q

(* The flag of an allocated slot is its own.                               *)
LEMMA FlagOfSlot ==
  ASSUME IInv, NEW s \in SlotIds, UsedFlag(s), s <= num_slots
  PROVE  s \in InUse(slot)
  BY DEF UsedFlag, InUse

(* deleteRecord, which moves the records behind the deleted one and gives  *)
(* up the last slots if they are free.                                     *)
LEMMA DeleteKeeps ==
  ASSUME IInv, NEW s \in SlotIds, deleteRecord(s)
  PROVE  IInv' /\ MapStep(Read(slot, data), Read(slot', data'))
<1>. DEFINE q == SlotsWithout(s)
            d == DataWithout(s)
            last == LastSlotWithout(s)
            top == upper + slot[s].length
<1>1. s \in InUse(slot)
  BY FlagOfSlot DEF deleteRecord
<1>2. /\ num_slots \in Nat /\ num_slots \in SlotIds \cup {0}
      /\ lower = SlotSize * num_slots
  BY CountsHold
<1>3. /\ num_slots' = last
      /\ num_free_slots' = num_free_slots + 1 - (num_slots - last)
      /\ lower' = lower - SlotSize * (num_slots - last)
      /\ data' = [b \in DOMAIN data |->
                   IF b \in Span(SlotSize * last, SlotSize * (num_slots - last))
                   THEN 0 ELSE d[b]]
      /\ slot' = q /\ upper' = top /\ outcome' = "ok"
  BY DEF deleteRecord
<1>4. /\ Kept(q, d, top) /\ InUse(q) = InUse(slot) \ {s}
      /\ Read(q, d) = [Read(slot, data) EXCEPT ![s] = NoRecord]
  BY <1>1, DeletingKeeps
<1>5. /\ last \in 0 .. num_slots /\ InUse(q) \in SUBSET (1 .. last)
      /\ last # 0 => last \in InUse(q)
  BY <1>1, <1>4, LastSlotStays
<1>6. num_free_slots' = Cardinality(Free(num_slots', slot'))
  BY <1>1, <1>3, FreeAfterDelete
<1>. HIDE DEF q, d, last
<1>7. /\ lower' = SlotSize * last /\ SlotSize * last \in Nat
      /\ SlotSize * (num_slots - last) \in Nat
      /\ SlotSize * last + SlotSize * (num_slots - last) = lower
      /\ lower' <= lower /\ lower \in Nat
  <2>1. num_slots - last \in 0 .. num_slots /\ last \in Nat
    BY <1>2, <1>5
  <2>2. /\ SlotSize * num_slots - SlotSize * (num_slots - last) = SlotSize * last
        /\ SlotSize * last <= SlotSize * num_slots
        /\ SlotSize * num_slots \in Nat
    BY <1>2, <1>5, SlotsFit
  <2>3. SlotSize * last \in Nat /\ SlotSize * (num_slots - last) \in Nat
    BY <2>1, SlotsFit
  <2>. QED BY <1>2, <1>3, <2>2, <2>3
<1>8. slot[s].length \in Nat /\ upper \in Nat /\ lower <= upper /\ top \in Nat
  BY <1>1, LowerAndHigher DEF IInv, Typed, Offsets
<1>9. lower' <= top
  BY <1>7, <1>8
<1>10. ASSUME NEW b \in 0 .. DataSize - 1, b >= lower
       PROVE  b \notin Span(SlotSize * last, SlotSize * (num_slots - last))
  <2>. DEFINE m == SlotSize * last
              n == SlotSize * (num_slots - last)
  <2>1. m \in Nat /\ n \in Nat /\ m + n = lower /\ lower \in Nat
    BY <1>7
  <2>. HIDE DEF m, n
  <2>2. m + n - 1 < b /\ b \in Nat
    BY <1>10, <2>1
  <2>3. b \notin m .. m + n - 1
    BY <2>1, <2>2
  <2>. QED BY <2>3 DEF Span, m, n
<1>11. data' \in [0 .. DataSize - 1 -> Bytes]
       /\ \A b \in top .. DataSize - 1 : data'[b] = d[b]
  <2>1. DOMAIN data = 0 .. DataSize - 1 /\ d \in [0 .. DataSize - 1 -> Bytes]
        /\ 0 \in Bytes
    BY <1>4 DEF IInv, Typed, Kept, Bytes
  <2>2. data' \in [0 .. DataSize - 1 -> Bytes]
    BY <1>3, <2>1
  <2>3. ASSUME NEW b \in top .. DataSize - 1 PROVE data'[b] = d[b]
    <3>1. b \in 0 .. DataSize - 1 /\ b >= lower
      BY <1>7, <1>8
    <3>2. b \notin Span(SlotSize * last, SlotSize * (num_slots - last))
      BY <1>10, <3>1
    <3>. QED BY <1>3, <2>1, <3>1, <3>2
  <2>. QED BY <2>2, <2>3
<1>. HIDE DEF top
<1>12. \A t \in InUse(q) : RecordIn(q, data', t) = RecordIn(q, d, t)
  <2>1. q \in [SlotIds -> Slot] /\ top \in Offsets /\ Within(q, top)
    BY <1>4 DEF Kept, Tiled
  <2>. QED BY <1>11, <2>1, SameBytes
<1>13. Kept(slot', data', upper')
  BY <1>3, <1>4, <1>11, <1>12 DEF Kept
<1>14. Read(slot', data') = [Read(slot, data) EXCEPT ![s] = NoRecord]
  <2>1. Read(q, data') = Read(q, d)
    BY <1>12 DEF Read
  <2>. QED BY <1>3, <1>4, <2>1
<1>15. Read(slot, data)[s] # NoRecord
  <2>1. RecordIn(slot, data, s) \in Records
    BY <1>1 DEF IInv, Stored
  <2>. QED BY <1>1, <2>1 DEF Read
<1>16. num_slots' \in SlotIds \cup {0}
  <2>1. last \in 0 .. num_slots /\ 1 .. num_slots \in SUBSET SlotIds
    BY <1>2, <1>5, FreeSlots
  <2>. QED BY <1>2, <1>3, <2>1
<1>17. IInv'
  BY <1>3, <1>5, <1>6, <1>7, <1>9, <1>13, <1>16, CountsKept
<1>. QED BY <1>14, <1>15, <1>17 DEF MapStep

(* updateRecord: the record is deleted, and put back longer or shorter in  *)
(* the same slot.                                                          *)
LEMMA UpdateKeeps ==
  ASSUME NoEmptyRecord, IInv,
         NEW s \in SlotIds, NEW r \in Records, updateRecord(s, r)
  PROVE  IInv' /\ MapStep(Read(slot, data), Read(slot', data'))
<1>. DEFINE q == SlotsWithout(s)
            d == DataWithout(s)
            top == upper + slot[s].length
<1>1. s \in InUse(slot)
  BY FlagOfSlot DEF updateRecord
<1>2. CASE Len(r) > FreeSpace + slot[s].length
  BY <1>2, RefusalKeeps DEF updateRecord
<1>3. CASE ~(Len(r) > FreeSpace + slot[s].length)
  <2>1. /\ slot' = [q EXCEPT ![s] = Filled(top, r)]
        /\ data' = Written(d, top, r)
        /\ upper' = top - Len(r)
        /\ outcome' = "ok"
        /\ num_slots' = num_slots /\ num_free_slots' = num_free_slots
        /\ lower' = lower
    BY <1>3 DEF updateRecord
  <2>2. /\ Kept(q, d, top) /\ InUse(q) = InUse(slot) \ {s}
        /\ Read(q, d) = [Read(slot, data) EXCEPT ![s] = NoRecord]
    BY <1>1, DeletingKeeps
  <2>3. slot[s].length \in Nat /\ upper \in Nat /\ lower \in Nat
        /\ r # <<>> /\ Len(r) \in Nat
    BY <1>1, LowerAndHigher DEF IInv, Typed, Offsets, NoEmptyRecord
  <2>4. Len(r) <= top /\ lower <= top - Len(r)
    BY <1>3, <2>3 DEF FreeSpace
  <2>. HIDE DEF q, d, top
  <2>5. ~q[s].used
    BY <2>2 DEF InUse
  <2>6. q \in [SlotIds -> Slot] /\ d \in [0 .. DataSize - 1 -> Bytes]
        /\ top \in Offsets /\ Tiled(q, top)
    BY <2>2 DEF Kept
  <2>7. IsPut([q EXCEPT ![s] = Filled(top, r)], Written(d, top, r), q, d, top, s, r)
    BY <2>3, <2>4, <2>5, <2>6, RecordPut
  <2>8. IsPut(slot', data', q, d, top, s, r)
    BY <2>1, <2>7
  <2>9. /\ InUse(slot') = InUse(q) \cup {s} /\ RecordIn(slot', data', s) = r
        /\ \A t \in InUse(q) : RecordIn(slot', data', t) = RecordIn(q, d, t)
    BY <2>8 DEF IsPut
  <2>10. Kept(slot', data', upper')
    <3>1. \A t \in InUse(slot') : RecordIn(slot', data', t) \in Records
      BY <2>2, <2>9 DEF Kept
    <3>. QED BY <2>1, <2>8, <3>1 DEF IsPut, Kept
  <2>11. InUse(slot') = InUse(slot)
    BY <1>1, <2>2, <2>9
  <2>12. Read(slot', data') = [Read(q, d) EXCEPT ![s] = r]
    BY <2>9 DEF Read
  <2>13. Read(slot', data') = [Read(slot, data) EXCEPT ![s] = r]
    BY <2>2, <2>12 DEF Read
  <2>14. Free(num_slots', slot') = Free(num_slots, slot)
    BY <2>1, <2>11 DEF Free
  <2>15. IInv'
    BY <2>1, <2>4, <2>10, <2>11, <2>14, CountsHold, CountsKept
  <2>. QED BY <2>13, <2>15 DEF MapStep
<1>. QED BY <1>2, <1>3

-----------------------------------------------------------------------------
(* Theorems.                                                               *)

(* A new page.                                                             *)
LEMMA InitEstablishes == Init => Inv /\ Content = [s \in SlotIds |-> NoRecord]
<1>. SUFFICES ASSUME Init PROVE Inv /\ Content = [s \in SlotIds |-> NoRecord]
  OBVIOUS
<1>1. \A s \in SlotIds : slot[s] = Unused
  BY DEF Init
<1>2. InUse(slot) = {}
  BY <1>1 DEF InUse, Unused
<1>3. Typed
  <2>1. Unused \in Slot
    BY DEF Unused, Slot, Offsets
  <2>2. 0 \in Bytes
    BY DEF Bytes
  <2>. QED BY <2>1, <2>2 DEF Init, Typed, Offsets
<1>4. Tiled(slot, upper)
  BY <1>2 DEF Init, Tiled, Within, Apart, NoGap
<1>5. Stored
  BY <1>2 DEF Stored
<1>6. Counted
  <2>1. num_slots = 0 /\ num_free_slots = 0 /\ lower = 0
    BY DEF Init
  <2>2. {s \in Slots : ~slot[s].used} = {}
    BY <2>1 DEF Slots
  <2>3. Cardinality({}) = 0
    BY FS_EmptySet
  <2>4. lower = SlotSize * num_slots
    BY <2>1
  <2>. QED BY <2>1, <2>2, <2>3, <2>4 DEF Counted
<1>7. IInv /\ Recorded = slot
  BY <1>3, <1>4, <1>5, <1>6 DEF IInv, Init, Recorded
<1>8. Content = [s \in SlotIds |-> NoRecord]
  BY <1>2, <1>7, ContentIsRead DEF Read, Inv
<1>. QED BY <1>7, <1>8 DEF Inv

(* Every operation that clients call keeps the page sound and is a step of *)
(* the record map.                                                         *)
LEMMA OperationKeeps ==
  ASSUME NoEmptyRecord, IInv, Next
  PROVE  Inv' /\ MapStep(Read(Recorded, data), Read(Recorded', data'))
<1>. DEFINE Goal == Inv' /\ MapStep(Read(Recorded, data), Read(Recorded', data'))
<1>1. ASSUME IInv', MapStep(Read(slot, data), Read(slot', data')) PROVE Goal
  BY <1>1 DEF Inv, IInv, Recorded
<1>2. ASSUME NEW r \in Records, insertRecord(r) PROVE Goal
  <2>1. CASE InsertReusing(r)
    BY <1>1, <2>1, InsertReusingKeeps
  <2>2. CASE InsertExtending(r)
    BY <2>2, InsertExtendingKeeps
  <2>3. CASE InsertRefused(r)
    BY <1>1, <2>3, RefusalKeeps DEF InsertRefused
  <2>. QED BY <1>2, <2>1, <2>2, <2>3 DEF insertRecord
<1>3. ASSUME NEW s \in SlotIds, deleteRecord(s) PROVE Goal
  BY <1>1, <1>3, DeleteKeeps
<1>4. ASSUME NEW s \in SlotIds, badRecordId(s) PROVE Goal
  BY <1>1, <1>4, RefusalKeeps DEF badRecordId
<1>5. ASSUME NEW s \in SlotIds, NEW r \in Records, updateRecord(s, r) PROVE Goal
  BY <1>1, <1>5, UpdateKeeps
<1>. QED BY <1>2, <1>3, <1>4, <1>5 DEF Next

(* After a slot was found stale no step is modelled.                       *)
LEMMA NextKeeps ==
  ASSUME NoEmptyRecord, Inv, [Next]_vars
  PROVE  Inv' /\ MapStep(Read(Recorded, data), Read(Recorded', data'))
<1>1. CASE UNCHANGED vars
  <2>1. IInv => IInv'
    BY <1>1 DEF vars, IInv, Typed, Tiled, Within, Apart, NoGap, InUse, End, Covers,
                Stored, RecordIn, Counted, Slots
  <2>2. Recorded' = Recorded
    BY <1>1 DEF vars, Recorded
  <2>3. AfterStale => AfterStale'
    BY <1>1, <2>2 DEF vars, AfterStale, Typed, Tiled, Within, Apart, NoGap, InUse,
                      End, Covers
  <2>. QED BY <1>1, <2>1, <2>2, <2>3 DEF vars, Inv, MapStep
<1>2. CASE Next
  <2>1. IInv
    BY <1>2 DEF Inv, AfterStale, Next
  <2>. QED BY <1>2, <2>1, OperationKeeps
<1>. QED BY <1>1, <1>2

(* Inv is inductive.                                                       *)
THEOREM Inductive == NoEmptyRecord => (Spec => []Inv)
<1>. SUFFICES ASSUME NoEmptyRecord PROVE Spec => []Inv
  OBVIOUS
<1>1. Init => Inv
  BY InitEstablishes
<1>2. Inv /\ [Next]_vars => Inv'
  BY NextKeeps
<1>. QED BY <1>1, <1>2, PTL DEF Spec

(* The header and the slots keep their types: in particular lower never    *)
(* passes upper, whatever is inserted and deleted (page.cpp, where the     *)
(* free space is their difference).                                        *)
THEOREM TypeCorrect == NoEmptyRecord => (Spec => []TypeOK)
<1>. SUFFICES ASSUME NoEmptyRecord PROVE Spec => []TypeOK
  OBVIOUS
<1>1. ASSUME Typed, num_free_slots \in 0 .. num_slots PROVE TypeOK
  BY <1>1 DEF Typed, TypeOK, Slot, Offsets
<1>2. Inv => TypeOK
  <2>. SUFFICES ASSUME Inv PROVE TypeOK
    OBVIOUS
  <2>1. CASE IInv
    <3>1. /\ num_slots \in Nat /\ num_free_slots = Cardinality(Free(num_slots, slot))
          /\ num_free_slots \in Nat
      BY <2>1, CountsHold
    <3>2. IsFiniteSet(1 .. num_slots) /\ Cardinality(1 .. num_slots) = num_slots
      BY <3>1, FS_Interval
    <3>3. Free(num_slots, slot) \in SUBSET (1 .. num_slots)
      BY DEF Free
    <3>4. num_free_slots <= num_slots
      BY <3>1, <3>2, <3>3, FS_Subset
    <3>. QED BY <1>1, <2>1, <3>1, <3>4 DEF IInv
  <2>2. CASE AfterStale
    <3>1. num_slots \in Nat /\ 1 <= num_slots /\ num_free_slots = 1
      BY <2>2, SlotsAreFinite DEF AfterStale, SlotIds
    <3>. QED BY <1>1, <2>2, <3>1 DEF AfterStale
  <2>. QED BY <2>1, <2>2 DEF Inv
<1>. QED BY <1>2, Inductive, PTL

(* RecordsTile: after any number of insertions, updates and deletions the  *)
(* records fill the bytes from upper to the end of the page, without gaps  *)
(* and without overlap - though deleteRecord moves bytes and offsets apart *)
(* from each other (Page::deleteRecord).                                   *)
THEOREM RecordsAlwaysTile == NoEmptyRecord => (Spec => []RecordsTile)
<1>. SUFFICES ASSUME NoEmptyRecord PROVE Spec => []RecordsTile
  OBVIOUS
<1>1. Inv => RecordsTile
  <2>. SUFFICES ASSUME Inv PROVE RecordsTile
    OBVIOUS
  <2>. DEFINE q == Recorded
  <2>1. /\ UsedSlots = InUse(q) /\ upper \in Nat
        /\ q \in [SlotIds -> Slot] /\ Tiled(q, upper)
    BY UsedAreRecorded DEF Inv, IInv, AfterStale, Recorded, Typed, Offsets
  <2>2. ASSUME NEW t \in InUse(q)
        PROVE  slot[t].offset = q[t].offset /\ slot[t].length = q[t].length
    <3>1. CASE IInv
      BY <3>1 DEF IInv, Recorded
    <3>2. CASE AfterStale
      <4>1. t \in 1 .. num_slots - 1 /\ num_slots \in Nat /\ slot \in [SlotIds -> Slot]
        BY <3>2, SlotsAreFinite DEF AfterStale, Typed
      <4>2. t # num_slots /\ t \in SlotIds
        BY <4>1 DEF InUse
      <4>. QED BY <3>2, <4>1, <4>2 DEF AfterStale, Recorded
    <3>. QED BY <3>1, <3>2 DEF Inv
  <2>. HIDE DEF q
  <2>3. ASSUME NEW t \in InUse(q)
        PROVE  /\ q[t].offset \in Nat /\ q[t].length \in Nat
               /\ upper <= q[t].offset
               /\ q[t].offset + q[t].length <= DataSize
               /\ BytesOf(t) = q[t].offset .. q[t].offset + q[t].length - 1
    <3>1. q[t] \in Slot
      BY <2>1 DEF InUse
    <3>. QED BY <2>1, <2>2, <3>1 DEF Tiled, Within, Slot, Offsets, End, BytesOf, Span
  <2>4. ASSUME NEW t \in InUse(q) PROVE BytesOf(t) \subseteq upper .. DataSize - 1
    BY <2>1, <2>3
  <2>5. ASSUME NEW b \in upper .. DataSize - 1
        PROVE  \E t \in InUse(q) : b \in BytesOf(t)
    <3>1. PICK t \in InUse(q) : Covers(q, t, b)
      BY <2>1 DEF Tiled, NoGap
    <3>2. b \in BytesOf(t)
      BY <2>1, <2>3, <3>1 DEF Covers, End
    <3>. QED BY <3>2
  <2>6. UNION {BytesOf(t) : t \in UsedSlots} = upper .. DataSize - 1
    BY <2>1, <2>4, <2>5
  <2>7. ASSUME NEW t \in InUse(q), NEW v \in InUse(q), t # v
        PROVE  BytesOf(t) \cap BytesOf(v) = {}
    <3>1. End(q, t) <= q[v].offset \/ End(q, v) <= q[t].offset
      BY <2>1, <2>7 DEF Tiled, Apart
    <3>2. /\ q[t].offset \in Nat /\ q[t].length \in Nat
          /\ q[v].offset \in Nat /\ q[v].length \in Nat
      BY <2>3
    <3>3. ASSUME NEW b \in BytesOf(t), b \in BytesOf(v) PROVE FALSE
      <4>1. /\ b \in Span(q[t].offset, q[t].length)
            /\ b \in Span(q[v].offset, q[v].length)
        BY <2>3, <3>3 DEF Span
      <4>2. /\ b \in Nat /\ q[t].offset <= b /\ b < q[t].offset + q[t].length
            /\ q[v].offset <= b /\ b < q[v].offset + q[v].length
        BY <3>2, <4>1, InSpan
      <4>3. CASE End(q, t) <= q[v].offset
        BY <3>2, <4>2, <4>3 DEF End
      <4>4. CASE End(q, v) <= q[t].offset
        BY <3>2, <4>2, <4>4 DEF End
      <4>. QED BY <3>1, <4>3, <4>4
    <3>. QED BY <3>3
  <2>. QED BY <2>1, <2>6, <2>7 DEF RecordsTile
<1>. QED BY <1>1, Inductive, PTL

(* SlotsCounted: the counts of the header are those of the slots, so that  *)
(* Page::getAvailableSlot finds an unused slot whenever num_free_slots     *)
(* says that there is one - until an insertion is refused because the new  *)
(* slot reads as used: then, and never otherwise, the header counts as     *)
(* free one slot that is not.                                              *)
THEOREM SlotsAreCounted == NoEmptyRecord => (Spec => []SlotsCounted)
<1>. SUFFICES ASSUME NoEmptyRecord PROVE Spec => []SlotsCounted
  OBVIOUS
<1>1. IInv => SlotsCounted
  <2>. SUFFICES ASSUME IInv PROVE SlotsCounted
    OBVIOUS
  <2>1. num_free_slots \in Nat /\ {s \in Slots : ~slot[s].used} = Free(num_slots, slot)
        /\ num_free_slots = Cardinality(Free(num_slots, slot))
    BY CountsHold
  <2>2. lower = SlotSize * num_slots /\ (num_slots # 0 => slot[num_slots].used)
        /\ outcome # "SlotInUse"
    BY DEF IInv, Counted
  <2>3. num_free_slots = num_free_slots + 0
    BY <2>1
  <2>. QED BY <2>1, <2>2, <2>3 DEF SlotsCounted
<1>2. AfterStale => SlotsCounted
  <2>. SUFFICES ASSUME AfterStale PROVE SlotsCounted
    OBVIOUS
  <2>1. /\ num_slots \in Nat /\ Slots = 1 .. num_slots /\ UsedSlots = 1 .. num_slots - 1
        /\ UsedSlots \in SUBSET {s \in Slots : slot[s].used}
        /\ slot[num_slots].used /\ outcome = "SlotInUse" /\ num_free_slots = 1
        /\ lower = SlotSize * num_slots
    BY UsedAreRecorded, SlotsAreFinite DEF Inv, AfterStale, Slots, UsedSlots
  <2>2. \A s \in Slots : s \in UsedSlots \/ s = num_slots
    BY <2>1
  <2>3. {s \in Slots : ~slot[s].used} = {}
    BY <2>1, <2>2
  <2>4. Cardinality({s \in Slots : ~slot[s].used}) = 0
    BY <2>3, FS_EmptySet
  <2>. QED BY <2>1, <2>4 DEF SlotsCounted
<1>. QED BY <1>1, <1>2, Inductive, PTL DEF Inv

(* ImplementsMap: every step inserts, updates or deletes the one record it *)
(* is called for, as RecordMap says, or changes no record.                 *)
THEOREM PageImplementsMap == NoEmptyRecord => (Spec => ImplementsMap)
<1>. SUFFICES ASSUME NoEmptyRecord PROVE Spec => ImplementsMap
  OBVIOUS
<1>1. Init => Map!Init
  BY InitEstablishes DEF Map!Init, Content
<1>2. Inv => Content = Read(Recorded, data)
  BY ContentIsRead
<1>3. Inv /\ Inv' /\ [Next]_vars => [Map!Next]_Content
  <2>. SUFFICES ASSUME Inv, Inv', [Next]_vars PROVE [Map!Next]_Content
    OBVIOUS
  <2>1. Content = Read(Recorded, data)
    BY <1>2
  <2>2. Content' = Read(Recorded', data')
    <3>1. (Content = Read(Recorded, data))'
      BY <1>2, PTL
    <3>. QED BY <3>1 DEF Read, InUse, RecordIn
  <2>3. MapStep(Content, Content')
    BY <2>1, <2>2, NextKeeps
  <2>. QED BY <2>3 DEF MapStep, Map!Next, Map!Insert, Map!Update, Map!Delete, Content
<1>. QED BY <1>1, <1>3, Inductive, PTL DEF Spec, ImplementsMap, Map!Spec, Content

=============================================================================

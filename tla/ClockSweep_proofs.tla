------------------------- MODULE ClockSweep_proofs -------------------------
(***************************************************************************)
(* The loop of p2's allocBuf, for every number of frames: it computes the  *)
(* relation that BufMgr uses for it, whatever the table it starts with;    *)
(* and what it tells of the frames when it gives up or finds one.          *)
(*                                                                         *)
(* While the loop runs, the table is the one it started with, swept by the *)
(* visits so far, none of which ended the sweep.                           *)
(***************************************************************************)
EXTENDS ClockSweep, Integers, FiniteSetTheorems, TLAPS

USE NumBufsAssumption, MaxPinAssumption

\* Tables in which a frame that is not valid is not referenced.
Tables == {d \in [Frames -> Desc] : \A i \in Frames : ~d[i].valid => ~d[i].refbit}

Counted(d, hand, v) == {w \in 1 .. v : CountsPinned(d, hand, w)}

\* No visit up to n ends the sweep.
GoesOn(d, hand, n) == \A w \in 1 .. n : ~Takes(d, hand, w) /\ ~GivesUp(d, hand, w)

\* The loop has made n visits.
Visited(n) ==
  /\ GoesOn(start.desc, start.hand, n)
  /\ clockHand = FrameAt(start.hand, n)
  /\ desc = Swept(start.desc, start.hand, n)
  /\ clockCount = Cardinality(Counted(start.desc, start.hand, n))

InLoop == pc = "sweep" => clockCount <= NumBufs /\ \E n \in 0 .. 2 * NumBufs : Visited(n)

IInv ==
  /\ TypeOK
  /\ desc \in Tables /\ start.desc \in Tables
  /\ InLoop
  /\ LoopMatchesRule

-----------------------------------------------------------------------------
(* The hand.                                                               *)

(* The remainder of a number less than NumBufs, and of one some rounds on. *)
LEMMA Rounds ==
  ASSUME NEW i \in Frames
  PROVE  /\ i % NumBufs = i
         /\ (i + NumBufs) % NumBufs = i
         /\ (i + NumBufs + NumBufs) % NumBufs = i
         /\ (i + NumBufs + NumBufs + NumBufs) % NumBufs = i
<1>1. i % NumBufs = i
  BY DEF Frames
<1>2. (i + NumBufs) % NumBufs = i
  BY DEF Frames
<1>3. (i + NumBufs + NumBufs) % NumBufs = i
  BY DEF Frames
<1>4. (i + NumBufs + NumBufs + NumBufs) % NumBufs = i
  BY DEF Frames
<1>. QED BY <1>1, <1>2, <1>3, <1>4

(* The frame of a visit, by the round it is in.                            *)
LEMMA FrameOfVisit ==
  ASSUME NEW hand \in Frames, NEW v \in 0 .. 2 * NumBufs + 1
  PROVE  /\ FrameAt(hand, v) \in Frames
         /\ \/ hand + v = FrameAt(hand, v)
            \/ hand + v = FrameAt(hand, v) + NumBufs
            \/ hand + v = FrameAt(hand, v) + NumBufs + NumBufs
            \/ hand + v = FrameAt(hand, v) + NumBufs + NumBufs + NumBufs
<1>. DEFINE x == hand + v
<1>1. x \in Nat /\ x <= NumBufs + NumBufs + NumBufs
  BY DEF Frames
<1>. HIDE DEF x
<1>2. CASE x < NumBufs
  <2>1. x \in Frames
    BY <1>1, <1>2 DEF Frames
  <2>. QED BY <2>1, Rounds DEF FrameAt, x
<1>3. CASE x >= NumBufs /\ x < NumBufs + NumBufs
  <2>1. x - NumBufs \in Frames /\ x - NumBufs + NumBufs = x
    BY <1>1, <1>3 DEF Frames
  <2>. QED BY <2>1, Rounds DEF FrameAt, x
<1>4. CASE x >= NumBufs + NumBufs /\ x < NumBufs + NumBufs + NumBufs
  <2>. DEFINE i == x - NumBufs - NumBufs
  <2>1. i \in Frames /\ i + NumBufs + NumBufs = x
    BY <1>1, <1>4 DEF Frames
  <2>. HIDE DEF i
  <2>. QED BY <2>1, Rounds DEF FrameAt, x
<1>5. CASE x = NumBufs + NumBufs + NumBufs
  <2>1. 0 \in Frames /\ x = 0 + NumBufs + NumBufs + NumBufs
    BY <1>5 DEF Frames
  <2>. QED BY <2>1, Rounds DEF FrameAt, x
<1>. QED BY <1>1, <1>2, <1>3, <1>4, <1>5

(* Advancing the hand goes to the frame of the next visit.                 *)
LEMMA HandAdvances ==
  ASSUME NEW hand \in Frames, NEW n \in 0 .. 2 * NumBufs
  PROVE  /\ FrameAt(hand, 0) = hand
         /\ (FrameAt(hand, n) + 1) % NumBufs = FrameAt(hand, n + 1)
<1>. DEFINE i == FrameAt(hand, n)
<1>1. FrameAt(hand, 0) = hand
  BY Rounds DEF FrameAt, Frames
<1>2. /\ i \in Frames
      /\ \/ hand + n = i
         \/ hand + n = i + NumBufs
         \/ hand + n = i + NumBufs + NumBufs
         \/ hand + n = i + NumBufs + NumBufs + NumBufs
  BY FrameOfVisit
<1>. HIDE DEF i
<1>3. hand + n < NumBufs + NumBufs + NumBufs
  BY DEF Frames
<1>4. CASE i + 1 < NumBufs
  <2>1. i + 1 \in Frames
    BY <1>2, <1>4 DEF Frames
  <2>2. \/ hand + (n + 1) = (i + 1)
        \/ hand + (n + 1) = (i + 1) + NumBufs
        \/ hand + (n + 1) = (i + 1) + NumBufs + NumBufs
    BY <1>2, <1>3 DEF Frames
  <2>. QED BY <1>1, <2>1, <2>2, Rounds DEF FrameAt, i
<1>5. CASE i + 1 = NumBufs
  <2>1. 0 \in Frames /\ i + 1 = 0 + NumBufs
    BY <1>5 DEF Frames
  <2>2. \/ hand + (n + 1) = 0 + NumBufs
        \/ hand + (n + 1) = 0 + NumBufs + NumBufs
        \/ hand + (n + 1) = 0 + NumBufs + NumBufs + NumBufs
    BY <1>2, <1>3, <1>5 DEF Frames
  <2>3. (i + 1) % NumBufs = 0
    BY <2>1, Rounds
  <2>4. FrameAt(hand, n + 1) = 0
    BY <2>1, <2>2, Rounds DEF FrameAt
  <2>. QED BY <1>1, <2>3, <2>4 DEF i
<1>. QED BY <1>2, <1>4, <1>5 DEF Frames

(* A round comes to no frame twice, and to every one.                      *)
LEMMA OneRound ==
  ASSUME NEW hand \in Frames
  PROVE  /\ \A w, x \in 1 .. NumBufs : FrameAt(hand, w) = FrameAt(hand, x) => w = x
         /\ \A w \in 1 .. NumBufs : FrameAt(hand, w + NumBufs) = FrameAt(hand, w)
         /\ \A i \in Frames : \E w \in 1 .. NumBufs : FrameAt(hand, w) = i
<1>1. ASSUME NEW w \in 1 .. NumBufs
      PROVE  /\ FrameAt(hand, w) \in Frames
             /\ hand + w = FrameAt(hand, w) \/ hand + w = FrameAt(hand, w) + NumBufs
  <2>1. w \in 0 .. 2 * NumBufs + 1
    OBVIOUS
  <2>2. hand + w < NumBufs + NumBufs
    BY DEF Frames
  <2>. DEFINE i == FrameAt(hand, w)
  <2>3. /\ i \in Frames
        /\ \/ hand + w = i
           \/ hand + w = i + NumBufs
           \/ hand + w = i + NumBufs + NumBufs
           \/ hand + w = i + NumBufs + NumBufs + NumBufs
    BY <2>1, FrameOfVisit
  <2>. HIDE DEF i
  <2>4. hand + w = i \/ hand + w = i + NumBufs
    BY <2>2, <2>3 DEF Frames
  <2>. QED BY <2>3, <2>4 DEF i
<1>2. ASSUME NEW w \in 1 .. NumBufs, NEW x \in 1 .. NumBufs,
             FrameAt(hand, w) = FrameAt(hand, x)
      PROVE  w = x
  BY <1>1, <1>2 DEF Frames
<1>3. ASSUME NEW w \in 1 .. NumBufs
      PROVE  FrameAt(hand, w + NumBufs) = FrameAt(hand, w)
  <2>. DEFINE i == FrameAt(hand, w)
  <2>1. i \in Frames /\ (hand + w = i \/ hand + w = i + NumBufs)
    BY <1>1
  <2>. HIDE DEF i
  <2>2. hand + (w + NumBufs) = i + NumBufs
        \/ hand + (w + NumBufs) = i + NumBufs + NumBufs
    BY <2>1 DEF Frames
  <2>3. FrameAt(hand, w + NumBufs) = i
    BY <2>1, <2>2, Rounds DEF FrameAt
  <2>. QED BY <2>3 DEF i
<1>4. ASSUME NEW i \in Frames
      PROVE  \E w \in 1 .. NumBufs : FrameAt(hand, w) = i
  <2>1. CASE hand < i
    <3>1. i - hand \in 1 .. NumBufs /\ hand + (i - hand) = i
      BY <2>1 DEF Frames
    <3>2. FrameAt(hand, i - hand) = i
      BY <3>1, Rounds DEF FrameAt
    <3>. QED BY <3>1, <3>2
  <2>2. CASE ~(hand < i)
    <3>. DEFINE w == i - hand + NumBufs
    <3>1. w \in 1 .. NumBufs /\ hand + w = i + NumBufs
      BY <2>2 DEF Frames
    <3>. HIDE DEF w
    <3>2. FrameAt(hand, w) = i
      BY <3>1, Rounds DEF FrameAt
    <3>. QED BY <3>1, <3>2
  <2>. QED BY <2>1, <2>2
<1>. QED BY <1>2, <1>3, <1>4

-----------------------------------------------------------------------------
(* One visit.                                                              *)

(* What the loop finds at visit n + 1: the reference bit that the rule     *)
(* tests, since the first round cleared those it came to.                  *)
LEMMA BitAtVisit ==
  ASSUME NEW d \in Tables, NEW hand \in Frames, NEW n \in 0 .. 2 * NumBufs
  PROVE  LET i == FrameAt(hand, n + 1)
             e == Swept(d, hand, n)[i]
         IN  /\ i \in Frames
             /\ e.valid = d[i].valid /\ e.pinCnt = d[i].pinCnt
             /\ e.valid => (e.refbit <=> Referenced(d, hand, n + 1))
<1>. DEFINE i == FrameAt(hand, n + 1)
            e == Swept(d, hand, n)[i]
            seen == \E w \in 1 .. n : FrameAt(hand, w) = i /\ Referenced(d, hand, w)
<1>1. i \in Frames
  <2>1. n + 1 \in 0 .. 2 * NumBufs + 1
    OBVIOUS
  <2>. QED BY <2>1, FrameOfVisit
<1>2. d[i] \in Desc /\ Desc = [valid : BOOLEAN, refbit : BOOLEAN, pinCnt : 0 .. MaxPin]
  BY <1>1 DEF Tables, Desc
<1>3. e = IF seen THEN [d[i] EXCEPT !.refbit = FALSE] ELSE d[i]
  BY <1>1 DEF Swept
<1>4. Referenced(d, hand, n + 1) <=> d[i].valid /\ d[i].refbit /\ n + 1 <= NumBufs
  BY DEF Referenced
<1>5. CASE n + 1 <= NumBufs
  <2>1. ~seen
    <3>. SUFFICES ASSUME NEW w \in 1 .. n, FrameAt(hand, w) = i PROVE FALSE
      OBVIOUS
    <3>1. w \in 1 .. NumBufs /\ n + 1 \in 1 .. NumBufs /\ w # n + 1
      BY <1>5
    <3>. QED BY <3>1, OneRound
  <2>. HIDE DEF seen
  <2>2. e = d[i]
    BY <1>3, <2>1
  <2>. HIDE DEF e, i
  <2>3. e.valid => (e.refbit <=> Referenced(d, hand, n + 1))
    BY <1>4, <1>5, <2>2
  <2>. QED BY <1>1, <2>2, <2>3 DEF e, i
<1>6. CASE ~(n + 1 <= NumBufs)
  <2>1. ~Referenced(d, hand, n + 1)
    BY <1>4, <1>6
  <2>2. d[i].valid /\ d[i].refbit => seen
    <3>1. PICK w \in 1 .. NumBufs : FrameAt(hand, w) = i
      BY <1>1, OneRound
    <3>2. w \in 1 .. n /\ w <= NumBufs
      BY <1>6
    <3>. QED BY <3>1, <3>2 DEF Referenced
  <2>. HIDE DEF seen, i
  <2>3. CASE seen
    <3>1. e = [d[i] EXCEPT !.refbit = FALSE]
      BY <1>3, <2>3
    <3>. HIDE DEF e
    <3>2. ~e.refbit /\ e.valid = d[i].valid /\ e.pinCnt = d[i].pinCnt
      BY <1>2, <3>1
    <3>. QED BY <1>1, <2>1, <3>2 DEF i, e
  <2>4. CASE ~seen
    <3>1. e = d[i]
      BY <1>3, <2>4
    <3>2. e.valid => ~e.refbit
      BY <2>2, <2>4, <3>1
    <3>. QED BY <1>1, <2>1, <3>1, <3>2 DEF i, e
  <2>. QED BY <2>3, <2>4
<1>. QED BY <1>5, <1>6

(* What one more visit does to the table.                                  *)
LEMMA SweptByOneMore ==
  ASSUME NEW d \in Tables, NEW hand \in Frames, NEW n \in 0 .. 2 * NumBufs
  PROVE  /\ Referenced(d, hand, n + 1) =>
              Swept(d, hand, n + 1) =
                [Swept(d, hand, n) EXCEPT ![FrameAt(hand, n + 1)].refbit = FALSE]
         /\ ~Referenced(d, hand, n + 1) => Swept(d, hand, n + 1) = Swept(d, hand, n)
         /\ Swept(d, hand, 0) = d
         /\ Swept(d, hand, n) \in Tables
<1>. DEFINE seen(m, j) == \E w \in 1 .. m : FrameAt(hand, w) = j /\ Referenced(d, hand, w)
            without(j) == [d[j] EXCEPT !.refbit = FALSE]
<1>1. \A m \in 0 .. 2 * NumBufs + 1 :
        Swept(d, hand, m) = [j \in Frames |-> IF seen(m, j) THEN without(j) ELSE d[j]]
  BY DEF Swept
<1>2. \A j \in Frames : /\ d[j] \in Desc /\ without(j) \in Desc
                        /\ [without(j) EXCEPT !.refbit = FALSE] = without(j)
                        /\ ~without(j).refbit /\ without(j).valid = d[j].valid
                        /\ ~d[j].valid => ~d[j].refbit
  BY DEF Tables, Desc
<1>3. \A j \in Frames : seen(n + 1, j) <=>
         seen(n, j) \/ (FrameAt(hand, n + 1) = j /\ Referenced(d, hand, n + 1))
  <2>1. 1 .. n + 1 = (1 .. n) \cup {n + 1}
    OBVIOUS
  <2>. QED BY <2>1
<1>4. \A j : ~seen(0, j)
  OBVIOUS
<1>. DEFINE S == Swept(d, hand, n)
            i == FrameAt(hand, n + 1)
<1>5. i \in Frames
  BY BitAtVisit
<1>. HIDE DEF seen, without, i
<1>6. S = [j \in Frames |-> IF seen(n, j) THEN without(j) ELSE d[j]]
  BY <1>1
<1>7. Swept(d, hand, n + 1) = [j \in Frames |-> IF seen(n + 1, j) THEN without(j) ELSE d[j]]
  <2>1. n + 1 \in 0 .. 2 * NumBufs + 1
    OBVIOUS
  <2>. QED BY <1>1, <2>1
<1>8. ASSUME Referenced(d, hand, n + 1)
      PROVE  Swept(d, hand, n + 1) = [S EXCEPT ![i].refbit = FALSE]
  <2>. DEFINE r == [S[i] EXCEPT !.refbit = FALSE]
  <2>1. r = without(i)
    <3>1. S[i] = IF seen(n, i) THEN without(i) ELSE d[i]
      BY <1>5, <1>6
    <3>2. [d[i] EXCEPT !.refbit = FALSE] = without(i)
      BY DEF without
    <3>. QED BY <1>2, <1>5, <3>1, <3>2
  <2>2. [S EXCEPT ![i].refbit = FALSE] = [S EXCEPT ![i] = r]
    OBVIOUS
  <2>3. [S EXCEPT ![i] = r] = [j \in Frames |-> IF j = i THEN r ELSE S[j]]
    BY <1>6
  <2>4. \A j \in Frames : (IF seen(n + 1, j) THEN without(j) ELSE d[j])
                            = (IF j = i THEN r ELSE S[j])
    BY <1>3, <1>6, <1>8, <2>1 DEF i
  <2>. HIDE DEF r, S
  <2>. QED BY <1>7, <2>2, <2>3, <2>4
<1>9. ASSUME ~Referenced(d, hand, n + 1) PROVE Swept(d, hand, n + 1) = S
  BY <1>3, <1>6, <1>7, <1>9
<1>10. Swept(d, hand, 0) = d
  <2>1. d = [j \in Frames |-> d[j]]
    BY DEF Tables
  <2>2. 0 \in 0 .. 2 * NumBufs + 1
    OBVIOUS
  <2>. QED BY <1>1, <1>4, <2>1, <2>2
<1>11. S \in Tables
  BY <1>2, <1>6 DEF Tables
<1>. QED BY <1>8, <1>9, <1>10, <1>11 DEF i

(* A visit to a frame that is not referenced leaves the table alone.       *)
LEMMA SweptTheSame ==
  ASSUME NEW d \in Tables, NEW hand \in Frames, NEW n \in 0 .. 2 * NumBufs,
         ~Referenced(d, hand, n + 1)
  PROVE  Swept(d, hand, n + 1) = Swept(d, hand, n)
<1>1. ~Referenced(d, hand, n + 1) => Swept(d, hand, n + 1) = Swept(d, hand, n)
  BY SweptByOneMore, ZenonT(30)
<1>. QED BY <1>1, ZenonT(10)

(* The visits that count a frame as pinned, by one visit more.             *)
LEMMA CountedByOneMore ==
  ASSUME NEW d, NEW hand, NEW n \in Nat
  PROVE  /\ IsFiniteSet(Counted(d, hand, n)) /\ Cardinality(Counted(d, hand, n)) \in Nat
         /\ Cardinality(Counted(d, hand, 0)) = 0
         /\ Cardinality(Counted(d, hand, n + 1)) =
              IF CountsPinned(d, hand, n + 1)
              THEN Cardinality(Counted(d, hand, n)) + 1
              ELSE Cardinality(Counted(d, hand, n))
<1>. DEFINE C(m) == Counted(d, hand, m)
<1>1. IsFiniteSet(C(n))
  <2>1. IsFiniteSet(1 .. n)
    BY FS_Interval
  <2>2. C(n) \in SUBSET (1 .. n)
    BY DEF Counted
  <2>. QED BY <2>1, <2>2, FS_Subset
<1>2. Cardinality(C(n)) \in Nat
  BY <1>1, FS_CardinalityType
<1>3. Cardinality(C(0)) = 0
  <2>1. C(0) = {}
    BY DEF Counted
  <2>. QED BY <2>1, FS_EmptySet
<1>4. C(n + 1) = IF CountsPinned(d, hand, n + 1) THEN C(n) \cup {n + 1} ELSE C(n)
  <2>1. 1 .. n + 1 = (1 .. n) \cup {n + 1}
    OBVIOUS
  <2>. QED BY <2>1 DEF Counted
<1>5. n + 1 \notin C(n)
  BY DEF Counted
<1>6. Cardinality(C(n) \cup {n + 1}) = Cardinality(C(n)) + 1
  BY <1>1, <1>5, FS_AddElement
<1>. QED BY <1>1, <1>2, <1>3, <1>4, <1>6

(* Two rounds that take no frame count every one in the second: the visit  *)
(* after them ends the sweep.                                              *)
LEMMA NoThirdRound ==
  ASSUME NEW d \in Tables, NEW hand \in Frames,
         \A w \in 1 .. 2 * NumBufs + 1 : ~Takes(d, hand, w)
  PROVE  Cardinality(Counted(d, hand, 2 * NumBufs + 1)) > NumBufs
<1>. DEFINE late == NumBufs + 1 .. 2 * NumBufs + 1
            C == Counted(d, hand, 2 * NumBufs + 1)
<1>1. late \in SUBSET C
  <2>1. ASSUME NEW w \in late PROVE CountsPinned(d, hand, w)
    <3>1. w \in 0 .. 2 * NumBufs + 1 /\ w \in 1 .. 2 * NumBufs + 1 /\ ~(w <= NumBufs)
      OBVIOUS
    <3>2. FrameAt(hand, w) \in Frames
      BY <3>1, FrameOfVisit
    <3>3. d[FrameAt(hand, w)].pinCnt \in 0 .. MaxPin
      BY <3>2 DEF Tables, Desc
    <3>. QED BY <3>1, <3>3 DEF Takes, CountsPinned, Referenced
  <2>. QED BY <2>1 DEF Counted
<1>2. IsFiniteSet(C) /\ Cardinality(C) \in Nat
  BY CountedByOneMore
<1>3. Cardinality(late) = NumBufs + 1
  BY FS_Interval
<1>4. Cardinality(late) <= Cardinality(C)
  BY <1>1, <1>2, FS_Subset
<1>. HIDE DEF late, C
<1>5. Cardinality(C) > NumBufs
  BY <1>2, <1>3, <1>4
<1>. QED BY <1>5 DEF C

-----------------------------------------------------------------------------
(* The loop.                                                               *)

(* The table and the frame that the next turn of the loop looks at.        *)
LEMMA NextVisit ==
  ASSUME IInv, NEW n \in 0 .. 2 * NumBufs, Visited(n), advanceClock
  PROVE  /\ start.desc \in Tables /\ start.hand \in Frames
         /\ clockHand' = FrameAt(start.hand, n + 1) /\ clockHand' \in Frames
         /\ desc[clockHand'].valid = start.desc[clockHand'].valid
         /\ desc[clockHand'].pinCnt = start.desc[clockHand'].pinCnt
         /\ desc[clockHand'].pinCnt \in 0 .. MaxPin
         /\ desc[clockHand'].valid =>
              (desc[clockHand'].refbit <=> Referenced(start.desc, start.hand, n + 1))
<1>1. start.desc \in Tables /\ start.hand \in Frames
  BY DEF IInv, TypeOK
<1>2. clockHand' = FrameAt(start.hand, n + 1)
  BY <1>1, HandAdvances DEF advanceClock, Visited
<1>3. desc = Swept(start.desc, start.hand, n)
  BY DEF Visited
<1>4. /\ clockHand' \in Frames
      /\ desc[clockHand'].valid = start.desc[clockHand'].valid
      /\ desc[clockHand'].pinCnt = start.desc[clockHand'].pinCnt
      /\ desc[clockHand'].valid =>
           (desc[clockHand'].refbit <=> Referenced(start.desc, start.hand, n + 1))
  BY <1>1, <1>2, <1>3, BitAtVisit
<1>5. desc[clockHand'].pinCnt \in 0 .. MaxPin
  BY <1>4 DEF IInv, TypeOK, Desc
<1>. QED BY <1>1, <1>2, <1>4, <1>5

(* A frame that is passed over because it was referenced.                  *)
LEMMA SkipsReferenced ==
  ASSUME IInv, NEW n \in 0 .. 2 * NumBufs, Visited(n), SkipReferenced
  PROVE  n + 1 \in 0 .. 2 * NumBufs /\ Visited(n + 1)'
<1>. DEFINE d == start.desc
            h == start.hand
<1>1. /\ d \in Tables /\ h \in Frames /\ clockHand' = FrameAt(h, n + 1)
      /\ desc[clockHand'].valid = d[clockHand'].valid
      /\ Referenced(d, h, n + 1)
  BY NextVisit DEF SkipReferenced
<1>2. n + 1 <= NumBufs /\ ~Takes(d, h, n + 1) /\ ~CountsPinned(d, h, n + 1)
  BY <1>1 DEF Referenced, Takes, CountsPinned
<1>3. GoesOn(d, h, n + 1)
  <2>1. GoesOn(d, h, n) /\ ~GivesUp(d, h, n + 1)
    BY <1>2 DEF Visited, GivesUp
  <2>2. 1 .. n + 1 = (1 .. n) \cup {n + 1}
    OBVIOUS
  <2>. QED BY <1>2, <2>1, <2>2 DEF GoesOn
<1>4. desc' = Swept(d, h, n + 1)
  BY <1>1, SweptByOneMore DEF Visited, SkipReferenced
<1>5. clockCount' = Cardinality(Counted(d, h, n + 1))
  BY <1>2, CountedByOneMore DEF Visited, SkipReferenced
<1>6. start' = start
  BY DEF SkipReferenced
<1>7. n + 1 \in 0 .. 2 * NumBufs
  BY <1>2
<1>. QED BY <1>1, <1>3, <1>4, <1>5, <1>6, <1>7 DEF Visited

(* A frame that is pinned is counted; the sweep goes on, or gives up.      *)
LEMMA SkipsPinned ==
  ASSUME IInv, NEW n \in 0 .. 2 * NumBufs, Visited(n), clockCount <= NumBufs, SkipPinned
  PROVE  /\ clockCount' \in 0 .. NumBufs + 1
         /\ pc' = "sweep" => clockCount' <= NumBufs /\ n + 1 \in 0 .. 2 * NumBufs
                             /\ Visited(n + 1)'
         /\ pc' # "sweep" => pc' = "exceeded" /\ LoopMatchesRule'
<1>. DEFINE d == start.desc
            h == start.hand
<1>1. /\ d \in Tables /\ h \in Frames /\ clockHand' = FrameAt(h, n + 1)
      /\ d[clockHand'].valid /\ d[clockHand'].pinCnt > 0
      /\ d[clockHand'].pinCnt \in 0 .. MaxPin /\ ~Referenced(d, h, n + 1)
  BY NextVisit DEF SkipPinned
<1>2. CountsPinned(d, h, n + 1) /\ ~Takes(d, h, n + 1)
  BY <1>1 DEF CountsPinned, Takes
<1>3. /\ clockCount' = clockCount + 1 /\ clockCount' \in Nat
      /\ clockCount' = Cardinality(Counted(d, h, n + 1))
  BY <1>2, CountedByOneMore DEF Visited, SkipPinned
<1>4. desc' = Swept(d, h, n + 1) /\ start' = start
  <2>1. desc = Swept(d, h, n)
    BY DEF Visited
  <2>2. desc' = desc /\ start' = start
    BY DEF SkipPinned
  <2>3. Swept(d, h, n + 1) = Swept(d, h, n)
    BY <1>1, SweptTheSame
  <2>. QED BY <2>1, <2>2, <2>3
<1>5. GoesOn(d, h, n) /\ 1 .. n + 1 = (1 .. n) \cup {n + 1}
  BY DEF Visited
<1>6. GivesUp(d, h, n + 1) <=> clockCount' > NumBufs
  BY <1>2, <1>3 DEF GivesUp, Counted
<1>7. CASE ~(clockCount' > NumBufs)
  <2>1. GoesOn(d, h, n + 1)
    BY <1>2, <1>5, <1>6, <1>7 DEF GoesOn
  <2>2. n # 2 * NumBufs
    <3>. SUFFICES ASSUME n = 2 * NumBufs PROVE FALSE
      OBVIOUS
    <3>1. \A w \in 1 .. 2 * NumBufs + 1 : ~Takes(d, h, w)
      BY <2>1 DEF GoesOn
    <3>. QED BY <1>1, <1>3, <1>7, <3>1, NoThirdRound
  <2>3. n + 1 \in 0 .. 2 * NumBufs
    BY <2>2
  <2>4. Visited(n + 1)'
    BY <1>1, <1>3, <1>4, <2>1 DEF Visited
  <2>5. pc' = "sweep" /\ clockCount' \in 0 .. NumBufs + 1
    BY <1>3, <1>7 DEF SkipPinned
  <2>. QED BY <1>3, <1>7, <2>3, <2>4, <2>5
<1>8. CASE clockCount' > NumBufs
  <2>1. pc' = "exceeded" /\ clockCount' \in 0 .. NumBufs + 1
    <3>1. clockCount \in Nat
      BY DEF IInv, TypeOK
    <3>. QED BY <1>3, <1>8, <3>1 DEF SkipPinned
  <2>2. Ends(d, h, n + 1)
    BY <1>5, <1>6, <1>8 DEF Ends, GoesOn
  <2>3. n + 1 \in Visits
    BY DEF Visits
  <2>4. LoopMatchesRule'
    BY <1>1, <1>2, <1>4, <2>1, <2>2, <2>3 DEF LoopMatchesRule
  <2>. QED BY <2>1, <2>4
<1>. QED BY <1>7, <1>8

(* A frame that is taken is the one the rule says.                         *)
LEMMA TakesByRule ==
  ASSUME IInv, NEW n \in 0 .. 2 * NumBufs, Visited(n), Take
  PROVE  LoopMatchesRule'
<1>. DEFINE d == start.desc
            h == start.hand
<1>1. /\ d \in Tables /\ h \in Frames /\ clockHand' = FrameAt(h, n + 1)
      /\ \/ ~d[clockHand'].valid
         \/ d[clockHand'].pinCnt = 0 /\ ~Referenced(d, h, n + 1)
  BY NextVisit DEF Take
<1>2. Takes(d, h, n + 1) /\ ~Referenced(d, h, n + 1)
  BY <1>1 DEF Takes, Referenced
<1>3. Ends(d, h, n + 1)
  BY <1>2 DEF Ends, Visited, GoesOn
<1>4. desc' = Swept(d, h, n + 1) /\ start' = start /\ pc' = "found"
  <2>1. desc = Swept(d, h, n)
    BY DEF Visited
  <2>2. desc' = desc /\ start' = start /\ pc' = "found"
    BY DEF Take
  <2>3. Swept(d, h, n + 1) = Swept(d, h, n)
    BY <1>1, <1>2, SweptTheSame
  <2>. QED BY <2>1, <2>2, <2>3
<1>5. n + 1 \in Visits
  BY DEF Visits
<1>. QED BY <1>1, <1>2, <1>3, <1>4, <1>5 DEF LoopMatchesRule

(* The loop starts with no visit made.                                     *)
LEMMA CallVisitsNone ==
  ASSUME IInv, Call
  PROVE  Visited(0)' /\ clockCount' <= NumBufs
<1>1. desc \in Tables /\ clockHand \in Frames
  BY DEF IInv, TypeOK
<1>2. start'.desc = desc /\ start'.hand = clockHand /\ desc' = desc
      /\ clockHand' = clockHand /\ clockCount' = 0
  BY DEF Call, Start
<1>3. FrameAt(clockHand, 0) = clockHand /\ Swept(desc, clockHand, 0) = desc
  <2>1. 0 \in 0 .. 2 * NumBufs
    OBVIOUS
  <2>2. FrameAt(clockHand, 0) = clockHand
    BY <1>1, <2>1, HandAdvances
  <2>3. Swept(desc, clockHand, 0) = desc
    BY <1>1, <2>1, SweptByOneMore
  <2>. QED BY <2>2, <2>3
<1>4. Cardinality(Counted(desc, clockHand, 0)) = 0
  BY CountedByOneMore
<1>5. GoesOn(desc, clockHand, 0)
  BY DEF GoesOn
<1>. QED BY <1>2, <1>3, <1>4, <1>5 DEF Visited

-----------------------------------------------------------------------------
(* The invariant.                                                          *)

(* The descriptors keep their type, and a frame that is not valid its bit. *)
LEMMA TablesKept ==
  ASSUME IInv, Next
  PROVE  desc' \in Tables /\ clockHand' \in Frames
<1>. USE DEF IInv, TypeOK
<1>1. Cleared \in Desc /\ Fresh \in Desc /\ ~Cleared.refbit /\ Fresh.valid
  BY DEF Cleared, Fresh, Desc
<1>2. \A i \in Frames : /\ desc[i].valid \in BOOLEAN /\ desc[i].refbit \in BOOLEAN
                        /\ desc[i].pinCnt \in 0 .. MaxPin
                        /\ ~desc[i].valid => ~desc[i].refbit
  BY DEF Tables, Desc
<1>3. ASSUME NEW i \in Frames, NEW r \in Desc, ~r.valid => ~r.refbit,
             desc' = [desc EXCEPT ![i] = r]
      PROVE  desc' \in Tables
  BY <1>3 DEF Tables
<1>4. ASSUME advanceClock PROVE clockHand' \in Frames
  BY <1>4 DEF advanceClock, Frames
<1>5. ASSUME NEW i \in Frames, Hit(i) PROVE desc' \in Tables /\ clockHand' \in Frames
  <2>. DEFINE n == desc[i].pinCnt + 1
              r == [desc[i] EXCEPT !.pinCnt = n, !.refbit = TRUE]
  <2>1. n \in 0 .. MaxPin /\ desc[i].valid
    BY <1>2, <1>5 DEF Hit
  <2>2. desc' = [desc EXCEPT ![i] = r] /\ clockHand' = clockHand
    BY <1>5 DEF Hit
  <2>. HIDE DEF n
  <2>3. r \in Desc /\ r.valid
    BY <2>1 DEF Desc
  <2>. HIDE DEF r
  <2>. QED BY <1>3, <2>2, <2>3
<1>6. ASSUME NEW i \in Frames, Unpin(i) PROVE desc' \in Tables /\ clockHand' \in Frames
  <2>. DEFINE n == desc[i].pinCnt - 1
              r == [desc[i] EXCEPT !.pinCnt = n]
  <2>1. n \in 0 .. MaxPin
    BY <1>2, <1>6 DEF Unpin
  <2>2. desc' = [desc EXCEPT ![i] = r] /\ clockHand' = clockHand
    BY <1>6 DEF Unpin
  <2>. HIDE DEF n
  <2>3. r \in Desc /\ r.valid = desc[i].valid /\ r.refbit = desc[i].refbit
    BY <2>1 DEF Desc
  <2>. HIDE DEF r
  <2>. QED BY <1>2, <1>3, <2>2, <2>3
<1>7. ASSUME NEW i \in Frames, Drop(i) PROVE desc' \in Tables /\ clockHand' \in Frames
  BY <1>1, <1>3, <1>7 DEF Drop
<1>8. CASE Call
  BY <1>8 DEF Call
<1>9. CASE SkipReferenced
  <2>. DEFINE r == [desc[clockHand'] EXCEPT !.refbit = FALSE]
  <2>1. clockHand' \in Frames /\ desc' = [desc EXCEPT ![clockHand'] = r]
    BY <1>4, <1>9 DEF SkipReferenced
  <2>2. r \in Desc /\ ~r.refbit
    BY <2>1 DEF Desc
  <2>. HIDE DEF r
  <2>. QED BY <1>3, <2>1, <2>2
<1>10. CASE SkipPinned \/ Take
  BY <1>4, <1>10 DEF SkipPinned, Take
<1>11. CASE Return
  <2>1. clockHand' = clockHand /\ (desc' = desc \/ desc' = [desc EXCEPT ![clockHand] = Fresh])
    BY <1>11 DEF Return
  <2>. QED BY <1>1, <1>3, <2>1
<1>12. CASE ReturnUnused
  BY <1>12 DEF ReturnUnused
<1>. QED BY <1>5, <1>6, <1>7, <1>8, <1>9, <1>10, <1>11, <1>12
         DEF Next, Client, LoopBody

(* The constructor makes an empty pool.                                    *)
LEMMA InitIsIdle == Init => IInv
<1>. SUFFICES ASSUME Init PROVE IInv
  OBVIOUS
<1>1. Cleared \in Desc /\ ~Cleared.refbit
  BY DEF Cleared, Desc
<1>2. desc \in Tables /\ clockHand \in Frames /\ clockCount = 0 /\ pc = "idle"
  BY <1>1 DEF Init, Tables, Frames
<1>3. start = [desc |-> desc, hand |-> clockHand]
  BY DEF Init, Start
<1>. QED BY <1>2, <1>3 DEF IInv, TypeOK, InLoop, LoopMatchesRule, Tables

(* Every step keeps the invariant.                                         *)
LEMMA InvariantKept == IInv /\ [Next]_vars => IInv'
<1>. SUFFICES ASSUME IInv, [Next]_vars PROVE IInv'
  OBVIOUS
<1>1. CASE UNCHANGED vars
  BY <1>1 DEF vars, IInv, TypeOK, InLoop, Visited, LoopMatchesRule
<1>2. CASE Next
  <2>1. desc' \in Tables /\ clockHand' \in Frames
    BY <1>2, TablesKept
  <2>2. desc' \in [Frames -> Desc]
    BY <2>1 DEF Tables
  <2>3. CASE pc' = "idle"
    <3>1. InLoop' /\ LoopMatchesRule'
      BY <2>3 DEF InLoop, LoopMatchesRule
    <3>2. clockCount' = clockCount \/ clockCount' = 0
      BY <1>2, <2>3 DEF Next, Client, Hit, Unpin, Drop, Call, LoopBody, SkipReferenced,
                        SkipPinned, Take, Return, ReturnUnused
    <3>3. \/ start' = start
          \/ start' = [desc |-> desc', hand |-> clockHand']
      BY <1>2, <2>3 DEF Next, Client, Hit, Unpin, Drop, Call, LoopBody, SkipReferenced,
                        SkipPinned, Take, Return, ReturnUnused, Start
    <3>4. start' \in [desc : [Frames -> Desc], hand : Frames] /\ start'.desc \in Tables
      BY <2>1, <2>2, <3>3 DEF IInv, TypeOK
    <3>. QED BY <2>1, <2>2, <2>3, <3>1, <3>2, <3>4 DEF IInv, TypeOK
  <2>4. CASE Call
    <3>1. Visited(0)' /\ clockCount' <= NumBufs
      BY <2>4, CallVisitsNone
    <3>2. pc' = "sweep" /\ clockCount' = 0 /\ start' = [desc |-> desc', hand |-> clockHand']
      BY <2>4 DEF Call, Start
    <3>3. 0 \in 0 .. 2 * NumBufs /\ 0 \in 0 .. NumBufs + 1
      OBVIOUS
    <3>4. InLoop' /\ LoopMatchesRule'
      BY <3>1, <3>2, <3>3 DEF InLoop, LoopMatchesRule
    <3>. QED BY <2>1, <2>2, <3>2, <3>3, <3>4 DEF IInv, TypeOK
  <2>5. CASE LoopBody
    <3>1. pc = "sweep" /\ start' = start
      BY <2>5 DEF LoopBody, SkipReferenced, SkipPinned, Take
    <3>2. PICK n \in 0 .. 2 * NumBufs : Visited(n) /\ clockCount <= NumBufs
      BY <3>1 DEF IInv, InLoop
    <3>3. /\ clockCount' \in 0 .. NumBufs + 1
          /\ pc' \in {"sweep", "found", "exceeded"}
          /\ InLoop' /\ LoopMatchesRule'
      <4>1. CASE SkipReferenced
        <5>1. n + 1 \in 0 .. 2 * NumBufs /\ Visited(n + 1)'
          BY <3>2, <4>1, SkipsReferenced
        <5>2. pc' = "sweep" /\ clockCount' = clockCount
          BY <3>1, <4>1 DEF SkipReferenced
        <5>3. InLoop' /\ LoopMatchesRule'
          BY <3>2, <5>1, <5>2 DEF InLoop, LoopMatchesRule
        <5>. QED BY <5>2, <5>3 DEF IInv, TypeOK
      <4>2. CASE SkipPinned
        <5>1. /\ clockCount' \in 0 .. NumBufs + 1
              /\ pc' = "sweep" => clockCount' <= NumBufs /\ n + 1 \in 0 .. 2 * NumBufs
                                  /\ Visited(n + 1)'
              /\ pc' # "sweep" => pc' = "exceeded" /\ LoopMatchesRule'
          BY <3>2, <4>2, SkipsPinned
        <5>. QED BY <5>1 DEF InLoop, LoopMatchesRule
      <4>3. CASE Take
        <5>1. LoopMatchesRule'
          BY <3>2, <4>3, TakesByRule
        <5>2. pc' = "found" /\ clockCount' = clockCount
          BY <4>3 DEF Take
        <5>. QED BY <5>1, <5>2 DEF InLoop, IInv, TypeOK
      <4>. QED BY <2>5, <4>1, <4>2, <4>3 DEF LoopBody
    <3>. QED BY <2>1, <2>2, <3>1, <3>3 DEF IInv, TypeOK
  <2>6. CASE Return \/ ReturnUnused \/ \E i \in Frames : Hit(i) \/ Unpin(i) \/ Drop(i)
    <3>1. pc' = "idle"
      BY <2>6 DEF Return, ReturnUnused, Hit, Unpin, Drop
    <3>. QED BY <2>3, <3>1
  <2>. QED BY <1>2, <2>4, <2>5, <2>6 DEF Next, Client
<1>. QED BY <1>1, <1>2

(* The invariant holds in every reachable state of the loop.               *)
LEMMA AlwaysInvariant == Spec => []IInv
  BY InitIsIdle, InvariantKept, PTL DEF Spec

-----------------------------------------------------------------------------
(* What the rule tells of the frames.                                      *)

(* A sweep that gives up counted each frame at most once in a round, and   *)
(* in the second round counts what is pinned.                              *)
LEMMA MajorityIsPinned ==
  ASSUME NEW d \in Tables, NEW hand \in Frames, NEW v \in Visits,
         Ends(d, hand, v), GivesUp(d, hand, v)
  PROVE  2 * Cardinality(Pinned(d)) > NumBufs
<1>. DEFINE C == Counted(d, hand, v)
            A == {w \in C : w <= NumBufs}
            B == {w \in C : w > NumBufs /\ w <= 2 * NumBufs}
            P == Pinned(d)
<1>1. IsFiniteSet(P) /\ Cardinality(P) \in Nat
  <2>1. IsFiniteSet(Frames)
    BY FS_Interval DEF Frames
  <2>2. P \in SUBSET Frames
    BY DEF Pinned
  <2>. QED BY <2>1, <2>2, FS_Subset, FS_CardinalityType
<1>2. IsFiniteSet(C) /\ Cardinality(C) > NumBufs
  <2>1. v \in Nat
    BY DEF Visits
  <2>. QED BY <2>1, CountedByOneMore DEF GivesUp, Counted
<1>3. \A w \in C : w \in 1 .. v /\ FrameAt(hand, w) \in P
  <2>1. ASSUME NEW w \in C PROVE FrameAt(hand, w) \in Frames
    <3>1. w \in 0 .. 2 * NumBufs + 1
      BY DEF Counted, Visits
    <3>. QED BY <3>1, FrameOfVisit
  <2>. QED BY <2>1 DEF Counted, CountsPinned, Pinned
<1>4. CASE v = 2 * NumBufs + 1
  <2>1. ASSUME NEW i \in Frames PROVE i \in P
    <3>1. PICK w \in 1 .. NumBufs : FrameAt(hand, w + NumBufs) = i
      BY OneRound
    <3>2. w + NumBufs \in 1 .. v - 1 /\ ~(w + NumBufs <= NumBufs)
      BY <1>4
    <3>3. ~Takes(d, hand, w + NumBufs)
      BY <3>2 DEF Ends
    <3>4. d[i].pinCnt # 0 /\ d[i].pinCnt \in 0 .. MaxPin
      BY <3>1, <3>2, <3>3 DEF Takes, Referenced, Tables, Desc
    <3>. QED BY <3>4 DEF Pinned
  <2>2. P = Frames
    BY <2>1 DEF Pinned
  <2>3. Cardinality(Frames) = NumBufs
    BY FS_Interval DEF Frames
  <2>. QED BY <2>2, <2>3
<1>5. CASE v # 2 * NumBufs + 1
  <2>1. C = A \cup B /\ A \cap B = {} /\ A \in SUBSET C /\ B \in SUBSET C
    BY <1>3, <1>5 DEF Visits
  <2>2. IsFiniteSet(A) /\ IsFiniteSet(B)
    BY <1>2, <2>1, FS_Subset
  <2>3. Cardinality(A) <= Cardinality(P)
    <3>. DEFINE f == [w \in A |-> FrameAt(hand, w)]
    <3>1. \A w \in A : w \in 1 .. NumBufs /\ FrameAt(hand, w) \in P
      BY <1>3
    <3>2. f \in Injection(A, P)
      <4>1. f \in [A -> P]
        BY <3>1
      <4>2. \A w, x \in A : f[w] = f[x] => w = x
        BY <3>1, OneRound
      <4>. QED BY <4>1, <4>2 DEF Injection, IsInjective
    <3>. QED BY <1>1, <3>2, FS_Injection
  <2>4. Cardinality(B) <= Cardinality(P)
    <3>. DEFINE f == [w \in B |-> FrameAt(hand, w)]
    <3>1. \A w \in B : /\ w - NumBufs \in 1 .. NumBufs /\ w = (w - NumBufs) + NumBufs
                       /\ FrameAt(hand, w) \in P
      BY <1>3
    <3>2. \A w \in B : FrameAt(hand, w) = FrameAt(hand, w - NumBufs)
      BY <3>1, OneRound
    <3>3. \A w, x \in B : FrameAt(hand, w) = FrameAt(hand, x) => w = x
      BY <3>1, <3>2, OneRound
    <3>4. f \in Injection(B, P)
      <4>1. f \in [B -> P]
        BY <3>1
      <4>2. \A w, x \in B : f[w] = f[x] => w = x
        BY <3>3
      <4>. QED BY <4>1, <4>2 DEF Injection, IsInjective
    <3>. QED BY <1>1, <3>4, FS_Injection
  <2>5. Cardinality(A) \in Nat /\ Cardinality(B) \in Nat
    BY <2>2, FS_CardinalityType
  <2>. HIDE DEF A, B, C, P
  <2>6. Cardinality(C) = Cardinality(A) + Cardinality(B)
    <3>1. Cardinality(A \cup B) =
            Cardinality(A) + Cardinality(B) - Cardinality(A \cap B)
      BY <2>2, FS_Union
    <3>2. Cardinality(A \cap B) = 0
      BY <2>1, FS_EmptySet
    <3>. QED BY <2>1, <2>5, <3>1, <3>2
  <2>7. 2 * Cardinality(P) > NumBufs
    BY <1>1, <1>2, <2>3, <2>4, <2>5, <2>6
  <2>. QED BY <2>7 DEF P
<1>. QED BY <1>4, <1>5

(* A sweep changes no pin count.                                           *)
LEMMA SweptKeepsPins ==
  ASSUME NEW d \in Tables, NEW hand \in Frames, NEW v
  PROVE  Pinned(Swept(d, hand, v)) = Pinned(d)
<1>1. \A i \in Frames : Swept(d, hand, v)[i].pinCnt = d[i].pinCnt
  BY DEF Swept, Tables, Desc
<1>. QED BY <1>1 DEF Pinned

-----------------------------------------------------------------------------
(* Theorems.                                                               *)

(* The loop's variables keep their types; in particular clock_count never  *)
(* passes NumBufs + 1: the loop of allocBuf ends.                          *)
THEOREM TypeCorrect == Spec => []TypeOK
  BY AlwaysInvariant, PTL DEF IInv

(* while(1) of allocBuf computes the relation that BufMgr uses for it, for *)
(* every number of frames and from every table that calls produce.         *)
THEOREM LoopComputesRule == Spec => []LoopMatchesRule
  BY AlwaysInvariant, PTL DEF IInv

(* BufferExceededException of p2 means that more than half of the frames   *)
(* are pinned.                                                             *)
THEOREM MajorityPinned == Spec => []GivingUpNeedsAMajority
<1>1. IInv => GivingUpNeedsAMajority
  <2>. SUFFICES ASSUME IInv, pc = "exceeded" PROVE 2 * Cardinality(Pinned(desc)) > NumBufs
    BY DEF GivingUpNeedsAMajority
  <2>1. start.desc \in Tables /\ start.hand \in Frames
    BY DEF IInv, TypeOK
  <2>2. PICK v \in Visits : /\ Ends(start.desc, start.hand, v)
                            /\ desc = Swept(start.desc, start.hand, v)
                            /\ ~Takes(start.desc, start.hand, v)
    BY DEF IInv, LoopMatchesRule
  <2>3. GivesUp(start.desc, start.hand, v)
    BY <2>2 DEF Ends
  <2>. QED BY <2>1, <2>2, <2>3, MajorityIsPinned, SweptKeepsPins
<1>. QED BY <1>1, AlwaysInvariant, PTL

(* A page whose reference bit was set is taken only when every frame was   *)
(* valid and referenced or pinned: the first round of allocBuf.            *)
THEOREM SecondChancesAreGiven == Spec => []SecondChance
<1>1. IInv => SecondChance
  <2>. SUFFICES ASSUME IInv, pc = "found", start.desc[clockHand].refbit, NEW i \in Frames
                PROVE  /\ start.desc[i].valid
                       /\ start.desc[i].refbit \/ start.desc[i].pinCnt > 0
    BY DEF SecondChance
  <2>1. start.desc \in Tables /\ start.hand \in Frames
    BY DEF IInv, TypeOK
  <2>2. PICK v \in Visits : /\ Ends(start.desc, start.hand, v)
                            /\ clockHand = FrameAt(start.hand, v)
                            /\ Takes(start.desc, start.hand, v)
    BY DEF IInv, LoopMatchesRule
  <2>3. clockHand \in Frames
    BY DEF IInv, TypeOK
  <2>4. start.desc[clockHand].valid
    BY <2>1, <2>3 DEF Tables
  <2>5. ~(v <= NumBufs)
    BY <2>2, <2>4 DEF Takes, Referenced
  <2>6. PICK w \in 1 .. NumBufs : FrameAt(start.hand, w) = i
    BY <2>1, OneRound
  <2>7. w \in 1 .. v - 1
    BY <2>5, <2>6 DEF Visits
  <2>8. ~Takes(start.desc, start.hand, w)
    BY <2>2, <2>7 DEF Ends
  <2>9. start.desc[i].pinCnt \in 0 .. MaxPin
    BY <2>1 DEF Tables, Desc
  <2>. QED BY <2>6, <2>8, <2>9 DEF Takes, Referenced
<1>. QED BY <1>1, AlwaysInvariant, PTL

-----------------------------------------------------------------------------
(* How long the loop goes on.                                              *)

\* Each turn that does not end the loop clears a reference bit or counts.
TurnsLeft ==
  Cardinality({i \in Frames : desc[i].refbit}) + (NumBufs + 1 - clockCount)

(* The reference bits of the frames are finitely many.                     *)
LEMMA BitsAreCounted ==
  ASSUME NEW R \in SUBSET Frames
  PROVE  IsFiniteSet(R) /\ Cardinality(R) \in 0 .. NumBufs
<1>1. IsFiniteSet(Frames) /\ Cardinality(Frames) = NumBufs
  BY FS_Interval DEF Frames
<1>2. IsFiniteSet(R) /\ Cardinality(R) <= Cardinality(Frames)
  BY <1>1, FS_Subset
<1>. QED BY <1>1, <1>2, FS_CardinalityType

(* A call of allocBuf makes at most 2 * NumBufs + 1 turns of its while(1): *)
(* each turn that goes on leaves one turn less to go, and while the loop   *)
(* runs nothing else does.  With the fairness of the loop body, that is    *)
(* SweepEnds.                                                              *)
THEOREM TurnsAreBounded ==
  Spec => /\ [](pc = "sweep" => TurnsLeft \in 1 .. 2 * NumBufs + 1)
          /\ [][pc = "sweep" =>
                  pc' \in {"found", "exceeded"} \/ TurnsLeft' = TurnsLeft - 1]_vars
<1>. DEFINE R == {i \in Frames : desc[i].refbit}
            Bounded == pc = "sweep" => TurnsLeft \in 1 .. 2 * NumBufs + 1
            OneLess == pc = "sweep" =>
                         pc' \in {"found", "exceeded"} \/ TurnsLeft' = TurnsLeft - 1
<1>1. IInv => Bounded
  <2>. SUFFICES ASSUME IInv, pc = "sweep" PROVE TurnsLeft \in 1 .. 2 * NumBufs + 1
    OBVIOUS
  <2>1. Cardinality(R) \in 0 .. NumBufs
    BY BitsAreCounted
  <2>2. clockCount \in 0 .. NumBufs
    BY DEF IInv, InLoop, TypeOK
  <2>. HIDE DEF R
  <2>3. TurnsLeft = Cardinality(R) + (NumBufs + 1 - clockCount)
    BY DEF TurnsLeft, R
  <2>. QED BY <2>1, <2>2, <2>3
<1>2. IInv /\ [Next]_vars => [OneLess]_vars
  <2>. SUFFICES ASSUME IInv, Next, pc = "sweep", pc' \notin {"found", "exceeded"}
                PROVE  TurnsLeft' = TurnsLeft - 1
    OBVIOUS
  <2>1. SkipReferenced \/ SkipPinned
    BY DEF Next, Client, Hit, Unpin, Drop, Call, LoopBody, Take, Return, ReturnUnused
  <2>2. clockHand' \in Frames /\ desc \in [Frames -> Desc] /\ clockCount \in Nat
    BY TablesKept DEF IInv, TypeOK
  <2>3. Cardinality(R) \in Nat /\ IsFiniteSet(R)
    BY BitsAreCounted
  <2>4. CASE SkipReferenced
    <3>1. clockHand' \in R /\ R' = R \ {clockHand'} /\ clockCount' = clockCount
      BY <2>2, <2>4 DEF SkipReferenced
    <3>2. Cardinality(R \ {clockHand'}) = Cardinality(R) - 1
      <4>. HIDE DEF R
      <4>. QED BY <2>3, <3>1, FS_RemoveElement
    <3>. HIDE DEF R
    <3>3. TurnsLeft = Cardinality(R) + (NumBufs + 1 - clockCount)
      BY DEF TurnsLeft, R
    <3>4. TurnsLeft' = Cardinality(R') + (NumBufs + 1 - clockCount')
      BY DEF TurnsLeft, R
    <3>. QED BY <2>2, <2>3, <3>1, <3>2, <3>3, <3>4
  <2>5. CASE SkipPinned
    <3>1. desc' = desc /\ clockCount' = clockCount + 1
      BY <2>5 DEF SkipPinned
    <3>2. Cardinality(R') = Cardinality(R)
      BY <3>1
    <3>. HIDE DEF R
    <3>3. TurnsLeft = Cardinality(R) + (NumBufs + 1 - clockCount)
      BY DEF TurnsLeft, R
    <3>4. TurnsLeft' = Cardinality(R') + (NumBufs + 1 - clockCount')
      BY DEF TurnsLeft, R
    <3>. QED BY <2>2, <2>3, <3>1, <3>2, <3>3, <3>4
  <2>. QED BY <2>1, <2>4, <2>5
<1>. QED BY <1>1, <1>2, AlwaysInvariant, PTL DEF Spec

=============================================================================

--------------------------- MODULE BufMgr_proofs ---------------------------
(***************************************************************************)
(* The buffer manager, for any number of frames, files, pages and          *)
(* contents.  For any client: the type invariant, the soundness of the     *)
(* hash table, and that a pinned frame stays where it is.  For a careful   *)
(* one: the pool can be found through the hash table, what is taken        *)
(* without being written is on disk, an idle pool serves, and the whole is *)
(* a page store.                                                           *)
(***************************************************************************)
EXTENDS BufMgr, WellFoundedInduction, TLAPS

USE NumBufsAssumption, ConstantsAssumption

IInv == TablesOK /\ FramesWellFormed /\ HashSound

-----------------------------------------------------------------------------
(* Frames are bounded naturals.                                            *)

(* A nonempty set of frames has a first and a last element.                *)
LEMMA FirstAndLastFrame ==
  ASSUME NEW S \in SUBSET Frames, S # {}
  PROVE  /\ \E i \in S : \A j \in S : i <= j
         /\ \E i \in S : \A j \in S : j <= i
<1>1. ASSUME NEW T \in SUBSET Nat, T # {}
      PROVE  \E x \in T : \A y \in T : x <= y
  <2>1. PICK x \in T : \A y \in T : ~(<<y, x>> \in OpToRel(<, Nat))
    BY <1>1, NatLessThanWellFounded, WFMin
  <2>2. ASSUME NEW y \in T PROVE ~(y < x)
    BY <2>1 DEF OpToRel
  <2>. QED BY <2>2
<1>2. \E i \in S : \A j \in S : i <= j
  BY <1>1 DEF Frames
<1>3. \E i \in S : \A j \in S : j <= i
  <2> DEFINE T == {n \in Nat : \E i \in S : n = NumBufs - i}
  <2>1. T \in SUBSET Nat /\ T # {}
    <3>1. PICK i \in S : TRUE
      OBVIOUS
    <3>2. NumBufs - i \in Nat
      BY DEF Frames
    <3>. QED BY <3>1, <3>2
  <2>2. PICK x \in T : \A y \in T : x <= y
    BY <1>1, <2>1
  <2>3. PICK i \in S : x = NumBufs - i
    BY <2>2
  <2>4. ASSUME NEW j \in S PROVE j <= i
    <3>1. NumBufs - j \in Nat
      BY DEF Frames
    <3>2. NumBufs - i <= NumBufs - j
      BY <2>2, <2>3, <3>1
    <3>. QED BY <3>2 DEF Frames
  <2>. QED BY <2>4
<1>. QED BY <1>2, <1>3

-----------------------------------------------------------------------------
(* The clock.                                                              *)

(* The hand moves to a frame.                                              *)
LEMMA FrameAtType ==
  ASSUME NEW hand \in Frames, NEW v \in Visits
  PROVE  FrameAt(hand, v) \in Frames
  BY DEF FrameAt, Frames, Visits

(* A sweep changes nothing of a descriptor but its reference bit, and that *)
(* of a valid frame only.                                                  *)
LEMMA SweptFields ==
  ASSUME NEW d \in [Frames -> Desc], NEW hand \in Frames, NEW v \in Visits
  PROVE  /\ Swept(d, hand, v) \in [Frames -> Desc]
         /\ \A i \in Frames :
              LET e == Swept(d, hand, v)[i] IN
              /\ e.file = d[i].file /\ e.pageNo = d[i].pageNo
              /\ e.pinCnt = d[i].pinCnt /\ e.dirty = d[i].dirty
              /\ e.valid = d[i].valid
              /\ ~d[i].valid => e = d[i]
  BY DEF Swept, Referenced, FrameAt, Desc

-----------------------------------------------------------------------------
(* A descriptor table d and a hash table h a call may have in hand half    *)
(* way through: what IInv says of desc and hash, of d and h.               *)
WellFormed(d) ==
  /\ d \in [Frames -> Desc]
  /\ \A i \in Frames :
       IF d[i].valid
       THEN /\ Key(d, i) \in Keys
            /\ pool[i].number = d[i].pageNo
            /\ pool[i].data \in Data
       ELSE d[i] = Clear

Sound(d, h) ==
  /\ h \in [Keys -> Frames \cup {NoFrame}]
  /\ \A k \in Keys :
       h[k] # NoFrame => d[h[k]].valid /\ Key(d, h[k]) = k

(* The tables the sweep leaves are well formed and sound, and nobody's pin *)
(* count has changed.                                                      *)
LEMMA SweptWellFormed ==
  ASSUME IInv, NEW v \in Visits
  PROVE  /\ WellFormed(SweptDesc(v))
         /\ Sound(SweptDesc(v), hash)
         /\ Victim(v) \in Frames
         /\ \A i \in Frames : SweptDesc(v)[i].pinCnt = desc[i].pinCnt
<1> DEFINE d == SweptDesc(v)
<1>1. /\ d \in [Frames -> Desc]
      /\ \A i \in Frames :
           /\ Key(d, i) = Key(desc, i)
           /\ d[i].pageNo = desc[i].pageNo
           /\ d[i].pinCnt = desc[i].pinCnt
           /\ d[i].valid = desc[i].valid
           /\ ~desc[i].valid => d[i] = desc[i]
  BY SweptFields DEF IInv, TablesOK, SweptDesc, Key
<1>2. WellFormed(d)
  BY <1>1 DEF IInv, FramesWellFormed, WellFormed
<1>3. Sound(d, hash)
  <2>1. hash \in [Keys -> Frames \cup {NoFrame}]
    BY DEF IInv, TablesOK
  <2>2. ASSUME NEW k \in Keys, hash[k] # NoFrame
        PROVE  d[hash[k]].valid /\ Key(d, hash[k]) = k
    <3>1. hash[k] \in Frames
      BY <2>1, <2>2
    <3>. QED BY <1>1, <2>2, <3>1 DEF IInv, HashSound
  <2>. QED BY <2>1, <2>2 DEF Sound
<1>4. Victim(v) \in Frames
  BY FrameAtType DEF Victim, IInv, TablesOK
<1>. QED BY <1>1, <1>2, <1>3, <1>4

-----------------------------------------------------------------------------
(* flushFile.                                                              *)

(* The frames of a file are valid, so flushFile finds none to throw        *)
(* BadBufferException for; it finishes only with unpinned frames.          *)
LEMMA RefusalFacts ==
  ASSUME NEW d, WellFormed(d), NEW h, NEW f \in Files, NEW i \in Own(d, f)
  PROVE  /\ d[i].valid
         /\ Refusal(d, h, f, i) \in
              {"ok", "PagePinned", "InvalidPage", "HashNotFound"}
         /\ Refusal(d, h, f, i) = "ok" => d[i].pinCnt = 0
         /\ Refusal(d, h, f, i) \in {"ok", "HashNotFound"} /\ d[i].dirty
              => disk[Key(d, i)] # Gone
<1>1. i \in Frames /\ d[i].file = f
  BY DEF Own
<1>2. d[i].valid
  BY <1>1 DEF WellFormed, Clear
<1>3. pool[i].number = d[i].pageNo /\ d[i].pinCnt \in Nat
  BY <1>1, <1>2 DEF WellFormed, Desc
<1>. QED BY <1>1, <1>2, <1>3 DEF Refusal

(* What flushFile throws is one of the exceptions it can throw.            *)
LEMMA FlushExceptionType ==
  ASSUME NEW d, WellFormed(d), NEW h, NEW f \in Files, FlushThrows(d, h, f)
  PROVE  FlushException(d, h, f) \in
           {"PagePinned", "InvalidPage", "HashNotFound"}
<1>1. PICK i \in Frames : ThrowsAt(d, h, f, i)
  BY DEF FlushThrows
<1> DEFINE c == CHOOSE j \in Frames : ThrowsAt(d, h, f, j)
<1>2. c \in Frames /\ ThrowsAt(d, h, f, c)
  BY <1>1
<1>3. c \in Own(d, f) /\ Refusal(d, h, f, c) # "ok"
  BY <1>2 DEF ThrowsAt
<1>4. Refusal(d, h, f, c) \in {"PagePinned", "InvalidPage", "HashNotFound"}
  BY <1>3, RefusalFacts
<1>. QED BY <1>4 DEF FlushException

(* flushFile leaves well-formed, sound tables, pinned frames alone, and a  *)
(* page that exists stays in existence.                                    *)
LEMMA FlushFacts ==
  ASSUME TablesOK, NEW d, WellFormed(d), NEW h, Sound(d, h), NEW f \in Files
  PROVE  /\ WellFormed(FlushDesc(d, h, f))
         /\ Sound(FlushDesc(d, h, f), FlushHash(d, h, f))
         /\ \A i \in Frames :
              d[i].pinCnt > 0 => FlushDesc(d, h, f)[i] = d[i]
         /\ \A k \in Keys : FlushHash(d, h, f)[k] \in {h[k], NoFrame}
         /\ FlushDisk(d, h, f) \in [Keys -> Data \cup {Gone}]
         /\ \A k \in Keys : disk[k] # Gone => FlushDisk(d, h, f)[k] # Gone
<1> DEFINE e == FlushDesc(d, h, f)
           g == FlushHash(d, h, f)
<1>1. \A i \in Flushed(d, h, f) :
        i \in Own(d, f) /\ i \in Frames /\ Refusal(d, h, f, i) = "ok"
  BY DEF Flushed, Own, Frames
<1>2. \A i \in Frames : d[i].pinCnt > 0 => e[i] = d[i]
  BY <1>1, RefusalFacts DEF FlushDesc
<1>3. WellFormed(e)
  <2>1. Clear \in Desc
    BY DEF Clear, Desc
  <2>2. e \in [Frames -> Desc]
    BY <2>1 DEF FlushDesc, WellFormed
  <2>3. ~Clear.valid
    BY DEF Clear
  <2>. QED BY <2>2, <2>3 DEF WellFormed, FlushDesc, Key
<1>4. \A k \in Keys : g[k] \in {h[k], NoFrame}
  BY DEF FlushHash
<1>5. Sound(e, g)
  <2>1. g \in [Keys -> Frames \cup {NoFrame}]
    BY <1>4 DEF FlushHash, Sound
  <2>2. ASSUME NEW k \in Keys, g[k] # NoFrame
        PROVE  e[g[k]].valid /\ Key(e, g[k]) = k
    <3>1. /\ g[k] = h[k] /\ h[k] \in Frames
          /\ ~\E i \in Flushed(d, h, f) : Key(d, i) = k
      BY <2>2 DEF FlushHash, Sound
    <3>2. d[h[k]].valid /\ Key(d, h[k]) = k
      BY <2>2, <3>1 DEF Sound
    <3>3. h[k] \notin Flushed(d, h, f)
      BY <3>1, <3>2
    <3>4. e[h[k]] = d[h[k]]
      BY <3>1, <3>3 DEF FlushDesc
    <3>. QED BY <3>1, <3>2, <3>4 DEF Key
  <2>. QED BY <2>1, <2>2 DEF Sound
<1>6. ASSUME NEW k \in Keys
      PROVE  /\ FlushDisk(d, h, f)[k] \in Data \cup {Gone}
             /\ disk[k] # Gone => FlushDisk(d, h, f)[k] # Gone
  <2> DEFINE W == {i \in Written(d, h, f) : Key(d, i) = k}
             last(i) == Key(d, i) = k
                        /\ \A j \in Written(d, h, f) : Key(d, j) = k => j <= i
             w == CHOOSE i \in Written(d, h, f) : last(i)
  <2>1. ASSUME NEW i \in Written(d, h, f)
        PROVE  i \in Frames /\ pool[i].data \in Data
    <3>1. i \in Own(d, f) /\ i \in Frames
      BY DEF Written, Own
    <3>2. d[i].valid
      BY <3>1, RefusalFacts
    <3>. QED BY <3>1, <3>2 DEF WellFormed
  <2>2. CASE \E i \in Written(d, h, f) : Key(d, i) = k
    <3>1. W \in SUBSET Frames /\ W # {}
      BY <2>1, <2>2
    <3>2. \E i \in W : \A j \in W : j <= i
      BY <3>1, FirstAndLastFrame
    <3>3. \E i \in Written(d, h, f) : last(i)
      BY <3>2
    <3>4. w \in Written(d, h, f)
      BY <3>3
    <3>5. FlushDisk(d, h, f)[k] = pool[w].data
      BY <2>2 DEF FlushDisk
    <3>. QED BY <2>1, <3>4, <3>5
  <2>3. CASE ~\E i \in Written(d, h, f) : Key(d, i) = k
    BY <2>3 DEF FlushDisk, TablesOK
  <2>. QED BY <2>2, <2>3
<1>. QED BY <1>2, <1>3, <1>4, <1>5, <1>6 DEF FlushDisk

-----------------------------------------------------------------------------
(* allocBuf.                                                               *)

(* What a call of allocBuf leaves, whether or not it throws: well-formed,  *)
(* sound tables, pinned frames alone, pages in existence.  If it does not  *)
(* throw, the frame it returns is unpinned and no entry leads to it.       *)
LEMMA AllocFacts ==
  ASSUME TablesOK, NEW d, WellFormed(d), Sound(d, hash), NEW i \in Frames
  PROVE  /\ WellFormed(AllocDesc(d, i))
         /\ Sound(AllocDesc(d, i), AllocHash(d, i))
         /\ \A j \in Frames :
              d[j].pinCnt > 0 => AllocDesc(d, i)[j] = d[j]
         /\ \A k \in Keys : AllocHash(d, i)[k] \in {hash[k], NoFrame}
         /\ AllocDisk(d, i) \in [Keys -> Data \cup {Gone}]
         /\ \A k \in Keys : disk[k] # Gone => AllocDisk(d, i)[k] # Gone
         /\ AllocOutcome(d, i) \in
              {"BufferExceeded", "PagePinned", "InvalidPage", "HashNotFound",
               "free", "flushed", "unhashed"}
         /\ Succeeds(AllocOutcome(d, i)) =>
              /\ d[i].pinCnt = 0
              /\ \A k \in Keys : AllocHash(d, i)[k] # i
<1> DEFINE f == d[i].file
<1>1. d[i].valid => f \in Files /\ Key(d, i) \in Keys
  BY DEF WellFormed, Key, Keys
<1>2. d[i].pinCnt \in Nat /\ (~d[i].valid => d[i].pinCnt = 0)
  BY DEF WellFormed, Desc, Clear
<1>3. CASE Flushes(d, i)
  <2>1. d[i].valid /\ d[i].pinCnt = 0 /\ d[i].dirty /\ f \in Files
    BY <1>1, <1>3 DEF Flushes
  <2>2. /\ AllocDesc(d, i) = FlushDesc(d, hash, f)
        /\ AllocHash(d, i) = FlushHash(d, hash, f)
        /\ AllocDisk(d, i) = FlushDisk(d, hash, f)
    BY <1>3 DEF AllocDesc, AllocHash, AllocDisk
  <2>3. AllocOutcome(d, i) =
          IF FlushThrows(d, hash, f) THEN FlushException(d, hash, f)
          ELSE "flushed"
    BY <2>1 DEF AllocOutcome
  <2>4. AllocOutcome(d, i) \in
          {"PagePinned", "InvalidPage", "HashNotFound", "flushed"}
    BY <2>1, <2>3, FlushExceptionType
  <2>5. ASSUME ~FlushThrows(d, hash, f), NEW k \in Keys,
               AllocHash(d, i)[k] = i
        PROVE  FALSE
    <3>1. i \in Own(d, f)
      BY DEF Own
    <3>2. i \in Flushed(d, hash, f)
      <4> DEFINE B == {j \in Own(d, f) : Refusal(d, hash, f, j) # "ok"}
      <4>1. CASE B # {}
        <5>1. B \in SUBSET Frames
          BY DEF Own
        <5>2. PICK b \in B : \A j \in B : b <= j
          BY <4>1, <5>1, FirstAndLastFrame
        <5>3. ThrowsAt(d, hash, f, b)
          <6>1. ASSUME NEW j \in Own(d, f), j < b
                PROVE  Refusal(d, hash, f, j) = "ok"
            <7>1. j \in Frames /\ b \in Frames
              BY <5>1 DEF Own
            <7>2. ~(b <= j)
              BY <6>1, <7>1 DEF Frames
            <7>. QED BY <5>2, <7>2
          <6>. QED BY <6>1 DEF ThrowsAt
        <5>. QED BY <2>5, <5>1, <5>2, <5>3 DEF FlushThrows
      <4>2. CASE B = {}
        BY <3>1, <4>2 DEF Flushed
      <4>. QED BY <4>1, <4>2
    <3>3. ~AllocDesc(d, i)[i].valid
      BY <2>2, <3>2 DEF FlushDesc, Clear
    <3>4. Sound(AllocDesc(d, i), AllocHash(d, i))
      BY <2>1, <2>2, FlushFacts
    <3>5. i # NoFrame
      BY DEF Frames, NoFrame
    <3>. QED BY <2>5, <3>3, <3>4, <3>5 DEF Sound
  <2>6. Succeeds(AllocOutcome(d, i)) => ~FlushThrows(d, hash, f)
    BY <2>1, <2>3, FlushExceptionType DEF Succeeds
  <2>. QED BY <2>1, <2>2, <2>4, <2>5, <2>6, FlushFacts
<1>4. CASE ~Flushes(d, i)
  <2>1. AllocDesc(d, i) = d /\ AllocDisk(d, i) = disk
    BY <1>4 DEF AllocDesc, AllocDisk
  <2>2. AllocOutcome(d, i) \in
          {"BufferExceeded", "free", "HashNotFound", "unhashed"}
    BY <1>2, <1>4 DEF AllocOutcome, Flushes
  <2>3. AllocHash(d, i) = IF AllocOutcome(d, i) = "unhashed"
                          THEN [hash EXCEPT ![Key(d, i)] = NoFrame] ELSE hash
    BY <1>4 DEF AllocHash
  <2>4. \A k \in Keys : AllocHash(d, i)[k] \in {hash[k], NoFrame}
    BY <2>3 DEF Sound
  <2>5. AllocHash(d, i) \in [Keys -> Frames \cup {NoFrame}]
    BY <2>3 DEF Sound
  <2>6. Sound(d, AllocHash(d, i))
    BY <2>4, <2>5 DEF Sound
  <2>7. Succeeds(AllocOutcome(d, i)) =>
          /\ d[i].pinCnt = 0
          /\ \A k \in Keys : AllocHash(d, i)[k] # i
    <3>1. i # NoFrame
      BY DEF Frames, NoFrame
    <3>2. CASE AllocOutcome(d, i) = "free"
      <4>1. ~d[i].valid
        BY <1>2, <3>2, <1>4 DEF AllocOutcome, Flushes
      <4>. QED BY <1>2, <2>6, <3>1, <4>1 DEF Sound
    <3>3. CASE AllocOutcome(d, i) = "unhashed"
      <4>1. d[i].valid /\ d[i].pinCnt = 0
        BY <1>2, <3>3 DEF AllocOutcome
      <4>2. AllocHash(d, i)[Key(d, i)] = NoFrame
        BY <1>1, <2>3, <3>3, <4>1 DEF Sound
      <4>. QED BY <2>6, <3>1, <4>1, <4>2 DEF Sound
    <3>. QED BY <2>2, <3>2, <3>3 DEF Succeeds
  <2>8. /\ AllocDisk(d, i) \in [Keys -> Data \cup {Gone}]
        /\ \A k \in Keys : disk[k] # Gone => AllocDisk(d, i)[k] # Gone
    BY <2>1 DEF TablesOK
  <2>. QED BY <2>1, <2>2, <2>4, <2>6, <2>7, <2>8
<1>. QED BY <1>3, <1>4

-----------------------------------------------------------------------------
(* The actions.                                                            *)

(* The step that puts page k, of content x, in frame i, where allocBuf has *)
(* left descriptors e, hash table g, and the disk is now D.                *)
Puts(e, g, D, k, x, i) ==
  /\ WellFormed(e) /\ Sound(e, g)
  /\ D \in [Keys -> Data \cup {Gone}]
  /\ \A l \in Keys : g[l] # NoFrame => D[l] # Gone
  /\ k \in Keys /\ x \in Data /\ i \in Frames
  /\ \A l \in Keys : g[l] # i
  /\ pool' = [pool EXCEPT ![i] = [number |-> k[2], data |-> x]]
  /\ hash' = [g EXCEPT ![k] = i]
  /\ desc' = [e EXCEPT ![i] = Set(k)]
  /\ disk' = D /\ D[k] # Gone
  /\ clockHand' = i
  /\ thrown' = Nothing

(* It leaves the invariant true: nothing else leads to the frame.          *)
LEMMA PutPage ==
  ASSUME TablesOK, NEW e, NEW g, NEW D, NEW k, NEW x, NEW i,
         Puts(e, g, D, k, x, i)
  PROVE  IInv'
<1> USE DEF Puts
<1>1. k = <<k[1], k[2]>> /\ k[1] \in Files /\ k[2] \in PageIds
  BY DEF Keys
<1>2. Set(k) \in Desc /\ Set(k).valid /\ Set(k).file = k[1]
                       /\ Set(k).pageNo = k[2]
  BY <1>1 DEF Set, Desc
<1>3. e \in [Frames -> Desc]
  BY DEF WellFormed
<1>4. desc' \in [Frames -> Desc]
  BY <1>2, <1>3
<1>5. TablesOK'
  <2>1. pool' \in [Frames -> [number : PageIds \cup {NoPage},
                             data : Data \cup {Gone}]]
    BY <1>1 DEF TablesOK
  <2>2. hash' \in [Keys -> Frames \cup {NoFrame}]
    BY DEF Sound
  <2>. QED BY <1>4, <2>1, <2>2 DEF TablesOK
<1>6. desc'[i] = Set(k) /\ \A j \in Frames \ {i} : desc'[j] = e[j]
  BY <1>3
<1>7. FramesWellFormed'
  <2>1. ASSUME NEW j \in Frames, j # i
        PROVE  /\ desc'[j] = e[j] /\ pool'[j] = pool[j]
    BY <1>6, <2>1 DEF TablesOK
  <2>2. pool'[i].number = k[2] /\ pool'[i].data = x
    BY DEF TablesOK
  <2>3. ASSUME NEW j \in Frames
        PROVE  IF desc'[j].valid
               THEN /\ Key(desc', j) \in Keys
                    /\ pool'[j].number = desc'[j].pageNo
                    /\ pool'[j].data \in Data
               ELSE desc'[j] = Clear
    <3>1. CASE j = i
      BY <1>1, <1>2, <1>6, <2>2, <3>1 DEF Key
    <3>2. CASE j # i
      BY <2>1, <3>2 DEF WellFormed, Key
    <3>. QED BY <3>1, <3>2
  <2>. QED BY <2>3 DEF FramesWellFormed
<1>8. HashSound'
  <2>1. ASSUME NEW l \in Keys, hash'[l] # NoFrame
        PROVE  desc'[hash'[l]].valid /\ Key(desc', hash'[l]) = l
               /\ disk'[l] # Gone
    <3>1. CASE l = k
      BY <1>1, <1>2, <1>6, <3>1 DEF Sound, Key
    <3>2. CASE l # k
      <4>1. hash'[l] = g[l] /\ g[l] \in Frames /\ g[l] # i
        BY <2>1, <3>2 DEF Sound
      <4>2. desc'[hash'[l]] = e[g[l]]
        BY <1>6, <4>1
      <4>. QED BY <2>1, <4>1, <4>2 DEF Sound, Key
    <3>. QED BY <3>1, <3>2
  <2>. QED BY <2>1 DEF HashSound
<1>. QED BY <1>5, <1>7, <1>8 DEF IInv

(* A call that does not change the pool and leaves well-formed tables      *)
(* leaves the invariant true.                                              *)
LEMMA KeepPool ==
  ASSUME TablesOK, WellFormed(desc'), Sound(desc', hash'), pool' = pool,
         clockHand' \in Frames,
         disk' \in [Keys -> Data \cup {Gone}],
         \A k \in Keys : hash'[k] # NoFrame => disk'[k] # Gone,
         thrown' = Nothing \/ thrown' \in [op : Ops, exc : Exceptions]
  PROVE  IInv'
<1>1. TablesOK'
  BY DEF TablesOK, WellFormed, Sound
<1>2. FramesWellFormed'
  BY DEF FramesWellFormed, WellFormed, Key
<1>3. HashSound'
  BY DEF HashSound, Sound, Key
<1>. QED BY <1>1, <1>2, <1>3 DEF IInv

(* The invariant says of desc and hash what the lemmas ask of d and h.     *)
LEMMA InvariantIsWellFormed ==
  ASSUME IInv
  PROVE  WellFormed(desc) /\ Sound(desc, hash)
  BY DEF IInv, TablesOK, FramesWellFormed, HashSound, WellFormed, Sound

(* A frame that is pinned is valid; if no pinned descriptor changes, the   *)
(* pinned frames stay.                                                     *)
LEMMA UntouchedFramesStay ==
  ASSUME IInv, \A j \in Frames : desc[j].pinCnt > 0 => desc'[j] = desc[j]
  PROVE  PinnedFrameStays
<1>1. ASSUME NEW j \in Frames, desc[j].pinCnt > 0
      PROVE  desc[j].valid /\ desc[j].pinCnt \in Nat
  <2>1. desc[j] \in Desc
    BY DEF IInv, TablesOK
  <2>2. Clear.pinCnt = 0
    BY DEF Clear
  <2>. QED BY <1>1, <2>1, <2>2 DEF IInv, FramesWellFormed, Desc
<1>. QED BY <1>1 DEF PinnedFrameStays, Key

(* What every call but restart owes: the invariant, the pinned frames, and *)
(* no exception that reports corruption.                                   *)
Safe == IInv' /\ PinnedFrameStays /\ NoCorruptionThrown'

(* allocBuf leaves pinned frames with their page and their pin count.      *)
LEMMA AllocKeepsPinned ==
  ASSUME IInv, NEW v \in Visits, NEW j \in Frames, desc[j].pinCnt > 0
  PROVE  LET e == AllocDesc(SweptDesc(v), Victim(v)) IN
         /\ e[j].valid
         /\ Key(e, j) = Key(desc, j)
         /\ e[j].pinCnt >= desc[j].pinCnt - 1
<1> DEFINE d == SweptDesc(v)
           i == Victim(v)
<1>1. /\ WellFormed(d) /\ Sound(d, hash) /\ i \in Frames
      /\ d[j].pinCnt = desc[j].pinCnt
  BY SweptWellFormed
<1>2. TablesOK
  BY DEF IInv
<1>3. AllocDesc(d, i)[j] = d[j]
  BY <1>1, <1>2, AllocFacts
<1>4. desc \in [Frames -> Desc] /\ clockHand \in Frames
  BY <1>2 DEF TablesOK
<1>5. Key(d, j) = Key(desc, j) /\ d[j].valid = desc[j].valid
  BY <1>4, SweptFields DEF SweptDesc, Key
<1>6. desc[j].valid /\ desc[j].pinCnt \in Nat
  BY <1>4 DEF IInv, FramesWellFormed, Clear, Desc
<1>. QED BY <1>1, <1>3, <1>5, <1>6 DEF Key

(* The part of readPage or allocPage that ends in an exception.            *)
LEMMA AllocOnlySafe ==
  ASSUME IInv, NEW v \in Visits, NEW op \in {"read", "alloc"},
         NEW exc \in {"BufferExceeded", "PagePinned", "InvalidPage",
                      "HashNotFound"},
         AllocOnly(v, op, exc)
  PROVE  Safe
<1> DEFINE d == SweptDesc(v)
           i == Victim(v)
<1>1. /\ WellFormed(d) /\ Sound(d, hash) /\ i \in Frames
      /\ \A j \in Frames : d[j].pinCnt = desc[j].pinCnt
  BY SweptWellFormed
<1>2. /\ desc' = AllocDesc(d, i) /\ hash' = AllocHash(d, i)
      /\ disk' = AllocDisk(d, i) /\ clockHand' = i
      /\ thrown' = Threw(op, exc) /\ pool' = pool
  BY DEF AllocOnly
<1>3. TablesOK
  BY DEF IInv
<1>4. \A k \in Keys : hash'[k] # NoFrame => disk'[k] # Gone
  BY <1>1, <1>2, <1>3, AllocFacts DEF IInv, HashSound
<1>5. thrown' \in [op : Ops, exc : Exceptions]
  BY <1>2 DEF Threw, Ops, Exceptions
<1>6. WellFormed(desc') /\ Sound(desc', hash')
      /\ disk' \in [Keys -> Data \cup {Gone}]
  BY <1>1, <1>2, <1>3, AllocFacts
<1>7. IInv'
  BY <1>1, <1>2, <1>3, <1>4, <1>5, <1>6, KeepPool
<1>8. PinnedFrameStays
  BY <1>2, AllocKeepsPinned DEF PinnedFrameStays, Key
<1>9. NoCorruptionThrown'
  BY <1>2 DEF NoCorruptionThrown, Threw
<1>. QED BY <1>7, <1>8, <1>9 DEF Safe

(* readPage, hit or miss, whatever allocBuf or File::readPage throws, keeps *)
(* the invariant, moves no pinned frame and reports no corruption.         *)
LEMMA ReadPageSafe ==
  ASSUME IInv, NEW k \in Keys, readPage(k)
  PROVE  Safe
<1>1. /\ WellFormed(desc) /\ Sound(desc, hash) /\ TablesOK
      /\ \A j \in Frames : desc[j] \in Desc
  BY InvariantIsWellFormed DEF IInv, TablesOK
<1>2. CASE ReadHit(k)
  <2> DEFINE i == hash[k]
  <2>1. i \in Frames /\ desc[i].valid /\ desc[i].pinCnt \in Nat
    BY <1>1, <1>2 DEF ReadHit, Sound, Desc
  <2>2. desc' = [desc EXCEPT ![i].pinCnt = @ + 1, ![i].refbit = TRUE]
    BY <1>2 DEF ReadHit
  <2>3. desc' \in [Frames -> Desc]
    BY <1>1, <2>1, <2>2 DEF WellFormed, Desc
  <2>4. \A j \in Frames : /\ Key(desc', j) = Key(desc, j)
                          /\ desc'[j].valid = desc[j].valid
                          /\ desc'[j].pageNo = desc[j].pageNo
                          /\ j # i => desc'[j] = desc[j]
                          /\ j = i => desc'[j].pinCnt = desc[j].pinCnt + 1
    BY <1>1, <2>1, <2>2 DEF Key, WellFormed, Desc
  <2>5. WellFormed(desc')
    BY <1>1, <2>1, <2>3, <2>4 DEF WellFormed
  <2>6. Sound(desc', hash)
    BY <1>1, <2>4 DEF Sound
  <2>7. IInv'
    BY <1>1, <1>2, <2>5, <2>6, KeepPool DEF ReadHit, TablesOK, IInv, HashSound
  <2>8. PinnedFrameStays
    BY <1>1, <2>1, <2>4 DEF PinnedFrameStays, WellFormed, Clear, Desc
  <2>9. NoCorruptionThrown'
    BY <1>2 DEF ReadHit, NoCorruptionThrown, Nothing
  <2>. QED BY <2>7, <2>8, <2>9 DEF Safe
<1>3. CASE ReadMiss(k)
  <2>1. PICK v \in Visits :
          LET d == SweptDesc(v)
              i == Victim(v)
              outcome == AllocOutcome(d, i)
              onDisk == AllocDisk(d, i)[k]
          IN  \/ ~Succeeds(outcome) /\ AllocOnly(v, "read", outcome)
              \/ AllocOnly(v, "read", "InvalidPage")
              \/ /\ Succeeds(outcome)
                 /\ onDisk # Gone
                 /\ pool' = [pool EXCEPT ![i] = [number |-> k[2],
                                                 data |-> onDisk]]
                 /\ hash' = [AllocHash(d, i) EXCEPT ![k] = i]
                 /\ desc' = [AllocDesc(d, i) EXCEPT ![i] = Set(k)]
                 /\ disk' = AllocDisk(d, i)
                 /\ clockHand' = i
                 /\ thrown' = Nothing
    BY <1>3 DEF ReadMiss
  <2> DEFINE d == SweptDesc(v)
             i == Victim(v)
             outcome == AllocOutcome(d, i)
             onDisk == AllocDisk(d, i)[k]
  <2>2. WellFormed(d) /\ Sound(d, hash) /\ i \in Frames
        /\ \A j \in Frames : d[j].pinCnt = desc[j].pinCnt
    BY SweptWellFormed
  <2>3. CASE ~Succeeds(outcome) /\ AllocOnly(v, "read", outcome)
    <3>1. outcome \in {"BufferExceeded", "PagePinned", "InvalidPage",
                       "HashNotFound"}
      BY <1>1, <2>2, <2>3, AllocFacts DEF Succeeds
    <3>. QED BY <2>3, <3>1, AllocOnlySafe
  <2>4. CASE AllocOnly(v, "read", "InvalidPage")
    BY <2>4, AllocOnlySafe
  <2>5. CASE /\ Succeeds(outcome)
             /\ onDisk # Gone
             /\ pool' = [pool EXCEPT ![i] = [number |-> k[2],
                                             data |-> onDisk]]
             /\ hash' = [AllocHash(d, i) EXCEPT ![k] = i]
             /\ desc' = [AllocDesc(d, i) EXCEPT ![i] = Set(k)]
             /\ disk' = AllocDisk(d, i)
             /\ clockHand' = i
             /\ thrown' = Nothing
    <3>1. /\ WellFormed(AllocDesc(d, i))
          /\ Sound(AllocDesc(d, i), AllocHash(d, i))
          /\ AllocDisk(d, i) \in [Keys -> Data \cup {Gone}]
          /\ d[i].pinCnt = 0
          /\ \A l \in Keys : AllocHash(d, i)[l] # i
          /\ \A l \in Keys : AllocHash(d, i)[l] \in {hash[l], NoFrame}
          /\ \A l \in Keys : disk[l] # Gone => AllocDisk(d, i)[l] # Gone
      BY <1>1, <2>2, <2>5, AllocFacts
    <3>2. \A l \in Keys : AllocHash(d, i)[l] # NoFrame
                          => AllocDisk(d, i)[l] # Gone
      BY <3>1 DEF IInv, HashSound
    <3>3. onDisk \in Data
      BY <2>5, <3>1
    <3>4. IInv'
      <4>1. Puts(AllocDesc(d, i), AllocHash(d, i), AllocDisk(d, i), k,
                 onDisk, i)
        BY <2>2, <2>5, <3>1, <3>2, <3>3 DEF Puts
      <4>. QED BY <1>1, <4>1, PutPage
    <3>5. PinnedFrameStays
      <4>1. desc[i].pinCnt = 0 /\ AllocDesc(d, i) \in [Frames -> Desc]
        BY <2>2, <3>1 DEF WellFormed
      <4>2. \A j \in Frames : j # i => desc'[j] = AllocDesc(d, i)[j]
        BY <2>5, <4>1
      <4>. QED BY <4>1, <4>2, AllocKeepsPinned DEF PinnedFrameStays, Key
    <3>6. NoCorruptionThrown'
      BY <2>5 DEF NoCorruptionThrown, Nothing
    <3>. QED BY <3>4, <3>5, <3>6 DEF Safe
  <2>. QED BY <2>1, <2>3, <2>4, <2>5
<1>. QED BY <1>2, <1>3 DEF readPage

\* What allocPage does when nothing throws in allocBuf, which left frame i
\* and descriptors d, nor in the file, which gave page k.
Allocated(k, d, i) ==
  /\ disk[k] = Gone
  /\ pool' = [pool EXCEPT ![i] = [number |-> k[2], data |-> Empty]]
  /\ desc' = [AllocDesc(d, i) EXCEPT ![i] = Set(k)]
  /\ disk' = [AllocDisk(d, i) EXCEPT ![k] = Empty]
  /\ clockHand' = i
  /\ IF AllocHash(d, i)[k] = NoFrame
     THEN /\ hash' = [AllocHash(d, i) EXCEPT ![k] = i]
          /\ thrown' = Nothing
     ELSE /\ hash' = AllocHash(d, i)
          /\ thrown' = Threw("alloc", "HashAlreadyPresent")

(* So does allocPage; the page it gets from the file was not in use, so    *)
(* nothing is hashed for it and insert does not throw.                     *)
LEMMA AllocPageSafe ==
  ASSUME IInv, NEW f \in Files, allocPage(f)
  PROVE  Safe
<1>1. /\ WellFormed(desc) /\ Sound(desc, hash) /\ TablesOK
      /\ \A j \in Frames : desc[j] \in Desc
  BY InvariantIsWellFormed DEF IInv, TablesOK
<1>2. PICK v \in Visits :
        LET d == SweptDesc(v)
            i == Victim(v)
            outcome == AllocOutcome(d, i)
        IN  \/ ~Succeeds(outcome) /\ AllocOnly(v, "alloc", outcome)
            \/ AllocOnly(v, "alloc", "InvalidPage")
            \/ Succeeds(outcome) /\ \E k \in Keys : Allocated(k, d, i)
  BY DEF allocPage, Allocated, MayAllocate, Live
<1> DEFINE d == SweptDesc(v)
           i == Victim(v)
           outcome == AllocOutcome(d, i)
<1>3. WellFormed(d) /\ Sound(d, hash) /\ i \in Frames
      /\ \A j \in Frames : d[j].pinCnt = desc[j].pinCnt
  BY SweptWellFormed
<1>4. CASE ~Succeeds(outcome) /\ AllocOnly(v, "alloc", outcome)
  <2>1. outcome \in {"BufferExceeded", "PagePinned", "InvalidPage",
                     "HashNotFound"}
    BY <1>1, <1>3, <1>4, AllocFacts DEF Succeeds
  <2>. QED BY <1>4, <2>1, AllocOnlySafe
<1>5. CASE AllocOnly(v, "alloc", "InvalidPage")
  BY <1>5, AllocOnlySafe
<1>6. ASSUME Succeeds(outcome), NEW k \in Keys, Allocated(k, d, i) PROVE Safe
  <2> USE <1>6 DEF Allocated
  <2> DEFINE e == AllocDesc(d, i)
             g == AllocHash(d, i)
             D == [AllocDisk(d, i) EXCEPT ![k] = Empty]
  <2>1. /\ WellFormed(e) /\ Sound(e, g)
        /\ AllocDisk(d, i) \in [Keys -> Data \cup {Gone}]
        /\ d[i].pinCnt = 0
        /\ \A l \in Keys : g[l] # i
        /\ \A l \in Keys : g[l] \in {hash[l], NoFrame}
        /\ \A l \in Keys : disk[l] # Gone => AllocDisk(d, i)[l] # Gone
    BY <1>1, <1>3, AllocFacts
  <2>2. g[k] = NoFrame
    BY <2>1 DEF IInv, HashSound
  <2>3. /\ pool' = [pool EXCEPT ![i] = [number |-> k[2], data |-> Empty]]
        /\ hash' = [g EXCEPT ![k] = i]
        /\ desc' = [e EXCEPT ![i] = Set(k)]
        /\ disk' = D
        /\ clockHand' = i
        /\ thrown' = Nothing
    BY <2>2
  <2>4. /\ D \in [Keys -> Data \cup {Gone}] /\ D[k] # Gone
        /\ \A l \in Keys : g[l] # NoFrame => D[l] # Gone
    BY <2>1 DEF IInv, HashSound
  <2>5. IInv'
    <3>1. Puts(e, g, D, k, Empty, i)
      BY <1>3, <2>1, <2>3, <2>4 DEF Puts
    <3>. QED BY <1>1, <3>1, PutPage
  <2>6. PinnedFrameStays
    <3>1. desc[i].pinCnt = 0 /\ e \in [Frames -> Desc]
      BY <1>3, <2>1 DEF WellFormed
    <3>2. \A j \in Frames : j # i => desc'[j] = e[j]
      BY <2>3, <3>1
    <3>. QED BY <3>1, <3>2, AllocKeepsPinned DEF PinnedFrameStays, Key
  <2>7. NoCorruptionThrown'
    BY <2>3 DEF NoCorruptionThrown, Nothing
  <2>. QED BY <2>5, <2>6, <2>7 DEF Safe
<1>. QED BY <1>2, <1>4, <1>5, <1>6

\* A descriptor with another pin count and dirty bit.
Repinned(r, n, b) == [r EXCEPT !.pinCnt = n, !.dirty = b]

(* unPinPage changes one descriptor, and lowers its pin count by one.      *)
LEMMA UnPinPageSafe ==
  ASSUME IInv, NEW k \in Keys, NEW isDirty \in BOOLEAN, unPinPage(k, isDirty)
  PROVE  Safe
<1>1. /\ WellFormed(desc) /\ Sound(desc, hash) /\ TablesOK
      /\ \A j \in Frames : desc[j] \in Desc
  BY InvariantIsWellFormed DEF IInv, TablesOK
<1> DEFINE i == hash[k]
<1>2. CASE desc' = desc
  <2>1. thrown' = Nothing \/ thrown' = Threw("unpin", "PageNotPinned")
    <3>1. i # NoFrame /\ desc[i].pinCnt # 0 => thrown' = Nothing
      BY DEF unPinPage
    <3>. QED BY <3>1 DEF unPinPage
  <2>2. IInv'
    <3>1. Threw("unpin", "PageNotPinned") \in [op : Ops, exc : Exceptions]
      BY DEF Threw, Ops, Exceptions
    <3>. QED BY <1>1, <1>2, <2>1, <3>1, KeepPool
             DEF unPinPage, TablesOK, IInv, HashSound
  <2>3. PinnedFrameStays
    BY <1>2, UntouchedFramesStay
  <2>4. NoCorruptionThrown'
    BY <2>1 DEF NoCorruptionThrown, Nothing, Threw
  <2>. QED BY <2>2, <2>3, <2>4 DEF Safe
<1>3. CASE desc' # desc
  <2>1. /\ i # NoFrame /\ desc[i].pinCnt # 0
        /\ desc' = [desc EXCEPT ![i].pinCnt = @ - 1,
                                ![i].dirty = @ \/ isDirty]
        /\ thrown' = Nothing
    BY <1>3 DEF unPinPage
  <2>2. i \in Frames /\ desc[i].valid /\ desc[i].pinCnt \in Nat \ {0}
        /\ desc[i].dirty \in BOOLEAN
    BY <1>1, <2>1 DEF Sound, Desc
  <2> DEFINE dirty == desc[i].dirty \/ isDirty
  <2>0. /\ desc'[i] = Repinned(desc[i], desc[i].pinCnt - 1, dirty)
        /\ dirty \in BOOLEAN
        /\ \A j \in Frames : j # i => desc'[j] = desc[j]
    BY <1>1, <2>1, <2>2 DEF WellFormed, Repinned
  <2>3. PICK b \in BOOLEAN :
          /\ desc'[i] = Repinned(desc[i], desc[i].pinCnt - 1, b)
          /\ \A j \in Frames : j # i => desc'[j] = desc[j]
    <3> HIDE DEF dirty
    <3>. QED BY <2>0
  <2>4. /\ desc'[i] \in Desc
        /\ desc'[i].pinCnt = desc[i].pinCnt - 1
        /\ desc'[i].file = desc[i].file
        /\ desc'[i].pageNo = desc[i].pageNo
        /\ desc'[i].valid = desc[i].valid
    <3>1. desc[i].pinCnt - 1 \in Nat /\ desc[i] \in Desc
      BY <1>1, <2>2
    <3>2. ASSUME NEW r \in Desc, NEW n \in Nat
          PROVE  LET q == Repinned(r, n, b) IN
                 /\ q \in Desc /\ q.pinCnt = n
                 /\ q.file = r.file /\ q.pageNo = r.pageNo
                 /\ q.valid = r.valid
      BY <2>3 DEF Desc, Repinned
    <3> DEFINE n == desc[i].pinCnt - 1
               r == desc[i]
               q == Repinned(r, n, b)
    <3>3. n \in Nat /\ r \in Desc
      BY <3>1
    <3>4. desc'[i] = q
      BY <2>3
    <3>5. /\ q \in Desc /\ q.pinCnt = n
          /\ q.file = r.file /\ q.pageNo = r.pageNo
          /\ q.valid = r.valid
      <4> HIDE DEF n, r
      <4>. QED BY <3>2, <3>3
    <3>. QED BY <3>4, <3>5
  <2>5. /\ desc' \in [Frames -> Desc]
        /\ \A j \in Frames : /\ Key(desc', j) = Key(desc, j)
                             /\ desc'[j].valid = desc[j].valid
                             /\ desc'[j].pageNo = desc[j].pageNo
                             /\ j = i => desc'[j].pinCnt = desc[j].pinCnt - 1
    BY <1>1, <2>1, <2>2, <2>3, <2>4 DEF Key, WellFormed
  <2>6. WellFormed(desc')
    BY <1>1, <2>2, <2>3, <2>4, <2>5 DEF WellFormed
  <2>7. Sound(desc', hash)
    BY <1>1, <2>5 DEF Sound
  <2>8. IInv'
    BY <1>1, <2>1, <2>6, <2>7, KeepPool DEF unPinPage, TablesOK, IInv, HashSound
  <2>9. PinnedFrameStays
    BY <1>1, <2>2, <2>3, <2>5 DEF PinnedFrameStays, WellFormed, Clear, Desc
  <2>10. NoCorruptionThrown'
    BY <2>1 DEF NoCorruptionThrown, Nothing
  <2>. QED BY <2>8, <2>9, <2>10 DEF Safe
<1>. QED BY <1>2, <1>3

(* disposePage clears the frame and the hash entry together with the page, *)
(* and refuses a pinned one.                                               *)
LEMMA DisposePageSafe ==
  ASSUME IInv, NEW k \in Keys, disposePage(k)
  PROVE  Safe
<1>1. /\ WellFormed(desc) /\ Sound(desc, hash) /\ TablesOK
      /\ \A j \in Frames : desc[j] \in Desc
  BY InvariantIsWellFormed DEF IInv, TablesOK
<1> DEFINE i == hash[k]
<1>2. /\ thrown' \in {Nothing, Threw("dispose", "PagePinned"),
                     Threw("dispose", "InvalidPage")}
      /\ pool' = pool /\ clockHand' = clockHand
  BY DEF disposePage
<1>3. thrown' = Nothing \/ thrown' \in [op : Ops, exc : Exceptions]
  BY <1>2 DEF Threw, Ops, Exceptions
<1>4. NoCorruptionThrown'
  BY <1>2 DEF NoCorruptionThrown, Nothing, Threw
<1>5. CASE i # NoFrame /\ desc[i].pinCnt > 0
  <2>1. desc' = desc /\ hash' = hash /\ disk' = disk
    BY <1>5 DEF disposePage
  <2>2. IInv'
    BY <1>1, <1>2, <1>3, <2>1, KeepPool DEF TablesOK, IInv, HashSound
  <2>3. PinnedFrameStays
    BY <2>1, UntouchedFramesStay
  <2>. QED BY <1>4, <2>2, <2>3 DEF Safe
<1>6. CASE i = NoFrame
  <2>1. desc' = desc /\ hash' = hash /\ disk' = [disk EXCEPT ![k] = Gone]
    BY <1>6 DEF disposePage
  <2>2. IInv'
    BY <1>1, <1>2, <1>3, <1>6, <2>1, KeepPool DEF TablesOK, IInv, HashSound
  <2>3. PinnedFrameStays
    BY <2>1, UntouchedFramesStay
  <2>. QED BY <1>4, <2>2, <2>3 DEF Safe
<1>7. CASE i # NoFrame /\ ~(desc[i].pinCnt > 0)
  <2>1. /\ desc' = [desc EXCEPT ![i] = Clear]
        /\ hash' = [hash EXCEPT ![k] = NoFrame]
        /\ disk' = [disk EXCEPT ![k] = Gone]
    BY <1>7 DEF disposePage
  <2>2. i \in Frames /\ Key(desc, i) = k
    BY <1>1, <1>7 DEF Sound
  <2>3. WellFormed(desc')
    <3>1. Clear \in Desc /\ ~Clear.valid
      BY DEF Clear, Desc
    <3>2. desc' \in [Frames -> Desc] /\ desc'[i] = Clear
          /\ \A j \in Frames : j # i => desc'[j] = desc[j]
      BY <1>1, <2>1, <2>2, <3>1 DEF WellFormed
    <3>. QED BY <1>1, <3>1, <3>2 DEF WellFormed, Key
  <2>4. Sound(desc', hash')
    <3>1. hash' \in [Keys -> Frames \cup {NoFrame}]
      BY <1>1, <2>1 DEF Sound
    <3>2. ASSUME NEW l \in Keys, hash'[l] # NoFrame
          PROVE  desc'[hash'[l]].valid /\ Key(desc', hash'[l]) = l
      <4>1. l # k /\ hash'[l] = hash[l]
        BY <1>1, <2>1, <3>2 DEF Sound
      <4>2. hash[l] \in Frames /\ hash[l] # i
        BY <1>1, <2>2, <3>2, <4>1 DEF Sound
      <4>3. desc'[hash[l]] = desc[hash[l]]
        BY <1>1, <2>1, <4>2 DEF WellFormed
      <4>. QED BY <1>1, <3>2, <4>1, <4>2, <4>3 DEF Sound, Key
    <3>. QED BY <3>1, <3>2 DEF Sound
  <2>5. IInv'
    <3>1. \A l \in Keys : hash'[l] # NoFrame => disk'[l] # Gone
      BY <1>1, <2>1 DEF TablesOK, IInv, HashSound
    <3>2. disk' \in [Keys -> Data \cup {Gone}] /\ clockHand' \in Frames
      BY <1>1, <1>2, <2>1 DEF TablesOK
    <3>. QED BY <1>1, <1>2, <1>3, <2>3, <2>4, <3>1, <3>2, KeepPool
  <2>6. PinnedFrameStays
    <3>1. ASSUME NEW j \in Frames, desc[j].pinCnt > 0
          PROVE  desc'[j] = desc[j]
      BY <1>1, <1>7, <2>1, <2>2, <3>1 DEF WellFormed
    <3>. QED BY <3>1, UntouchedFramesStay
  <2>. QED BY <1>4, <2>5, <2>6 DEF Safe
<1>. QED BY <1>5, <1>6, <1>7

(* flushFile keeps the invariant when it throws half way, too.             *)
LEMMA FlushFileSafe ==
  ASSUME IInv, NEW f \in Files, flushFile(f)
  PROVE  Safe
<1>1. /\ WellFormed(desc) /\ Sound(desc, hash) /\ TablesOK
      /\ \A j \in Frames : desc[j] \in Desc
  BY InvariantIsWellFormed DEF IInv, TablesOK
<1>2. /\ desc' = FlushDesc(desc, hash, f)
      /\ hash' = FlushHash(desc, hash, f)
      /\ disk' = FlushDisk(desc, hash, f)
      /\ pool' = pool /\ clockHand' = clockHand
  BY DEF flushFile
<1>3. thrown' = Nothing \/ \E exc \in {"PagePinned", "InvalidPage",
                                      "HashNotFound"} :
                            thrown' = Threw("flush", exc)
  BY <1>1, FlushExceptionType DEF flushFile
<1>4. thrown' = Nothing \/ thrown' \in [op : Ops, exc : Exceptions]
  BY <1>3 DEF Threw, Ops, Exceptions
<1>5. IInv'
  <2>1. \A k \in Keys : hash'[k] # NoFrame => disk'[k] # Gone
    BY <1>1, <1>2, FlushFacts DEF IInv, HashSound
  <2>2. /\ WellFormed(desc') /\ Sound(desc', hash')
        /\ disk' \in [Keys -> Data \cup {Gone}]
    BY <1>1, <1>2, FlushFacts
  <2>3. clockHand' \in Frames
    BY <1>1, <1>2 DEF TablesOK
  <2>. QED BY <1>1, <1>2, <1>4, <2>1, <2>2, <2>3, KeepPool
<1>6. PinnedFrameStays
  <2>1. \A i \in Frames : desc[i].pinCnt > 0 => desc'[i] = desc[i]
    BY <1>1, <1>2, FlushFacts
  <2>. QED BY <2>1, UntouchedFramesStay
<1>7. NoCorruptionThrown'
  BY <1>3 DEF NoCorruptionThrown, Nothing, Threw
<1>. QED BY <1>5, <1>6, <1>7 DEF Safe

(* A client that writes through its Page pointer changes no page number.   *)
LEMMA ChangePageSafe ==
  ASSUME IInv, NEW i \in Frames, NEW data \in Data, ChangePage(i, data)
  PROVE  Safe
<1>1. /\ WellFormed(desc) /\ TablesOK /\ \A j \in Frames : desc[j] \in Desc
  BY InvariantIsWellFormed DEF IInv, TablesOK
<1>2. /\ pool' = [pool EXCEPT ![i].data = data] /\ thrown' = Nothing
      /\ desc' = desc /\ hash' = hash /\ clockHand' = clockHand
      /\ disk' = disk
  BY DEF ChangePage
<1>3. pool' \in [Frames -> [number : PageIds \cup {NoPage},
                            data : Data \cup {Gone}]]
  BY <1>1, <1>2 DEF TablesOK
<1>4. TablesOK'
  BY <1>1, <1>2, <1>3 DEF TablesOK
<1>5. \A j \in Frames : pool'[j].number = pool[j].number
                        /\ pool'[j].data \in {pool[j].data, data}
  BY <1>1, <1>2 DEF TablesOK
<1>6. FramesWellFormed'
  BY <1>2, <1>5 DEF IInv, FramesWellFormed, Key
<1>7. HashSound'
  BY <1>2 DEF IInv, HashSound, Key
<1>8. PinnedFrameStays
  BY <1>2, UntouchedFramesStay
<1>9. NoCorruptionThrown'
  BY <1>2 DEF NoCorruptionThrown, Nothing
<1>. QED BY <1>4, <1>6, <1>7, <1>8, <1>9 DEF Safe, IInv

(* The destructor: what its flushes leave on disk is still pages.          *)
LEMMA RestartSafe ==
  ASSUME IInv, restart
  PROVE  IInv' /\ NoCorruptionThrown'
<1>1. /\ WellFormed(desc) /\ Sound(desc, hash) /\ TablesOK
  BY InvariantIsWellFormed DEF IInv
<1>2. \A k \in Keys : disk'[k] \in Data \cup {Gone}
  <2>1. ASSUME NEW k \in Keys PROVE disk'[k] \in Data \cup {Gone}
    <3>1. k[1] \in Files
      BY DEF Keys
    <3>2. FlushDisk(desc, hash, k[1])[k] \in Data \cup {Gone}
      BY <1>1, <3>1, FlushFacts
    <3>. QED BY <1>1, <3>2 DEF restart, TablesOK
  <2>. QED BY <2>1
<1>3. disk' \in [Keys -> Data \cup {Gone}]
  BY <1>2 DEF restart
<1>4. thrown' = Nothing \/ \E exc \in {"PagePinned", "InvalidPage",
                                      "HashNotFound"} :
                            thrown' = Threw("destroy", exc)
  <2>1. CASE \E i \in Frames : AtExitThrows(i)
    <3> DEFINE first(i) == /\ AtExitThrows(i)
                           /\ \A j \in Frames : j < i => ~AtExitThrows(j)
               c == CHOOSE i \in Frames : first(i)
               A == {i \in Frames : AtExitThrows(i)}
    <3>1. PICK a \in A : \A j \in A : a <= j
      <4>1. A \in SUBSET Frames /\ A # {}
        BY <2>1
      <4>. QED BY <4>1, FirstAndLastFrame
    <3>2. first(a)
      <4>1. ASSUME NEW j \in Frames, j < a PROVE ~AtExitThrows(j)
        <5>1. ~(a <= j)
          BY <4>1 DEF Frames
        <5>. QED BY <3>1, <5>1
      <4>. QED BY <4>1
    <3>3. c \in Frames /\ AtExitThrows(c)
      BY <3>2
    <3>4. thrown' = Threw("destroy", FlushException(desc, hash, desc[c].file))
      BY <2>1 DEF restart
    <3> HIDE DEF c
    <3>5. desc[c].dirty /\ FlushThrows(desc, hash, desc[c].file)
      BY <3>3 DEF AtExitThrows
    <3>6. desc[c].file \in Files
      <4>1. desc[c].valid
        BY <1>1, <3>3, <3>5 DEF WellFormed, Clear
      <4>. QED BY <1>1, <3>3, <4>1 DEF WellFormed, Key, Keys
    <3>. QED BY <1>1, <3>4, <3>5, <3>6, FlushExceptionType
  <2>2. CASE ~\E i \in Frames : AtExitThrows(i)
    BY <2>2 DEF restart
  <2>. QED BY <2>1, <2>2
<1>5. thrown' = Nothing \/ thrown' \in [op : Ops, exc : Exceptions]
  BY <1>4 DEF Threw, Ops, Exceptions
<1>6. /\ desc' = [i \in Frames |-> Clear]
      /\ pool' = [i \in Frames |-> [number |-> NoPage, data |-> Gone]]
      /\ hash' = [k \in Keys |-> NoFrame]
      /\ clockHand' = NumBufs - 1
  BY DEF restart
<1>7. Clear \in Desc /\ ~Clear.valid /\ NumBufs - 1 \in Frames
  BY DEF Clear, Desc, Frames
<1>8. TablesOK'
  BY <1>3, <1>5, <1>6, <1>7 DEF TablesOK
<1>9. FramesWellFormed' /\ HashSound'
  BY <1>6, <1>7 DEF FramesWellFormed, HashSound
<1>10. NoCorruptionThrown'
  BY <1>4 DEF NoCorruptionThrown, Nothing, Threw
<1>. QED BY <1>8, <1>9, <1>10 DEF IInv

-----------------------------------------------------------------------------
(* The theorems.                                                           *)

(* A new buffer manager over empty files satisfies the invariant.          *)
LEMMA InitInvariant == Init => IInv /\ NoCorruptionThrown
<1> SUFFICES ASSUME Init PROVE IInv /\ NoCorruptionThrown
  OBVIOUS
<1>1. Clear \in Desc /\ ~Clear.valid /\ NumBufs - 1 \in Frames
  BY DEF Clear, Desc, Frames
<1>2. TablesOK
  BY <1>1 DEF Init, FreshPool, TablesOK
<1>3. FramesWellFormed /\ HashSound
  BY <1>1 DEF Init, FreshPool, FramesWellFormed, HashSound
<1>. QED BY <1>2, <1>3 DEF IInv, Init, NoCorruptionThrown, Nothing

(* Every step of any client keeps the invariant, moves no pinned frame     *)
(* unless it destroys the manager, and reports no corruption.              *)
LEMMA StepSafe ==
  ASSUME IInv, NoCorruptionThrown, [Next]_vars
  PROVE  /\ IInv' /\ NoCorruptionThrown'
         /\ restart \/ PinnedFrameStays \/ UNCHANGED vars
<1>1. ASSUME NEW k \in Keys, readPage(k) PROVE Safe
  BY <1>1, ReadPageSafe
<1>2. ASSUME NEW f \in Files, allocPage(f) PROVE Safe
  BY <1>2, AllocPageSafe
<1>3. ASSUME NEW k \in Keys, disposePage(k) PROVE Safe
  BY <1>3, DisposePageSafe
<1>4. ASSUME NEW k \in Keys, NEW isDirty \in BOOLEAN, unPinPage(k, isDirty)
      PROVE  Safe
  BY <1>4, UnPinPageSafe
<1>5. ASSUME NEW f \in Files, flushFile(f) PROVE Safe
  BY <1>5, FlushFileSafe
<1>6. ASSUME NEW i \in Frames, NEW data \in Data, ChangePage(i, data)
      PROVE  Safe
  BY <1>6, ChangePageSafe
<1>7. CASE restart
  BY <1>7, RestartSafe
<1>8. CASE UNCHANGED vars
  BY <1>8 DEF vars, IInv, TablesOK, FramesWellFormed, HashSound, Key,
              NoCorruptionThrown
<1>. QED BY <1>1, <1>2, <1>3, <1>4, <1>5, <1>6, <1>7, <1>8 DEF Next, Safe

(* The inductive invariant holds of every behaviour, and no step reports a *)
(* corrupted table.                                                        *)
THEOREM Invariant == Spec => [](IInv /\ NoCorruptionThrown)
<1>1. Init => IInv /\ NoCorruptionThrown
  BY InitInvariant
<1>2. IInv /\ NoCorruptionThrown /\ [Next]_vars
        => (IInv /\ NoCorruptionThrown)'
  BY StepSafe
<1>. QED BY <1>1, <1>2, PTL DEF Spec

(* The page lists change only when a page is allocated.                    *)
LEMMA ListsChange ==
  ASSUME [Next]_vars
  PROVE  \/ lists' = lists
         \/ \E k \in Keys : allocPage(k[1]) /\ lists' = WithPage(lists, Live, k)
<1>1. ASSUME NEW f \in Files, allocPage(f)
      PROVE  \/ lists' = lists
             \/ \E k \in Keys : k[1] = f /\ lists' = WithPage(lists, Live, k)
  BY <1>1 DEF allocPage, AllocOnly
<1>2. ASSUME NEW k \in Keys, readPage(k) PROVE lists' = lists
  BY <1>2 DEF readPage, ReadHit, ReadMiss, AllocOnly
<1>3. ASSUME NEW k \in Keys, disposePage(k) PROVE lists' = lists
  BY <1>3 DEF disposePage
<1>4. ASSUME NEW k \in Keys, NEW isDirty \in BOOLEAN, unPinPage(k, isDirty)
      PROVE  lists' = lists
  BY <1>4 DEF unPinPage
<1>5. ASSUME NEW f \in Files, flushFile(f) PROVE lists' = lists
  BY <1>5 DEF flushFile
<1>6. ASSUME NEW i \in Frames, NEW data \in Data, ChangePage(i, data)
      PROVE  lists' = lists
  BY <1>6 DEF ChangePage
<1>7. CASE restart
  BY <1>7 DEF restart
<1>8. CASE UNCHANGED vars
  BY <1>8 DEF vars
<1>. QED BY <1>1, <1>2, <1>3, <1>4, <1>5, <1>6, <1>7, <1>8 DEF Next

(* Type correctness of the buffer manager.                                 *)
THEOREM TypeCorrect == Spec => []TypeOK
<1>. DEFINE ListsOK == lists \in PageListsOf(Keys, Files)
<1>1. Init => ListsOK
  BY DEF Init, NewLists, PageListsOf
<1>2. ListsOK /\ [Next]_vars => ListsOK'
  <2>1. ASSUME ListsOK, NEW k \in Keys, lists' = WithPage(lists, Live, k)
        PROVE  ListsOK'
    <3>1. k[1] \in Files
      BY DEF Keys
    <3>. QED BY <2>1, <3>1 DEF WithPage, PageListsOf
  <2>. QED BY <2>1, ListsChange
<1>3. Spec => []ListsOK
  BY <1>1, <1>2, PTL DEF Spec
<1>4. IInv /\ ListsOK => TypeOK
  BY DEF IInv, TypeOK
<1>. QED BY <1>3, <1>4, Invariant, PTL

(* flushFile can trust every frame, whatever threw before.                 *)
THEOREM DescriptorsCorrect == Spec => []FramesWellFormed
  BY Invariant, PTL DEF IInv

(* A hit of readPage leads to a valid frame with the page asked for, and   *)
(* the page exists.                                                        *)
THEOREM HashTableSound == Spec => []HashSound
  BY Invariant, PTL DEF IInv

(* BadBuffer and HashAlreadyPresent are never thrown.                      *)
THEOREM NoCorruption == Spec => []NoCorruptionThrown
  BY Invariant, PTL

(* The Page pointer of a pinned page stays good until the manager goes.    *)
THEOREM PinnedPagesStay == Spec => PinnedFramesStay
<1>1. IInv /\ NoCorruptionThrown /\ [Next]_vars
        => [restart \/ PinnedFrameStays]_vars
  BY StepSafe
<1>. QED BY <1>1, Invariant, PTL DEF Spec, PinnedFramesStay

-----------------------------------------------------------------------------
(* A careful client.                                                       *)
(*                                                                         *)
(* What PoolIsHashed and CleanFramesMatchDisk say of the state is said     *)
(* here of any tables, frame by frame, so that it can be followed through  *)
(* flushFile and allocBuf; and so are the content and the pins of a page.  *)

TightAt(d, h, i) == d[i].valid => h[Key(d, i)] = i

CleanAt(d, p, D, i) ==
  d[i].valid /\ d[i].pinCnt = 0 /\ ~d[i].dirty => p[i].data = D[Key(d, i)]

Current(h, p, D) ==
  [k \in Keys |-> IF h[k] # NoFrame THEN p[h[k]].data ELSE D[k]]

PinsOf(d, h) ==
  [k \in Keys |-> IF h[k] # NoFrame THEN d[h[k]].pinCnt ELSE 0]

Content == Current(hash, pool, disk)
Pins == PinsOf(desc, hash)

\* The descriptors a careful client's call may have in hand.
Faithful(d) ==
  /\ WellFormed(d) /\ Sound(d, hash)
  /\ \A k \in Keys : hash[k] # NoFrame => disk[k] # Gone
  /\ \A i \in Frames : TightAt(d, hash, i) /\ CleanAt(d, pool, disk, i)

CarefulInv ==
  /\ IInv /\ NoCorruptionThrown /\ PoolIsHashed /\ CleanFramesMatchDisk
  /\ lists.disordered = {}

-----------------------------------------------------------------------------
(* flushFile.                                                              *)

(* A frame of a file is refused for its pins alone.                        *)
LEMMA CarefulRefusal ==
  ASSUME NEW d, Faithful(d), NEW f \in Files, NEW i \in Own(d, f)
  PROVE  /\ i \in Frames /\ d[i].valid /\ Key(d, i) \in Keys /\ hash[Key(d, i)] = i
         /\ d[i].pinCnt \in Nat
         /\ Refusal(d, hash, f, i) = IF d[i].pinCnt > 0 THEN "PagePinned" ELSE "ok"
<1>1. i \in Frames /\ d[i].file = f
  BY DEF Own
<1>2. d[i].valid
  BY <1>1 DEF Faithful, WellFormed, Clear
<1>3. /\ Key(d, i) \in Keys /\ pool[i].number = d[i].pageNo /\ d[i].pinCnt \in Nat
      /\ hash[Key(d, i)] = i
  BY <1>1, <1>2 DEF Faithful, WellFormed, Desc, TightAt
<1>4. i # NoFrame
  BY <1>1 DEF Frames, NoFrame
<1>5. disk[Key(d, i)] # Gone
  BY <1>3, <1>4 DEF Faithful
<1>6. ASSUME NEW j \in Own(d, f), j < i, d[j].pageNo = d[i].pageNo PROVE FALSE
  <2>1. j \in Frames /\ d[j].file = f
    BY DEF Own
  <2>2. d[j].valid
    BY <2>1 DEF Faithful, WellFormed, Clear
  <2>3. Key(d, j) = Key(d, i)
    BY <1>1, <1>6, <2>1 DEF Key
  <2>4. j = i
    BY <1>3, <2>1, <2>2, <2>3 DEF Faithful, TightAt
  <2>. QED BY <1>1, <1>6, <2>4 DEF Frames
<1>. QED BY <1>1, <1>2, <1>3, <1>4, <1>5, <1>6 DEF Refusal

(* No two frames have the same page.                                       *)
LEMMA OneFramePerPage ==
  ASSUME NEW d, Faithful(d), NEW i \in Frames, d[i].valid
  PROVE  /\ Key(d, i) \in Keys /\ hash[Key(d, i)] = i /\ i # NoFrame
         /\ \A j \in Frames : d[j].valid /\ Key(d, j) = Key(d, i) => j = i
BY DEF Faithful, WellFormed, TightAt, Frames, NoFrame

(* The frames flushFile finishes with are unpinned, and a page's frame is  *)
(* the only one that can be written for it.                                *)
LEMMA CarefulFlushed ==
  ASSUME NEW d, Faithful(d), NEW f \in Files
  PROVE  /\ \A i \in Flushed(d, hash, f) :
              i \in Frames /\ d[i].valid /\ d[i].pinCnt = 0 /\ hash[Key(d, i)] = i
         /\ \A i : i \in Written(d, hash, f) <=> i \in Flushed(d, hash, f) /\ d[i].dirty
<1>1. \A i \in Flushed(d, hash, f) : i \in Own(d, f) /\ Refusal(d, hash, f, i) = "ok"
  BY DEF Flushed, Own, Frames
<1>2. ASSUME NEW i \in Flushed(d, hash, f)
      PROVE  i \in Frames /\ d[i].valid /\ d[i].pinCnt = 0 /\ hash[Key(d, i)] = i
  BY <1>1, CarefulRefusal
<1>3. \A i \in Own(d, f) : Refusal(d, hash, f, i) # "HashNotFound"
  BY CarefulRefusal
<1>. QED BY <1>1, <1>2, <1>3 DEF Written

(* What flushFile leaves on disk: the page's frame, if it was dirty and    *)
(* flushFile got to it.                                                    *)
LEMMA CarefulFlushDisk ==
  ASSUME NEW d, Faithful(d), NEW f \in Files, NEW k \in Keys
  PROVE  FlushDisk(d, hash, f)[k] =
           IF hash[k] \in Flushed(d, hash, f) /\ d[hash[k]].dirty
           THEN pool[hash[k]].data ELSE disk[k]
<1>1. \A i \in Written(d, hash, f) : Key(d, i) = k => i = hash[k] /\ i \in Frames
  BY CarefulFlushed
<1>2. CASE hash[k] \in Flushed(d, hash, f) /\ d[hash[k]].dirty
  <2>1. hash[k] \in Written(d, hash, f) /\ hash[k] \in Frames /\ hash[k] # NoFrame
    BY <1>2, CarefulFlushed DEF Frames, NoFrame
  <2>2. Key(d, hash[k]) = k
    BY <2>1 DEF Faithful, Sound
  <2>. DEFINE last(i) == /\ Key(d, i) = k
                         /\ \A j \in Written(d, hash, f) : Key(d, j) = k => j <= i
              w == CHOOSE i \in Written(d, hash, f) : last(i)
  <2>3. last(hash[k])
    BY <1>1, <2>1, <2>2 DEF Frames
  <2>4. w \in Written(d, hash, f) /\ Key(d, w) = k
    BY <2>1, <2>3
  <2>5. w = hash[k]
    BY <1>1, <2>4
  <2>6. FlushDisk(d, hash, f)[k] = pool[w].data
    BY <2>1, <2>2 DEF FlushDisk
  <2>. QED BY <1>2, <2>5, <2>6
<1>3. CASE ~(hash[k] \in Flushed(d, hash, f) /\ d[hash[k]].dirty)
  <2>1. ~\E i \in Written(d, hash, f) : Key(d, i) = k
    BY <1>1, <1>3, CarefulFlushed
  <2>. QED BY <1>3, <2>1 DEF FlushDisk
<1>. QED BY <1>2, <1>3

(* flushFile leaves the frames it does not finish with findable and clean, *)
(* changes no page's content and no pins; it throws for a pinned frame.    *)
LEMMA CarefulFlush ==
  ASSUME TablesOK, NEW d, Faithful(d), NEW f \in Files
  PROVE  LET e == FlushDesc(d, hash, f)
             g == FlushHash(d, hash, f)
             D == FlushDisk(d, hash, f)
         IN  /\ \A i \in Frames : TightAt(e, g, i) /\ CleanAt(e, pool, D, i)
             /\ Current(g, pool, D) = Content
             /\ PinsOf(e, g) = PinsOf(d, hash)
             /\ FlushThrows(d, hash, f) => \E i \in Frames : d[i].pinCnt > 0
<1>. DEFINE e == FlushDesc(d, hash, f)
            g == FlushHash(d, hash, f)
            D == FlushDisk(d, hash, f)
            F == Flushed(d, hash, f)
<1>1. \A i \in F : i \in Frames /\ d[i].valid /\ d[i].pinCnt = 0 /\ hash[Key(d, i)] = i
  BY CarefulFlushed
<1>2. \A i \in Frames : e[i] = IF i \in F THEN Clear ELSE d[i]
  BY DEF FlushDesc
<1>3. ASSUME NEW k \in Keys
      PROVE  g[k] = IF hash[k] \in F THEN NoFrame ELSE hash[k]
  <2>1. (\E i \in F : Key(d, i) = k) <=> hash[k] \in F
    <3>1. ASSUME NEW i \in F, Key(d, i) = k PROVE hash[k] \in F
      BY <1>1, <3>1
    <3>2. ASSUME hash[k] \in F PROVE Key(d, hash[k]) = k
      <4>1. hash[k] # NoFrame
        BY <1>1, <3>2 DEF Frames, NoFrame
      <4>. QED BY <4>1 DEF Faithful, Sound
    <3>. QED BY <3>1, <3>2
  <2>. QED BY <2>1 DEF FlushHash
<1>4. \A k \in Keys : D[k] = IF hash[k] \in F /\ d[hash[k]].dirty
                             THEN pool[hash[k]].data ELSE disk[k]
  BY CarefulFlushDisk
<1>5. NoFrame \notin F
  BY <1>1 DEF Frames, NoFrame
<1>. HIDE DEF e, g, D, F
<1>6. ASSUME NEW i \in Frames PROVE TightAt(e, g, i) /\ CleanAt(e, pool, D, i)
  <2>1. CASE i \in F
    BY <1>2, <2>1 DEF TightAt, CleanAt, Clear
  <2>2. CASE i \notin F /\ d[i].valid
    <3>1. e[i] = d[i] /\ Key(e, i) = Key(d, i)
      BY <1>2, <2>2 DEF Key
    <3>2. Key(d, i) \in Keys /\ hash[Key(d, i)] = i
      BY <2>2, OneFramePerPage
    <3>3. g[Key(d, i)] = i /\ D[Key(d, i)] = disk[Key(d, i)]
      BY <1>3, <1>4, <2>2, <3>2
    <3>. QED BY <3>1, <3>3 DEF TightAt, CleanAt, Faithful
  <2>3. CASE i \notin F /\ ~d[i].valid
    BY <1>2, <2>3 DEF TightAt, CleanAt
  <2>. QED BY <2>1, <2>2, <2>3
<1>7. ASSUME NEW k \in Keys
      PROVE  /\ Current(g, pool, D)[k] = Content[k]
             /\ PinsOf(e, g)[k] = PinsOf(d, hash)[k]
  <2>1. CASE hash[k] \in F
    <3>1. /\ hash[k] \in Frames /\ d[hash[k]].valid /\ d[hash[k]].pinCnt = 0
          /\ hash[k] # NoFrame /\ g[k] = NoFrame
      BY <1>1, <1>3, <1>5, <2>1
    <3>2. Key(d, hash[k]) = k
      BY <3>1 DEF Faithful, Sound
    <3>3. D[k] = pool[hash[k]].data
      BY <1>4, <2>1, <3>1, <3>2 DEF Faithful, CleanAt
    <3>. QED BY <3>1, <3>3 DEF Current, PinsOf, Content
  <2>2. CASE hash[k] \notin F
    <3>1. g[k] = hash[k] /\ D[k] = disk[k]
      BY <1>3, <1>4, <2>2
    <3>2. hash[k] # NoFrame => hash[k] \in Frames /\ e[hash[k]] = d[hash[k]]
      BY <1>2, <2>2 DEF Faithful, Sound
    <3>. QED BY <3>1, <3>2 DEF Current, PinsOf, Content
  <2>. QED BY <2>1, <2>2
<1>8. ASSUME FlushThrows(d, hash, f) PROVE \E i \in Frames : d[i].pinCnt > 0
  <2>1. PICK i \in Own(d, f) : Refusal(d, hash, f, i) # "ok"
    BY <1>8 DEF FlushThrows, ThrowsAt
  <2>. QED BY <2>1, CarefulRefusal
<1>9. Current(g, pool, D) = Content /\ PinsOf(e, g) = PinsOf(d, hash)
  BY <1>7 DEF Current, PinsOf, Content
<1>. QED BY <1>6, <1>8, <1>9 DEF e, g, D

-----------------------------------------------------------------------------
(* allocBuf.                                                               *)

(* So does allocBuf, but for the frame it returns, which is not to be      *)
(* found any more; and when it throws some frame is pinned.                *)
LEMMA CarefulAlloc ==
  ASSUME TablesOK, NEW d, Faithful(d), NEW i \in Frames
  PROVE  LET e == AllocDesc(d, i)
             g == AllocHash(d, i)
             D == AllocDisk(d, i)
             throws == ~Succeeds(AllocOutcome(d, i))
         IN  /\ \A j \in Frames : j # i \/ throws =>
                  TightAt(e, g, j) /\ CleanAt(e, pool, D, j)
             /\ Current(g, pool, D) = Content
             /\ PinsOf(e, g) = PinsOf(d, hash)
             /\ throws => \E j \in Frames : d[j].pinCnt > 0
<1>. DEFINE e == AllocDesc(d, i)
            g == AllocHash(d, i)
            D == AllocDisk(d, i)
            outcome == AllocOutcome(d, i)
            f == d[i].file
<1>1. CASE Flushes(d, i)
  <2>1. d[i].valid /\ d[i].pinCnt = 0 /\ d[i].dirty /\ f \in Files
    BY <1>1 DEF Flushes, Faithful, WellFormed, Key, Keys
  <2>2. /\ e = FlushDesc(d, hash, f) /\ g = FlushHash(d, hash, f)
        /\ D = FlushDisk(d, hash, f)
    BY <1>1 DEF AllocDesc, AllocHash, AllocDisk
  <2>3. ~Succeeds(outcome) => FlushThrows(d, hash, f)
    BY <2>1 DEF AllocOutcome, Succeeds
  <2>. QED BY <2>1, <2>2, <2>3, CarefulFlush
<1>2. CASE ~Flushes(d, i)
  <2>1. e = d /\ D = disk
    BY <1>2 DEF AllocDesc, AllocDisk
  <2>2. d[i].pinCnt \in Nat /\ (~d[i].valid => d[i].pinCnt = 0)
    BY DEF Faithful, WellFormed, Desc, Clear
  <2>3. CASE d[i].valid /\ d[i].pinCnt > 0
    <3>1. outcome = "BufferExceeded"
      BY <2>3 DEF AllocOutcome
    <3>2. g = hash
      BY <1>2, <3>1 DEF AllocHash
    <3>. QED BY <2>1, <2>3, <3>1, <3>2 DEF Faithful, Content, Succeeds
  <2>4. CASE ~d[i].valid
    <3>1. outcome = "free"
      BY <2>4 DEF AllocOutcome
    <3>2. g = hash
      BY <1>2, <3>1 DEF AllocHash
    <3>. QED BY <2>1, <3>1, <3>2 DEF Faithful, Content, Succeeds
  <2>5. CASE d[i].valid /\ ~(d[i].pinCnt > 0)
    <3>1. d[i].pinCnt = 0 /\ ~d[i].dirty
      BY <1>2, <2>2, <2>5 DEF Flushes, Faithful, WellFormed, Desc
    <3>2. /\ Key(d, i) \in Keys /\ hash[Key(d, i)] = i /\ i # NoFrame
          /\ \A j \in Frames : d[j].valid /\ Key(d, j) = Key(d, i) => j = i
      BY <2>5, OneFramePerPage
    <3>3. outcome = "unhashed"
      BY <2>5, <3>1, <3>2 DEF AllocOutcome
    <3>4. g = [hash EXCEPT ![Key(d, i)] = NoFrame]
      BY <1>2, <3>3 DEF AllocHash
    <3>5. Succeeds(outcome)
      BY <3>3 DEF Succeeds
    <3>6. \A k \in Keys : g[k] = IF k = Key(d, i) THEN NoFrame ELSE hash[k]
      BY <3>4 DEF Faithful, Sound
    <3>. HIDE DEF g
    <3>7. ASSUME NEW j \in Frames, j # i
          PROVE  TightAt(d, g, j) /\ CleanAt(d, pool, disk, j)
      <4>1. d[j].valid => Key(d, j) \in Keys /\ Key(d, j) # Key(d, i)
        BY <3>2, <3>7, OneFramePerPage
      <4>. QED BY <3>6, <4>1 DEF Faithful, TightAt
    <3>8. pool[i].data = disk[Key(d, i)]
      BY <2>5, <3>1 DEF Faithful, CleanAt
    <3>9. ASSUME NEW k \in Keys
          PROVE  /\ Current(g, pool, disk)[k] = Content[k]
                 /\ PinsOf(d, g)[k] = PinsOf(d, hash)[k]
      BY <3>1, <3>2, <3>6, <3>8 DEF Current, Content, PinsOf
    <3>10. Current(g, pool, disk) = Content /\ PinsOf(d, g) = PinsOf(d, hash)
      BY <3>9 DEF Current, Content, PinsOf
    <3>. QED BY <2>1, <3>5, <3>7, <3>10 DEF g
  <2>. QED BY <2>3, <2>4, <2>5
<1>. QED BY <1>1, <1>2

(* The sweep changes nothing that matters here.                            *)
LEMMA CarefulSweep ==
  ASSUME CarefulInv, NEW v \in Visits
  PROVE  /\ Faithful(SweptDesc(v)) /\ Victim(v) \in Frames
         /\ PinsOf(SweptDesc(v), hash) = Pins
         /\ \A i \in Frames : SweptDesc(v)[i].pinCnt = desc[i].pinCnt
<1>. DEFINE d == SweptDesc(v)
<1>1. /\ WellFormed(d) /\ Sound(d, hash) /\ Victim(v) \in Frames
      /\ \A i \in Frames : d[i].pinCnt = desc[i].pinCnt
  BY SweptWellFormed DEF CarefulInv
<1>2. \A i \in Frames : /\ Key(d, i) = Key(desc, i) /\ d[i].valid = desc[i].valid
                        /\ d[i].dirty = desc[i].dirty
  BY SweptFields DEF CarefulInv, IInv, TablesOK, SweptDesc, Key
<1>. HIDE DEF d
<1>3. \A k \in Keys : hash[k] # NoFrame => disk[k] # Gone
  BY DEF CarefulInv, IInv, HashSound
<1>4. \A i \in Frames : TightAt(d, hash, i) /\ CleanAt(d, pool, disk, i)
  BY <1>1, <1>2 DEF CarefulInv, PoolIsHashed, CleanFramesMatchDisk, TightAt, CleanAt
<1>5. PinsOf(d, hash) = Pins
  <2>1. \A k \in Keys : hash[k] # NoFrame => hash[k] \in Frames
    BY <1>1 DEF Sound
  <2>. QED BY <1>1, <2>1 DEF PinsOf, Pins
<1>. QED BY <1>1, <1>3, <1>4, <1>5 DEF Faithful, d

(* The present tables.                                                     *)
LEMMA PresentIsFaithful ==
  ASSUME CarefulInv
  PROVE  Faithful(desc)
BY InvariantIsWellFormed
   DEF CarefulInv, IInv, HashSound, PoolIsHashed, CleanFramesMatchDisk, Faithful,
       TightAt, CleanAt

-----------------------------------------------------------------------------
(* The actions.                                                            *)

\* The frames of the next state.
FramesKept == \A i \in Frames : TightAt(desc', hash', i) /\ CleanAt(desc', pool', disk', i)

\* What a step makes of the page store.
StoreSame == Content' = Content /\ Pins' = Pins
StoreAllocates(k) ==
  Content[k] = Gone /\ Content' = [Content EXCEPT ![k] = Empty]
  /\ Pins' = [Pins EXCEPT ![k] = 1]
StoreReads(k) ==
  Content[k] # Gone /\ Content' = Content /\ Pins' = [Pins EXCEPT ![k] = @ + 1]
StoreChanges(k, data) ==
  Pins[k] > 0 /\ Content' = [Content EXCEPT ![k] = data] /\ Pins' = Pins
StoreGivesBack(k) ==
  Pins[k] > 0 /\ Content' = Content /\ Pins' = [Pins EXCEPT ![k] = @ - 1]
StoreDisposes(k) ==
  Content[k] # Gone /\ Pins[k] = 0
  /\ Content' = [Content EXCEPT ![k] = Gone] /\ Pins' = Pins

StoreStep ==
  \/ StoreSame
  \/ \E k \in Keys :
       \/ StoreAllocates(k) \/ StoreReads(k) \/ StoreGivesBack(k) \/ StoreDisposes(k)
       \/ \E data \in Data : StoreChanges(k, data)

Served == (\E i \in Frames : desc[i].pinCnt > 0) \/ thrown'.op \notin {"read", "alloc"}

Kept == FramesKept /\ StoreStep /\ Served

(* The state in terms of frames.                                           *)
LEMMA FramesInTerms ==
  /\ PoolIsHashed <=> \A i \in Frames : TightAt(desc, hash, i)
  /\ CleanFramesMatchDisk <=> \A i \in Frames : CleanAt(desc, pool, disk, i)
BY DEF PoolIsHashed, CleanFramesMatchDisk, TightAt, CleanAt

(* A call that throws in allocBuf is nothing to the store, and some frame  *)
(* is pinned.                                                              *)
LEMMA AllocOnlyKept ==
  ASSUME CarefulInv, NEW v \in Visits, NEW op, NEW exc,
         ~Succeeds(AllocOutcome(SweptDesc(v), Victim(v))), AllocOnly(v, op, exc)
  PROVE  Kept
<1>. DEFINE d == SweptDesc(v)
            i == Victim(v)
<1>1. /\ Faithful(d) /\ i \in Frames /\ PinsOf(d, hash) = Pins
      /\ \A j \in Frames : d[j].pinCnt = desc[j].pinCnt
  BY CarefulSweep
<1>2. TablesOK
  BY DEF CarefulInv, IInv
<1>3. /\ desc' = AllocDesc(d, i) /\ hash' = AllocHash(d, i)
      /\ disk' = AllocDisk(d, i) /\ pool' = pool
  BY DEF AllocOnly
<1>4. /\ \A j \in Frames : TightAt(desc', hash', j) /\ CleanAt(desc', pool, disk', j)
      /\ Current(hash', pool, disk') = Content
      /\ PinsOf(desc', hash') = PinsOf(d, hash)
      /\ \E j \in Frames : d[j].pinCnt > 0
  BY <1>1, <1>2, <1>3, CarefulAlloc
<1>5. FramesKept
  BY <1>3, <1>4 DEF FramesKept
<1>6. Content' = Current(hash', pool', disk') /\ Pins' = PinsOf(desc', hash')
  BY DEF Content, Pins, Current, PinsOf
<1>7. StoreStep
  BY <1>1, <1>3, <1>4, <1>6 DEF StoreStep, StoreSame
<1>8. Served
  BY <1>1, <1>4 DEF Served
<1>. QED BY <1>5, <1>7, <1>8 DEF Kept

\* Page k, of content x, comes into frame i, when allocBuf has left
\* descriptors e, hash table g and disk D.
PutsCareful(e, g, D, k, x, i) ==
  /\ WellFormed(e) /\ Sound(e, g) /\ D \in [Keys -> Data \cup {Gone}]
  /\ k \in Keys /\ i \in Frames
  /\ g[k] = NoFrame /\ \A l \in Keys : g[l] # i
  /\ \A j \in Frames : j # i => TightAt(e, g, j) /\ CleanAt(e, pool, D, j)
  /\ pool' = [pool EXCEPT ![i] = [number |-> k[2], data |-> x]]
  /\ hash' = [g EXCEPT ![k] = i]
  /\ desc' = [e EXCEPT ![i] = Set(k)]
  /\ disk' = [D EXCEPT ![k] = x]

(* The page is then the only change, held once.                            *)
LEMMA PutCareful ==
  ASSUME TablesOK, NEW e, NEW g, NEW D, NEW k, NEW x, NEW i,
         PutsCareful(e, g, D, k, x, i)
  PROVE  /\ FramesKept
         /\ Content' = [Current(g, pool, D) EXCEPT ![k] = x]
         /\ Pins' = [PinsOf(e, g) EXCEPT ![k] = 1]
<1>. USE DEF PutsCareful
<1>0. e \in [Frames -> Desc] /\ g \in [Keys -> Frames \cup {NoFrame}]
  BY DEF WellFormed, Sound
<1>1. k = <<k[1], k[2]>>
  BY DEF Keys
<1>2. /\ desc'[i] = Set(k) /\ pool'[i].data = x /\ hash'[k] = i /\ disk'[k] = x
      /\ \A j \in Frames : j # i => desc'[j] = e[j] /\ pool'[j] = pool[j]
      /\ \A l \in Keys : l # k => hash'[l] = g[l] /\ disk'[l] = D[l]
      /\ i # NoFrame
  BY <1>0 DEF TablesOK, Frames, NoFrame
<1>3. ASSUME NEW j \in Frames
      PROVE  TightAt(desc', hash', j) /\ CleanAt(desc', pool', disk', j)
  <2>1. CASE j = i
    <3>1. Key(desc', i) = k /\ desc'[i].pinCnt = 1
      BY <1>1, <1>2 DEF Key, Set
    <3>. QED BY <1>2, <2>1, <3>1 DEF TightAt, CleanAt
  <2>2. CASE j # i /\ e[j].valid
    <3>1. desc'[j] = e[j] /\ pool'[j] = pool[j] /\ Key(desc', j) = Key(e, j)
      BY <1>2, <2>2 DEF Key
    <3>2. TightAt(e, g, j) /\ CleanAt(e, pool, D, j)
      BY <2>2
    <3>3. Key(e, j) \in Keys /\ j # NoFrame
      BY <2>2 DEF WellFormed, Frames, NoFrame
    <3>4. Key(e, j) # k
      BY <2>2, <3>2, <3>3 DEF TightAt
    <3>5. hash'[Key(e, j)] = g[Key(e, j)] /\ disk'[Key(e, j)] = D[Key(e, j)]
      BY <1>2, <3>3, <3>4
    <3>. QED BY <3>1, <3>2, <3>5 DEF TightAt, CleanAt
  <2>3. CASE j # i /\ ~e[j].valid
    BY <1>2, <2>3 DEF TightAt, CleanAt
  <2>. QED BY <2>1, <2>2, <2>3
<1>4. Content' = Current(hash', pool', disk') /\ Pins' = PinsOf(desc', hash')
  BY DEF Content, Pins, Current, PinsOf
<1>5. ASSUME NEW l \in Keys
      PROVE  /\ Content'[l] = IF l = k THEN x ELSE Current(g, pool, D)[l]
             /\ Pins'[l] = IF l = k THEN 1 ELSE PinsOf(e, g)[l]
  <2>1. CASE l = k
    BY <1>2, <1>4, <2>1 DEF Current, PinsOf, Set
  <2>2. CASE l # k
    <3>1. hash'[l] = g[l] /\ disk'[l] = D[l] /\ g[l] # i
          /\ (g[l] # NoFrame => g[l] \in Frames)
      BY <1>0, <1>2, <2>2
    <3>2. g[l] # NoFrame => desc'[g[l]] = e[g[l]] /\ pool'[g[l]] = pool[g[l]]
      BY <1>2, <3>1
    <3>. QED BY <1>4, <2>2, <3>1, <3>2 DEF Current, PinsOf
  <2>. QED BY <2>1, <2>2
<1>6. Content' = [Current(g, pool, D) EXCEPT ![k] = x]
  BY <1>4, <1>5 DEF Current
<1>7. Pins' = [PinsOf(e, g) EXCEPT ![k] = 1]
  <2>1. Pins' = [l \in Keys |-> Pins'[l]]
    BY DEF Pins, PinsOf
  <2>2. PinsOf(e, g) = [l \in Keys |-> PinsOf(e, g)[l]]
    BY DEF PinsOf
  <2>3. [PinsOf(e, g) EXCEPT ![k] = 1]
          = [l \in Keys |-> IF l = k THEN 1 ELSE PinsOf(e, g)[l]]
    BY <2>2
  <2>. QED BY <1>5, <2>1, <2>3
<1>. QED BY <1>3, <1>6, <1>7 DEF FramesKept

(* readPage of a page that exists holds it once more.                      *)
LEMMA ReadKept ==
  ASSUME CarefulInv, NEW k \in Keys, disk[k] # Gone, readPage(k)
  PROVE  Kept
<1>1. Faithful(desc) /\ TablesOK
  BY PresentIsFaithful DEF CarefulInv, IInv
<1>2. CASE ReadHit(k)
  <2>. DEFINE i == hash[k]
  <2>1. i \in Frames /\ i # NoFrame /\ desc[i].valid /\ Key(desc, i) = k
        /\ desc[i].pinCnt \in Nat
    BY <1>1, <1>2 DEF ReadHit, Faithful, Sound, WellFormed, Desc
  <2>2. /\ desc' = [desc EXCEPT ![i].pinCnt = @ + 1, ![i].refbit = TRUE]
        /\ pool' = pool /\ hash' = hash /\ disk' = disk /\ thrown' = Nothing
    BY <1>2 DEF ReadHit
  <2>3. \A j \in Frames : /\ Key(desc', j) = Key(desc, j)
                          /\ desc'[j].valid = desc[j].valid
                          /\ desc'[j].dirty = desc[j].dirty
                          /\ desc'[j].pinCnt = IF j = i THEN desc[j].pinCnt + 1
                                               ELSE desc[j].pinCnt
    BY <2>1, <2>2 DEF Key, TablesOK, CarefulInv, IInv, Desc
  <2>. HIDE DEF i
  <2>4. FramesKept
    <3>1. ASSUME NEW j \in Frames
          PROVE  TightAt(desc', hash, j) /\ CleanAt(desc', pool, disk, j)
      <4>1. TightAt(desc, hash, j) /\ CleanAt(desc, pool, disk, j)
        BY <1>1 DEF Faithful
      <4>2. j = i => desc'[j].pinCnt # 0
        BY <2>1, <2>3
      <4>. QED BY <2>3, <4>1, <4>2 DEF TightAt, CleanAt
    <3>. QED BY <2>2, <3>1 DEF FramesKept
  <2>5. Content' = Content
    BY <2>2 DEF Content, Current
  <2>6. Pins' = [Pins EXCEPT ![k] = @ + 1]
    <3>1. ASSUME NEW l \in Keys
          PROVE  Pins'[l] = IF l = k THEN Pins[k] + 1 ELSE Pins[l]
      <4>1. CASE l = k
        BY <2>1, <2>2, <2>3, <4>1 DEF Pins, PinsOf, i
      <4>2. CASE l # k
        <5>1. hash[l] # NoFrame => hash[l] \in Frames /\ hash[l] # i
          BY <1>1, <2>1, <4>2 DEF Faithful, Sound
        <5>. QED BY <2>2, <2>3, <4>2, <5>1 DEF Pins, PinsOf
      <4>. QED BY <4>1, <4>2
    <3>2. Pins' = [l \in Keys |-> Pins'[l]] /\ Pins = [l \in Keys |-> Pins[l]]
      BY DEF Pins, PinsOf
    <3>. QED BY <3>1, <3>2
  <2>7. Content[k] # Gone
    BY <1>1, <2>1 DEF Content, Current, Faithful, WellFormed, i
  <2>8. Served
    BY <2>2 DEF Served, Nothing
  <2>. QED BY <2>4, <2>5, <2>6, <2>7, <2>8 DEF Kept, StoreStep, StoreReads
<1>3. CASE ReadMiss(k)
  <2>1. hash[k] = NoFrame /\ \E v \in Visits :
          LET d == SweptDesc(v)
              i == Victim(v)
              outcome == AllocOutcome(d, i)
              onDisk == AllocDisk(d, i)[k]
          IN  \/ ~Succeeds(outcome) /\ AllocOnly(v, "read", outcome)
              \/ Succeeds(outcome) /\ onDisk = Gone
              \/ /\ Succeeds(outcome)
                 /\ onDisk # Gone
                 /\ pool' = [pool EXCEPT ![i] = [number |-> k[2],
                                                 data |-> onDisk]]
                 /\ hash' = [AllocHash(d, i) EXCEPT ![k] = i]
                 /\ desc' = [AllocDesc(d, i) EXCEPT ![i] = Set(k)]
                 /\ disk' = AllocDisk(d, i)
                 /\ thrown' = Nothing
    BY <1>3 DEF ReadMiss
  <2>2. PICK v \in Visits :
          LET d == SweptDesc(v)
              i == Victim(v)
              outcome == AllocOutcome(d, i)
              onDisk == AllocDisk(d, i)[k]
          IN  \/ ~Succeeds(outcome) /\ AllocOnly(v, "read", outcome)
              \/ Succeeds(outcome) /\ onDisk = Gone
              \/ /\ Succeeds(outcome)
                 /\ onDisk # Gone
                 /\ pool' = [pool EXCEPT ![i] = [number |-> k[2],
                                                 data |-> onDisk]]
                 /\ hash' = [AllocHash(d, i) EXCEPT ![k] = i]
                 /\ desc' = [AllocDesc(d, i) EXCEPT ![i] = Set(k)]
                 /\ disk' = AllocDisk(d, i)
                 /\ thrown' = Nothing
    BY <2>1
  <2>. DEFINE d == SweptDesc(v)
              i == Victim(v)
              outcome == AllocOutcome(d, i)
              e == AllocDesc(d, i)
              g == AllocHash(d, i)
              D == AllocDisk(d, i)
  <2>3. Faithful(d) /\ i \in Frames /\ PinsOf(d, hash) = Pins
    BY CarefulSweep
  <2>4. WellFormed(d) /\ Sound(d, hash)
    BY <2>3 DEF Faithful
  <2>5. CASE ~Succeeds(outcome) /\ AllocOnly(v, "read", outcome)
    BY <2>5, AllocOnlyKept
  <2>6. CASE Succeeds(outcome) /\ ~(~Succeeds(outcome) /\ AllocOnly(v, "read", outcome))
    <3>1. /\ WellFormed(e) /\ Sound(e, g) /\ D \in [Keys -> Data \cup {Gone}]
          /\ \A l \in Keys : g[l] # i
          /\ g[k] = NoFrame /\ D[k] # Gone
      BY <1>1, <2>1, <2>3, <2>4, <2>6, AllocFacts
    <3>2. /\ \A j \in Frames : j # i => TightAt(e, g, j) /\ CleanAt(e, pool, D, j)
          /\ Current(g, pool, D) = Content /\ PinsOf(e, g) = Pins
      BY <1>1, <2>3, <2>6, CarefulAlloc
    <3>3. /\ pool' = [pool EXCEPT ![i] = [number |-> k[2], data |-> D[k]]]
          /\ hash' = [g EXCEPT ![k] = i]
          /\ desc' = [e EXCEPT ![i] = Set(k)]
          /\ disk' = D /\ thrown' = Nothing
      BY <2>2, <2>6, <3>1
    <3>5. D = [D EXCEPT ![k] = D[k]]
      BY <3>1
    <3>. HIDE DEF d, i, e, g, D
    <3>4. PutsCareful(e, g, D, k, D[k], i)
      BY <2>3, <3>1, <3>2, <3>3, <3>5 DEF PutsCareful
    <3>6. /\ FramesKept
          /\ Content' = [Current(g, pool, D) EXCEPT ![k] = D[k]]
          /\ Pins' = [PinsOf(e, g) EXCEPT ![k] = 1]
      BY <1>1, <3>4, PutCareful
    <3>7. Content[k] = D[k] /\ Pins[k] = 0
      <4>1. Current(g, pool, D)[k] = D[k]
        BY <3>1 DEF Current
      <4>2. Pins[k] = 0
        BY <2>1 DEF Pins, PinsOf
      <4>. QED BY <3>2, <4>1, <4>2
    <3>8. Content = [l \in Keys |-> Content[l]]
      BY DEF Content, Current
    <3>9. StoreReads(k)
      BY <3>1, <3>2, <3>6, <3>7, <3>8 DEF StoreReads
    <3>10. Served
      BY <3>3 DEF Served, Nothing
    <3>. QED BY <3>6, <3>9, <3>10 DEF Kept, StoreStep
  <2>. QED BY <2>2, <2>5, <2>6
<1>. QED BY <1>2, <1>3 DEF readPage

(* allocPage adds a page to the store; the lists of no file make it throw. *)
LEMMA AllocKept ==
  ASSUME CarefulInv, NEW f \in Files, allocPage(f)
  PROVE  Kept
<1>1. TablesOK
  BY DEF CarefulInv, IInv
<1>2. PICK v \in Visits :
        LET d == SweptDesc(v)
            i == Victim(v)
            outcome == AllocOutcome(d, i)
        IN  \/ ~Succeeds(outcome) /\ AllocOnly(v, "alloc", outcome)
            \/ Succeeds(outcome) /\ \E k \in Keys : Allocated(k, d, i)
  BY DEF allocPage, Allocated, MayAllocate, Live, AllocationMayThrow, CarefulInv
<1>. DEFINE d == SweptDesc(v)
            i == Victim(v)
            outcome == AllocOutcome(d, i)
            e == AllocDesc(d, i)
            g == AllocHash(d, i)
            D == AllocDisk(d, i)
<1>3. Faithful(d) /\ i \in Frames /\ PinsOf(d, hash) = Pins
  BY CarefulSweep
<1>4. WellFormed(d) /\ Sound(d, hash)
  BY <1>3 DEF Faithful
<1>5. CASE ~Succeeds(outcome) /\ AllocOnly(v, "alloc", outcome)
  BY <1>5, AllocOnlyKept
<1>6. ASSUME Succeeds(outcome), NEW k \in Keys, Allocated(k, d, i) PROVE Kept
  <2>1. disk[k] = Gone /\ hash[k] = NoFrame
    BY <1>6 DEF Allocated, CarefulInv, IInv, HashSound
  <2>2. /\ WellFormed(e) /\ Sound(e, g) /\ D \in [Keys -> Data \cup {Gone}]
        /\ \A l \in Keys : g[l] # i
        /\ g[k] = NoFrame
    BY <1>1, <1>3, <1>4, <1>6, <2>1, AllocFacts
  <2>3. /\ \A j \in Frames : j # i => TightAt(e, g, j) /\ CleanAt(e, pool, D, j)
        /\ Current(g, pool, D) = Content /\ PinsOf(e, g) = Pins
    BY <1>1, <1>3, <1>6, CarefulAlloc
  <2>4. /\ pool' = [pool EXCEPT ![i] = [number |-> k[2], data |-> Empty]]
        /\ hash' = [g EXCEPT ![k] = i]
        /\ desc' = [e EXCEPT ![i] = Set(k)]
        /\ disk' = [D EXCEPT ![k] = Empty] /\ thrown' = Nothing
    BY <1>6, <2>2 DEF Allocated
  <2>. HIDE DEF d, i, e, g, D
  <2>5. PutsCareful(e, g, D, k, Empty, i)
    BY <1>3, <2>2, <2>3, <2>4 DEF PutsCareful
  <2>6. /\ FramesKept
        /\ Content' = [Current(g, pool, D) EXCEPT ![k] = Empty]
        /\ Pins' = [PinsOf(e, g) EXCEPT ![k] = 1]
    BY <1>1, <2>5, PutCareful
  <2>7. Content[k] = Gone
    BY <2>1 DEF Content, Current
  <2>8. StoreAllocates(k)
    BY <2>3, <2>6, <2>7 DEF StoreAllocates
  <2>9. Served
    BY <2>4 DEF Served, Nothing
  <2>. QED BY <2>6, <2>8, <2>9 DEF Kept, StoreStep
<1>. QED BY <1>2, <1>5, <1>6

(* unPinPage gives the page back, if it is in the pool and held; the       *)
(* honest client has its last change written.                              *)
LEMMA UnPinKept ==
  ASSUME CarefulInv, NEW k \in Keys, NEW isDirty \in BOOLEAN,
         Honest(k, isDirty), unPinPage(k, isDirty)
  PROVE  Kept
<1>1. Faithful(desc) /\ TablesOK
  BY PresentIsFaithful DEF CarefulInv, IInv
<1>. DEFINE i == hash[k]
<1>2. /\ pool' = pool /\ hash' = hash /\ disk' = disk
      /\ thrown' \in {Nothing, Threw("unpin", "PageNotPinned")}
  BY DEF unPinPage
<1>3. Served
  BY <1>2 DEF Served, Nothing, Threw
<1>4. Content' = Content
  BY <1>2 DEF Content, Current
<1>5. CASE i = NoFrame \/ desc[i].pinCnt = 0
  <2>1. desc' = desc
    BY <1>5 DEF unPinPage
  <2>2. FramesKept
    BY <1>1, <1>2, <2>1 DEF FramesKept, Faithful
  <2>3. StoreSame
    BY <1>2, <1>4, <2>1 DEF StoreSame, Pins, PinsOf
  <2>. QED BY <1>3, <2>2, <2>3 DEF Kept, StoreStep
<1>6. CASE i # NoFrame /\ desc[i].pinCnt # 0
  <2>1. /\ i \in Frames /\ desc[i].valid /\ Key(desc, i) = k
        /\ desc[i].pinCnt \in Nat \ {0} /\ desc[i].dirty \in BOOLEAN
    BY <1>1, <1>6 DEF Faithful, Sound, WellFormed, Desc
  <2>2. desc' = [desc EXCEPT ![i].pinCnt = @ - 1, ![i].dirty = @ \/ isDirty]
    BY <1>6 DEF unPinPage
  <2>3. \A j \in Frames : /\ Key(desc', j) = Key(desc, j)
                          /\ desc'[j].valid = desc[j].valid
                          /\ j # i => desc'[j] = desc[j]
                          /\ j = i => desc'[j].pinCnt = desc[j].pinCnt - 1
                                      /\ (~desc'[j].dirty => ~desc[j].dirty /\ ~isDirty)
    BY <2>1, <2>2 DEF Key, TablesOK, CarefulInv, IInv, Desc
  <2>4. desc[i].pinCnt = 1 /\ ~desc[i].dirty /\ ~isDirty => pool[i].data = disk[k]
    BY <1>6 DEF Honest
  <2>. HIDE DEF i
  <2>5. FramesKept
    <3>1. ASSUME NEW j \in Frames
          PROVE  TightAt(desc', hash, j) /\ CleanAt(desc', pool, disk, j)
      <4>1. TightAt(desc, hash, j) /\ CleanAt(desc, pool, disk, j)
        BY <1>1 DEF Faithful
      <4>2. TightAt(desc', hash, j)
        BY <2>3, <4>1 DEF TightAt
      <4>3. CASE j # i
        <5>1. desc'[j] = desc[j] /\ Key(desc', j) = Key(desc, j)
          BY <2>3, <4>3
        <5>. QED BY <4>1, <4>2, <5>1 DEF CleanAt
      <4>4. CASE j = i
        <5>. SUFFICES ASSUME desc'[j].pinCnt = 0, ~desc'[j].dirty
                      PROVE  pool[j].data = disk[Key(desc', j)]
          BY <4>2 DEF CleanAt
        <5>1. desc[i].pinCnt = 1 /\ ~desc[i].dirty /\ ~isDirty
          <6>1. desc[i].pinCnt - 1 = 0
            BY <2>3, <4>4
          <6>2. desc[i].pinCnt = 1
            BY <2>1, <6>1
          <6>3. ~desc[i].dirty /\ ~isDirty
            BY <2>3, <4>4
          <6>. QED BY <6>2, <6>3
        <5>2. Key(desc', j) = k
          BY <2>1, <2>3, <4>4
        <5>. QED BY <2>4, <4>4, <5>1, <5>2
      <4>5. CleanAt(desc', pool, disk, j)
        BY <4>3, <4>4
      <4>. QED BY <4>2, <4>5
    <3>. QED BY <1>2, <3>1 DEF FramesKept
  <2>6. Pins' = [Pins EXCEPT ![k] = @ - 1]
    <3>1. ASSUME NEW l \in Keys
          PROVE  Pins'[l] = IF l = k THEN Pins[k] - 1 ELSE Pins[l]
      <4>1. CASE l = k
        BY <1>2, <1>6, <2>1, <2>3, <4>1 DEF Pins, PinsOf, i
      <4>2. CASE l # k
        <5>1. hash[l] # NoFrame => hash[l] \in Frames /\ hash[l] # i
          BY <1>1, <2>1, <4>2 DEF Faithful, Sound
        <5>. QED BY <1>2, <2>3, <4>2, <5>1 DEF Pins, PinsOf
      <4>. QED BY <4>1, <4>2
    <3>2. Pins' = [l \in Keys |-> Pins'[l]] /\ Pins = [l \in Keys |-> Pins[l]]
      BY DEF Pins, PinsOf
    <3>. QED BY <3>1, <3>2
  <2>7. Pins[k] > 0
    BY <1>6, <2>1 DEF Pins, PinsOf, i
  <2>. QED BY <1>3, <1>4, <2>5, <2>6, <2>7 DEF Kept, StoreStep, StoreGivesBack
<1>. QED BY <1>5, <1>6

(* disposePage takes the page from the store, if there is one to take and  *)
(* nobody holds it.                                                        *)
LEMMA DisposeKept ==
  ASSUME CarefulInv, NEW k \in Keys, disposePage(k)
  PROVE  Kept
<1>1. Faithful(desc) /\ TablesOK
  BY PresentIsFaithful DEF CarefulInv, IInv
<1>. DEFINE i == hash[k]
<1>2. pool' = pool /\ thrown' \in {Nothing, Threw("dispose", "PagePinned"),
                                   Threw("dispose", "InvalidPage")}
  BY DEF disposePage
<1>3. Served
  BY <1>2 DEF Served, Nothing, Threw
<1>4. CASE i # NoFrame /\ desc[i].pinCnt > 0
  <2>1. desc' = desc /\ hash' = hash /\ disk' = disk
    BY <1>4 DEF disposePage
  <2>2. FramesKept
    BY <1>1, <1>2, <2>1 DEF FramesKept, Faithful
  <2>3. StoreSame
    BY <1>2, <2>1 DEF StoreSame, Pins, PinsOf, Content, Current
  <2>. QED BY <1>3, <2>2, <2>3 DEF Kept, StoreStep
<1>5. CASE ~(i # NoFrame /\ desc[i].pinCnt > 0)
  <2>1. /\ i # NoFrame => i \in Frames /\ desc[i].valid /\ Key(desc, i) = k
                          /\ desc[i].pinCnt = 0
    BY <1>1, <1>5 DEF Faithful, Sound, WellFormed, Desc
  <2>2. /\ \A j \in Frames : desc'[j] = IF j = i THEN Clear ELSE desc[j]
        /\ \A l \in Keys : hash'[l] = IF l = k THEN NoFrame ELSE hash[l]
        /\ \A l \in Keys : disk'[l] = IF l = k THEN Gone ELSE disk[l]
    <3>1. CASE i = NoFrame
      <4>1. desc' = desc /\ hash' = hash /\ disk' = [disk EXCEPT ![k] = Gone]
        BY <3>1 DEF disposePage
      <4>2. \A j \in Frames : j # i
        BY <3>1 DEF Frames, NoFrame
      <4>3. disk \in [Keys -> Data \cup {Gone}]
        BY <1>1 DEF TablesOK
      <4>4. \A l \in Keys : disk'[l] = IF l = k THEN Gone ELSE disk[l]
        BY <4>1, <4>3
      <4>. QED BY <3>1, <4>1, <4>2, <4>4
    <3>2. CASE i # NoFrame
      <4>1. /\ desc' = [desc EXCEPT ![i] = Clear]
            /\ hash' = [hash EXCEPT ![k] = NoFrame]
            /\ disk' = [disk EXCEPT ![k] = Gone]
        BY <1>5, <3>2 DEF disposePage
      <4>2. /\ desc \in [Frames -> Desc] /\ hash \in [Keys -> Frames \cup {NoFrame}]
            /\ disk \in [Keys -> Data \cup {Gone}]
        BY <1>1 DEF TablesOK
      <4>. HIDE DEF i
      <4>3. \A j \in Frames : desc'[j] = IF j = i THEN Clear ELSE desc[j]
        BY <4>1, <4>2
      <4>4. \A l \in Keys : hash'[l] = IF l = k THEN NoFrame ELSE hash[l]
        BY <4>1, <4>2
      <4>5. \A l \in Keys : disk'[l] = IF l = k THEN Gone ELSE disk[l]
        BY <4>1, <4>2
      <4>. QED BY <4>3, <4>4, <4>5
    <3>. QED BY <3>1, <3>2
  <2>. HIDE DEF i
  <2>3. FramesKept
    <3>1. ASSUME NEW j \in Frames
          PROVE  TightAt(desc', hash', j) /\ CleanAt(desc', pool, disk', j)
      <4>1. CASE j = i
        BY <2>2, <4>1 DEF TightAt, CleanAt, Clear
      <4>2. CASE j # i /\ desc[j].valid
        <5>1. Key(desc, j) \in Keys /\ hash[Key(desc, j)] = j
          BY <1>1, <4>2, OneFramePerPage
        <5>2. Key(desc, j) # k
          BY <4>2, <5>1 DEF i
        <5>3. /\ desc'[j] = desc[j] /\ Key(desc', j) = Key(desc, j)
              /\ hash'[Key(desc, j)] = hash[Key(desc, j)]
              /\ disk'[Key(desc, j)] = disk[Key(desc, j)]
          BY <2>2, <4>2, <5>1, <5>2 DEF Key
        <5>. QED BY <1>1, <5>3 DEF TightAt, CleanAt, Faithful
      <4>3. CASE j # i /\ ~desc[j].valid
        BY <2>2, <4>3 DEF TightAt, CleanAt
      <4>. QED BY <4>1, <4>2, <4>3
    <3>. QED BY <1>2, <3>1 DEF FramesKept
  <2>4. Pins[k] = 0
    BY <2>1 DEF Pins, PinsOf, i
  <2>5. ASSUME NEW l \in Keys
        PROVE  /\ Content'[l] = IF l = k THEN Gone ELSE Content[l]
               /\ Pins'[l] = Pins[l]
    <3>1. CASE l = k
      BY <2>2, <2>4, <3>1 DEF Content, Current, Pins, PinsOf
    <3>2. CASE l # k
      <4>1. hash[l] # NoFrame => hash[l] \in Frames /\ hash[l] # i
        BY <1>1, <2>1, <3>2 DEF Faithful, Sound, i, Frames, NoFrame
      <4>. QED BY <1>2, <2>2, <3>2, <4>1 DEF Content, Current, Pins, PinsOf
    <3>. QED BY <3>1, <3>2
  <2>6. Content' = [Content EXCEPT ![k] = Gone] /\ Pins' = Pins
    <3>1. /\ Content' = [l \in Keys |-> Content'[l]] /\ Content = [l \in Keys |-> Content[l]]
          /\ Pins' = [l \in Keys |-> Pins'[l]] /\ Pins = [l \in Keys |-> Pins[l]]
      BY DEF Content, Current, Pins, PinsOf
    <3>. QED BY <2>5, <3>1
  <2>7. CASE Content[k] = Gone
    <3>1. Content' = Content
      <4>1. Content = [l \in Keys |-> Content[l]]
        BY DEF Content, Current
      <4>. QED BY <2>6, <2>7, <4>1
    <3>. QED BY <1>3, <2>3, <2>6, <3>1 DEF Kept, StoreStep, StoreSame
  <2>8. CASE Content[k] # Gone
    BY <1>3, <2>3, <2>4, <2>6, <2>8 DEF Kept, StoreStep, StoreDisposes
  <2>. QED BY <2>7, <2>8
<1>. QED BY <1>4, <1>5

(* flushFile is nothing to the store, also when it throws.                 *)
LEMMA FlushKept ==
  ASSUME CarefulInv, NEW f \in Files, flushFile(f)
  PROVE  Kept
<1>1. Faithful(desc) /\ TablesOK
  BY PresentIsFaithful DEF CarefulInv, IInv
<1>2. /\ desc' = FlushDesc(desc, hash, f) /\ hash' = FlushHash(desc, hash, f)
      /\ disk' = FlushDisk(desc, hash, f) /\ pool' = pool
      /\ thrown'.op \in {"none", "flush"}
  BY DEF flushFile, Nothing, Threw
<1>3. /\ \A i \in Frames : TightAt(desc', hash', i) /\ CleanAt(desc', pool, disk', i)
      /\ Current(hash', pool, disk') = Content
      /\ PinsOf(desc', hash') = PinsOf(desc, hash)
  BY <1>1, <1>2, CarefulFlush
<1>4. Content' = Current(hash', pool', disk') /\ Pins' = PinsOf(desc', hash')
  BY DEF Content, Pins, Current, PinsOf
<1>5. StoreSame
  BY <1>2, <1>3, <1>4 DEF StoreSame, Pins
<1>6. Served
  BY <1>2 DEF Served
<1>. QED BY <1>2, <1>3, <1>5, <1>6 DEF Kept, StoreStep, FramesKept

(* A client changes the page it holds.                                     *)
LEMMA ChangeKept ==
  ASSUME CarefulInv, NEW i \in Frames, NEW data \in Data, ChangePage(i, data)
  PROVE  Kept
<1>1. Faithful(desc) /\ TablesOK
  BY PresentIsFaithful DEF CarefulInv, IInv
<1>2. /\ desc[i].pinCnt > 0 /\ pool' = [pool EXCEPT ![i].data = data]
      /\ desc' = desc /\ hash' = hash /\ disk' = disk /\ thrown' = Nothing
  BY DEF ChangePage
<1>3. \A j \in Frames : pool'[j].data = IF j = i THEN data ELSE pool[j].data
  BY <1>1, <1>2 DEF TablesOK
<1>4. desc[i].valid
  BY <1>1, <1>2 DEF Faithful, WellFormed, Clear
<1>. DEFINE k == Key(desc, i)
<1>5. k \in Keys /\ hash[k] = i /\ i # NoFrame
  BY <1>1, <1>4, OneFramePerPage
<1>6. FramesKept
  <2>1. ASSUME NEW j \in Frames
        PROVE  TightAt(desc, hash, j) /\ CleanAt(desc, pool', disk, j)
    <3>1. TightAt(desc, hash, j) /\ CleanAt(desc, pool, disk, j)
      BY <1>1 DEF Faithful
    <3>2. j = i => desc[j].pinCnt # 0
      BY <1>2
    <3>. QED BY <1>3, <3>1, <3>2 DEF CleanAt
  <2>. QED BY <1>2, <2>1 DEF FramesKept
<1>. HIDE DEF k
<1>7. ASSUME NEW l \in Keys PROVE Content'[l] = IF l = k THEN data ELSE Content[l]
  <2>1. CASE l = k
    BY <1>2, <1>3, <1>5, <2>1 DEF Content, Current
  <2>2. CASE l # k
    <3>1. hash[l] # NoFrame => hash[l] \in Frames /\ hash[l] # i
      BY <1>1, <2>2 DEF Faithful, Sound, k
    <3>. QED BY <1>2, <1>3, <2>2, <3>1 DEF Content, Current
  <2>. QED BY <2>1, <2>2
<1>8. Content' = [Content EXCEPT ![k] = data]
  <2>1. Content' = [l \in Keys |-> Content'[l]] /\ Content = [l \in Keys |-> Content[l]]
    BY DEF Content, Current
  <2>. QED BY <1>7, <2>1
<1>9. Pins' = Pins /\ Pins[k] > 0
  BY <1>2, <1>5 DEF Pins, PinsOf
<1>10. Served
  BY <1>2 DEF Served
<1>. QED BY <1>5, <1>6, <1>8, <1>9, <1>10 DEF Kept, StoreStep, StoreChanges

(* Destroying an idle manager is nothing to the store: what was dirty is   *)
(* written.                                                                *)
LEMMA RestartKept ==
  ASSUME CarefulInv, \A i \in Frames : desc[i].pinCnt = 0, restart
  PROVE  Kept
<1>1. Faithful(desc) /\ TablesOK
  BY PresentIsFaithful DEF CarefulInv, IInv
<1>2. /\ desc' = [i \in Frames |-> Clear] /\ hash' = [k \in Keys |-> NoFrame]
      /\ \A k \in Keys : disk'[k] = IF FlushedAtExit(k[1])
                                    THEN FlushDisk(desc, hash, k[1])[k] ELSE disk[k]
  BY DEF restart
<1>3. thrown'.op \notin {"read", "alloc"}
  BY DEF restart, Threw, Nothing
<1>4. \A f \in Files : ~FlushThrows(desc, hash, f)
  BY <1>1, CarefulFlush
<1>5. \A i \in Frames : ~AtExitThrows(i)
  <2>1. ASSUME NEW i \in Frames, desc[i].dirty PROVE desc[i].file \in Files
    <3>1. desc[i].valid
      BY <1>1, <2>1 DEF Faithful, WellFormed, Clear
    <3>2. Key(desc, i) \in Keys
      BY <1>1, <3>1 DEF Faithful, WellFormed
    <3>. QED BY <3>2 DEF Key, Keys
  <2>. QED BY <1>4, <2>1 DEF AtExitThrows
<1>6. ASSUME NEW k \in Keys PROVE disk'[k] = Content[k]
  <2>1. k[1] \in Files
    BY DEF Keys
  <2>2. CASE hash[k] = NoFrame
    <3>1. NoFrame \notin Flushed(desc, hash, k[1])
      BY DEF Flushed, Own, Frames, NoFrame
    <3>2. FlushDisk(desc, hash, k[1])[k] = disk[k]
      BY <1>1, <2>1, <2>2, <3>1, CarefulFlushDisk
    <3>. QED BY <1>2, <2>2, <3>2 DEF Content, Current
  <2>3. CASE hash[k] # NoFrame
    <3>. DEFINE i == hash[k]
    <3>1. i \in Frames /\ desc[i].valid /\ Key(desc, i) = k /\ desc[i].pinCnt = 0
      BY <1>1, <2>3 DEF Faithful, Sound
    <3>2. i \in Own(desc, k[1])
      BY <3>1 DEF Own, Key
    <3>3. Content[k] = pool[i].data
      BY <2>3 DEF Content, Current
    <3>4. CASE desc[i].dirty
      <4>1. FlushedAtExit(k[1])
        BY <1>5, <3>2, <3>4 DEF FlushedAtExit
      <4>2. i \in Flushed(desc, hash, k[1])
        <5>1. ASSUME NEW j \in Own(desc, k[1])
              PROVE  Refusal(desc, hash, k[1], j) = "ok"
          <6>1. j \in Frames /\ ~(desc[j].pinCnt > 0)
            BY DEF Own
          <6>. QED BY <1>1, <2>1, <6>1, CarefulRefusal
        <5>. QED BY <3>2, <5>1 DEF Flushed
      <4>3. FlushDisk(desc, hash, k[1])[k] = pool[i].data
        BY <1>1, <2>1, <3>4, <4>2, CarefulFlushDisk
      <4>. QED BY <1>2, <3>3, <4>1, <4>3
    <3>5. CASE ~desc[i].dirty
      <4>1. FlushDisk(desc, hash, k[1])[k] = disk[k]
        BY <1>1, <2>1, <3>5, CarefulFlushDisk
      <4>2. pool[i].data = disk[k]
        BY <1>1, <3>1, <3>5 DEF Faithful, CleanAt
      <4>. QED BY <1>2, <3>3, <4>1, <4>2
    <3>. QED BY <3>4, <3>5
  <2>. QED BY <2>2, <2>3
<1>7. FramesKept
  BY <1>2 DEF FramesKept, TightAt, CleanAt, Clear
<1>8. Content' = Content
  <2>1. \A k \in Keys : Content'[k] = disk'[k]
    BY <1>2 DEF Content, Current
  <2>2. Content' = [l \in Keys |-> Content'[l]] /\ Content = [l \in Keys |-> Content[l]]
    BY DEF Content, Current
  <2>. QED BY <1>6, <2>1, <2>2
<1>9. Pins' = Pins
  <2>1. \A k \in Keys : Pins'[k] = 0
    BY <1>2 DEF Pins, PinsOf
  <2>2. \A k \in Keys : Pins[k] = 0
    BY <1>1 DEF Pins, PinsOf, Faithful, Sound
  <2>3. Pins' = [l \in Keys |-> Pins'[l]] /\ Pins = [l \in Keys |-> Pins[l]]
    BY DEF Pins, PinsOf
  <2>. QED BY <2>1, <2>2, <2>3
<1>10. Served
  BY <1>3 DEF Served
<1>. QED BY <1>7, <1>8, <1>9, <1>10 DEF Kept, StoreStep, StoreSame

-----------------------------------------------------------------------------
(* The theorems.                                                           *)

(* The initial states, and what they are to the store.                     *)
LEMMA CarefulInit ==
  ASSUME Init
  PROVE  CarefulInv /\ Store!Init
<1>1. PoolIsHashed /\ CleanFramesMatchDisk
  BY DEF Init, FreshPool, PoolIsHashed, CleanFramesMatchDisk, Clear
<1>2. Store!Init
  BY DEF Init, FreshPool, Store!Init
<1>3. lists.disordered = {}
  BY DEF Init, NewLists
<1>. QED BY <1>1, <1>2, <1>3, InitInvariant DEF CarefulInv

(* A careful client brings no list out of order: it allocates no page from *)
(* a file it has emptied of several.                                       *)
LEMMA ListsStayOrdered ==
  ASSUME CarefulInv, CarefulNext
  PROVE  lists'.disordered = {}
<1>1. ASSUME NEW f \in Files, ~EmptiedOfSeveral(lists, Live, f), allocPage(f)
      PROVE  lists'.disordered = {}
  <2>1. \/ lists' = lists
        \/ \E k \in Keys : k[1] = f /\ lists' = WithPage(lists, Live, k)
    BY <1>1 DEF allocPage, AllocOnly
  <2>. QED BY <1>1, <2>1 DEF WithPage, CarefulInv
<1>2. ASSUME NEW k \in Keys, readPage(k) PROVE lists' = lists
  BY <1>2 DEF readPage, ReadHit, ReadMiss, AllocOnly
<1>3. ASSUME NEW k \in Keys, disposePage(k) PROVE lists' = lists
  BY <1>3 DEF disposePage
<1>4. ASSUME NEW k \in Keys, NEW isDirty \in BOOLEAN, unPinPage(k, isDirty)
      PROVE  lists' = lists
  BY <1>4 DEF unPinPage
<1>5. ASSUME NEW f \in Files, flushFile(f) PROVE lists' = lists
  BY <1>5 DEF flushFile
<1>6. ASSUME NEW i \in Frames, NEW data \in Data, ChangePage(i, data)
      PROVE  lists' = lists
  BY <1>6 DEF ChangePage
<1>7. ASSUME restart PROVE lists' = lists
  BY <1>7 DEF restart
<1>. QED BY <1>1, <1>2, <1>3, <1>4, <1>5, <1>6, <1>7 DEF CarefulNext, CarefulInv

(* Every step of a careful client is one of any client, and keeps the      *)
(* frames findable and clean.                                              *)
LEMMA CarefulStep ==
  ASSUME CarefulInv, [CarefulNext]_vars
  PROVE  CarefulInv' /\ (Kept \/ UNCHANGED vars)
<1>1. [Next]_vars
  BY DEF CarefulNext, Next
<1>2. IInv' /\ NoCorruptionThrown'
  BY <1>1, StepSafe DEF CarefulInv
<1>3. CASE UNCHANGED vars
  <2>1. PoolIsHashed' /\ CleanFramesMatchDisk'
    BY <1>3 DEF CarefulInv, vars, PoolIsHashed, CleanFramesMatchDisk, Key
  <2>2. lists' = lists
    BY <1>3 DEF vars
  <2>. QED BY <1>2, <1>3, <2>1, <2>2 DEF CarefulInv
<1>4. CASE CarefulNext
  <2>1. Kept
    <3>1. ASSUME NEW k \in Keys, disk[k] # Gone, readPage(k) PROVE Kept
      BY <3>1, ReadKept
    <3>2. ASSUME NEW f \in Files, allocPage(f) PROVE Kept
      BY <3>2, AllocKept
    <3>3. ASSUME NEW k \in Keys, disposePage(k) PROVE Kept
      BY <3>3, DisposeKept
    <3>4. ASSUME NEW k \in Keys, NEW isDirty \in BOOLEAN,
                 Honest(k, isDirty), unPinPage(k, isDirty)
          PROVE  Kept
      BY <3>4, UnPinKept
    <3>5. ASSUME NEW f \in Files, flushFile(f) PROVE Kept
      BY <3>5, FlushKept
    <3>6. ASSUME NEW i \in Frames, NEW data \in Data, ChangePage(i, data) PROVE Kept
      BY <3>6, ChangeKept
    <3>7. ASSUME \A i \in Frames : desc[i].pinCnt = 0, restart PROVE Kept
      BY <3>7, RestartKept
    <3>. QED BY <1>4, <3>1, <3>2, <3>3, <3>4, <3>5, <3>6, <3>7 DEF CarefulNext
  <2>2. PoolIsHashed' /\ CleanFramesMatchDisk'
    BY <2>1 DEF Kept, FramesKept, PoolIsHashed, CleanFramesMatchDisk, TightAt, CleanAt,
                Key
  <2>3. lists'.disordered = {}
    BY <1>4, ListsStayOrdered
  <2>. QED BY <1>2, <2>1, <2>2, <2>3 DEF CarefulInv
<1>. QED BY <1>3, <1>4

(* What the steps make of the store are steps of the store.                *)
LEMMA KeptImplementsStore ==
  ASSUME Kept \/ UNCHANGED vars
  PROVE  [Store!Next]_(Store!storeVars)
<1>1. CASE UNCHANGED vars
  BY <1>1 DEF vars, Store!storeVars
<1>2. CASE Kept
  <2>1. CASE StoreSame
    BY <2>1 DEF StoreSame, Store!storeVars, Content, Current, Pins, PinsOf
  <2>2. ASSUME NEW k \in Keys, StoreAllocates(k) PROVE Store!Next
    BY <2>2 DEF StoreAllocates, Store!Next, Store!Allocate, Content, Current, Pins, PinsOf
  <2>3. ASSUME NEW k \in Keys, StoreReads(k) PROVE Store!Next
    BY <2>3 DEF StoreReads, Store!Next, Store!Read, Content, Current, Pins, PinsOf
  <2>4. ASSUME NEW k \in Keys, StoreGivesBack(k) PROVE Store!Next
    BY <2>4 DEF StoreGivesBack, Store!Next, Store!GiveBack, Content, Current, Pins, PinsOf
  <2>5. ASSUME NEW k \in Keys, StoreDisposes(k) PROVE Store!Next
    BY <2>5 DEF StoreDisposes, Store!Next, Store!Dispose, Content, Current, Pins, PinsOf
  <2>6. ASSUME NEW k \in Keys, NEW data \in Data, StoreChanges(k, data) PROVE Store!Next
    BY <2>6 DEF StoreChanges, Store!Next, Store!Change, Content, Current, Pins, PinsOf
  <2>. QED BY <1>2, <2>1, <2>2, <2>3, <2>4, <2>5, <2>6 DEF Kept, StoreStep
<1>. QED BY <1>1, <1>2

(* Under a careful client the invariant holds of every behaviour.          *)
THEOREM CarefulInvariant == CarefulSpec => []CarefulInv
<1>1. Init => CarefulInv
  BY CarefulInit
<1>2. CarefulInv /\ [CarefulNext]_vars => CarefulInv'
  BY CarefulStep
<1>. QED BY <1>1, <1>2, PTL DEF CarefulSpec

(* Every valid frame is found through the hash table of p2, by its page.   *)
THEOREM PoolAlwaysHashed == CarefulSpec => []PoolIsHashed
  BY CarefulInvariant, PTL DEF CarefulInv

(* A frame that allocBuf takes without writing it is on disk as it is.     *)
THEOREM CleanFramesAreOnDisk == CarefulSpec => []CleanFramesMatchDisk
  BY CarefulInvariant, PTL DEF CarefulInv

(* With no page held, readPage and allocPage do not throw, though flushing *)
(* a victim's file can throw.                                              *)
THEOREM IdlePoolIsServed == CarefulSpec => IdlePoolAlwaysServes
<1>1. CarefulInv /\ [CarefulNext]_vars => [IdlePoolServes]_vars
  <2>. SUFFICES ASSUME CarefulInv, [CarefulNext]_vars PROVE [IdlePoolServes]_vars
    OBVIOUS
  <2>1. Kept \/ UNCHANGED vars
    BY CarefulStep
  <2>2. Kept => IdlePoolServes
    BY DEF Kept, Served, IdlePoolServes
  <2>. QED BY <2>1, <2>2
<1>. QED BY <1>1, CarefulInvariant, PTL DEF CarefulSpec, IdlePoolAlwaysServes

(* The buffer manager of p2 is a page store to a careful client: caching,  *)
(* eviction, flushing, exceptions, closing and reopening do not show.      *)
THEOREM BufMgrImplementsStore == CarefulSpec => ImplementsStore
<1>1. Init => Store!Init
  BY CarefulInit
<1>2. CarefulInv /\ [CarefulNext]_vars => [Store!Next]_(Store!storeVars)
  BY CarefulStep, KeptImplementsStore
<1>. QED BY <1>1, <1>2, CarefulInvariant, PTL DEF CarefulSpec, ImplementsStore, Store!Spec

=============================================================================

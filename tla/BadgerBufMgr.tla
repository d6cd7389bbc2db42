---------------------------- MODULE BadgerBufMgr ----------------------------
(***************************************************************************)
(* The buffer manager of p3 (p3/btree/src/buffer.cpp), the one the B+ tree *)
(* runs on: the same class as p2's with another allocBuf, which looks at   *)
(* every frame twice, gives up one page and writes that page alone.  The   *)
(* hash table is the real one, chains and all.                             *)
(*                                                                         *)
(* A call that throws and changes nothing is no step; what allocBuf and    *)
(* flushFile throw half way is the value of AllocBuf(v).exc and Refusal.   *)
(***************************************************************************)
EXTENDS ClockRule, BufHashTbl, PageLists

CONSTANTS Data, Empty, Gone, NoFile, NoPage, MaxPin   \* as in BufMgr

ASSUME ManagerAssumption ==
  /\ Empty \in Data /\ Gone \notin Data
  /\ NoFile \notin Address /\ NoPage \notin PageIds
  /\ NoFrame \notin Frames
  /\ MaxPin \in Nat \ {0}

VARIABLES
  desc,        \* bufDescTable
  pool,        \* bufPool: the content of each Page
  ht,          \* hashTable
  clockHand,
  disk,        \* content of each page of each file, or Gone
  lists        \* what the page lists of the files are like

vars == <<desc, pool, ht, clockHand, disk, lists>>

\* BufDesc::Clear and BufDesc::Set.
Clear == [file |-> NoFile, pageNo |-> NoPage, pinCnt |-> 0,
          dirty |-> FALSE, valid |-> FALSE, refbit |-> FALSE]
Set(k) == [file |-> k[1], pageNo |-> k[2], pinCnt |-> 1,
           dirty |-> FALSE, valid |-> TRUE, refbit |-> TRUE]

Desc == [file : Address \cup {NoFile}, pageNo : PageIds \cup {NoPage},
         pinCnt : Nat, dirty : BOOLEAN, valid : BOOLEAN, refbit : BOOLEAN]

TypeOK ==
  /\ desc \in [Frames -> Desc]
  /\ pool \in [Frames -> Data \cup {Gone}]
  /\ ht \in [Index -> Seq(Bucket(Frames))]
  /\ clockHand \in Frames
  /\ disk \in [Keys -> Data \cup {Gone}]
  /\ lists \in PageListsOf(Keys, Address)

Key(d, i) == <<d[i].file, d[i].pageNo>>

Live == {k \in Keys : disk[k] # Gone}

\* BufMgr::BufMgr
Init ==
  /\ desc = [i \in Frames |-> Clear]
  /\ pool = [i \in Frames |-> Gone]
  /\ ht = EmptyTable
  /\ clockHand = NumBufs - 1
  /\ disk = [k \in Keys |-> Gone]
  /\ lists = NewLists

-----------------------------------------------------------------------------
(* allocBuf.  Its visits take frames as p2's do (ClockRule); it gives up   *)
(* after 2 * NumBufs of them.                                              *)

TakesAt(v) == Takes(desc, clockHand, v)

\* Variant with a bug: one round, in which reference bits hide free frames.
StopsAt_OneRound(v) ==
  /\ v <= NumBufs
  /\ \A w \in 1 .. v - 1 : ~TakesAt(w)
  /\ TakesAt(v) \/ v = NumBufs

StopsAt(v) ==
  /\ v <= 2 * NumBufs
  /\ \A w \in 1 .. v - 1 : ~TakesAt(w)
  /\ TakesAt(v) \/ v = 2 * NumBufs

\* Variant with a bug: a page that was referenced when the sweep began is
\* given up unwritten.
WriteBack_Unreferenced(i) ==
  IF desc[i].dirty /\ ~desc[i].refbit
  THEN [disk EXCEPT ![Key(desc, i)] = pool[i]] ELSE disk

WriteBack(i) ==
  IF desc[i].dirty THEN [disk EXCEPT ![Key(desc, i)] = pool[i]] ELSE disk

\* What the sweep that stops at visit v leaves, and what it throws.  found is
\* not set for a frame that is not valid.
AllocBuf(v) ==
  LET d == Swept(desc, clockHand, v)
      i == FrameAt(clockHand, v)
      k == Key(d, i)
      found == d[i].valid /\ TakesAt(v)
      left(t, exc) == [desc |-> d, ht |-> t, disk |-> disk, exc |-> exc]
  IN  IF ~TakesAt(v) \/ (~found /\ v >= 2 * NumBufs)
      THEN left(ht, "BufferExceeded")
      ELSE IF found /\ ~Has(ht, k)
      THEN left(ht, "HashNotFound")
      ELSE IF d[i].dirty /\ disk[k] = Gone
      THEN left(remove(ht, k), "InvalidPage")
      ELSE [desc |-> [d EXCEPT ![i] = Clear],
            ht   |-> IF found THEN remove(ht, k) ELSE ht,
            disk |-> WriteBack(i),
            exc  |-> "ok"]

\* The caller goes on from what allocBuf left (a) by throwing, or by putting
\* page k with content x in the frame.
Leave(a, v) ==
  /\ desc' = a.desc
  /\ ht' = a.ht
  /\ disk' = a.disk
  /\ clockHand' = FrameAt(clockHand, v)
  /\ UNCHANGED <<pool, lists>>

Put(a, v, k, x) ==
  LET i == FrameAt(clockHand, v) IN
  /\ desc' = [a.desc EXCEPT ![i] = Set(k)]
  /\ pool' = [pool EXCEPT ![i] = x]
  /\ disk' = [a.disk EXCEPT ![k] = x]
  /\ clockHand' = i
  /\ ht' = IF Has(a.ht, k) THEN a.ht ELSE insert(a.ht, k, i)

-----------------------------------------------------------------------------
(* The public operations.                                                  *)

ReadHit(k) ==
  LET i == lookup(ht, k) IN
  /\ Has(ht, k)
  /\ desc[i].pinCnt < MaxPin
  /\ desc' = [desc EXCEPT ![i].pinCnt = @ + 1, ![i].refbit = TRUE]
  /\ UNCHANGED <<pool, ht, clockHand, disk, lists>>

\* A page that does not exist: the frame has been given up and is clear.
ReadMiss(k) ==
  /\ ~Has(ht, k)
  /\ \E v \in Visits :
       /\ StopsAt(v)
       /\ LET a == AllocBuf(v) IN
          \/ a.exc # "ok" /\ Leave(a, v)
          \/ a.exc = "ok" /\ a.disk[k] = Gone /\ Leave(a, v)
          \/ /\ a.exc = "ok" /\ a.disk[k] # Gone
             /\ Put(a, v, k, a.disk[k])
             /\ UNCHANGED lists

readPage(k) == ReadHit(k) \/ ReadMiss(k)

\* The file decides which page it allocates, or throws: as in readPage the
\* frame has been given up by then.
allocPage ==
  \E v \in Visits :
    /\ StopsAt(v)
    /\ LET a == AllocBuf(v) IN
       \/ a.exc # "ok" /\ Leave(a, v)
       \/ /\ a.exc = "ok"
          /\ \E f \in Address : AllocationMayThrow(lists, f)
          /\ Leave(a, v)
       \/ /\ a.exc = "ok"
          /\ \E k \in Keys : /\ MayAllocate(lists, Live, k)
                             /\ Put(a, v, k, Empty)
                             /\ lists' = WithPage(lists, Live, k)

\* The dirty bit is raised before the pin count is looked at.
unPinPage(k, isDirty) ==
  LET i == lookup(ht, k) IN
  /\ Has(ht, k)
  /\ desc' = [desc EXCEPT ![i].dirty = @ \/ isDirty,
                          ![i].pinCnt = IF @ = 0 THEN 0 ELSE @ - 1]
  /\ UNCHANGED <<pool, ht, clockHand, disk, lists>>

\* flushFile works through the file's frames in order and throws at the first
\* it refuses.
Own(f) == {i \in Frames : desc[i].valid /\ desc[i].file = f}

Refusal(i) ==
  IF desc[i].pinCnt > 0 THEN "PagePinned"
  ELSE IF desc[i].dirty /\ disk[Key(desc, i)] = Gone THEN "InvalidPage"
  ELSE IF ~Has(ht, Key(desc, i)) THEN "HashNotFound"
  ELSE "ok"

Flushed(f) ==
  {i \in Own(f) : \A j \in Own(f) : j <= i => Refusal(j) = "ok"}

flushFile(f) ==
  LET keys(S) == {Key(desc, i) : i \in S}
      frameOf(k) == CHOOSE i \in Flushed(f) : Key(desc, i) = k
  IN  /\ desc' = [i \in Frames |-> IF i \in Flushed(f) THEN Clear ELSE desc[i]]
      /\ ht' = FoldSet(LAMBDA i, t : remove(t, Key(desc, i)), ht, Flushed(f))
      /\ disk' = [k \in Keys |->
                    IF k \in keys({i \in Flushed(f) : desc[i].dirty})
                    THEN pool[frameOf(k)] ELSE disk[k]]
      /\ UNCHANGED <<pool, clockHand, lists>>

\* Variant with a bug: the chains keep the page.
disposePage_KeepsEntry(k) ==
  /\ Has(ht, k)
  /\ desc' = [desc EXCEPT ![lookup(ht, k)] = Clear]
  /\ disk' = [disk EXCEPT ![k] = Gone]
  /\ UNCHANGED <<pool, ht, clockHand, lists>>

\* The pin count is not looked at; a page that is not in the pool stays in
\* the file.
disposePage(k) ==
  /\ Has(ht, k)
  /\ desc' = [desc EXCEPT ![lookup(ht, k)] = Clear]
  /\ ht' = remove(ht, k)
  /\ disk' = [disk EXCEPT ![k] = Gone]
  /\ UNCHANGED <<pool, clockHand, lists>>

\* ~BufMgr, which writes every dirty page, pinned or not, and a new BufMgr
\* over the same files.
restart ==
  /\ desc' = [i \in Frames |-> Clear]
  /\ pool' = [i \in Frames |-> Gone]
  /\ ht' = EmptyTable
  /\ clockHand' = NumBufs - 1
  /\ disk' = [k \in Keys |->
                IF \E i \in Frames : desc[i].dirty /\ Key(desc, i) = k
                THEN pool[CHOOSE i \in Frames : Key(desc, i) = k]
                ELSE disk[k]]
  /\ UNCHANGED lists

\* The client writes through the Page pointer it holds.
ChangePage(i, data) ==
  /\ desc[i].pinCnt > 0
  /\ data # pool[i]
  /\ pool' = [pool EXCEPT ![i] = data]
  /\ UNCHANGED <<desc, ht, clockHand, disk, lists>>

-----------------------------------------------------------------------------
(* Any client.                                                             *)
Next ==
  \/ \E k \in Keys :
       \/ readPage(k) \/ disposePage(k)
       \/ \E isDirty \in BOOLEAN : unPinPage(k, isDirty)
  \/ allocPage
  \/ \E f \in Address : flushFile(f)
  \/ \E i \in Frames, data \in Data : ChangePage(i, data)
  \/ restart

Spec == Init /\ [][Next]_vars

\* A client that says so when it changed a page, at the latest when it gives
\* its last pin back, that disposes of no page it holds and gives all pages
\* back before it destroys the manager.  It may ask for pages that do not
\* exist.
Honest(k, isDirty) ==
  LET i == lookup(ht, k) IN
  Has(ht, k) /\ desc[i].pinCnt = 1 /\ ~desc[i].dirty /\ ~isDirty
    => pool[i] = disk[k]

Holding(k) == Has(ht, k) /\ desc[lookup(ht, k)].pinCnt > 0

CarefulNext ==
  \/ \E k \in Keys :
       \/ readPage(k)
       \/ ~Holding(k) /\ disposePage(k)
       \/ \E isDirty \in BOOLEAN : Honest(k, isDirty) /\ unPinPage(k, isDirty)
  \/ allocPage
  \/ \E f \in Address : flushFile(f)
  \/ \E i \in Frames, data \in Data : ChangePage(i, data)
  \/ (\A i \in Frames : desc[i].pinCnt = 0) /\ restart

CarefulSpec == Init /\ [][CarefulNext]_vars

-----------------------------------------------------------------------------
(* The chains and the descriptors say the same: a bucket leads to a valid  *)
(* frame with that page and lies in the chain searched for it, no page has *)
(* two buckets, every valid frame has one, and its page exists.  So a page *)
(* is in the pool at most once and can always be found there.              *)
PoolIndexed ==
  /\ \A x \in Index : \A n \in DOMAIN ht[x] :
       LET k == <<ht[x][n].file, ht[x][n].pageNo>>
           i == ht[x][n].frameNo
       IN  hash(k) = x /\ desc[i].valid /\ Key(desc, i) = k
  /\ \A k \in Keys : \A m, n \in Places(ht, k) : m = n
  /\ \A i \in Frames :
       IF desc[i].valid
       THEN lookup(ht, Key(desc, i)) = i /\ disk[Key(desc, i)] # Gone
       ELSE desc[i] = Clear

(* readPage and allocPage find a frame whenever one is unpinned: two       *)
(* rounds are enough whatever the reference bits are.                      *)
ExceededMeansAllPinned ==
  \A v \in Visits :
    StopsAt(v) /\ AllocBuf(v).exc = "BufferExceeded"
      => \A i \in Frames : desc[i].pinCnt > 0

(* The manager is a page store: caching, eviction, flushing and calls that *)
(* throw are invisible.  The frame of a page is the one whose descriptor   *)
(* names it; PoolIndexed says that the chains lead to the same one.        *)
FramesOf(k) == {i \in Frames : Key(desc, i) = k}

Store ==
  INSTANCE PageStore WITH
    content <- [k \in Keys |-> IF FramesOf(k) = {} THEN disk[k]
                               ELSE pool[CHOOSE i \in FramesOf(k) : TRUE]],
    pins    <- [k \in Keys |-> IF FramesOf(k) = {} THEN 0
                               ELSE desc[CHOOSE i \in FramesOf(k) : TRUE].pinCnt]

ImplementsStore == Store!Spec

=============================================================================

------------------------------- MODULE BufMgr -------------------------------
(***************************************************************************)
(* The buffer manager of p2 (p2/bufmgr/src/buffer.cpp): descriptors, pool, *)
(* hash table and clock hand in front of the pages of the database files.  *)
(* The program has one thread, so a call is one step; a call that throws   *)
(* half way is one step that leaves what it had already done.              *)
(*                                                                         *)
(* A file is what BufMgr sees of it: which pages are in use and with what  *)
(* content, and whether its lists let it allocate (PageLists).  How File   *)
(* keeps that on disk is PagedFile.tla.                                    *)
(***************************************************************************)
EXTENDS ClockRule, PageLists

CONSTANTS
  Files,     \* File objects (each its own file)
  PageIds,   \* bound: the page numbers a file can use
  Data,      \* contents of a page
  Empty,     \* content of a page just allocated
  Gone,      \* not a content: the page is free or was never allocated
  NoFile,    \* NULL
  NoPage,    \* Page::INVALID_NUMBER
  MaxPin     \* bound on the pin count of one frame

ASSUME ConstantsAssumption ==
  /\ Empty \in Data
  /\ Gone \notin Data
  /\ NoFile \notin Files
  /\ NoPage \notin PageIds
  /\ MaxPin \in Nat \ {0}

NoFrame == NumBufs      \* lookup throws HashNotFoundException

Keys == Files \X PageIds

VARIABLES
  desc,        \* bufDescTable
  pool,        \* bufPool: the page number and the content of each Page
  hash,        \* hashTable: frame of each (file, page), or NoFrame
  clockHand,
  disk,        \* content of each page of each file, or Gone
  lists,       \* what the page lists of the files are like
  thrown       \* history: the operation that threw last and what, if it was
               \* the last step

vars == <<desc, pool, hash, clockHand, disk, lists, thrown>>

Nothing == [op |-> "none", exc |-> "ok"]
Threw(op, exc) == [op |-> op, exc |-> exc]

Ops == {"read", "unpin", "alloc", "dispose", "flush", "destroy"}
Exceptions == {"BufferExceeded", "PagePinned", "PageNotPinned", "BadBuffer",
               "InvalidPage", "HashNotFound", "HashAlreadyPresent"}

\* BufDesc::Clear and BufDesc::Set, and a variant of Set with a bug.
Clear == [file |-> NoFile, pageNo |-> NoPage, pinCnt |-> 0,
          dirty |-> FALSE, valid |-> FALSE, refbit |-> FALSE]
Set_ForgetsValid(k) == [Clear EXCEPT !.file = k[1], !.pageNo = k[2],
                                     !.pinCnt = 1, !.refbit = TRUE]
Set(k) == [file |-> k[1], pageNo |-> k[2], pinCnt |-> 1,
           dirty |-> FALSE, valid |-> TRUE, refbit |-> TRUE]

Desc == [file : Files \cup {NoFile}, pageNo : PageIds \cup {NoPage},
         pinCnt : Nat, dirty : BOOLEAN, valid : BOOLEAN, refbit : BOOLEAN]

TablesOK ==
  /\ desc \in [Frames -> Desc]
  /\ pool \in [Frames -> [number : PageIds \cup {NoPage},
                          data : Data \cup {Gone}]]
  /\ hash \in [Keys -> Frames \cup {NoFrame}]
  /\ clockHand \in Frames
  /\ disk \in [Keys -> Data \cup {Gone}]
  /\ thrown = Nothing \/ thrown \in [op : Ops, exc : Exceptions]

TypeOK == TablesOK /\ lists \in PageListsOf(Keys, Files)

\* BufMgr::BufMgr
FreshPool ==
  /\ desc = [i \in Frames |-> Clear]
  /\ pool = [i \in Frames |-> [number |-> NoPage, data |-> Gone]]
  /\ hash = [k \in Keys |-> NoFrame]
  /\ clockHand = NumBufs - 1

Init ==
  /\ FreshPool
  /\ disk = [k \in Keys |-> Gone]
  /\ lists = NewLists
  /\ thrown = Nothing

Key(d, i) == <<d[i].file, d[i].pageNo>>

Live == {k \in Keys : disk[k] # Gone}

-----------------------------------------------------------------------------
(* flushFile, as a function of the descriptors d and hash table h it finds *)
(* (allocBuf calls it in the middle of its own work).  It visits the       *)
(* frames of file f in index order and throws at the first it refuses; the *)
(* frames before that one have been written, unhashed and cleared.         *)

Own(d, f) == {i \in Frames : d[i].file = f}

\* Variant with a bug: flushFile does not look at the pin count.
Refusal_IgnoresPins(d, h, f, i) ==
  IF pool[i].number # d[i].pageNo \/ ~d[i].valid THEN "BadBuffer"
  ELSE IF h[Key(d, i)] = NoFrame THEN "HashNotFound"
  ELSE "ok"

Refusal(d, h, f, i) ==
  IF d[i].pinCnt > 0 THEN "PagePinned"
  ELSE IF pool[i].number # d[i].pageNo \/ ~d[i].valid THEN "BadBuffer"
  ELSE IF d[i].dirty /\ disk[Key(d, i)] = Gone THEN "InvalidPage"
  ELSE IF \/ h[Key(d, i)] = NoFrame
          \/ \E j \in Own(d, f) : j < i /\ d[j].pageNo = d[i].pageNo
       THEN "HashNotFound"
  ELSE "ok"

\* Frames the loop finishes with, and the one it throws at.
Flushed(d, h, f) ==
  {i \in Own(d, f) :
     \A j \in Own(d, f) : j <= i => Refusal(d, h, f, j) = "ok"}

ThrowsAt(d, h, f, i) ==
  /\ i \in Own(d, f)
  /\ Refusal(d, h, f, i) # "ok"
  /\ \A j \in Own(d, f) : j < i => Refusal(d, h, f, j) = "ok"

FlushThrows(d, h, f) == \E i \in Frames : ThrowsAt(d, h, f, i)

FlushException(d, h, f) ==
  Refusal(d, h, f, CHOOSE i \in Frames : ThrowsAt(d, h, f, i))

\* writePage comes before hashTable->remove, so a frame refused for its
\* missing hash entry has been written.
Written(d, h, f) ==
  {i \in Own(d, f) :
     /\ d[i].dirty
     /\ \/ i \in Flushed(d, h, f)
        \/ ThrowsAt(d, h, f, i) /\ Refusal(d, h, f, i) = "HashNotFound"}

\* Variant with a bug: flushFile unhashes its frames but leaves them valid.
FlushDesc_KeepsFrames(d, h, f) == d

FlushDesc(d, h, f) ==
  [i \in Frames |-> IF i \in Flushed(d, h, f) THEN Clear ELSE d[i]]

\* Variant with a bug: flushFile clears its frames but leaves them hashed.
FlushHash_KeepsEntries(d, h, f) == h

FlushHash(d, h, f) ==
  [k \in Keys |-> IF \E i \in Flushed(d, h, f) : Key(d, i) = k
                  THEN NoFrame ELSE h[k]]

FlushDisk(d, h, f) ==
  [k \in Keys |->
     IF \E i \in Written(d, h, f) : Key(d, i) = k
     THEN pool[CHOOSE i \in Written(d, h, f) :
                 /\ Key(d, i) = k
                 /\ \A j \in Written(d, h, f) : Key(d, j) = k => j <= i].data
     ELSE disk[k]]

flushFile(f) ==
  /\ desc' = FlushDesc(desc, hash, f)
  /\ hash' = FlushHash(desc, hash, f)
  /\ disk' = FlushDisk(desc, hash, f)
  /\ thrown' = IF FlushThrows(desc, hash, f)
               THEN Threw("flush", FlushException(desc, hash, f))
               ELSE Nothing
  /\ UNCHANGED <<pool, clockHand, lists>>

-----------------------------------------------------------------------------
(* allocBuf, when the sweep ends at visit v: what it leaves of the         *)
(* descriptors, hash table and disk, and the exception it throws if any.   *)

SweptDesc(v) == Swept(desc, clockHand, v)
Victim(v) == FrameAt(clockHand, v)

\* Variant with a bug: the else before hashTable->remove is missing, so the
\* entry flushFile has just removed is removed again.
AllocOutcome_RemovesTwice(d, i) ==
  IF d[i].valid /\ d[i].pinCnt > 0 THEN "BufferExceeded"
  ELSE IF ~d[i].valid THEN "free"
  ELSE IF d[i].dirty
       THEN IF FlushThrows(d, hash, d[i].file)
            THEN FlushException(d, hash, d[i].file) ELSE "HashNotFound"
  ELSE IF hash[Key(d, i)] = NoFrame THEN "HashNotFound" ELSE "unhashed"

AllocOutcome(d, i) ==
  IF d[i].valid /\ d[i].pinCnt > 0 THEN "BufferExceeded"
  ELSE IF ~d[i].valid THEN "free"
  ELSE IF d[i].dirty
       THEN IF FlushThrows(d, hash, d[i].file)
            THEN FlushException(d, hash, d[i].file) ELSE "flushed"
  ELSE IF hash[Key(d, i)] = NoFrame THEN "HashNotFound" ELSE "unhashed"

Succeeds(outcome) == outcome \in {"free", "flushed", "unhashed"}

\* Only a dirty victim flushes, and it flushes every frame of its file.
Flushes(d, i) == d[i].valid /\ d[i].pinCnt = 0 /\ d[i].dirty

AllocDesc(d, i) ==
  IF Flushes(d, i) THEN FlushDesc(d, hash, d[i].file) ELSE d

AllocHash(d, i) ==
  IF Flushes(d, i) THEN FlushHash(d, hash, d[i].file)
  ELSE IF AllocOutcome(d, i) = "unhashed"
       THEN [hash EXCEPT ![Key(d, i)] = NoFrame]
       ELSE hash

AllocDisk(d, i) ==
  IF Flushes(d, i) THEN FlushDisk(d, hash, d[i].file) ELSE disk

\* The part of a call that throws while it has no page to put in the frame.
AllocOnly(v, op, exc) ==
  LET d == SweptDesc(v)
      i == Victim(v)
  IN  /\ desc' = AllocDesc(d, i)
      /\ hash' = AllocHash(d, i)
      /\ disk' = AllocDisk(d, i)
      /\ clockHand' = i
      /\ thrown' = Threw(op, exc)
      /\ UNCHANGED <<pool, lists>>

-----------------------------------------------------------------------------
(* The public operations.                                                  *)

ReadHit(k) ==
  LET i == hash[k] IN
  /\ i # NoFrame
  /\ desc[i].pinCnt < MaxPin
  /\ desc' = [desc EXCEPT ![i].pinCnt = @ + 1, ![i].refbit = TRUE]
  /\ thrown' = Nothing
  /\ UNCHANGED <<pool, hash, clockHand, disk, lists>>

ReadMiss(k) ==
  /\ hash[k] = NoFrame
  /\ \E v \in Visits :
       /\ Ends(desc, clockHand, v)
       /\ LET d == SweptDesc(v)
              i == Victim(v)
              outcome == AllocOutcome(d, i)
              onDisk == AllocDisk(d, i)[k]
          IN  \/ /\ ~Succeeds(outcome)
                 /\ AllocOnly(v, "read", outcome)
              \/ /\ Succeeds(outcome)
                 /\ onDisk = Gone
                 /\ AllocOnly(v, "read", "InvalidPage")
              \/ /\ Succeeds(outcome)
                 /\ onDisk # Gone
                 /\ pool' = [pool EXCEPT ![i] = [number |-> k[2],
                                                 data |-> onDisk]]
                 /\ hash' = [AllocHash(d, i) EXCEPT ![k] = i]
                 /\ desc' = [AllocDesc(d, i) EXCEPT ![i] = Set(k)]
                 /\ disk' = AllocDisk(d, i)
                 /\ clockHand' = i
                 /\ thrown' = Nothing
                 /\ UNCHANGED lists

readPage(k) == ReadHit(k) \/ ReadMiss(k)

\* allocBuf comes before allocatePage: if either throws, nothing has been
\* allocated, but the victim is gone.  Of several free pages the one at the
\* head of the free list is allocated: here, any.
allocPage(f) ==
  \E v \in Visits :
    /\ Ends(desc, clockHand, v)
    /\ LET d == SweptDesc(v)
           i == Victim(v)
           outcome == AllocOutcome(d, i)
       IN  \/ /\ ~Succeeds(outcome)
              /\ AllocOnly(v, "alloc", outcome)
           \/ /\ Succeeds(outcome)
              /\ AllocationMayThrow(lists, f)
              /\ AllocOnly(v, "alloc", "InvalidPage")
           \/ /\ Succeeds(outcome)
              /\ \E k \in Keys :
                   /\ k[1] = f
                   /\ MayAllocate(lists, Live, k)
                   /\ pool' = [pool EXCEPT ![i] = [number |-> k[2],
                                                   data |-> Empty]]
                   /\ desc' = [AllocDesc(d, i) EXCEPT ![i] = Set(k)]
                   /\ disk' = [AllocDisk(d, i) EXCEPT ![k] = Empty]
                   /\ lists' = WithPage(lists, Live, k)
                   /\ clockHand' = i
                   /\ IF AllocHash(d, i)[k] = NoFrame
                      THEN /\ hash' = [AllocHash(d, i) EXCEPT ![k] = i]
                           /\ thrown' = Nothing
                      ELSE /\ hash' = AllocHash(d, i)
                           /\ thrown' = Threw("alloc", "HashAlreadyPresent")

\* Variant with a bug: the dirty bit is assigned instead of raised.
unPinPage_AssignsDirty(k, isDirty) ==
  /\ hash[k] # NoFrame
  /\ desc[hash[k]].pinCnt > 0
  /\ desc' = [desc EXCEPT ![hash[k]].pinCnt = @ - 1,
                          ![hash[k]].dirty = isDirty]
  /\ thrown' = Nothing
  /\ UNCHANGED <<pool, hash, clockHand, disk, lists>>

\* A page that is not in the pool: nothing happens, and nothing is thrown.
unPinPage(k, isDirty) ==
  LET i == hash[k] IN
  /\ IF i = NoFrame
     THEN UNCHANGED desc /\ thrown' = Nothing
     ELSE IF desc[i].pinCnt = 0
     THEN UNCHANGED desc /\ thrown' = Threw("unpin", "PageNotPinned")
     ELSE /\ desc' = [desc EXCEPT ![i].pinCnt = @ - 1,
                                  ![i].dirty = @ \/ isDirty]
          /\ thrown' = Nothing
  /\ UNCHANGED <<pool, hash, clockHand, disk, lists>>

\* Variant with a bug: the page goes from the frame and the file, not from
\* the hash table.
disposePage_KeepsEntry(k) ==
  /\ disk[k] # Gone
  /\ hash[k] # NoFrame /\ desc[hash[k]].pinCnt = 0
  /\ desc' = [desc EXCEPT ![hash[k]] = Clear]
  /\ disk' = [disk EXCEPT ![k] = Gone]
  /\ thrown' = Nothing
  /\ UNCHANGED <<pool, hash, clockHand, lists>>

\* Variant with a bug: the page goes from the file and stays in the pool.
disposePage_KeepsFrame(k) ==
  /\ disk[k] # Gone
  /\ disk' = [disk EXCEPT ![k] = Gone]
  /\ thrown' = Nothing
  /\ UNCHANGED <<desc, hash, pool, clockHand, lists>>

disposePage(k) ==
  LET i == hash[k] IN
  /\ IF i # NoFrame /\ desc[i].pinCnt > 0
     THEN /\ thrown' = Threw("dispose", "PagePinned")
          /\ UNCHANGED <<desc, hash, disk>>
     ELSE /\ IF i = NoFrame
             THEN UNCHANGED <<desc, hash>>
             ELSE /\ desc' = [desc EXCEPT ![i] = Clear]
                  /\ hash' = [hash EXCEPT ![k] = NoFrame]
          /\ disk' = [disk EXCEPT ![k] = Gone]
          /\ thrown' = IF disk[k] = Gone
                       THEN Threw("dispose", "InvalidPage") ELSE Nothing
  /\ UNCHANGED <<pool, clockHand, lists>>

\* ~BufMgr flushes the file of each frame it finds dirty, in frame order,
\* until a flush throws (which ends the program: a destructor).
AtExitThrows(i) ==
  desc[i].dirty /\ FlushThrows(desc, hash, desc[i].file)

FlushedAtExit(f) ==
  \E i \in Own(desc, f) :
    desc[i].dirty /\ \A j \in Frames : j < i => ~AtExitThrows(j)

\* Destruction, and a new BufMgr over the same files.
restart ==
  /\ desc' = [i \in Frames |-> Clear]
  /\ pool' = [i \in Frames |-> [number |-> NoPage, data |-> Gone]]
  /\ hash' = [k \in Keys |-> NoFrame]
  /\ clockHand' = NumBufs - 1
  /\ disk' = [k \in Keys |-> IF FlushedAtExit(k[1])
                             THEN FlushDisk(desc, hash, k[1])[k]
                             ELSE disk[k]]
  /\ thrown' =
       IF \E i \in Frames : AtExitThrows(i)
       THEN Threw("destroy",
              FlushException(desc, hash,
                desc[CHOOSE i \in Frames :
                       /\ AtExitThrows(i)
                       /\ \A j \in Frames : j < i => ~AtExitThrows(j)].file))
       ELSE Nothing
  /\ UNCHANGED lists

\* The client writes through the Page pointer it holds.
ChangePage(i, data) ==
  /\ desc[i].pinCnt > 0
  /\ data # pool[i].data
  /\ pool' = [pool EXCEPT ![i].data = data]
  /\ thrown' = Nothing
  /\ UNCHANGED <<desc, hash, clockHand, disk, lists>>

-----------------------------------------------------------------------------
(* Any client: reads pages that do not exist, allocates from files whose   *)
(* lists are out of order, forgets to say that it changed a page, destroys *)
(* the manager with pages pinned.                                          *)
Next ==
  \/ \E k \in Keys :
       \/ readPage(k) \/ disposePage(k)
       \/ \E isDirty \in BOOLEAN : unPinPage(k, isDirty)
  \/ \E f \in Files : allocPage(f) \/ flushFile(f)
  \/ \E i \in Frames, data \in Data : ChangePage(i, data)
  \/ restart

Spec == Init /\ [][Next]_vars

\* A client that marks what it changed: the last unPinPage of a page whose
\* content is no longer the one on disk says dirty, if none did before.
Honest(k, isDirty) ==
  LET i == hash[k] IN
  i # NoFrame /\ desc[i].pinCnt = 1 /\ ~desc[i].dirty /\ ~isDirty
    => pool[i].data = disk[k]

\* A client that also reads only pages that exist, allocates no page from a
\* file it has emptied of several, and gives every page back before it
\* destroys the manager.
CarefulNext ==
  \/ \E k \in Keys :
       \/ disk[k] # Gone /\ readPage(k)
       \/ disposePage(k)
       \/ \E isDirty \in BOOLEAN :
            Honest(k, isDirty) /\ unPinPage(k, isDirty)
  \/ \E f \in Files :
       \/ ~EmptiedOfSeveral(lists, Live, f) /\ allocPage(f)
       \/ flushFile(f)
  \/ \E i \in Frames, data \in Data : ChangePage(i, data)
  \/ (\A i \in Frames : desc[i].pinCnt = 0) /\ restart

CarefulSpec == Init /\ [][CarefulNext]_vars

-----------------------------------------------------------------------------
(* What holds for any client.                                              *)

(* A descriptor is either the one Clear leaves or that of a page of a file *)
(* whose Page is in the frame under that number: calls that throw half way *)
(* leave no frame in between, and flushFile can trust every frame it meets.*)
FramesWellFormed ==
  \A i \in Frames :
    IF desc[i].valid
    THEN /\ Key(desc, i) \in Keys
         /\ pool[i].number = desc[i].pageNo
         /\ pool[i].data \in Data
    ELSE desc[i] = Clear

(* Every entry of the hash table leads to a valid frame holding that page, *)
(* and that page exists: a hit of readPage never returns another page or a *)
(* deleted one, whatever calls failed before.                              *)
HashSound ==
  \A k \in Keys : hash[k] # NoFrame =>
    desc[hash[k]].valid /\ Key(desc, hash[k]) = k /\ disk[k] # Gone

(* flushFile's BadBufferException and insert's HashAlreadyPresentException *)
(* report states that do not arise.                                        *)
NoCorruptionThrown == thrown.exc \notin {"BadBuffer", "HashAlreadyPresent"}

(* While a client holds a page, nothing but the destruction of the manager *)
(* moves its frame to another page, and only unPinPage, once per call,     *)
(* lowers its pin count: the Page pointer it was given stays good.         *)
PinnedFrameStays ==
  \A i \in Frames : desc[i].pinCnt > 0 =>
    /\ desc'[i].valid
    /\ Key(desc', i) = Key(desc, i)
    /\ desc'[i].pinCnt >= desc[i].pinCnt - 1

PinnedFramesStay == [][restart \/ PinnedFrameStays]_vars

-----------------------------------------------------------------------------
(* What holds for a careful client.                                        *)

(* Every valid frame is the one its page's hash entry leads to: no page is *)
(* twice in the pool and every page in it can be found.                    *)
PoolIsHashed ==
  \A i \in Frames : desc[i].valid => hash[Key(desc, i)] = i

(* A frame that may be taken without being written (unpinned and not       *)
(* dirty) has the content of its page on disk.                             *)
CleanFramesMatchDisk ==
  \A i \in Frames : desc[i].valid /\ desc[i].pinCnt = 0 /\ ~desc[i].dirty =>
    pool[i].data = disk[Key(desc, i)]

(* With no page held, readPage and allocPage do not throw.                 *)
IdlePoolServes ==
  (\A i \in Frames : desc[i].pinCnt = 0) => thrown'.op \notin {"read", "alloc"}

IdlePoolAlwaysServes == [][IdlePoolServes]_vars

(* The buffer manager is a page store: caching, eviction, flushing, calls  *)
(* that throw, closing and reopening are invisible.                        *)
Store ==
  INSTANCE PageStore WITH
    content <- [k \in Keys |-> IF hash[k] # NoFrame
                               THEN pool[hash[k]].data ELSE disk[k]],
    pins    <- [k \in Keys |-> IF hash[k] # NoFrame
                               THEN desc[hash[k]].pinCnt ELSE 0]

ImplementsStore == Store!Spec

=============================================================================

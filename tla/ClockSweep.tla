---------------------------- MODULE ClockSweep ----------------------------
(***************************************************************************)
(* The clock algorithm of BufMgr::allocBuf, one step per turn of its       *)
(* while(1), between the calls that pin, unpin and clear frames.  Pages,   *)
(* files and the hash table are left to BufMgr.tla: here a frame is only   *)
(* what the sweep looks at.                                                *)
(***************************************************************************)
EXTENDS ClockRule

CONSTANT MaxPin         \* bound on the pin count of one frame

ASSUME MaxPinAssumption == MaxPin \in Nat \ {0}

VARIABLES
  desc,        \* bufDescTable: valid, refbit and pinCnt of each frame
  clockHand,
  clockCount,  \* clock_count, local to allocBuf
  pc,          \* "idle": no call; "sweep": in the loop; how the loop ended
  start        \* history: the table and the hand when allocBuf was called

vars == <<desc, clockHand, clockCount, pc, start>>

Cleared == [valid |-> FALSE, refbit |-> FALSE, pinCnt |-> 0]
Fresh   == [valid |-> TRUE,  refbit |-> TRUE,  pinCnt |-> 1]

Desc == [valid : BOOLEAN, refbit : BOOLEAN, pinCnt : 0 .. MaxPin]

TypeOK ==
  /\ desc \in [Frames -> Desc]
  /\ clockHand \in Frames
  /\ clockCount \in 0 .. NumBufs + 1
  /\ pc \in {"idle", "sweep", "found", "exceeded"}
  /\ start \in [desc : [Frames -> Desc], hand : Frames]

Start(d, h) == [desc |-> d, hand |-> h]

\* BufMgr::BufMgr
Init ==
  /\ desc = [i \in Frames |-> Cleared]
  /\ clockHand = NumBufs - 1
  /\ clockCount = 0
  /\ pc = "idle"
  /\ start = Start(desc, clockHand)

-----------------------------------------------------------------------------
(* What other calls do to the frames between two calls of allocBuf.        *)

\* readPage finds the page in the pool.
Hit(i) ==
  /\ pc = "idle"
  /\ desc[i].valid
  /\ desc[i].pinCnt < MaxPin
  /\ desc' = [desc EXCEPT ![i].pinCnt = @ + 1, ![i].refbit = TRUE]
  /\ UNCHANGED <<clockHand, clockCount, pc, start>>

Unpin(i) ==
  /\ pc = "idle"
  /\ desc[i].pinCnt > 0
  /\ desc' = [desc EXCEPT ![i].pinCnt = @ - 1]
  /\ UNCHANGED <<clockHand, clockCount, pc, start>>

\* disposePage, or flushFile on the frame's file.
Drop(i) ==
  /\ pc = "idle"
  /\ desc[i].valid
  /\ desc[i].pinCnt = 0
  /\ desc' = [desc EXCEPT ![i] = Cleared]
  /\ UNCHANGED <<clockHand, clockCount, pc, start>>

-----------------------------------------------------------------------------
(* allocBuf.                                                               *)

Call ==
  /\ pc = "idle"
  /\ pc' = "sweep"
  /\ clockCount' = 0
  /\ start' = Start(desc, clockHand)
  /\ UNCHANGED <<desc, clockHand>>

advanceClock == clockHand' = (clockHand + 1) % NumBufs

\* Variant with a bug: the first pass forgets to clear the reference bit of
\* a frame that is pinned.
SkipReferenced_KeepsBit ==
  /\ pc = "sweep"
  /\ advanceClock
  /\ desc[clockHand'].valid /\ desc[clockHand'].refbit
  /\ desc' = [desc EXCEPT ![clockHand'].refbit = desc[clockHand'].pinCnt > 0]
  /\ UNCHANGED <<clockCount, pc, start>>

SkipReferenced ==
  /\ pc = "sweep"
  /\ advanceClock
  /\ desc[clockHand'].valid /\ desc[clockHand'].refbit
  /\ desc' = [desc EXCEPT ![clockHand'].refbit = FALSE]
  /\ UNCHANGED <<clockCount, pc, start>>

\* Variants with a bug: the count is compared before it is complete, or the
\* pinned frames are not counted.
SkipPinned_OffByOne ==
  /\ pc = "sweep"
  /\ advanceClock
  /\ desc[clockHand'].valid /\ ~desc[clockHand'].refbit
  /\ desc[clockHand'].pinCnt > 0
  /\ clockCount' = clockCount + 1
  /\ pc' = IF clockCount' >= NumBufs THEN "exceeded" ELSE "sweep"
  /\ UNCHANGED <<desc, start>>

SkipPinned_NoCount ==
  /\ pc = "sweep"
  /\ advanceClock
  /\ desc[clockHand'].valid /\ ~desc[clockHand'].refbit
  /\ desc[clockHand'].pinCnt > 0
  /\ UNCHANGED <<desc, clockCount, pc, start>>

SkipPinned ==
  /\ pc = "sweep"
  /\ advanceClock
  /\ desc[clockHand'].valid /\ ~desc[clockHand'].refbit
  /\ desc[clockHand'].pinCnt > 0
  /\ clockCount' = clockCount + 1
  /\ pc' = IF clockCount' > NumBufs THEN "exceeded" ELSE "sweep"
  /\ UNCHANGED <<desc, start>>

\* Variant with a bug: the reference bit is not looked at.
Take_IgnoresReference ==
  /\ pc = "sweep"
  /\ advanceClock
  /\ desc[clockHand'].pinCnt = 0
  /\ pc' = "found"
  /\ UNCHANGED <<desc, clockCount, start>>

Take ==
  /\ pc = "sweep"
  /\ advanceClock
  /\ \/ ~desc[clockHand'].valid
     \/ ~desc[clockHand'].refbit /\ desc[clockHand'].pinCnt = 0
  /\ pc' = "found"
  /\ UNCHANGED <<desc, clockCount, start>>

LoopBody == SkipReferenced \/ SkipPinned \/ Take

\* The caller uses the frame it was given (Set), or the exception reaches it.
Return ==
  /\ \/ pc = "found"    /\ desc' = [desc EXCEPT ![clockHand] = Fresh]
     \/ pc = "exceeded" /\ desc' = desc
  /\ pc' = "idle"
  /\ clockCount' = 0
  /\ start' = Start(desc', clockHand)
  /\ UNCHANGED clockHand

\* The frame is obtained but flushFile, hashTable->remove or file->readPage
\* throws: the caller never calls Set, and the frame keeps the descriptor the
\* sweep left.  (Frames that flushFile cleared before are Drop steps here.)
ReturnUnused ==
  /\ pc = "found"
  /\ pc' = "idle"
  /\ clockCount' = 0
  /\ start' = Start(desc, clockHand)
  /\ UNCHANGED <<desc, clockHand>>

Client == \/ \E i \in Frames : Hit(i) \/ Unpin(i) \/ Drop(i)
          \/ Call

Next == Client \/ LoopBody \/ Return \/ ReturnUnused

\* The thread that called allocBuf keeps running; nobody is obliged to call.
Spec == Init /\ [][Next]_vars /\ WF_vars(LoopBody)

-----------------------------------------------------------------------------
Pinned(d) == {i \in Frames : d[i].pinCnt > 0}

(* The loop computes the relation of ClockRule: when it ends, some visit   *)
(* Ends the sweep of the table it started with, and the hand, the          *)
(* reference bits and the way it ended are the ones that visit gives.      *)
LoopMatchesRule ==
  pc \in {"found", "exceeded"} =>
    \E v \in Visits :
      /\ Ends(start.desc, start.hand, v)
      /\ clockHand = FrameAt(start.hand, v)
      /\ desc = Swept(start.desc, start.hand, v)
      /\ pc = "found" <=> Takes(start.desc, start.hand, v)

(* A sweep that gives up had more than half of the frames pinned: an       *)
(* unpinned frame survives at most two rounds, in which a pinned frame is  *)
(* counted at most twice.  (That all were pinned, as the comment in the    *)
(* code says, is false: see BufMgr.)                                       *)
GivingUpNeedsAMajority ==
  pc = "exceeded" => 2 * Cardinality(Pinned(desc)) > NumBufs

(* Second chance: a page taken from the pool had its reference bit clear   *)
(* when the call started, unless every frame was valid and either          *)
(* referenced or pinned at that time.                                      *)
SecondChance ==
  pc = "found" /\ start.desc[clockHand].refbit =>
    \A i \in Frames : /\ start.desc[i].valid
                      /\ start.desc[i].refbit \/ start.desc[i].pinCnt > 0

(* while(1) is left: every call of allocBuf finds a frame or throws.       *)
SweepEnds == pc = "sweep" ~> pc \in {"found", "exceeded"}

=============================================================================

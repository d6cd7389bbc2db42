----------------------------- MODULE ClockRule -----------------------------
(***************************************************************************)
(* The decision taken by BufMgr::allocBuf (p2/bufmgr/src/buffer.cpp) as a  *)
(* relation on the descriptor table, with no loop: which visit of the      *)
(* clock hand ends the sweep and how.  ClockSweep.tla is the loop itself   *)
(* and shows that it computes this relation; BufMgr.tla uses the relation  *)
(* so that a whole buffer-manager call is one step.                        *)
(***************************************************************************)
EXTENDS Naturals, FiniteSets

CONSTANT NumBufs        \* BufMgr::numBufs

\* BufMgr(0) computes clockHand = 0 - 1 and x % 0: the code needs a frame.
ASSUME NumBufsAssumption == NumBufs \in Nat \ {0}

Frames == 0 .. NumBufs - 1

\* Visits are numbered 1, 2, ...: visit v is to the frame v places after the
\* hand.  Each of the first two rounds can only skip; the third can only
\* raise BufferExceeded, on its first visit.
Visits == 1 .. 2 * NumBufs + 1

FrameAt(hand, v) == (hand + v) % NumBufs

\* d[i] has at least the fields valid, refbit and pinCnt.  The reference bit
\* that visit v tests: the first round clears those it finds set.
Referenced(d, hand, v) ==
  d[FrameAt(hand, v)].valid /\ d[FrameAt(hand, v)].refbit /\ v <= NumBufs

\* Visit v counts its frame as pinned (++clock_count).
CountsPinned(d, hand, v) ==
  /\ d[FrameAt(hand, v)].valid
  /\ d[FrameAt(hand, v)].pinCnt > 0
  /\ ~Referenced(d, hand, v)

\* Visit v leaves the loop with the frame.
Takes(d, hand, v) ==
  \/ ~d[FrameAt(hand, v)].valid
  \/ d[FrameAt(hand, v)].pinCnt = 0 /\ ~Referenced(d, hand, v)

\* Visit v leaves the loop by throwing BufferExceededException.
GivesUp(d, hand, v) ==
  /\ CountsPinned(d, hand, v)
  /\ Cardinality({w \in 1 .. v : CountsPinned(d, hand, w)}) > NumBufs

\* Visit v is the one that ends the sweep.
Ends(d, hand, v) ==
  /\ Takes(d, hand, v) \/ GivesUp(d, hand, v)
  /\ \A w \in 1 .. v - 1 : ~Takes(d, hand, w) /\ ~GivesUp(d, hand, w)

\* The descriptors when the sweep ends at visit v: visited frames have lost
\* their reference bit.
Swept(d, hand, v) ==
  [i \in Frames |->
     IF \E w \in 1 .. v : FrameAt(hand, w) = i /\ Referenced(d, hand, w)
       THEN [d[i] EXCEPT !.refbit = FALSE]
       ELSE d[i]]

=============================================================================

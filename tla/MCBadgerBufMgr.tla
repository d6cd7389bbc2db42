--------------------------- MODULE MCBadgerBufMgr ---------------------------
(***************************************************************************)
(* What TLC needs of BadgerBufMgr.                                         *)
(***************************************************************************)
EXTENDS BadgerBufMgr

\* Two states that differ only in the content of a frame that is not valid
\* have the same successors: no action reads it.
View == <<desc, [i \in Frames |-> IF desc[i].valid THEN pool[i] ELSE Gone],
          ht, clockHand, disk, lists>>

=============================================================================

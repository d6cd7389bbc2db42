------------------------------ MODULE MCBufMgr ------------------------------
(***************************************************************************)
(* Small instances of BufMgr for TLC.                                      *)
(***************************************************************************)
EXTENDS BufMgr, TLC

CONSTANTS f1, f2, p1, p2, p3, p4, d0, d1

TwoFiles == {f1, f2}
OneFile == {f1}
TwoPages == {p1, p2}
ThreePages == {p1, p2, p3}
FourPages == {p1, p2, p3, p4}
OneContent == {d0}
TwoContents == {d0, d1}

\* Files are interchangeable, and so are page numbers: BufMgr only compares
\* them.  d0 is Empty and cannot be exchanged with d1.
Symmetry == Permutations(Files) \cup Permutations(PageIds)

\* Two states that differ only in what was thrown last, or in the Page of a
\* frame that is not valid, have the same successors: no action reads either.
\* (For runs whose invariants do not mention thrown; one that looks for an
\* exception that reports a corrupted table keeps apart the states with it.)
View == <<desc, [i \in Frames |-> IF desc[i].valid THEN pool[i] ELSE NoPage],
          hash, clockHand, disk, lists>>

ViewOfCorruption == <<View, NoCorruptionThrown>>

=============================================================================

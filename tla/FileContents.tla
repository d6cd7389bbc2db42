---------------------------- MODULE FileContents ----------------------------
(***************************************************************************)
(* What a database file promises (p2/bufmgr/src/file.h): a set of pages,   *)
(* each with its content; allocatePage returns an empty page that was not  *)
(* in use, deletePage takes one away, writePage replaces the content of    *)
(* one and of no other.                                                    *)
(***************************************************************************)
EXTENDS Naturals

CONSTANTS Pages, Data, Empty, Gone

VARIABLE content    \* content[p]: content of page p, or Gone

Init == content = [p \in Pages |-> Gone]

Allocate(p) ==
  /\ content[p] = Gone
  /\ content' = [content EXCEPT ![p] = Empty]

Delete(p) ==
  /\ content[p] # Gone
  /\ content' = [content EXCEPT ![p] = Gone]

Write(p, d) ==
  /\ content[p] # Gone
  /\ content' = [content EXCEPT ![p] = d]

Next == \E p \in Pages :
          Allocate(p) \/ Delete(p) \/ \E d \in Data : Write(p, d)

Spec == Init /\ [][Next]_content

=============================================================================

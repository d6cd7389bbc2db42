----------------------------- MODULE PageStore -----------------------------
(***************************************************************************)
(* What the buffer manager promises its client, with no frames, clock,     *)
(* hash table or disk: a page that exists has one current content; a       *)
(* client that holds the page may change it, and nobody loses that change; *)
(* a page is held once per readPage or allocPage until an unPinPage gives  *)
(* it back; a page in use is not disposed of.                              *)
(*                                                                         *)
(* BufMgr.tla implements this module for clients that read only pages      *)
(* that exist and that say so when they changed a page.                    *)
(***************************************************************************)
EXTENDS Naturals

CONSTANTS
  Keys,      \* the (file, page number) pairs
  Data,      \* contents of a page
  Empty,     \* content of a page just allocated
  Gone       \* not a content: the page does not exist

VARIABLES
  content,   \* content[k]:  current content of the page, or Gone
  pins       \* pins[k]: how many times the client holds it

storeVars == <<content, pins>>

TypeOK ==
  /\ content \in [Keys -> Data \cup {Gone}]
  /\ pins \in [Keys -> Nat]

Init ==
  /\ content = [k \in Keys |-> Gone]
  /\ pins = [k \in Keys |-> 0]

Allocate(k) ==
  /\ content[k] = Gone
  /\ content' = [content EXCEPT ![k] = Empty]
  /\ pins' = [pins EXCEPT ![k] = 1]

Read(k) ==
  /\ content[k] # Gone
  /\ pins' = [pins EXCEPT ![k] = @ + 1]
  /\ UNCHANGED content

Change(k, d) ==
  /\ pins[k] > 0
  /\ content' = [content EXCEPT ![k] = d]
  /\ UNCHANGED pins

GiveBack(k) ==
  /\ pins[k] > 0
  /\ pins' = [pins EXCEPT ![k] = @ - 1]
  /\ UNCHANGED content

Dispose(k) ==
  /\ content[k] # Gone
  /\ pins[k] = 0
  /\ content' = [content EXCEPT ![k] = Gone]
  /\ UNCHANGED pins

\* Flushing, evicting, closing and reopening the buffer manager are stutters.
Next ==
  \E k \in Keys :
    \/ Allocate(k) \/ Read(k) \/ GiveBack(k) \/ Dispose(k)
    \/ \E d \in Data : Change(k, d)

Spec == Init /\ [][Next]_storeVars

=============================================================================

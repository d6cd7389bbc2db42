----------------------------- MODULE RecordMap -----------------------------
(***************************************************************************)
(* What a Page promises (p2/bufmgr/src/page.h): records under the numbers  *)
(* of their slots; a record can be read by its number, unchanged, until it *)
(* is updated or deleted, whatever happens to the other records.           *)
(***************************************************************************)
CONSTANTS SlotIds, Records, NoRecord

VARIABLE content    \* content[s]: the record in slot s, or NoRecord

Init == content = [s \in SlotIds |-> NoRecord]

Insert(s, r) ==
  /\ content[s] = NoRecord
  /\ content' = [content EXCEPT ![s] = r]

Update(s, r) ==
  /\ content[s] # NoRecord
  /\ content' = [content EXCEPT ![s] = r]

Delete(s) ==
  /\ content[s] # NoRecord
  /\ content' = [content EXCEPT ![s] = NoRecord]

Next == \E s \in SlotIds :
          Delete(s) \/ \E r \in Records : Insert(s, r) \/ Update(s, r)

Spec == Init /\ [][Next]_content

=============================================================================

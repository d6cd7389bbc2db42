---------------------------- MODULE RecordCursor ----------------------------
(***************************************************************************)
(* What the client of FileScan may expect (p3/btree/src/filescan.h): each  *)
(* call answers with the record that follows the last one in the file, so  *)
(* every record once and in file order, whatever other scans do and        *)
(* however the file grows.  The only call that may fail is one that asks   *)
(* for the first record.                                                   *)
(***************************************************************************)
EXTENDS Naturals, Sequences

CONSTANTS Scans, Slots, NULL

VARIABLES
  relation,      \* the file: the used slots of its pages, in file order
  cursor,        \* of each scan: the last record answered, Before or After
  answer         \* what the last call of each scan returned or threw

Before == <<0, 0>>
After == << >>

Stored == {r \in (DOMAIN relation) \X Slots : r[2] \in relation[r[1]]}
Returned(r) == [rid |-> r, exc |-> "ok"]
Threw(e) == [rid |-> NULL, exc |-> e]

Precedes(a, b) == a[1] < b[1] \/ (a[1] = b[1] /\ a[2] < b[2])

Following(c) == {r \in Stored : Precedes(c, r)}

Init ==
  /\ relation = << >>
  /\ cursor = [s \in Scans |-> NULL]
  /\ answer = [s \in Scans |-> NULL]

Grow == /\ \E S \in SUBSET Slots : relation' = Append(relation, S)
        /\ UNCHANGED <<cursor, answer>>

\* A scan opened on an empty file has ended.
Open(s) ==
  /\ cursor[s] = NULL
  /\ cursor' = [cursor EXCEPT ![s] = IF relation = << >> THEN After ELSE Before]
  /\ answer' = [answer EXCEPT ![s] = NULL]
  /\ UNCHANGED relation

Fetch(s, r) ==
  /\ cursor[s] \notin {NULL, After}
  /\ r \in Following(cursor[s])
  /\ \A q \in Following(cursor[s]) \ {r} : Precedes(r, q)
  /\ cursor' = [cursor EXCEPT ![s] = r]
  /\ answer' = [answer EXCEPT ![s] = Returned(r)]
  /\ UNCHANGED relation

End(s) ==
  /\ cursor[s] # NULL
  /\ cursor[s] = After \/ Following(cursor[s]) = {}
  /\ cursor' = [cursor EXCEPT ![s] = After]
  /\ answer' = [answer EXCEPT ![s] = Threw("EndOfFile")]
  /\ UNCHANGED relation

Fail(s) ==
  /\ cursor[s] = Before
  /\ answer' = [answer EXCEPT ![s] = Threw("BufferExceeded")]
  /\ UNCHANGED <<relation, cursor>>

Close(s) ==
  /\ cursor[s] # NULL
  /\ cursor' = [cursor EXCEPT ![s] = NULL]
  /\ answer' = [answer EXCEPT ![s] = NULL]
  /\ UNCHANGED relation

Next ==
  \/ Grow
  \/ \E s \in Scans : Open(s) \/ End(s) \/ Fail(s) \/ Close(s)
                      \/ \E r \in Stored : Fetch(s, r)

Spec == Init /\ [][Next]_<<relation, cursor, answer>>

=============================================================================

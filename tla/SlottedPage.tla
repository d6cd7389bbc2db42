---------------------------- MODULE SlottedPage ----------------------------
(***************************************************************************)
(* Page of p2 (p2/bufmgr/src/page.cpp): records in the bytes of a page.    *)
(* The slots grow from the low end of data_, the records from the high     *)
(* end; deleting a record moves those below it up, so that the free space  *)
(* stays in one piece between the two.  A slot is kept here as a record of *)
(* its own while it is allocated; the bytes of data_ below num_slots slots *)
(* are therefore not looked at.                                            *)
(***************************************************************************)
EXTENDS Integers, Sequences, FiniteSetsExt

CONSTANTS
  DataSize,   \* DATA_SIZE, in bytes
  SlotSize,   \* sizeof(PageSlot); the first byte of a slot is its used flag
  Records,    \* the records clients use: sequences of bytes
  NoRecord    \* not a record

ASSUME SizesAssumption ==
  /\ DataSize \in Nat /\ SlotSize \in Nat \ {0}
  /\ Records \subseteq Seq(Nat) /\ NoRecord \notin Records

SlotIds == 1 .. (DataSize \div SlotSize)
Bytes   == {0} \cup UNION {{r[i] : i \in DOMAIN r} : r \in Records}
Offsets == 0 .. DataSize

VARIABLES
  num_slots, num_free_slots, lower, upper,   \* PageHeader
  slot,      \* the slots; only those up to num_slots are allocated
  data,      \* data_
  outcome    \* history: how the last call ended

vars == <<num_slots, num_free_slots, lower, upper, slot, data, outcome>>

Unused == [used |-> FALSE, offset |-> 0, length |-> 0]

Init ==
  /\ num_slots = 0
  /\ num_free_slots = 0
  /\ lower = 0
  /\ upper = DataSize
  /\ slot = [s \in SlotIds |-> Unused]
  /\ data = [b \in 0 .. DataSize - 1 |-> 0]
  /\ outcome = "ok"

TypeOK ==
  /\ num_slots \in SlotIds \cup {0}
  /\ num_free_slots \in 0 .. num_slots
  /\ lower \in 0 .. upper
  /\ upper \in Offsets
  /\ slot \in [SlotIds -> [used : BOOLEAN, offset : Offsets, length : Offsets]]
  /\ data \in [0 .. DataSize - 1 -> Bytes]
  /\ outcome \in {"ok", "InvalidRecord", "InsufficientSpace", "SlotInUse",
                  "Garbage"}

-----------------------------------------------------------------------------

Slots == 1 .. num_slots
FreeSpace == upper - lower

Span(offset, length) == offset .. offset + length - 1

\* The flag of a slot that is not allocated is whatever byte lies there.
UsedFlag(s) ==
  IF s <= num_slots THEN slot[s].used ELSE data[(s - 1) * SlotSize] # 0

\* What getRecord returns.
Record(s) ==
  [i \in 1 .. slot[s].length |-> data[slot[s].offset + i - 1]]

\* Bytes d with record r written so that it ends below byte top.
Written(d, top, r) ==
  [b \in DOMAIN d |-> IF b \in Span(top - Len(r), Len(r))
                      THEN r[b - (top - Len(r)) + 1] ELSE d[b]]

Filled(top, r) == [used |-> TRUE, offset |-> top - Len(r), length |-> Len(r)]

-----------------------------------------------------------------------------
(* insertRecord: getAvailableSlot, then insertRecordInSlot.                *)

Refuse(why) ==
  /\ outcome' = why
  /\ UNCHANGED <<num_slots, num_free_slots, lower, upper, slot, data>>

Insert(s, r) ==
  /\ slot' = [slot EXCEPT ![s] = Filled(upper, r)]
  /\ data' = Written(data, upper, r)
  /\ upper' = upper - Len(r)
  /\ outcome' = "ok"

InsertReusing(r) ==
  /\ num_free_slots > 0
  /\ Len(r) <= FreeSpace
  /\ Insert(Min({s \in Slots : ~slot[s].used}), r)
  /\ num_free_slots' = num_free_slots - 1
  /\ UNCHANGED <<num_slots, lower>>

\* The slot is allocated before insertRecordInSlot looks at its flag.  If it
\* reads as used it stays so, with those bytes for an offset and a length too
\* (not modelled: what follows depends on them).
InsertExtending(r) ==
  LET s == num_slots + 1 IN
  /\ num_free_slots = 0
  /\ Len(r) + SlotSize <= FreeSpace
  /\ num_slots' = s
  /\ lower' = SlotSize * s
  /\ IF UsedFlag(s)
     THEN /\ num_free_slots' = 1
          /\ slot' = [slot EXCEPT ![s].used = TRUE]
          /\ outcome' = "SlotInUse"
          /\ UNCHANGED <<upper, data>>
     ELSE /\ Insert(s, r)
          /\ UNCHANGED num_free_slots

InsertRefused(r) ==
  /\ Len(r) + (IF num_free_slots = 0 THEN SlotSize ELSE 0) > FreeSpace
  /\ Refuse("InsufficientSpace")

insertRecord(r) == InsertReusing(r) \/ InsertExtending(r) \/ InsertRefused(r)

-----------------------------------------------------------------------------
(* deleteRecord: its bytes are cleared, and the records at lower offsets   *)
(* move up by its length.                                                  *)

Below(s) == {t \in Slots : slot[t].used /\ slot[t].offset < slot[s].offset}

\* Variant with a bug: the slots of the records moved are not updated.
SlotsWithout_KeepsOffsets(s) == [slot EXCEPT ![s] = Unused]

SlotsWithout(s) ==
  [t \in SlotIds |->
     IF t = s THEN Unused
     ELSE IF t \in Below(s)
     THEN [slot[t] EXCEPT !.offset = @ + slot[s].length]
     ELSE slot[t]]

\* Variant with a bug: the bytes of the records below are not moved.
DataWithout_NoMove(s) ==
  [b \in DOMAIN data |->
     IF b \in Span(slot[s].offset, slot[s].length) THEN 0 ELSE data[b]]

DataWithout(s) ==
  LET len == slot[s].length
      cleared == [b \in DOMAIN data |->
                    IF b \in Span(slot[s].offset, len) THEN 0 ELSE data[b]]
      from == Min({slot[t].offset : t \in Below(s) \cup {s}})
      bytes == MapThenSumSet(LAMBDA t : slot[t].length, Below(s))
  IN  [b \in DOMAIN data |-> IF b \in Span(from + len, bytes)
                             THEN cleared[b - len] ELSE cleared[b]]

\* Variant with a bug: only the slot itself goes, not the unused ones.
LastSlotWithout_One(s) == IF s = num_slots THEN s - 1 ELSE num_slots

\* A slot at the end of the array goes, with the unused ones before it.
LastSlotWithout(s) ==
  IF s = num_slots
  THEN Max({t \in Slots \ {s} : slot[t].used} \cup {0})
  ELSE num_slots

deleteRecord(s) ==
  /\ UsedFlag(s)
  /\ s <= num_slots
  /\ LET last == LastSlotWithout(s)
         gone == num_slots - last
         d == DataWithout(s)
     IN  /\ num_slots' = last
         /\ num_free_slots' = num_free_slots + 1 - gone
         /\ lower' = lower - SlotSize * gone
         /\ data' = [b \in DOMAIN data |->
                       IF b \in Span(SlotSize * last, SlotSize * gone)
                       THEN 0 ELSE d[b]]
  /\ slot' = SlotsWithout(s)
  /\ upper' = upper + slot[s].length
  /\ outcome' = "ok"

\* updateRecord: deleted, its slot kept, and inserted again in that slot.
updateRecord(s, r) ==
  /\ UsedFlag(s)
  /\ s <= num_slots
  /\ LET top == upper + slot[s].length IN
     IF Len(r) > FreeSpace + slot[s].length
     THEN Refuse("InsufficientSpace")
     ELSE /\ slot' = [SlotsWithout(s) EXCEPT ![s] = Filled(top, r)]
          /\ data' = Written(DataWithout(s), top, r)
          /\ upper' = top - Len(r)
          /\ outcome' = "ok"
          /\ UNCHANGED <<num_slots, num_free_slots, lower>>

\* getRecord, updateRecord or deleteRecord of a record that is not there.
\* validateRecordId does not compare the number with num_slots, and takes
\* any byte that is not 0 for a slot in use.
badRecordId(s) ==
  \/ ~UsedFlag(s) /\ Refuse("InvalidRecord")
  \/ UsedFlag(s) /\ s > num_slots /\ Refuse("Garbage")

Next ==
  /\ outcome \notin {"SlotInUse", "Garbage"}  \* other bytes taken for a slot:
                                              \* what follows is not modelled
  /\ \/ \E r \in Records : insertRecord(r)
     \/ \E s \in SlotIds :
          \/ deleteRecord(s)
          \/ badRecordId(s)
          \/ \E r \in Records : updateRecord(s, r)

Spec == Init /\ [][Next]_vars

-----------------------------------------------------------------------------
(* Properties, for clients that store no empty record.                     *)

\* An empty record has the offset of the record above it, and is moved with
\* neither of the two.
NoEmptyRecord == \A r \in Records : r # <<>>

\* The slot over which an insertion was refused: bytes that happen to read as
\* a slot in use, for which no client was given a number.
StaleSlots == IF outcome = "SlotInUse" THEN {num_slots} ELSE {}

UsedSlots == {s \in Slots : slot[s].used} \ StaleSlots
BytesOf(s) == Span(slot[s].offset, slot[s].length)

(* The records fill the bytes from upper to the end of the page, and no    *)
(* two of them overlap: after any number of moves no byte is lost.         *)
RecordsTile ==
  /\ UNION {BytesOf(s) : s \in UsedSlots} = upper .. DataSize - 1
  /\ \A s, t \in UsedSlots : s # t => BytesOf(s) \cap BytesOf(t) = {}

(* The header's counts agree with the flags of the slots - which           *)
(* getAvailableSlot needs to find a slot - and the array ends in a used    *)
(* slot.  An insertion refused over a stale slot, and nothing else, makes  *)
(* the header count one free slot more than there are.                     *)
SlotsCounted ==
  /\ num_free_slots = Cardinality({s \in Slots : ~slot[s].used})
                        + (IF outcome = "SlotInUse" THEN 1 ELSE 0)
  /\ lower = SlotSize * num_slots
  /\ num_slots # 0 => slot[num_slots].used

(* A record read by a number that insertRecord returned is the one last    *)
(* stored under that number: moving it around the page is invisible.       *)
Map == INSTANCE RecordMap WITH
  content <- [s \in SlotIds |-> IF s \in UsedSlots THEN Record(s)
                                ELSE NoRecord]

ImplementsMap == Map!Spec

=============================================================================

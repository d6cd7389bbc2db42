----------------------------- MODULE BufHashTbl -----------------------------
(***************************************************************************)
(* The hash table of the buffer managers (bufHashTbl.cpp, the same file in *)
(* p2 and p3): an array of chains of buckets, from (file, page number) to  *)
(* frame number, as operators on the array t.  BadgerBufMgr keeps such an  *)
(* array; BufMgr uses the function it stands for.                          *)
(***************************************************************************)
EXTENDS Naturals, SequencesExt

CONSTANTS
  Address,   \* the File objects in use: the integer each pointer is cast to
  PageIds,   \* the page numbers in use
  HTSIZE,
  Width,     \* sizeof(int) in bits
  NoFrame    \* not a frame: lookup throws HashNotFoundException

ASSUME TableAssumption ==
  /\ Address \subseteq Nat /\ PageIds \subseteq Nat
  /\ HTSIZE \in Nat \ {0} /\ Width \in Nat

Keys == Address \X PageIds

Index == 0 .. HTSIZE - 1

\* pageNo is unsigned, so the sum is, and wraps.
hash(k) == ((k[1] + k[2]) % 2 ^ Width) % HTSIZE

Bucket(frameNos) == [file : Address, pageNo : PageIds, frameNo : frameNos]

EmptyTable == [x \in Index |-> <<>>]

Holds(bucket, k) == bucket.file = k[1] /\ bucket.pageNo = k[2]

\* Positions of k in the chain that is searched for it.
Places(t, k) ==
  LET chain == t[hash(k)] IN {n \in DOMAIN chain : Holds(chain[n], k)}

First(S) == CHOOSE n \in S : \A m \in S : n <= m

Has(t, k) == Places(t, k) # {}

lookup(t, k) ==
  LET found == Places(t, k)
  IN  IF found = {} THEN NoFrame ELSE t[hash(k)][First(found)].frameNo

\* insert and remove throw, and change nothing, unless ~Has(t, k) and
\* Has(t, k) respectively.
insert(t, k, frameNo) ==
  [t EXCEPT ![hash(k)] =
     <<[file |-> k[1], pageNo |-> k[2], frameNo |-> frameNo]>> \o @]

\* Variant with a bug: prevBuc is not kept, and the chain is cut at its head.
remove_LosesChain(t, k) ==
  [t EXCEPT ![hash(k)] = SubSeq(@, First(Places(t, k)) + 1, Len(@))]

remove(t, k) == [t EXCEPT ![hash(k)] = RemoveAt(@, First(Places(t, k)))]

=============================================================================

------------------------ MODULE BadgerBufMgr_proofs ------------------------
(***************************************************************************)
(* The buffer manager of p3, for every number of frames, every table size  *)
(* and any client: the chains of the hash table and the descriptors of the *)
(* pool always say the same, and the sweep finds a frame whenever one is   *)
(* unpinned.  To a careful client it is a page store.                      *)
(*                                                                         *)
(* Agree(t, d, p, D), of chains, descriptors, pool and disk, is what every *)
(* operation keeps.  What an operation does to them is one of three: frame *)
(* descriptors differ in bits and pins alone (AgreeStill), some frames are *)
(* given up (AgreeWithout), a page comes into a clear frame (AgreeWith).   *)
(* StoreStill, StoreWithout and StoreWith say the same of the page store.  *)
(***************************************************************************)
EXTENDS BadgerBufMgr, Integers, SequenceTheorems, FiniteSetTheorems,
        WellFoundedInduction, TLAPS

USE NumBufsAssumption

-----------------------------------------------------------------------------
(* The chains of the hash table.                                           *)

KeyOf(b) == <<b.file, b.pageNo>>

\* Every bucket lies in the chain that is searched for its page, and no two
\* are of one page.
SoundTable(t) ==
  /\ t \in [Index -> Seq(Bucket(Frames))]
  /\ \A x \in Index : \A n \in DOMAIN t[x] : hash(KeyOf(t[x][n])) = x
  /\ \A x \in Index : \A m, n \in DOMAIN t[x] : KeyOf(t[x][m]) = KeyOf(t[x][n]) => m = n

(* hash picks a chain of the table.                                        *)
LEMMA HashIsIndex == \A k \in Keys : hash(k) \in Index
<1>1. \A k \in Keys : k[1] \in Nat /\ k[2] \in Nat
  BY TableAssumption DEF Keys
<1>2. \A a \in Nat, b \in Nat : ((a + b) % 2 ^ Width) % HTSIZE \in 0 .. HTSIZE - 1
  BY TableAssumption
<1>. QED BY <1>1, <1>2 DEF hash, Index

(* A chain with a bucket of a new page put in front of it.                 *)
LEMMA ChainInsert ==
  ASSUME NEW B, NEW c \in Seq(B), NEW b \in B, NEW d, d = <<b>> \o c
  PROVE  /\ d \in Seq(B) /\ Len(d) = Len(c) + 1 /\ Len(c) \in Nat
         /\ d[1] = b
         /\ \A i \in 1 .. Len(c) : d[i + 1] = c[i]
<1>1. <<b>> \in Seq(B) /\ Len(<<b>>) = 1 /\ <<b>>[1] = b
  OBVIOUS
<1>2. /\ d \in Seq(B) /\ Len(d) = 1 + Len(c) /\ Len(c) \in Nat
      /\ \A i \in 1 .. 1 + Len(c) : d[i] = IF i <= 1 THEN <<b>>[i] ELSE c[i - 1]
  BY <1>1, ConcatProperties
<1>3. d[1] = b
  BY <1>1, <1>2
<1>4. ASSUME NEW i \in 1 .. Len(c) PROVE d[i + 1] = c[i]
  <2>1. i + 1 \in 1 .. 1 + Len(c) /\ ~(i + 1 <= 1) /\ i + 1 - 1 = i
    BY <1>2
  <2>. QED BY <1>2, <2>1
<1>. QED BY <1>2, <1>3, <1>4

(* A chain without its n-th bucket.                                        *)
LEMMA ChainRemove ==
  ASSUME NEW B, NEW c \in Seq(B), NEW n \in 1 .. Len(c)
  PROVE  /\ RemoveAt(c, n) \in Seq(B) /\ Len(RemoveAt(c, n)) = Len(c) - 1
         /\ \A i \in 1 .. Len(c) - 1 :
              RemoveAt(c, n)[i] = IF i < n THEN c[i] ELSE c[i + 1]
<1>. DEFINE d == RemoveAt(c, n)
            p == SubSeq(c, 1, n - 1)
            q == SubSeq(c, n + 1, Len(c))
<1>1. Len(c) \in Nat /\ n \in Nat /\ 1 <= n /\ n <= Len(c)
  OBVIOUS
<1>2. /\ p \in Seq(B) /\ Len(p) = n - 1 /\ \A i \in 1 .. n - 1 : p[i] = c[i]
  <2>1. 1 \in 1 .. Len(c) + 1 /\ n - 1 \in 1 - 1 .. Len(c)
    BY <1>1
  <2>2. /\ p \in Seq(B) /\ Len(p) = IF 1 <= n - 1 THEN n - 1 - 1 + 1 ELSE 0
        /\ \A i \in 1 .. n - 1 - 1 + 1 : p[i] = c[1 + i - 1]
    BY <2>1, SubSeqProperties
  <2>3. \A i \in 1 .. n - 1 : i \in 1 .. n - 1 - 1 + 1 /\ 1 + i - 1 = i
    BY <1>1
  <2>. HIDE DEF p
  <2>. QED BY <1>1, <2>2, <2>3
<1>3. /\ q \in Seq(B) /\ Len(q) = Len(c) - n
      /\ \A i \in 1 .. Len(c) - n : q[i] = c[n + i]
  <2>1. n + 1 \in 1 .. Len(c) + 1 /\ Len(c) \in n + 1 - 1 .. Len(c)
    BY <1>1
  <2>2. /\ q \in Seq(B)
        /\ Len(q) = IF n + 1 <= Len(c) THEN Len(c) - (n + 1) + 1 ELSE 0
        /\ \A i \in 1 .. Len(c) - (n + 1) + 1 : q[i] = c[n + 1 + i - 1]
    BY <2>1, SubSeqProperties
  <2>3. \A i \in 1 .. Len(c) - n : i \in 1 .. Len(c) - (n + 1) + 1 /\ n + 1 + i - 1 = n + i
    BY <1>1
  <2>. HIDE DEF q
  <2>. QED BY <1>1, <2>2, <2>3
<1>. HIDE DEF p, q
<1>4. d = p \o q
  BY DEF RemoveAt, p, q
<1>. HIDE DEF d
<1>5. /\ d \in Seq(B) /\ Len(d) = Len(p) + Len(q)
      /\ \A i \in 1 .. Len(p) + Len(q) : d[i] = IF i <= Len(p) THEN p[i] ELSE q[i - Len(p)]
  <2>1. /\ p \o q \in Seq(B) /\ Len(p \o q) = Len(p) + Len(q)
        /\ \A i \in 1 .. Len(p) + Len(q) :
             (p \o q)[i] = IF i <= Len(p) THEN p[i] ELSE q[i - Len(p)]
    BY <1>2, <1>3, ConcatProperties
  <2>. QED BY <1>4, <2>1
<1>6. Len(d) = Len(c) - 1 /\ Len(p) + Len(q) = Len(c) - 1
  BY <1>1, <1>2, <1>3, <1>5
<1>7. ASSUME NEW i \in 1 .. Len(c) - 1 PROVE d[i] = IF i < n THEN c[i] ELSE c[i + 1]
  <2>1. i \in 1 .. Len(p) + Len(q)
    BY <1>6
  <2>2. CASE i < n
    <3>1. i \in 1 .. n - 1 /\ i <= Len(p)
      BY <1>1, <1>2, <2>2
    <3>. QED BY <1>2, <1>5, <2>1, <2>2, <3>1
  <2>3. CASE ~(i < n)
    <3>1. i - Len(p) \in 1 .. Len(c) - n /\ n + (i - Len(p)) = i + 1 /\ ~(i <= Len(p))
      BY <1>1, <1>2, <2>3
    <3>. QED BY <1>3, <1>5, <2>1, <2>3, <3>1
  <2>. QED BY <2>2, <2>3
<1>. QED BY <1>5, <1>6, <1>7 DEF d

-----------------------------------------------------------------------------
(* What is looked up in it.                                                *)

(* A page has at most one place, in the chain that is searched for it.     *)
LEMMA PlaceOfKey ==
  ASSUME NEW t, SoundTable(t), NEW k \in Keys
  PROVE  /\ hash(k) \in Index /\ t[hash(k)] \in Seq(Bucket(Frames))
         /\ Places(t, k) = {n \in DOMAIN t[hash(k)] : KeyOf(t[hash(k)][n]) = k}
         /\ Places(t, k) \in SUBSET Nat
         /\ \A m, n \in Places(t, k) : m = n
<1>1. hash(k) \in Index /\ t[hash(k)] \in Seq(Bucket(Frames))
  BY HashIsIndex DEF SoundTable
<1>. DEFINE c == t[hash(k)]
<1>2. \A n \in DOMAIN c : Holds(c[n], k) <=> KeyOf(c[n]) = k
  BY DEF Holds, KeyOf, Keys
<1>3. Places(t, k) = {n \in DOMAIN c : KeyOf(c[n]) = k}
  BY <1>2 DEF Places
<1>4. DOMAIN c \in SUBSET Nat
  BY <1>1, ElementOfSeq
<1>5. \A m, n \in Places(t, k) : m = n
  BY <1>1, <1>3 DEF SoundTable
<1>. QED BY <1>1, <1>3, <1>4, <1>5

(* lookup finds the frame that the page's bucket names.                    *)
LEMMA LookupAt ==
  ASSUME NEW t, SoundTable(t), NEW k \in Keys, NEW n \in Places(t, k)
  PROVE  /\ Has(t, k) /\ First(Places(t, k)) = n
         /\ lookup(t, k) = t[hash(k)][n].frameNo /\ lookup(t, k) \in Frames
<1>1. Places(t, k) = {n} /\ n \in Nat
  BY PlaceOfKey
<1>2. First({n}) = n
  BY <1>1 DEF First
<1>3. lookup(t, k) = t[hash(k)][n].frameNo
  BY <1>1, <1>2 DEF lookup
<1>4. t[hash(k)][n] \in Bucket(Frames)
  <2>1. t[hash(k)] \in Seq(Bucket(Frames)) /\ n \in DOMAIN t[hash(k)]
    BY PlaceOfKey
  <2>. QED BY <2>1, ElementOfSeq
<1>. QED BY <1>1, <1>2, <1>3, <1>4 DEF Has, Bucket

\* k's lookup is i, and none if there is no such i.
LEMMA LookupNone ==
  ASSUME NEW t, SoundTable(t), NEW k \in Keys
  PROVE  /\ Has(t, k) <=> lookup(t, k) \in Frames
         /\ ~Has(t, k) <=> lookup(t, k) = NoFrame
<1>1. NoFrame \notin Frames
  BY ManagerAssumption
<1>2. CASE Has(t, k)
  <2>1. PICK n : n \in Places(t, k)
    BY <1>2 DEF Has
  <2>. QED BY <1>1, <1>2, <2>1, LookupAt
<1>3. CASE ~Has(t, k)
  BY <1>1, <1>3 DEF Has, lookup
<1>. QED BY <1>2, <1>3

\* The chains have one bucket more, for k and i.
Inserted(t, u, k, i) ==
  /\ SoundTable(u) /\ lookup(u, k) = i
  /\ \A j \in Keys : j # k => lookup(u, j) = lookup(t, j)

(* insert adds one page and moves no other.                                *)
LEMMA InsertSound ==
  ASSUME NEW t, SoundTable(t), NEW k \in Keys, NEW i \in Frames, ~Has(t, k)
  PROVE  Inserted(t, insert(t, k, i), k, i)
<1>. DEFINE x == hash(k)
            c == t[x]
            b == [file |-> k[1], pageNo |-> k[2], frameNo |-> i]
            d == <<b>> \o c
            u == insert(t, k, i)
            B == Bucket(Frames)
<1>1. x \in Index /\ c \in Seq(B)
  BY PlaceOfKey
<1>2. b \in B /\ KeyOf(b) = k /\ b.frameNo = i
  BY DEF Bucket, Keys, KeyOf
<1>. HIDE DEF b, B
<1>3. /\ d \in Seq(B) /\ Len(d) = Len(c) + 1 /\ Len(c) \in Nat
      /\ d[1] = b /\ \A n \in 1 .. Len(c) : d[n + 1] = c[n]
  BY <1>1, <1>2, ChainInsert
<1>4. /\ u[x] = d /\ \A y \in Index : y # x => u[y] = t[y]
      /\ u \in [Index -> Seq(B)]
  <2>1. u = [t EXCEPT ![x] = d] /\ t \in [Index -> Seq(B)]
    BY DEF insert, SoundTable, b, B
  <2>. HIDE DEF d, u, x
  <2>. QED BY <1>1, <1>3, <2>1
<1>. HIDE DEF u, d
<1>5. /\ DOMAIN c = 1 .. Len(c) /\ DOMAIN d = 1 .. Len(c) + 1
  BY <1>1, <1>3
<1>6. \A n \in DOMAIN d : n = 1 \/ (n # 1 /\ n - 1 \in DOMAIN c /\ d[n] = c[n - 1])
  <2>1. ASSUME NEW n \in DOMAIN d, n # 1 PROVE n - 1 \in DOMAIN c /\ d[n] = c[n - 1]
    <3>1. n - 1 \in 1 .. Len(c) /\ n - 1 + 1 = n
      BY <1>3, <1>5, <2>1
    <3>. QED BY <1>3, <1>5, <3>1
  <2>. QED BY <2>1
<1>7. /\ \A n \in DOMAIN c : hash(KeyOf(c[n])) = x /\ KeyOf(c[n]) # k
      /\ \A m, n \in DOMAIN c : KeyOf(c[m]) = KeyOf(c[n]) => m = n
  <2>1. \A n \in DOMAIN c : KeyOf(c[n]) # k
    BY PlaceOfKey DEF Has
  <2>. QED BY <1>1, <2>1 DEF SoundTable
<1>8. SoundTable(u)
  <2>1. ASSUME NEW y \in Index, NEW n \in DOMAIN u[y] PROVE hash(KeyOf(u[y][n])) = y
    <3>1. CASE y = x
      BY <1>2, <1>3, <1>4, <1>6, <1>7, <2>1, <3>1
    <3>2. CASE y # x
      BY <1>4, <2>1, <3>2 DEF SoundTable
    <3>. QED BY <3>1, <3>2
  <2>2. ASSUME NEW y \in Index, NEW m \in DOMAIN u[y], NEW n \in DOMAIN u[y],
               KeyOf(u[y][m]) = KeyOf(u[y][n])
        PROVE  m = n
    <3>1. CASE y = x
      <4>. HIDE DEF c, x
      <4>1. m \in DOMAIN d /\ n \in DOMAIN d /\ KeyOf(d[m]) = KeyOf(d[n])
        BY <1>4, <2>2, <3>1
      <4>2. CASE m = 1 \/ n = 1
        BY <1>2, <1>3, <1>6, <1>7, <4>1, <4>2
      <4>3. CASE m # 1 /\ n # 1
        <5>1. m - 1 = n - 1
          BY <1>6, <1>7, <4>1, <4>3
        <5>2. m \in Nat /\ n \in Nat
          BY <1>3, <1>5, <4>1
        <5>. QED BY <5>1, <5>2
      <4>. QED BY <4>2, <4>3
    <3>2. CASE y # x
      BY <1>4, <2>2, <3>2 DEF SoundTable
    <3>. QED BY <3>1, <3>2
  <2>. QED BY <1>4, <2>1, <2>2 DEF SoundTable, B
<1>9. lookup(u, k) = i
  <2>1. 1 \in DOMAIN d
    BY <1>3, <1>5
  <2>2. 1 \in Places(u, k)
    BY <1>2, <1>3, <1>4, <1>8, <2>1, PlaceOfKey
  <2>. QED BY <1>2, <1>3, <1>4, <1>8, <2>2, LookupAt
<1>10. ASSUME NEW j \in Keys, j # k PROVE lookup(u, j) = lookup(t, j)
  <2>1. CASE hash(j) # x
    <3>1. u[hash(j)] = t[hash(j)]
      BY <1>4, <2>1, HashIsIndex
    <3>. QED BY <3>1 DEF lookup, Places
  <2>2. CASE hash(j) = x
    <3>1. /\ Places(t, j) = {n \in DOMAIN c : KeyOf(c[n]) = j}
          /\ Places(u, j) = {n \in DOMAIN d : KeyOf(d[n]) = j}
      BY <1>4, <1>8, <2>2, PlaceOfKey
    <3>2. CASE Places(u, j) = {}
      <4>1. ASSUME NEW n \in Places(t, j) PROVE FALSE
        <5>1. n + 1 \in DOMAIN d /\ d[n + 1] = c[n]
          BY <1>3, <1>5, <3>1
        <5>. QED BY <3>1, <3>2, <5>1
      <4>. QED BY <3>2, <4>1 DEF lookup
    <3>3. ASSUME NEW n \in Places(u, j) PROVE lookup(u, j) = lookup(t, j)
      <4>1. n # 1
        BY <1>2, <1>3, <1>10, <3>1
      <4>2. n - 1 \in Places(t, j) /\ d[n] = c[n - 1]
        BY <1>6, <3>1, <4>1
      <4>3. lookup(u, j) = d[n].frameNo
        BY <1>4, <1>8, <2>2, LookupAt
      <4>4. lookup(t, j) = c[n - 1].frameNo
        BY <2>2, <4>2, LookupAt
      <4>. QED BY <4>2, <4>3, <4>4
    <3>. QED BY <3>2, <3>3
  <2>. QED BY <2>1, <2>2
<1>. QED BY <1>8, <1>9, <1>10 DEF Inserted, u

\* The chains have one bucket less, that of k.
Removed(t, u, k) ==
  /\ SoundTable(u) /\ lookup(u, k) = NoFrame
  /\ \A j \in Keys : j # k => lookup(u, j) = lookup(t, j)

(* remove takes one page out and moves no other.                           *)
LEMMA RemoveSound ==
  ASSUME NEW t, SoundTable(t), NEW k \in Keys, Has(t, k)
  PROVE  Removed(t, remove(t, k), k)
<1>. DEFINE x == hash(k)
            c == t[x]
            p == First(Places(t, k))
            d == RemoveAt(c, p)
            u == remove(t, k)
            B == Bucket(Frames)
            at(n) == IF n < p THEN n ELSE n + 1
<1>1. x \in Index /\ c \in Seq(B) /\ DOMAIN c = 1 .. Len(c) /\ Len(c) \in Nat
  BY PlaceOfKey
<1>2. /\ p \in DOMAIN c /\ p \in Nat /\ KeyOf(c[p]) = k
      /\ \A n \in DOMAIN c : KeyOf(c[n]) = k => n = p
  <2>1. PICK n : n \in Places(t, k)
    BY DEF Has
  <2>2. p = n
    BY <2>1, LookupAt
  <2>. HIDE DEF p
  <2>. QED BY <2>1, <2>2, PlaceOfKey
<1>. HIDE DEF p, B
<1>3. /\ d \in Seq(B) /\ Len(d) = Len(c) - 1 /\ DOMAIN d = 1 .. Len(c) - 1
      /\ \A n \in 1 .. Len(c) - 1 : d[n] = c[at(n)]
  <2>1. p \in 1 .. Len(c)
    BY <1>1, <1>2
  <2>2. /\ d \in Seq(B) /\ Len(d) = Len(c) - 1
        /\ \A n \in 1 .. Len(c) - 1 : d[n] = IF n < p THEN c[n] ELSE c[n + 1]
    <3>. HIDE DEF c
    <3>. QED BY <1>1, <2>1, ChainRemove
  <2>. HIDE DEF d, c
  <2>. QED BY <2>2
<1>4. /\ u[x] = d /\ \A y \in Index : y # x => u[y] = t[y]
      /\ u \in [Index -> Seq(B)]
  <2>1. u = [t EXCEPT ![x] = d] /\ t \in [Index -> Seq(B)]
    BY DEF remove, SoundTable, B, p
  <2>. HIDE DEF d, u, x
  <2>. QED BY <1>1, <1>3, <2>1
<1>. HIDE DEF u, d
<1>5. ASSUME NEW n \in DOMAIN d
      PROVE  at(n) \in DOMAIN c /\ at(n) # p /\ d[n] = c[at(n)] /\ n \in Nat
  <2>1. n \in 1 .. Len(c) - 1 /\ n \in Nat
    BY <1>3
  <2>2. at(n) \in 1 .. Len(c) /\ at(n) # p
    BY <1>1, <1>2, <2>1
  <2>. HIDE DEF at
  <2>. QED BY <1>1, <1>3, <2>1, <2>2
<1>6. ASSUME NEW m \in Nat, NEW n \in Nat, at(m) = at(n) PROVE m = n
  BY <1>2, <1>6
<1>7. ASSUME NEW m \in DOMAIN c, m # p PROVE \E n \in DOMAIN d : at(n) = m
  <2>1. m \in Nat /\ 1 <= m /\ m <= Len(c) /\ p \in Nat /\ 1 <= p /\ p <= Len(c)
    BY <1>1, <1>2
  <2>2. CASE m < p
    <3>1. m \in 1 .. Len(c) - 1 /\ at(m) = m
      BY <1>1, <2>1, <2>2
    <3>. QED BY <1>3, <3>1
  <2>3. CASE m > p
    <3>1. m - 1 \in 1 .. Len(c) - 1 /\ at(m - 1) = m
      BY <1>1, <2>1, <2>3
    <3>. QED BY <1>3, <3>1
  <2>. QED BY <1>7, <2>1, <2>2, <2>3
<1>. HIDE DEF at
<1>8. SoundTable(u)
  <2>1. ASSUME NEW y \in Index, NEW n \in DOMAIN u[y] PROVE hash(KeyOf(u[y][n])) = y
    <3>1. CASE y = x
      <4>1. n \in DOMAIN d
        BY <1>4, <2>1, <3>1
      <4>2. at(n) \in DOMAIN c /\ u[y][n] = c[at(n)]
        BY <1>4, <1>5, <3>1, <4>1
      <4>. QED BY <1>1, <3>1, <4>2 DEF SoundTable
    <3>2. CASE y # x
      BY <1>4, <2>1, <3>2 DEF SoundTable
    <3>. QED BY <3>1, <3>2
  <2>2. ASSUME NEW y \in Index, NEW m \in DOMAIN u[y], NEW n \in DOMAIN u[y],
               KeyOf(u[y][m]) = KeyOf(u[y][n])
        PROVE  m = n
    <3>1. CASE y = x
      <4>1. m \in DOMAIN d /\ n \in DOMAIN d /\ KeyOf(d[m]) = KeyOf(d[n])
        BY <1>4, <2>2, <3>1
      <4>2. /\ at(m) \in DOMAIN c /\ at(n) \in DOMAIN c
            /\ KeyOf(c[at(m)]) = KeyOf(c[at(n)]) /\ m \in Nat /\ n \in Nat
        BY <1>5, <4>1
      <4>3. at(m) = at(n)
        BY <1>1, <4>2 DEF SoundTable
      <4>. QED BY <1>6, <4>2, <4>3
    <3>2. CASE y # x
      BY <1>4, <2>2, <3>2 DEF SoundTable
    <3>. QED BY <3>1, <3>2
  <2>. QED BY <1>4, <2>1, <2>2 DEF SoundTable, B
<1>9. lookup(u, k) = NoFrame
  <2>1. Places(u, k) = {n \in DOMAIN d : KeyOf(d[n]) = k}
    BY <1>4, <1>8, PlaceOfKey
  <2>2. Places(u, k) = {}
    BY <1>2, <1>5, <2>1
  <2>. QED BY <2>2 DEF lookup
<1>10. ASSUME NEW j \in Keys, j # k PROVE lookup(u, j) = lookup(t, j)
  <2>1. CASE hash(j) # x
    <3>1. u[hash(j)] = t[hash(j)]
      BY <1>4, <2>1, HashIsIndex
    <3>. QED BY <3>1 DEF lookup, Places
  <2>2. CASE hash(j) = x
    <3>1. /\ Places(t, j) = {n \in DOMAIN c : KeyOf(c[n]) = j}
          /\ Places(u, j) = {n \in DOMAIN d : KeyOf(d[n]) = j}
      BY <1>4, <1>8, <2>2, PlaceOfKey
    <3>2. CASE Places(u, j) = {}
      <4>1. ASSUME NEW m \in Places(t, j) PROVE FALSE
        <5>1. m \in DOMAIN c /\ m # p /\ KeyOf(c[m]) = j
          BY <1>2, <1>10, <3>1, <4>1
        <5>2. PICK n \in DOMAIN d : at(n) = m
          BY <1>7, <5>1
        <5>. QED BY <1>5, <3>1, <3>2, <5>1, <5>2
      <4>. QED BY <3>2, <4>1 DEF lookup
    <3>3. ASSUME NEW n \in Places(u, j) PROVE lookup(u, j) = lookup(t, j)
      <4>1. at(n) \in Places(t, j) /\ d[n] = c[at(n)]
        BY <1>5, <3>1
      <4>2. lookup(u, j) = d[n].frameNo
        BY <1>4, <1>8, <2>2, LookupAt
      <4>3. lookup(t, j) = c[at(n)].frameNo
        BY <2>2, <4>1, LookupAt
      <4>. QED BY <4>1, <4>2, <4>3
    <3>. QED BY <3>2, <3>3
  <2>. QED BY <2>1, <2>2
<1>. QED BY <1>8, <1>9, <1>10 DEF Removed, u

(* Nothing is found in an empty table.                                     *)
LEMMA EmptyTableSound ==
  SoundTable(EmptyTable) /\ \A k \in Keys : lookup(EmptyTable, k) = NoFrame
<1>1. << >> \in Seq(Bucket(Frames)) /\ DOMAIN << >> = {}
  OBVIOUS
<1>2. SoundTable(EmptyTable)
  BY <1>1 DEF SoundTable, EmptyTable
<1>3. ASSUME NEW k \in Keys PROVE lookup(EmptyTable, k) = NoFrame
  BY <1>1, HashIsIndex DEF EmptyTable, lookup, Places
<1>. QED BY <1>2, <1>3

\* What the chains stand for; BufMgr has it in place of them.
Mapping(t) == [k \in Keys |-> lookup(t, k)]

(* The chains are a function from pages to frames: the table starts as the *)
(* one that is nowhere defined, insert and remove are assignments to it,   *)
(* and what they throw at can be told from it (insert, lookup and remove   *)
(* of bufHashTbl.cpp), however many pages share a chain.                   *)
THEOREM ChainsAreAFunction ==
  /\ SoundTable(EmptyTable) /\ Mapping(EmptyTable) = [k \in Keys |-> NoFrame]
  /\ \A t : SoundTable(t) => \A k \in Keys :
       /\ Mapping(t) \in [Keys -> Frames \cup {NoFrame}]
       /\ Has(t, k) <=> Mapping(t)[k] # NoFrame
       /\ ~Has(t, k) => \A i \in Frames :
            /\ SoundTable(insert(t, k, i))
            /\ Mapping(insert(t, k, i)) = [Mapping(t) EXCEPT ![k] = i]
       /\ Has(t, k) =>
            /\ SoundTable(remove(t, k))
            /\ Mapping(remove(t, k)) = [Mapping(t) EXCEPT ![k] = NoFrame]
<1>1. SoundTable(EmptyTable) /\ Mapping(EmptyTable) = [k \in Keys |-> NoFrame]
  BY EmptyTableSound DEF Mapping
<1>2. ASSUME NEW t, SoundTable(t), NEW k \in Keys
      PROVE  /\ Mapping(t) \in [Keys -> Frames \cup {NoFrame}]
             /\ Has(t, k) <=> Mapping(t)[k] # NoFrame
  <2>1. ASSUME NEW j \in Keys PROVE lookup(t, j) \in Frames \cup {NoFrame}
    BY <1>2, LookupNone
  <2>2. Mapping(t)[k] = lookup(t, k)
    BY DEF Mapping
  <2>. QED BY <1>2, <2>1, <2>2, LookupNone DEF Mapping
<1>3. ASSUME NEW t, SoundTable(t), NEW k \in Keys, ~Has(t, k), NEW i \in Frames
      PROVE  /\ SoundTable(insert(t, k, i))
             /\ Mapping(insert(t, k, i)) = [Mapping(t) EXCEPT ![k] = i]
  <2>. DEFINE u == insert(t, k, i)
  <2>1. Inserted(t, u, k, i)
    BY <1>3, InsertSound
  <2>. HIDE DEF u
  <2>2. Mapping(u) = [Mapping(t) EXCEPT ![k] = i]
    BY <2>1 DEF Inserted, Mapping
  <2>. QED BY <2>1, <2>2 DEF Inserted, u
<1>4. ASSUME NEW t, SoundTable(t), NEW k \in Keys, Has(t, k)
      PROVE  /\ SoundTable(remove(t, k))
             /\ Mapping(remove(t, k)) = [Mapping(t) EXCEPT ![k] = NoFrame]
  <2>. DEFINE u == remove(t, k)
  <2>1. Removed(t, u, k)
    BY <1>4, RemoveSound
  <2>. HIDE DEF u
  <2>2. Mapping(u) = [Mapping(t) EXCEPT ![k] = NoFrame]
    BY <2>1 DEF Removed, Mapping
  <2>. QED BY <2>1, <2>2 DEF Removed, u
<1>. QED BY <1>1, <1>2, <1>3, <1>4

-----------------------------------------------------------------------------
(* The removals of flushFile, in whatever order the fold takes them.       *)

(* A set of natural numbers that is not empty has a least element.         *)
LEMMA LeastNatural ==
  ASSUME NEW S \in SUBSET Nat, S # {}
  PROVE  \E m \in S : \A k \in S : m <= k
<1>1. PICK m \in S : \A k \in S : ~(<<k, m>> \in OpToRel(<, Nat))
  BY NatLessThanWellFounded, WFMin
<1>2. ASSUME NEW k \in S PROVE ~(k < m)
  BY <1>1 DEF OpToRel
<1>. QED BY <1>2

(* Induction, for a set of natural numbers.                                *)
LEMMA AllNaturals ==
  ASSUME NEW P \in SUBSET Nat, 0 \in P, \A n \in P : n + 1 \in P
  PROVE  P = Nat
<1>. SUFFICES ASSUME Nat \ P # {} PROVE FALSE
  OBVIOUS
<1>1. PICK m \in Nat \ P : \A k \in Nat \ P : m <= k
  BY LeastNatural
<1>2. m - 1 \in Nat /\ m - 1 \in P
  BY <1>1
<1>3. m - 1 + 1 = m
  BY <1>1
<1>. QED BY <1>1, <1>2, <1>3

(* Sets of frames are finite.                                              *)
LEMMA FramesAreFinite ==
  ASSUME NEW S \in SUBSET Frames
  PROVE  IsFiniteSet(S) /\ Cardinality(S) \in Nat
<1>1. IsFiniteSet(Frames)
  BY FS_Interval DEF Frames
<1>. QED BY <1>1, FS_Subset, FS_CardinalityType

Pick(S) == CHOOSE i \in S : TRUE

\* The fold over the subsets of S of at most n elements.
Small(S, n) == {s \in SUBSET S : Cardinality(s) <= n}

Fold(g, s) ==
  IF s = {} THEN ht ELSE remove(g[s \ {Pick(s)}], Key(desc, Pick(s)))

IsFold(g, D) == g = [s \in D |-> Fold(g, s)]

(* What the fold picks from a set leaves a smaller one.                    *)
LEMMA OneLess ==
  ASSUME NEW S \in SUBSET Frames, NEW n \in Nat, NEW s \in SUBSET S,
         Cardinality(s) <= n + 1, s # {}
  PROVE  Pick(s) \in s /\ s \ {Pick(s)} \in Small(S, n)
<1>1. Pick(s) \in s
  BY DEF Pick
<1>2. IsFiniteSet(s) /\ Cardinality(s) \in Nat
  BY FramesAreFinite
<1>3. Cardinality(s \ {Pick(s)}) = Cardinality(s) - 1
  BY <1>1, <1>2, FS_RemoveElement
<1>. QED BY <1>1, <1>2, <1>3 DEF Small

(* The function by which the library defines the fold exists: by induction *)
(* on the size of the sets it is defined on.                               *)
LEMMA FoldIsDefined ==
  ASSUME NEW S \in SUBSET Frames
  PROVE  \E g : IsFold(g, SUBSET S)
<1>. DEFINE P == {n \in Nat : \E g : IsFold(g, Small(S, n))}
<1>1. 0 \in P
  <2>1. \A s \in Small(S, 0) : s = {}
    BY FramesAreFinite, FS_EmptySet DEF Small
  <2>. DEFINE g == [s \in Small(S, 0) |-> ht]
  <2>2. IsFold(g, Small(S, 0))
    BY <2>1 DEF IsFold, Fold
  <2>. HIDE DEF g
  <2>. QED BY <2>2
<1>2. ASSUME NEW n \in P PROVE n + 1 \in P
  <2>1. PICK g : IsFold(g, Small(S, n))
    OBVIOUS
  <2>2. n \in Nat /\ \A s \in Small(S, n) : g[s] = Fold(g, s)
    BY <2>1 DEF IsFold
  <2>. DEFINE h == [s \in Small(S, n + 1) |-> Fold(g, s)]
  <2>3. \A s \in Small(S, n) : s \in Small(S, n + 1)
    BY <2>2, FramesAreFinite DEF Small
  <2>4. \A s \in Small(S, n) : h[s] = g[s]
    BY <2>2, <2>3
  <2>5. ASSUME NEW s \in Small(S, n + 1) PROVE Fold(g, s) = Fold(h, s)
    <3>1. CASE s = {}
      BY <3>1 DEF Fold
    <3>2. CASE s # {}
      <4>1. s \ {Pick(s)} \in Small(S, n)
        BY <2>2, <3>2, OneLess DEF Small
      <4>2. h[s \ {Pick(s)}] = g[s \ {Pick(s)}]
        BY <2>4, <4>1
      <4>. HIDE DEF h
      <4>. QED BY <4>2 DEF Fold
    <3>. QED BY <3>1, <3>2
  <2>6. h = [s \in Small(S, n + 1) |-> Fold(h, s)]
    BY <2>5
  <2>7. IsFold(h, Small(S, n + 1))
    BY <2>6 DEF IsFold
  <2>. HIDE DEF h
  <2>. QED BY <2>2, <2>7
<1>3. P = Nat
  <2>. HIDE DEF P
  <2>1. P \in SUBSET Nat
    BY DEF P
  <2>. QED BY <1>1, <1>2, <2>1, AllNaturals
<1>4. Small(S, Cardinality(S)) = SUBSET S /\ Cardinality(S) \in Nat
  <2>1. IsFiniteSet(S) /\ Cardinality(S) \in Nat
    BY FramesAreFinite
  <2>2. \A s \in SUBSET S : Cardinality(s) <= Cardinality(S)
    BY <2>1, FS_Subset
  <2>. QED BY <2>1, <2>2 DEF Small
<1>5. Cardinality(S) \in P
  BY <1>3, <1>4
<1>6. \E g : IsFold(g, Small(S, Cardinality(S)))
  BY <1>5
<1>. HIDE DEF P
<1>. QED BY <1>4, <1>6

\* The chains of ht without the pages of the frames of s.
AllRemoved(u, s) ==
  /\ SoundTable(u)
  /\ \A k \in Keys :
       lookup(u, k) = IF \E i \in s : Key(desc, i) = k THEN NoFrame ELSE lookup(ht, k)

(* What flushFile makes of the chains: the pages of S are gone from them,  *)
(* and no other page has moved.                                            *)
LEMMA FoldRemoves ==
  ASSUME SoundTable(ht), NEW S \in SUBSET Frames,
         \A i \in S : Key(desc, i) \in Keys /\ Has(ht, Key(desc, i)),
         \A i, j \in S : Key(desc, i) = Key(desc, j) => i = j
  PROVE  AllRemoved(FoldSet(LAMBDA i, t : remove(t, Key(desc, i)), ht, S), S)
<1>. DEFINE r == FoldSet(LAMBDA i, t : remove(t, Key(desc, i)), ht, S)
            Eq(g) == g = [s \in SUBSET S |->
                            IF s = {} THEN ht
                            ELSE remove(g[s \ {CHOOSE x \in s : TRUE}],
                                        Key(desc, CHOOSE x \in s : TRUE))]
<1>1. r = (CHOOSE g : Eq(g))[S]
  BY DEF FoldSet, MapThenFoldSet
<1>2. \A g : Eq(g) <=> IsFold(g, SUBSET S)
  BY DEF IsFold, Fold, Pick
<1>. HIDE DEF Eq, r
<1>3. PICK g : IsFold(g, SUBSET S) /\ r = g[S]
  BY <1>1, <1>2, FoldIsDefined
<1>4. \A s \in SUBSET S : g[s] = Fold(g, s)
  BY <1>3 DEF IsFold
<1>. DEFINE P == {n \in Nat : \A s \in Small(S, n) : AllRemoved(g[s], s)}
<1>5. 0 \in P
  <2>1. ASSUME NEW s \in Small(S, 0) PROVE AllRemoved(g[s], s)
    <3>1. s = {} /\ s \in SUBSET S
      BY FramesAreFinite, FS_EmptySet DEF Small
    <3>2. g[s] = ht
      BY <1>4, <3>1 DEF Fold
    <3>. QED BY <3>1, <3>2 DEF AllRemoved
  <2>. QED BY <2>1
<1>6. ASSUME NEW n \in P PROVE n + 1 \in P
  <2>1. ASSUME NEW s \in Small(S, n + 1) PROVE AllRemoved(g[s], s)
    <3>1. CASE s = {}
      <4>1. s \in Small(S, n)
        BY <3>1, FS_EmptySet DEF Small
      <4>. QED BY <4>1
    <3>2. CASE s # {}
      <4>. DEFINE i == Pick(s)
                  q == s \ {i}
                  u == g[q]
                  k == Key(desc, i)
      <4>1. i \in s /\ i \in S /\ q \in Small(S, n) /\ s \in SUBSET S
        BY <2>1, <3>2, OneLess DEF Small
      <4>2. AllRemoved(u, q) /\ k \in Keys /\ Has(ht, k) /\ g[s] = remove(u, k)
        BY <1>4, <3>2, <4>1 DEF Fold
      <4>3. \A j \in q : j \in S /\ Key(desc, j) # k
        BY <4>1
      <4>. HIDE DEF u, q, k
      <4>4. SoundTable(u) /\ lookup(u, k) = lookup(ht, k)
        BY <4>2, <4>3 DEF AllRemoved
      <4>5. Has(u, k)
        BY <4>2, <4>4, LookupNone
      <4>6. Removed(u, g[s], k)
        BY <4>2, <4>4, <4>5, RemoveSound
      <4>7. ASSUME NEW m \in Keys
            PROVE  lookup(g[s], m) = IF \E j \in s : Key(desc, j) = m
                                     THEN NoFrame ELSE lookup(ht, m)
        <5>1. CASE m = k
          BY <4>1, <4>6, <5>1 DEF Removed, k
        <5>2. CASE m # k
          <6>1. (\E j \in s : Key(desc, j) = m) <=> \E j \in q : Key(desc, j) = m
            BY <5>2 DEF q, k
          <6>. QED BY <4>2, <4>6, <5>2, <6>1 DEF Removed, AllRemoved
        <5>. QED BY <5>1, <5>2
      <4>. QED BY <4>6, <4>7 DEF Removed, AllRemoved
    <3>. QED BY <3>1, <3>2
  <2>. QED BY <2>1
<1>7. P = Nat
  <2>. HIDE DEF P
  <2>1. P \in SUBSET Nat
    BY DEF P
  <2>. QED BY <1>5, <1>6, <2>1, AllNaturals
<1>8. Cardinality(S) \in P /\ S \in Small(S, Cardinality(S))
  BY <1>7, FramesAreFinite DEF Small
<1>9. AllRemoved(g[S], S)
  BY <1>8
<1>. QED BY <1>3, <1>9 DEF r

-----------------------------------------------------------------------------
(* The chains, the descriptors, the pool and the disk say the same.        *)

Valued(t, d, p, D) ==
  /\ \A k \in Keys : lookup(t, k) \in Frames =>
       d[lookup(t, k)].valid /\ Key(d, lookup(t, k)) = k
  /\ \A i \in Frames :
       /\ d[i].valid => /\ Key(d, i) \in Keys /\ lookup(t, Key(d, i)) = i
                        /\ D[Key(d, i)] # Gone /\ p[i] # Gone
       /\ ~d[i].valid => d[i] = Clear

Agree(t, d, p, D) ==
  /\ d \in [Frames -> Desc]
  /\ p \in [Frames -> Data \cup {Gone}]
  /\ D \in [Keys -> Data \cup {Gone}]
  /\ SoundTable(t)
  /\ Valued(t, d, p, D)

IInv == Agree(ht, desc, pool, disk) /\ clockHand \in Frames

(* A clear descriptor and the one of a page.                               *)
LEMMA ClearFacts ==
  /\ Clear \in Desc /\ ~Clear.valid /\ Clear.file \notin Address
  /\ \A k \in Keys : /\ Set(k) \in Desc /\ Set(k).valid
                     /\ <<Set(k).file, Set(k).pageNo>> = k
<1>1. Clear \in Desc /\ ~Clear.valid
  BY DEF Clear, Desc
<1>2. Clear.file \notin Address
  BY ManagerAssumption DEF Clear
<1>3. ASSUME NEW k \in Keys PROVE Set(k) \in Desc /\ Set(k).valid
  BY DEF Set, Desc, Keys
<1>4. ASSUME NEW k \in Keys PROVE <<Set(k).file, Set(k).pageNo>> = k
  BY DEF Set, Keys
<1>. QED BY <1>1, <1>2, <1>3, <1>4

\* Descriptors that differ in pin counts and bits alone.
SameFrames(d, e) ==
  /\ e \in [Frames -> Desc]
  /\ \A i \in Frames : /\ e[i].file = d[i].file /\ e[i].pageNo = d[i].pageNo
                       /\ e[i].valid = d[i].valid
                       /\ ~d[i].valid => e[i] = d[i]

(* Pin counts, bits and the contents of pages may change.                  *)
LEMMA AgreeStill ==
  ASSUME NEW t, NEW d, NEW e, NEW p, NEW q, NEW D, NEW E,
         Agree(t, d, p, D), SameFrames(d, e),
         q \in [Frames -> Data \cup {Gone}], E \in [Keys -> Data \cup {Gone}],
         \A i \in Frames : p[i] # Gone => q[i] # Gone,
         \A k \in Keys : D[k] # Gone => E[k] # Gone
  PROVE  Agree(t, e, q, E)
<1>1. \A i \in Frames : Key(e, i) = Key(d, i)
  BY DEF SameFrames, Key
<1>2. Valued(t, e, q, E)
  BY <1>1 DEF Agree, Valued, SameFrames
<1>. QED BY <1>2 DEF Agree, SameFrames

\* The frames of S given up: from the descriptors and from the chains.
Dropped(t, u, d, e, S) ==
  /\ SoundTable(u)
  /\ e = [i \in Frames |-> IF i \in S THEN Clear ELSE d[i]]
  /\ \A k \in Keys :
       lookup(u, k) = IF \E i \in S : d[i].valid /\ Key(d, i) = k
                      THEN NoFrame ELSE lookup(t, k)

(* Frames may be given up.                                                 *)
LEMMA AgreeWithout ==
  ASSUME NEW t, NEW u, NEW d, NEW e, NEW p, NEW D, NEW E, NEW S \in SUBSET Frames,
         Agree(t, d, p, D), Dropped(t, u, d, e, S),
         E \in [Keys -> Data \cup {Gone}],
         \A i \in Frames \ S : d[i].valid => E[Key(d, i)] # Gone
  PROVE  Agree(u, e, p, E)
<1>1. e \in [Frames -> Desc]
  BY ClearFacts DEF Dropped, Agree
<1>2. /\ \A i \in Frames : i \in S => e[i] = Clear
      /\ \A i \in Frames : i \notin S => e[i] = d[i] /\ Key(e, i) = Key(d, i)
  BY DEF Dropped, Key
<1>3. \A i \in Frames : i \in S => ~e[i].valid
  BY <1>2, ClearFacts
<1>4. NoFrame \notin Frames
  BY ManagerAssumption
<1>5. ASSUME NEW k \in Keys, lookup(u, k) \in Frames
      PROVE  e[lookup(u, k)].valid /\ Key(e, lookup(u, k)) = k
  <2>. DEFINE i == lookup(u, k)
  <2>1. i = lookup(t, k) /\ ~\E j \in S : d[j].valid /\ Key(d, j) = k
    BY <1>4, <1>5 DEF Dropped
  <2>2. d[i].valid /\ Key(d, i) = k /\ i \in Frames
    BY <1>5, <2>1 DEF Agree, Valued
  <2>3. i \notin S
    BY <2>1, <2>2
  <2>. HIDE DEF i
  <2>4. e[i].valid /\ Key(e, i) = k
    BY <1>2, <2>2, <2>3
  <2>. QED BY <2>4 DEF i
<1>6. ASSUME NEW i \in Frames, e[i].valid
      PROVE  /\ Key(e, i) \in Keys /\ lookup(u, Key(e, i)) = i
             /\ E[Key(e, i)] # Gone /\ p[i] # Gone
  <2>1. i \notin S /\ d[i].valid /\ Key(e, i) = Key(d, i)
    BY <1>2, <1>3, <1>6
  <2>2. Key(d, i) \in Keys /\ lookup(t, Key(d, i)) = i /\ p[i] # Gone
        /\ E[Key(d, i)] # Gone
    BY <2>1 DEF Agree, Valued
  <2>3. ~\E j \in S : d[j].valid /\ Key(d, j) = Key(d, i)
    <3>. SUFFICES ASSUME NEW j \in S, d[j].valid, Key(d, j) = Key(d, i) PROVE FALSE
      OBVIOUS
    <3>1. lookup(t, Key(d, j)) = j
      BY DEF Agree, Valued
    <3>. QED BY <2>1, <2>2, <3>1
  <2>4. lookup(u, Key(d, i)) = i
    BY <2>2, <2>3 DEF Dropped
  <2>. QED BY <2>1, <2>2, <2>4
<1>7. \A i \in Frames : ~e[i].valid => e[i] = Clear
  BY <1>2 DEF Agree, Valued
<1>8. Valued(u, e, p, E)
  BY <1>5, <1>6, <1>7 DEF Valued
<1>. QED BY <1>1, <1>8 DEF Agree, Dropped

(* Page k put in a clear frame.                                            *)
LEMMA AgreeWith ==
  ASSUME NEW t, NEW d, NEW p, NEW D, Agree(t, d, p, D),
         NEW i \in Frames, ~d[i].valid, NEW k \in Keys, ~Has(t, k), NEW x \in Data
  PROVE  Agree(insert(t, k, i), [d EXCEPT ![i] = Set(k)],
               [p EXCEPT ![i] = x], [D EXCEPT ![k] = x])
<1>. DEFINE u == insert(t, k, i)
            e == [d EXCEPT ![i] = Set(k)]
            q == [p EXCEPT ![i] = x]
            E == [D EXCEPT ![k] = x]
<1>1. Inserted(t, u, k, i)
  BY InsertSound DEF Agree
<1>2. /\ d \in [Frames -> Desc] /\ p \in [Frames -> Data \cup {Gone}]
      /\ D \in [Keys -> Data \cup {Gone}] /\ SoundTable(t) /\ Valued(t, d, p, D)
      /\ x # Gone /\ NoFrame \notin Frames
  BY ManagerAssumption DEF Agree
<1>3. lookup(t, k) = NoFrame
  BY <1>2, LookupNone
<1>4. /\ e \in [Frames -> Desc] /\ e[i] = Set(k) /\ Key(e, i) = k
      /\ \A j \in Frames : j # i => e[j] = d[j] /\ Key(e, j) = Key(d, j)
  BY <1>2, ClearFacts DEF Key
<1>5. /\ q \in [Frames -> Data \cup {Gone}] /\ q[i] = x
      /\ \A j \in Frames : j # i => q[j] = p[j]
      /\ E \in [Keys -> Data \cup {Gone}] /\ E[k] = x
      /\ \A j \in Keys : j # k => E[j] = D[j]
  BY <1>2
<1>. HIDE DEF u, e, q, E
<1>6. ASSUME NEW j \in Keys, lookup(u, j) \in Frames
      PROVE  e[lookup(u, j)].valid /\ Key(e, lookup(u, j)) = j
  <2>1. CASE j = k
    BY <1>1, <1>4, <2>1, ClearFacts DEF Inserted
  <2>2. CASE j # k
    <3>. DEFINE m == lookup(t, j)
    <3>1. lookup(u, j) = m /\ m \in Frames
      BY <1>1, <1>6, <2>2 DEF Inserted
    <3>2. d[m].valid /\ Key(d, m) = j
      BY <1>2, <3>1 DEF Valued
    <3>. HIDE DEF m
    <3>3. e[m].valid /\ Key(e, m) = j
      BY <1>4, <3>1, <3>2
    <3>. QED BY <3>1, <3>3
  <2>. QED BY <2>1, <2>2
<1>7. ASSUME NEW j \in Frames, e[j].valid
      PROVE  /\ Key(e, j) \in Keys /\ lookup(u, Key(e, j)) = j
             /\ E[Key(e, j)] # Gone /\ q[j] # Gone
  <2>1. CASE j = i
    BY <1>1, <1>2, <1>4, <1>5, <2>1 DEF Inserted
  <2>2. CASE j # i
    <3>1. d[j].valid /\ Key(e, j) = Key(d, j) /\ q[j] = p[j]
      BY <1>4, <1>5, <1>7, <2>2
    <3>2. /\ Key(d, j) \in Keys /\ lookup(t, Key(d, j)) = j
          /\ D[Key(d, j)] # Gone /\ p[j] # Gone
      BY <1>2, <3>1 DEF Valued
    <3>3. Key(d, j) # k
      BY <1>2, <1>3, <3>2
    <3>. QED BY <1>1, <1>5, <3>1, <3>2, <3>3 DEF Inserted
  <2>. QED BY <2>1, <2>2
<1>8. \A j \in Frames : ~e[j].valid => e[j] = Clear
  BY <1>2, <1>4, ClearFacts DEF Valued
<1>9. Valued(u, e, q, E)
  BY <1>6, <1>7, <1>8 DEF Valued
<1>10. Agree(u, e, q, E)
  BY <1>1, <1>4, <1>5, <1>9 DEF Agree, Inserted
<1>. QED BY <1>10 DEF u, e, q, E

-----------------------------------------------------------------------------
(* allocBuf.                                                               *)

(* Visits are to frames.                                                   *)
LEMMA FrameAtType ==
  ASSUME NEW hand \in Frames, NEW v \in Visits
  PROVE  FrameAt(hand, v) \in Frames
  BY DEF FrameAt, Frames, Visits

(* A sweep clears reference bits alone.                                    *)
LEMMA SweptSame ==
  ASSUME IInv, NEW v \in Visits
  PROVE  /\ SameFrames(desc, Swept(desc, clockHand, v))
         /\ \A i \in Frames : /\ Swept(desc, clockHand, v)[i].pinCnt = desc[i].pinCnt
                              /\ Swept(desc, clockHand, v)[i].dirty = desc[i].dirty
<1>. DEFINE e == Swept(desc, clockHand, v)
<1>1. desc \in [Frames -> Desc]
  BY DEF IInv, Agree
<1>2. e \in [Frames -> Desc]
  BY <1>1 DEF Swept, Desc
<1>3. ASSUME NEW i \in Frames
      PROVE  /\ e[i].file = desc[i].file /\ e[i].pageNo = desc[i].pageNo
             /\ e[i].valid = desc[i].valid /\ e[i].pinCnt = desc[i].pinCnt
             /\ e[i].dirty = desc[i].dirty
             /\ ~desc[i].valid => e[i] = desc[i]
  <2>1. CASE \E w \in 1 .. v : FrameAt(clockHand, w) = i /\ Referenced(desc, clockHand, w)
    <3>1. e[i] = [desc[i] EXCEPT !.refbit = FALSE] /\ desc[i].valid
      BY <2>1 DEF Swept, Referenced
    <3>. QED BY <1>1, <3>1 DEF Desc
  <2>2. CASE ~\E w \in 1 .. v : FrameAt(clockHand, w) = i /\ Referenced(desc, clockHand, w)
    <3>1. e[i] = desc[i]
      BY <2>2 DEF Swept
    <3>. QED BY <3>1
  <2>. QED BY <2>1, <2>2
<1>. HIDE DEF e
<1>4. SameFrames(desc, e) /\ \A i \in Frames : e[i].pinCnt = desc[i].pinCnt
                                               /\ e[i].dirty = desc[i].dirty
  BY <1>2, <1>3 DEF SameFrames
<1>. QED BY <1>4 DEF e

\* What a sweep leaves that found no frame, and one that found frame i.
FoundNone(a, d) ==
  a.exc # "ok" /\ a.desc = d /\ a.ht = ht /\ a.disk = disk

FoundFrame(a, d, i) ==
  /\ a.exc = "ok"
  /\ desc[i].valid => desc[i].pinCnt = 0
  /\ a.desc = [d EXCEPT ![i] = Clear]
  /\ a.ht = IF desc[i].valid THEN remove(ht, Key(desc, i)) ELSE ht
  /\ a.disk = WriteBack(i)

Outcome(a, d, i) == FoundNone(a, d) \/ FoundFrame(a, d, i)

(* allocBuf either fails, and has only swept, or takes frame i: it never   *)
(* throws for a page missing from the chains or the file.                  *)
LEMMA AllocCases ==
  ASSUME IInv, NEW v \in Visits, StopsAt(v)
  PROVE  /\ FrameAt(clockHand, v) \in Frames
         /\ Outcome(AllocBuf(v), Swept(desc, clockHand, v), FrameAt(clockHand, v))
<1>. DEFINE d == Swept(desc, clockHand, v)
            i == FrameAt(clockHand, v)
            a == AllocBuf(v)
<1>1. i \in Frames
  BY FrameAtType DEF IInv
<1>2. /\ d[i].valid = desc[i].valid /\ d[i].dirty = desc[i].dirty
      /\ Key(d, i) = Key(desc, i)
  BY <1>1, SweptSame DEF SameFrames, Key
<1>3. desc[i].valid => Has(ht, Key(desc, i)) /\ disk[Key(desc, i)] # Gone
  <2>1. desc[i].valid => /\ Key(desc, i) \in Keys /\ lookup(ht, Key(desc, i)) = i
                         /\ disk[Key(desc, i)] # Gone
    BY <1>1 DEF IInv, Agree, Valued
  <2>2. SoundTable(ht)
    BY DEF IInv, Agree
  <2>. QED BY <1>1, <2>1, <2>2, LookupNone
<1>4. ~desc[i].valid => ~desc[i].dirty
  BY <1>1 DEF IInv, Agree, Valued, Clear
<1>5. CASE ~TakesAt(v) \/ (~(d[i].valid /\ TakesAt(v)) /\ v >= 2 * NumBufs)
  <2>1. a = [desc |-> d, ht |-> ht, disk |-> disk, exc |-> "BufferExceeded"]
    BY <1>5 DEF AllocBuf
  <2>2. FoundNone(a, d)
    BY <2>1 DEF FoundNone
  <2>. QED BY <1>1, <2>2 DEF Outcome
<1>6. CASE ~(~TakesAt(v) \/ (~(d[i].valid /\ TakesAt(v)) /\ v >= 2 * NumBufs))
  <2>1. TakesAt(v) /\ (desc[i].valid => desc[i].pinCnt = 0)
    BY <1>6 DEF TakesAt, Takes
  <2>2. a = [desc |-> [d EXCEPT ![i] = Clear],
             ht   |-> IF d[i].valid /\ TakesAt(v) THEN remove(ht, Key(d, i)) ELSE ht,
             disk |-> WriteBack(i),
             exc  |-> "ok"]
    <3>1. ~(d[i].valid /\ TakesAt(v) /\ ~Has(ht, Key(d, i)))
      BY <1>2, <1>3
    <3>2. ~(d[i].dirty /\ disk[Key(d, i)] = Gone)
      BY <1>2, <1>3, <1>4
    <3>. QED BY <1>6, <3>1, <3>2 DEF AllocBuf
  <2>. HIDE DEF d, i
  <2>3. a.ht = IF desc[i].valid THEN remove(ht, Key(desc, i)) ELSE ht
    BY <1>2, <2>1, <2>2
  <2>. HIDE DEF a
  <2>4. FoundFrame(a, d, i)
    BY <2>1, <2>2, <2>3 DEF FoundFrame
  <2>5. Outcome(a, d, i)
    BY <2>4 DEF Outcome
  <2>. QED BY <1>1, <2>5 DEF a, d, i
<1>. QED BY <1>5, <1>6

\* What allocBuf hands on, with or without frame i.
Allocated(a, i) ==
  /\ Agree(a.ht, a.desc, pool, a.disk)
  /\ \A k \in Keys : /\ a.disk[k] = Gone <=> disk[k] = Gone
                     /\ ~Has(ht, k) => ~Has(a.ht, k)
  /\ a.exc = "ok" => ~a.desc[i].valid

(* The sweep keeps what the tables say.                                    *)
LEMMA SweepAgrees ==
  ASSUME IInv, NEW v \in Visits
  PROVE  Agree(ht, Swept(desc, clockHand, v), pool, disk)
<1>. DEFINE e == Swept(desc, clockHand, v)
<1>1. Agree(ht, desc, pool, disk) /\ SameFrames(desc, e)
  BY SweptSame DEF IInv
<1>. HIDE DEF e
<1>2. Agree(ht, e, pool, disk)
  BY <1>1, AgreeStill DEF Agree
<1>. QED BY <1>2 DEF e

(* The frame allocBuf takes is written first, if it is dirty.              *)
LEMMA WriteBackFacts ==
  ASSUME IInv, NEW i \in Frames
  PROVE  /\ WriteBack(i) \in [Keys -> Data \cup {Gone}]
         /\ desc[i].dirty => desc[i].valid
         /\ \A k \in Keys :
              /\ WriteBack(i)[k] = IF desc[i].dirty /\ Key(desc, i) = k
                                   THEN pool[i] ELSE disk[k]
              /\ WriteBack(i)[k] = Gone <=> disk[k] = Gone
<1>1. desc[i].dirty => desc[i].valid
  BY DEF IInv, Agree, Valued, Clear
<1>2. desc[i].valid => /\ Key(desc, i) \in Keys /\ disk[Key(desc, i)] # Gone
                       /\ pool[i] # Gone
  BY DEF IInv, Agree, Valued
<1>3. /\ disk \in [Keys -> Data \cup {Gone}] /\ pool[i] \in Data \cup {Gone}
  BY DEF IInv, Agree
<1>4. CASE desc[i].dirty
  <2>. DEFINE l == Key(desc, i)
  <2>1. WriteBack(i) = [disk EXCEPT ![l] = pool[i]] /\ l \in Keys
    BY <1>1, <1>2, <1>4 DEF WriteBack
  <2>2. disk[l] # Gone /\ pool[i] # Gone
    BY <1>1, <1>2, <1>4
  <2>. HIDE DEF l
  <2>3. /\ WriteBack(i) \in [Keys -> Data \cup {Gone}]
        /\ \A k \in Keys : WriteBack(i)[k] = IF l = k THEN pool[i] ELSE disk[k]
    BY <1>3, <2>1
  <2>. QED BY <1>1, <1>4, <2>2, <2>3 DEF l
<1>5. CASE ~desc[i].dirty
  <2>1. WriteBack(i) = disk
    BY <1>5 DEF WriteBack
  <2>. QED BY <1>1, <1>3, <1>5, <2>1
<1>. QED BY <1>4, <1>5

(* Giving up frame i drops it alone.                                       *)
LEMMA GivenUp ==
  ASSUME IInv, NEW d, Agree(ht, d, pool, disk), NEW i \in Frames, NEW a,
         FoundFrame(a, d, i), Key(d, i) = Key(desc, i), d[i].valid = desc[i].valid
  PROVE  /\ Dropped(ht, a.ht, d, a.desc, {i})
         /\ \A k \in Keys : ~Has(ht, k) => ~Has(a.ht, k)
<1>1. /\ a.desc = [d EXCEPT ![i] = Clear] /\ d \in [Frames -> Desc] /\ SoundTable(ht)
      /\ a.ht = IF d[i].valid THEN remove(ht, Key(d, i)) ELSE ht
  BY DEF FoundFrame, Agree
<1>2. a.desc = [j \in Frames |-> IF j \in {i} THEN Clear ELSE d[j]]
  BY <1>1
<1>. DEFINE k == Key(d, i)
            u == a.ht
<1>3. /\ SoundTable(u)
      /\ \A l \in Keys : lookup(u, l) = IF d[i].valid /\ k = l THEN NoFrame
                                        ELSE lookup(ht, l)
  <2>1. CASE d[i].valid
    <3>1. k \in Keys /\ lookup(ht, k) = i
      BY <2>1 DEF Agree, Valued
    <3>2. Has(ht, k)
      BY <1>1, <3>1, LookupNone
    <3>3. u = remove(ht, k)
      BY <1>1, <2>1
    <3>. HIDE DEF k, u
    <3>4. Removed(ht, u, k)
      BY <1>1, <3>1, <3>2, <3>3, RemoveSound
    <3>. QED BY <2>1, <3>4 DEF Removed
  <2>2. CASE ~d[i].valid
    BY <1>1, <2>2
  <2>. QED BY <2>1, <2>2
<1>. HIDE DEF k, u
<1>4. \A l \in Keys : ~Has(ht, l) => ~Has(u, l)
  BY <1>1, <1>3, LookupNone
<1>5. \A l \in Keys :
        (\E j \in {i} : d[j].valid /\ Key(d, j) = l) <=> (d[i].valid /\ k = l)
  BY DEF k
<1>6. Dropped(ht, u, d, a.desc, {i})
  BY <1>2, <1>3, <1>5 DEF Dropped
<1>. QED BY <1>4, <1>6 DEF u

(* So does allocBuf, and the frame it hands on is clear.                   *)
LEMMA AllocKeeps ==
  ASSUME IInv, NEW v \in Visits, StopsAt(v)
  PROVE  FrameAt(clockHand, v) \in Frames /\ Allocated(AllocBuf(v), FrameAt(clockHand, v))
<1>. DEFINE d == Swept(desc, clockHand, v)
            i == FrameAt(clockHand, v)
            a == AllocBuf(v)
<1>1. i \in Frames /\ Outcome(a, d, i) /\ Agree(ht, d, pool, disk)
  BY AllocCases, SweepAgrees
<1>2. d[i].valid = desc[i].valid /\ Key(d, i) = Key(desc, i)
  BY <1>1, SweptSame DEF SameFrames, Key
<1>. HIDE DEF d, i, a
<1>3. CASE FoundNone(a, d)
  BY <1>1, <1>3 DEF FoundNone, Allocated, i, a
<1>4. CASE FoundFrame(a, d, i)
  <2>1. /\ Dropped(ht, a.ht, d, a.desc, {i})
        /\ \A k \in Keys : ~Has(ht, k) => ~Has(a.ht, k)
    BY <1>1, <1>2, <1>4, GivenUp
  <2>2. /\ a.disk \in [Keys -> Data \cup {Gone}]
        /\ \A k \in Keys : a.disk[k] = Gone <=> disk[k] = Gone
    BY <1>1, <1>4, WriteBackFacts DEF FoundFrame
  <2>3. \A j \in Frames \ {i} : d[j].valid => a.disk[Key(d, j)] # Gone
    BY <1>1, <2>2 DEF Agree, Valued
  <2>4. Agree(a.ht, a.desc, pool, a.disk)
    BY <1>1, <2>1, <2>2, <2>3, AgreeWithout
  <2>5. ~a.desc[i].valid
    BY <1>1, <1>4, ClearFacts DEF FoundFrame, Agree
  <2>6. Allocated(a, i)
    BY <2>1, <2>2, <2>4, <2>5 DEF Allocated
  <2>. QED BY <1>1, <2>6 DEF a, i
<1>. QED BY <1>1, <1>3, <1>4 DEF Outcome

-----------------------------------------------------------------------------
(* When allocBuf gives up.                                                 *)

(* The remainder of a number less than NumBufs, and of one a round or two  *)
(* further on.                                                             *)
LEMMA Rounds ==
  ASSUME NEW i \in Frames
  PROVE  /\ i % NumBufs = i
         /\ (i + NumBufs) % NumBufs = i
         /\ (i + NumBufs + NumBufs) % NumBufs = i
<1>1. i % NumBufs = i
  BY DEF Frames
<1>2. (i + NumBufs) % NumBufs = i
  BY DEF Frames
<1>3. (i + NumBufs + NumBufs) % NumBufs = i
  BY DEF Frames
<1>. QED BY <1>1, <1>2, <1>3

(* Each round of the hand comes to every frame, the second as far on in    *)
(* its round as the first.                                                 *)
LEMMA EveryFrameIsVisited ==
  ASSUME NEW hand \in Frames, NEW i \in Frames
  PROVE  \E w \in 1 .. NumBufs : /\ FrameAt(hand, w) = i
                                 /\ FrameAt(hand, w + NumBufs) = i
<1>1. CASE hand < i
  <2>1. i - hand \in 1 .. NumBufs
    BY <1>1 DEF Frames
  <2>2. hand + (i - hand) = i /\ hand + (i - hand + NumBufs) = i + NumBufs
    BY DEF Frames
  <2>3. FrameAt(hand, i - hand) = i /\ FrameAt(hand, i - hand + NumBufs) = i
    BY <2>2, Rounds DEF FrameAt
  <2>. QED BY <2>1, <2>3
<1>2. CASE ~(hand < i)
  <2>. DEFINE w == i - hand + NumBufs
  <2>1. w \in 1 .. NumBufs
    BY <1>2 DEF Frames
  <2>2. hand + w = i + NumBufs /\ hand + (w + NumBufs) = i + NumBufs + NumBufs
    BY DEF Frames
  <2>. HIDE DEF w
  <2>3. FrameAt(hand, w) = i /\ FrameAt(hand, w + NumBufs) = i
    BY <2>2, Rounds DEF FrameAt
  <2>. QED BY <2>1, <2>3
<1>. QED BY <1>1, <1>2

(* A sweep that gives up has come to every frame twice and taken none.     *)
LEMMA GivingUpIsLate ==
  ASSUME IInv, NEW v \in Visits, StopsAt(v), AllocBuf(v).exc = "BufferExceeded"
  PROVE  v = 2 * NumBufs /\ \A w \in 1 .. 2 * NumBufs : ~TakesAt(w)
<1>. DEFINE d == Swept(desc, clockHand, v)
            i == FrameAt(clockHand, v)
<1>1. i \in Frames
  BY FrameAtType DEF IInv
<1>2. d[i].valid = desc[i].valid
  BY <1>1, SweptSame DEF SameFrames
<1>3. ~TakesAt(v) \/ (~(d[i].valid /\ TakesAt(v)) /\ v >= 2 * NumBufs)
  BY DEF AllocBuf
<1>4. v = 2 * NumBufs /\ \A w \in 1 .. v - 1 : ~TakesAt(w)
  BY <1>3 DEF StopsAt, Visits
<1>5. ~TakesAt(v)
  <2>. SUFFICES ASSUME TakesAt(v) PROVE FALSE
    OBVIOUS
  <2>1. ~desc[i].valid
    BY <1>2, <1>3
  <2>2. clockHand + v = clockHand + NumBufs + NumBufs
    BY <1>4 DEF IInv, Frames
  <2>3. FrameAt(clockHand, v) = clockHand /\ FrameAt(clockHand, NumBufs) = clockHand
    BY <2>2, Rounds DEF FrameAt, IInv
  <2>4. TakesAt(NumBufs)
    BY <2>1, <2>3 DEF TakesAt, Takes
  <2>5. NumBufs \in 1 .. v - 1
    BY <1>4
  <2>. QED BY <1>4, <2>4, <2>5
<1>. QED BY <1>4, <1>5

-----------------------------------------------------------------------------
(* The operations, called by any client.                                   *)

(* What the descriptor and the chains say of a page in the pool.           *)
LEMMA PageFound ==
  ASSUME IInv, NEW k \in Keys, Has(ht, k)
  PROVE  /\ lookup(ht, k) \in Frames /\ desc[lookup(ht, k)].valid
         /\ Key(desc, lookup(ht, k)) = k
         /\ desc[lookup(ht, k)] \in Desc
<1>1. SoundTable(ht) /\ desc \in [Frames -> Desc] /\ Valued(ht, desc, pool, disk)
  BY DEF IInv, Agree
<1>2. lookup(ht, k) \in Frames
  BY <1>1, LookupNone
<1>. QED BY <1>1, <1>2 DEF Valued

(* A call that throws after allocBuf.                                      *)
LEMMA LeaveKeeps ==
  ASSUME IInv, NEW v \in Visits, StopsAt(v), Leave(AllocBuf(v), v)
  PROVE  IInv'
<1>1. FrameAt(clockHand, v) \in Frames /\ Allocated(AllocBuf(v), FrameAt(clockHand, v))
  BY AllocKeeps
<1>. QED BY <1>1 DEF Leave, Allocated, IInv

(* A call that puts a page in the frame allocBuf took.                     *)
LEMMA PutKeeps ==
  ASSUME IInv, NEW v \in Visits, StopsAt(v), AllocBuf(v).exc = "ok",
         NEW k \in Keys, NEW x \in Data, Put(AllocBuf(v), v, k, x),
         ~Has(AllocBuf(v).ht, k)
  PROVE  IInv'
<1>. DEFINE a == AllocBuf(v)
            i == FrameAt(clockHand, v)
<1>1. i \in Frames /\ Allocated(a, i)
  BY AllocKeeps
<1>2. /\ desc' = [a.desc EXCEPT ![i] = Set(k)] /\ pool' = [pool EXCEPT ![i] = x]
      /\ disk' = [a.disk EXCEPT ![k] = x] /\ clockHand' = i
      /\ ht' = insert(a.ht, k, i)
  BY DEF Put
<1>3. ~a.desc[i].valid /\ Agree(a.ht, a.desc, pool, a.disk) /\ ~Has(a.ht, k)
  BY <1>1 DEF Allocated
<1>. HIDE DEF a, i
<1>4. Agree(ht', desc', pool', disk')
  BY <1>1, <1>2, <1>3, AgreeWith
<1>. QED BY <1>1, <1>2, <1>4 DEF IInv

(* Not in the pool: so neither in what allocBuf left of it.                *)
LEMMA ReadMissKeeps ==
  ASSUME IInv, NEW k \in Keys, ReadMiss(k)
  PROVE  IInv'
<1>1. PICK v \in Visits :
        /\ StopsAt(v)
        /\ \/ AllocBuf(v).exc # "ok" /\ Leave(AllocBuf(v), v)
           \/ AllocBuf(v).exc = "ok" /\ AllocBuf(v).disk[k] = Gone /\ Leave(AllocBuf(v), v)
           \/ /\ AllocBuf(v).exc = "ok" /\ AllocBuf(v).disk[k] # Gone
              /\ Put(AllocBuf(v), v, k, AllocBuf(v).disk[k])
  BY DEF ReadMiss
<1>2. Allocated(AllocBuf(v), FrameAt(clockHand, v))
  BY <1>1, AllocKeeps
<1>3. ~Has(AllocBuf(v).ht, k)
  BY <1>2 DEF Allocated, ReadMiss
<1>4. AllocBuf(v).disk[k] # Gone => AllocBuf(v).disk[k] \in Data
  BY <1>2 DEF Allocated, Agree
<1>. QED BY <1>1, <1>3, <1>4, LeaveKeeps, PutKeeps

(* A page that does not exist is in no frame.                              *)
LEMMA NotInPool ==
  ASSUME NEW t, NEW d, NEW p, NEW D, Agree(t, d, p, D), NEW k \in Keys, D[k] = Gone
  PROVE  ~Has(t, k)
<1>1. SUFFICES ASSUME Has(t, k) PROVE FALSE
  OBVIOUS
<1>2. lookup(t, k) \in Frames
  BY <1>1, LookupNone DEF Agree
<1>. QED BY <1>2 DEF Agree, Valued

(* allocPage, of a page that does not exist: so it is in no chain.         *)
LEMMA AllocPageKeeps ==
  ASSUME IInv, allocPage
  PROVE  IInv'
<1>1. PICK v \in Visits :
        /\ StopsAt(v)
        /\ \/ Leave(AllocBuf(v), v)
           \/ /\ AllocBuf(v).exc = "ok"
              /\ \E k \in Keys : disk[k] = Gone /\ Put(AllocBuf(v), v, k, Empty)
  BY DEF allocPage, MayAllocate, Live
<1>2. Allocated(AllocBuf(v), FrameAt(clockHand, v))
  BY <1>1, AllocKeeps
<1>3. ASSUME NEW k \in Keys, disk[k] = Gone PROVE ~Has(AllocBuf(v).ht, k)
  BY <1>2, <1>3, NotInPool DEF Allocated
<1>4. Empty \in Data
  BY ManagerAssumption
<1>. QED BY <1>1, <1>3, <1>4, LeaveKeeps, PutKeeps

\* Frame i has descriptor r now, with n pins and dirty bit b.
Repinned(i, r, n, b) ==
  /\ r \in Desc /\ r.pinCnt = n /\ r.dirty = b
  /\ r.file = desc[i].file /\ r.pageNo = desc[i].pageNo /\ r.valid = desc[i].valid
  /\ desc' = [desc EXCEPT ![i] = r] /\ UNCHANGED <<pool, ht, clockHand, disk>>

(* A read of a page in the pool gives its frame a pin more.                *)
LEMMA ReadHitRepins ==
  ASSUME IInv, NEW k \in Keys, ReadHit(k)
  PROVE  \E r : Repinned(lookup(ht, k), r, desc[lookup(ht, k)].pinCnt + 1,
                         desc[lookup(ht, k)].dirty)
<1>. DEFINE i == lookup(ht, k)
            n == desc[i].pinCnt + 1
            r == [desc[i] EXCEPT !.pinCnt = n, !.refbit = TRUE]
<1>1. desc[i] \in Desc
  BY PageFound DEF ReadHit
<1>2. n \in Nat
  BY <1>1 DEF Desc
<1>3. desc' = [desc EXCEPT ![i] = r] /\ UNCHANGED <<pool, ht, clockHand, disk>>
  BY DEF ReadHit
<1>. HIDE DEF n, i
<1>4. /\ r \in Desc /\ r.pinCnt = n /\ r.dirty = desc[i].dirty
      /\ r.file = desc[i].file /\ r.pageNo = desc[i].pageNo /\ r.valid = desc[i].valid
  BY <1>1, <1>2 DEF Desc
<1>. HIDE DEF r
<1>5. Repinned(i, r, n, desc[i].dirty)
  BY <1>3, <1>4 DEF Repinned
<1>. QED BY <1>5 DEF n, i

(* unPinPage gives it a pin less, if it has one, and never loses the dirty *)
(* bit.                                                                    *)
LEMMA UnPinRepins ==
  ASSUME IInv, NEW k \in Keys, NEW isDirty \in BOOLEAN, unPinPage(k, isDirty)
  PROVE  \E r : \E b \in BOOLEAN :
           /\ Repinned(lookup(ht, k), r,
                       IF desc[lookup(ht, k)].pinCnt = 0 THEN 0
                       ELSE desc[lookup(ht, k)].pinCnt - 1, b)
           /\ ~b => ~desc[lookup(ht, k)].dirty /\ ~isDirty
<1>. DEFINE i == lookup(ht, k)
            n == IF desc[i].pinCnt = 0 THEN 0 ELSE desc[i].pinCnt - 1
            b == desc[i].dirty \/ isDirty
            r == [desc[i] EXCEPT !.dirty = b, !.pinCnt = n]
<1>1. desc[i] \in Desc
  BY PageFound DEF unPinPage
<1>2. n \in Nat /\ b \in BOOLEAN
  BY <1>1 DEF Desc
<1>3. desc' = [desc EXCEPT ![i] = r] /\ UNCHANGED <<pool, ht, clockHand, disk>>
  BY DEF unPinPage
<1>4. ~b => ~desc[i].dirty /\ ~isDirty
  OBVIOUS
<1>. HIDE DEF n, b, i
<1>5. /\ r \in Desc /\ r.pinCnt = n /\ r.dirty = b
      /\ r.file = desc[i].file /\ r.pageNo = desc[i].pageNo /\ r.valid = desc[i].valid
  BY <1>1, <1>2 DEF Desc
<1>. HIDE DEF r
<1>6. Repinned(i, r, n, b)
  BY <1>3, <1>5 DEF Repinned
<1>. QED BY <1>2, <1>4, <1>6 DEF n, i

(* Pins and bits are no matter to the chains.                              *)
LEMMA PinsKeep ==
  ASSUME IInv, NEW i \in Frames, NEW r, NEW n, NEW b, desc[i].valid, Repinned(i, r, n, b)
  PROVE  IInv'
<1>1. Agree(ht, desc, pool, disk)
  BY DEF IInv
<1>2. SameFrames(desc, desc')
  BY <1>1 DEF Repinned, SameFrames, Agree
<1>3. Agree(ht, desc', pool, disk)
  BY <1>1, <1>2, AgreeStill DEF Agree
<1>. QED BY <1>3 DEF IInv, Repinned

(* readPage of a page in the pool.                                         *)
LEMMA ReadHitKeeps ==
  ASSUME IInv, NEW k \in Keys, ReadHit(k)
  PROVE  IInv'
BY PageFound, ReadHitRepins, PinsKeep DEF ReadHit

(* unPinPage.                                                              *)
LEMMA UnPinKeeps ==
  ASSUME IInv, NEW k \in Keys, NEW isDirty \in BOOLEAN, unPinPage(k, isDirty)
  PROVE  IInv'
<1>1. lookup(ht, k) \in Frames /\ desc[lookup(ht, k)].valid
  BY PageFound DEF unPinPage
<1>. QED BY <1>1, UnPinRepins, PinsKeep

(* disposePage takes the page out of chains, pool and file together.       *)
LEMMA DisposeKeeps ==
  ASSUME IInv, NEW k \in Keys, disposePage(k)
  PROVE  IInv'
<1>. DEFINE i == lookup(ht, k)
            u == remove(ht, k)
            e == [desc EXCEPT ![i] = Clear]
            E == [disk EXCEPT ![k] = Gone]
<1>1. i \in Frames /\ desc[i].valid /\ Key(desc, i) = k /\ Has(ht, k)
  BY PageFound DEF disposePage
<1>2. /\ SoundTable(ht) /\ desc \in [Frames -> Desc] /\ disk \in [Keys -> Data \cup {Gone}]
      /\ Agree(ht, desc, pool, disk)
  BY DEF IInv, Agree
<1>3. Removed(ht, u, k)
  BY <1>1, <1>2, RemoveSound
<1>4. /\ desc' = e /\ ht' = u /\ disk' = E /\ UNCHANGED <<pool, clockHand>>
  BY DEF disposePage
<1>5. /\ e = [j \in Frames |-> IF j \in {i} THEN Clear ELSE desc[j]]
      /\ E \in [Keys -> Data \cup {Gone}]
      /\ \A l \in Keys : l # k => E[l] = disk[l]
  BY <1>1, <1>2
<1>. HIDE DEF i, u, e, E
<1>6. \A l \in Keys :
        (\E j \in {i} : desc[j].valid /\ Key(desc, j) = l) <=> l = k
  BY <1>1
<1>7. Dropped(ht, u, desc, e, {i})
  BY <1>3, <1>5, <1>6 DEF Dropped, Removed
<1>8. ASSUME NEW j \in Frames \ {i}, desc[j].valid PROVE E[Key(desc, j)] # Gone
  <2>1. Key(desc, j) \in Keys /\ lookup(ht, Key(desc, j)) = j /\ disk[Key(desc, j)] # Gone
    BY <1>2, <1>8 DEF Agree, Valued
  <2>2. Key(desc, j) # k
    BY <2>1, <1>8 DEF i
  <2>. QED BY <1>5, <2>1, <2>2
<1>9. Agree(u, e, pool, E)
  BY <1>1, <1>2, <1>5, <1>7, <1>8, AgreeWithout
<1>. QED BY <1>4, <1>9 DEF IInv

\* The dirty ones of the frames S of d have been written.
Wrote(d, S, E) ==
  /\ E \in [Keys -> Data \cup {Gone}]
  /\ \A k \in Keys : \/ \E i \in S : d[i].dirty /\ Key(d, i) = k /\ E[k] = pool[i]
                     \/ E[k] = disk[k] /\ ~\E i \in S : d[i].dirty /\ Key(d, i) = k

Written(S, E) == Wrote(desc, S, E)

(* What the invariant says of one frame.                                   *)
LEMMA ValidFrame ==
  ASSUME IInv, NEW i \in Frames
  PROVE  /\ desc[i] \in Desc
         /\ desc[i].dirty \/ desc[i].pinCnt > 0 => desc[i].valid
         /\ desc[i].valid => /\ Key(desc, i) \in Keys /\ lookup(ht, Key(desc, i)) = i
                             /\ Has(ht, Key(desc, i))
                             /\ disk[Key(desc, i)] # Gone /\ pool[i] \in Data
         /\ \A j \in Frames : desc[i].valid /\ desc[j].valid /\ Key(desc, i) = Key(desc, j)
                              => i = j
<1>1. /\ desc \in [Frames -> Desc] /\ SoundTable(ht) /\ Valued(ht, desc, pool, disk)
      /\ pool \in [Frames -> Data \cup {Gone}]
  BY DEF IInv, Agree
<1>2. desc[i].dirty \/ desc[i].pinCnt > 0 => desc[i].valid
  BY <1>1 DEF Valued, Clear
<1>3. desc[i].valid => /\ Key(desc, i) \in Keys /\ lookup(ht, Key(desc, i)) = i
                       /\ disk[Key(desc, i)] # Gone /\ pool[i] # Gone
  BY <1>1 DEF Valued
<1>4. desc[i].valid => Has(ht, Key(desc, i))
  BY <1>1, <1>3, LookupNone
<1>5. \A j \in Frames : desc[j].valid => lookup(ht, Key(desc, j)) = j
  BY <1>1 DEF Valued
<1>. QED BY <1>1, <1>2, <1>3, <1>4, <1>5

(* Writing frames to the file makes no page disappear.                     *)
LEMMA WrittenExists ==
  ASSUME IInv, NEW S \in SUBSET Frames, NEW E, Written(S, E)
  PROVE  \A k \in Keys : disk[k] # Gone => E[k] # Gone
<1>. SUFFICES ASSUME NEW k \in Keys, disk[k] # Gone PROVE E[k] # Gone
  OBVIOUS
<1>1. CASE E[k] = disk[k]
  BY <1>1
<1>2. CASE \E i \in S : desc[i].dirty /\ Key(desc, i) = k /\ E[k] = pool[i]
  BY <1>2, ValidFrame, ManagerAssumption
<1>. QED BY <1>1, <1>2 DEF Written, Wrote

(* The frames flushFile finishes with.                                     *)
LEMMA FlushedFrames ==
  ASSUME IInv, NEW f \in Address
  PROVE  /\ Flushed(f) \in SUBSET Frames
         /\ \A i \in Flushed(f) : desc[i].valid /\ desc[i].pinCnt = 0
<1>1. \A i \in Flushed(f) : i \in Frames /\ desc[i].valid /\ Refusal(i) = "ok"
  BY DEF Flushed, Own, Frames
<1>2. ASSUME NEW i \in Flushed(f) PROVE desc[i].pinCnt = 0
  <2>1. ~(desc[i].pinCnt > 0)
    BY <1>1, <1>2 DEF Refusal
  <2>2. desc[i].pinCnt \in Nat
    BY <1>1, <1>2, ValidFrame DEF Desc
  <2>. QED BY <2>1, <2>2
<1>. QED BY <1>1, <1>2

(* flushFile gives up the frames it finishes with, written if dirty.       *)
LEMMA FlushWrites ==
  ASSUME IInv, NEW f \in Address, flushFile(f)
  PROVE  /\ Dropped(ht, ht', desc, desc', Flushed(f))
         /\ Written(Flushed(f), disk')
<1>. DEFINE S == Flushed(f)
            W == {i \in S : desc[i].dirty}
            frameOf(k) == CHOOSE i \in S : Key(desc, i) = k
<1>1. /\ S \in SUBSET Frames /\ \A i \in S : desc[i].valid
      /\ \A i, j \in S : Key(desc, i) = Key(desc, j) => i = j
      /\ \A i \in S : /\ Key(desc, i) \in Keys /\ Has(ht, Key(desc, i))
                      /\ pool[i] \in Data
  BY FlushedFrames, ValidFrame
<1>2. /\ desc' = [i \in Frames |-> IF i \in S THEN Clear ELSE desc[i]]
      /\ ht' = FoldSet(LAMBDA i, t : remove(t, Key(desc, i)), ht, S)
      /\ disk' = [k \in Keys |-> IF k \in {Key(desc, i) : i \in W}
                                 THEN pool[frameOf(k)] ELSE disk[k]]
  BY DEF flushFile
<1>. HIDE DEF S
<1>3. SoundTable(ht) /\ disk \in [Keys -> Data \cup {Gone}]
  BY DEF IInv, Agree
<1>4. AllRemoved(ht', S)
  BY <1>1, <1>2, <1>3, FoldRemoves
<1>5. Dropped(ht, ht', desc, desc', S)
  BY <1>1, <1>2, <1>4 DEF Dropped, AllRemoved
<1>6. ASSUME NEW k \in Keys
      PROVE  /\ disk'[k] \in Data \cup {Gone}
             /\ \/ \E i \in S : desc[i].dirty /\ Key(desc, i) = k /\ disk'[k] = pool[i]
                \/ disk'[k] = disk[k] /\ ~\E i \in S : desc[i].dirty /\ Key(desc, i) = k
  <2>1. ASSUME NEW i \in S, desc[i].dirty, Key(desc, i) = k
        PROVE  disk'[k] = pool[i] /\ pool[i] \in Data
    <3>1. frameOf(k) \in S /\ Key(desc, frameOf(k)) = k
      BY <2>1
    <3>2. frameOf(k) = i
      BY <1>1, <2>1, <3>1
    <3>. HIDE DEF frameOf
    <3>3. k \in {Key(desc, j) : j \in W}
      BY <2>1
    <3>. QED BY <1>1, <1>2, <3>2, <3>3
  <2>2. CASE \E i \in S : desc[i].dirty /\ Key(desc, i) = k
    BY <2>1, <2>2
  <2>3. CASE ~\E i \in S : desc[i].dirty /\ Key(desc, i) = k
    BY <1>2, <1>3, <2>3
  <2>. QED BY <2>2, <2>3
<1>. HIDE DEF frameOf, W
<1>7. disk' \in [Keys -> Data \cup {Gone}]
  <2>1. disk' = [k \in Keys |-> disk'[k]]
    BY <1>2
  <2>. QED BY <1>6, <2>1
<1>8. Written(S, disk')
  BY <1>6, <1>7 DEF Written, Wrote
<1>. QED BY <1>5, <1>8 DEF S

(* flushFile, also when it throws half way.                                *)
LEMMA FlushKeeps ==
  ASSUME IInv, NEW f \in Address, flushFile(f)
  PROVE  IInv'
<1>1. /\ Flushed(f) \in SUBSET Frames
      /\ Dropped(ht, ht', desc, desc', Flushed(f)) /\ Written(Flushed(f), disk')
      /\ pool' = pool /\ clockHand' = clockHand
  BY FlushedFrames, FlushWrites DEF flushFile
<1>2. disk' \in [Keys -> Data \cup {Gone}]
  BY <1>1 DEF Written, Wrote
<1>3. \A i \in Frames \ Flushed(f) : desc[i].valid => disk'[Key(desc, i)] # Gone
  BY <1>1, ValidFrame, WrittenExists
<1>4. Agree(ht', desc', pool, disk')
  BY <1>1, <1>2, <1>3, AgreeWithout DEF IInv
<1>. QED BY <1>1, <1>4 DEF IInv

(* An empty pool agrees with any disk.                                     *)
LEMMA EmptyAgrees ==
  ASSUME NEW D \in [Keys -> Data \cup {Gone}]
  PROVE  Agree(EmptyTable, [i \in Frames |-> Clear], [i \in Frames |-> Gone], D)
<1>1. SoundTable(EmptyTable) /\ \A k \in Keys : lookup(EmptyTable, k) \notin Frames
  BY EmptyTableSound, ManagerAssumption
<1>. DEFINE d == [i \in Frames |-> Clear]
<1>2. d \in [Frames -> Desc] /\ \A i \in Frames : ~d[i].valid /\ d[i] = Clear
  BY ClearFacts
<1>. HIDE DEF d
<1>3. Valued(EmptyTable, d, [i \in Frames |-> Gone], D)
  BY <1>1, <1>2 DEF Valued
<1>4. Agree(EmptyTable, d, [i \in Frames |-> Gone], D)
  BY <1>1, <1>2, <1>3 DEF Agree
<1>. QED BY <1>4 DEF d

(* The destructor writes every dirty frame, and no other.                  *)
LEMMA RestartWrites ==
  ASSUME IInv, restart
  PROVE  Written(Frames, disk')
<1>. DEFINE w(k) == CHOOSE i \in Frames : Key(desc, i) = k
<1>1. disk' = [k \in Keys |-> IF \E i \in Frames : desc[i].dirty /\ Key(desc, i) = k
                              THEN pool[w(k)] ELSE disk[k]]
  BY DEF restart
<1>2. disk \in [Keys -> Data \cup {Gone}] /\ desc \in [Frames -> Desc]
      /\ Valued(ht, desc, pool, disk)
  BY DEF IInv, Agree
<1>3. ASSUME NEW k \in Keys
      PROVE  /\ disk'[k] \in Data \cup {Gone}
             /\ \/ \E i \in Frames : desc[i].dirty /\ Key(desc, i) = k /\ disk'[k] = pool[i]
                \/ disk'[k] = disk[k] /\ ~\E i \in Frames : desc[i].dirty /\ Key(desc, i) = k
  <2>1. ASSUME NEW i \in Frames, desc[i].dirty, Key(desc, i) = k
        PROVE  disk'[k] = pool[i] /\ pool[i] \in Data
    <3>1. w(k) \in Frames /\ Key(desc, w(k)) = k
      BY <2>1
    <3>. DEFINE j == w(k)
    <3>. HIDE DEF w
    <3>2. desc[j].file \in Address
      BY <3>1 DEF Key, Keys
    <3>3. desc[j].valid
      BY <1>2, <3>1, <3>2, ClearFacts DEF Valued
    <3>4. j = i /\ pool[i] \in Data
      BY <2>1, <3>1, <3>3, ValidFrame
    <3>. QED BY <1>1, <2>1, <3>4
  <2>2. CASE \E i \in Frames : desc[i].dirty /\ Key(desc, i) = k
    BY <2>1, <2>2
  <2>3. CASE ~\E i \in Frames : desc[i].dirty /\ Key(desc, i) = k
    BY <1>1, <1>2, <2>3
  <2>. QED BY <2>2, <2>3
<1>. HIDE DEF w
<1>4. disk' \in [Keys -> Data \cup {Gone}]
  <2>1. disk' = [k \in Keys |-> disk'[k]]
    BY <1>1
  <2>. QED BY <1>3, <2>1
<1>. QED BY <1>3, <1>4 DEF Written, Wrote

(* The new manager starts from an empty pool.                              *)
LEMMA RestartKeeps ==
  ASSUME IInv, restart
  PROVE  IInv'
<1>1. disk' \in [Keys -> Data \cup {Gone}]
  BY RestartWrites DEF Written, Wrote
<1>2. Agree(ht', desc', pool', disk')
  BY <1>1, EmptyAgrees DEF restart
<1>. QED BY <1>2 DEF IInv, restart, Frames

(* The client writes to a page in the pool.                                *)
LEMMA ChangeKeeps ==
  ASSUME IInv, NEW i \in Frames, NEW data \in Data, ChangePage(i, data)
  PROVE  IInv'
<1>1. /\ Agree(ht, desc, pool, disk) /\ pool' = [pool EXCEPT ![i] = data]
      /\ UNCHANGED <<desc, ht, clockHand, disk>>
  BY DEF IInv, ChangePage
<1>2. /\ pool' \in [Frames -> Data \cup {Gone}] /\ disk \in [Keys -> Data \cup {Gone}]
      /\ \A j \in Frames : pool[j] # Gone => pool'[j] # Gone
  BY <1>1, ManagerAssumption DEF Agree
<1>3. SameFrames(desc, desc)
  BY <1>1 DEF SameFrames, Agree
<1>4. Agree(ht, desc, pool', disk)
  BY <1>1, <1>2, <1>3, AgreeStill
<1>. QED BY <1>1, <1>4 DEF IInv

(* The constructor.                                                        *)
LEMMA InitAgrees == Init => IInv
<1>. SUFFICES ASSUME Init PROVE IInv
  OBVIOUS
<1>1. disk \in [Keys -> Data \cup {Gone}] /\ clockHand \in Frames
  BY DEF Init, Frames
<1>. QED BY <1>1, EmptyAgrees DEF Init, IInv

(* Every call keeps the invariant.                                         *)
LEMMA StepKeeps == IInv /\ [Next]_vars => IInv'
<1>. SUFFICES ASSUME IInv, [Next]_vars PROVE IInv'
  OBVIOUS
<1>1. ASSUME NEW k \in Keys, readPage(k) PROVE IInv'
  BY <1>1, ReadHitKeeps, ReadMissKeeps DEF readPage
<1>2. ASSUME NEW k \in Keys, disposePage(k) PROVE IInv'
  BY <1>2, DisposeKeeps
<1>3. ASSUME NEW k \in Keys, NEW isDirty \in BOOLEAN, unPinPage(k, isDirty) PROVE IInv'
  BY <1>3, UnPinKeeps
<1>4. CASE allocPage
  BY <1>4, AllocPageKeeps
<1>5. ASSUME NEW f \in Address, flushFile(f) PROVE IInv'
  BY <1>5, FlushKeeps
<1>6. ASSUME NEW i \in Frames, NEW data \in Data, ChangePage(i, data) PROVE IInv'
  BY <1>6, ChangeKeeps
<1>7. CASE restart
  BY <1>7, RestartKeeps
<1>8. CASE UNCHANGED vars
  BY <1>8 DEF vars, IInv
<1>. QED BY <1>1, <1>2, <1>3, <1>4, <1>5, <1>6, <1>7, <1>8 DEF Next

-----------------------------------------------------------------------------
(* Theorems, of any client.                                                *)

(* Chains, descriptors, pool and disk agree in every reachable state.      *)
THEOREM Inductive == Spec => []IInv
  BY InitAgrees, StepKeeps, PTL DEF Spec

(* Every bucket is in the chain that is searched for its page and the only *)
(* one of its page, so that the chains are a function in every reachable   *)
(* state (see ChainsAreAFunction).                                         *)
THEOREM ChainsStaySound == Spec => []SoundTable(ht)
<1>1. IInv => SoundTable(ht)
  BY DEF IInv, Agree
<1>. QED BY <1>1, Inductive, PTL

\* What is known of the page lists.
ListsTyped == lists \in PageListsOf(Keys, Address)

(* They change only when a page is allocated, and keep their type.         *)
LEMMA ListsStayTyped ==
  ASSUME ListsTyped, [Next]_vars
  PROVE  ListsTyped'
<1>1. CASE lists' = lists
  BY <1>1 DEF ListsTyped
<1>2. ASSUME NEW k \in Keys, lists' = WithPage(lists, Live, k) PROVE ListsTyped'
  <2>1. k[1] \in Address
    BY DEF Keys
  <2>. QED BY <1>2, <2>1 DEF WithPage, PageListsOf, ListsTyped
<1>3. ASSUME allocPage PROVE ListsTyped'
  <2>1. lists' = lists \/ \E k \in Keys : lists' = WithPage(lists, Live, k)
    BY <1>3 DEF allocPage, Leave
  <2>. QED BY <1>1, <1>2, <2>1
<1>4. ASSUME NEW k \in Keys, readPage(k) PROVE lists' = lists
  BY <1>4 DEF readPage, ReadHit, ReadMiss, Leave
<1>5. ASSUME NEW k \in Keys, disposePage(k) PROVE lists' = lists
  BY <1>5 DEF disposePage
<1>6. ASSUME NEW k \in Keys, NEW isDirty \in BOOLEAN, unPinPage(k, isDirty)
      PROVE  lists' = lists
  BY <1>6 DEF unPinPage
<1>7. ASSUME NEW f \in Address, flushFile(f) PROVE lists' = lists
  BY <1>7 DEF flushFile
<1>8. ASSUME NEW i \in Frames, NEW data \in Data, ChangePage(i, data)
      PROVE  lists' = lists
  BY <1>8 DEF ChangePage
<1>9. ASSUME restart \/ UNCHANGED vars PROVE lists' = lists
  BY <1>9 DEF restart, vars
<1>. QED BY <1>1, <1>3, <1>4, <1>5, <1>6, <1>7, <1>8, <1>9 DEF Next

(* Descriptors, pool, chains, hand, disk and page lists keep their types.  *)
THEOREM TypeCorrect == Spec => []TypeOK
<1>1. IInv /\ ListsTyped => TypeOK
  BY DEF IInv, Agree, SoundTable, TypeOK, ListsTyped
<1>2. Init => ListsTyped
  BY DEF Init, NewLists, PageListsOf, ListsTyped
<1>3. ListsTyped /\ [Next]_vars => ListsTyped'
  BY ListsStayTyped
<1>. QED BY <1>1, <1>2, <1>3, Inductive, PTL DEF Spec

(* The chains of the hash table and the descriptors of the pool never part *)
(* company: see PoolIndexed.                                               *)
THEOREM PoolIsIndexed == Spec => []PoolIndexed
<1>1. IInv => PoolIndexed
  <2>. SUFFICES ASSUME IInv PROVE PoolIndexed
    OBVIOUS
  <2>1. SoundTable(ht) /\ Valued(ht, desc, pool, disk)
    BY DEF IInv, Agree
  <2>2. ASSUME NEW x \in Index, NEW n \in DOMAIN ht[x]
        PROVE  LET k == <<ht[x][n].file, ht[x][n].pageNo>>
                   i == ht[x][n].frameNo
               IN  hash(k) = x /\ desc[i].valid /\ Key(desc, i) = k
    <3>. DEFINE k == KeyOf(ht[x][n])
                i == ht[x][n].frameNo
    <3>1. ht[x][n] \in Bucket(Frames) /\ hash(k) = x
      BY <2>1 DEF SoundTable
    <3>2. k \in Keys
      BY <3>1 DEF KeyOf, Keys, Bucket
    <3>. HIDE DEF k
    <3>3. n \in Places(ht, k)
      BY <2>1, <3>1, <3>2, PlaceOfKey DEF k
    <3>4. lookup(ht, k) = i /\ i \in Frames
      BY <2>1, <3>1, <3>2, <3>3, LookupAt
    <3>5. desc[i].valid /\ Key(desc, i) = k
      BY <2>1, <3>2, <3>4 DEF Valued
    <3>. QED BY <3>1, <3>5 DEF k, KeyOf
  <2>3. \A k \in Keys : \A m, n \in Places(ht, k) : m = n
    BY <2>1, PlaceOfKey
  <2>4. \A i \in Frames :
          IF desc[i].valid
          THEN lookup(ht, Key(desc, i)) = i /\ disk[Key(desc, i)] # Gone
          ELSE desc[i] = Clear
    BY <2>1 DEF Valued
  <2>. QED BY <2>2, <2>3, <2>4 DEF PoolIndexed
<1>. QED BY <1>1, Inductive, PTL

(* allocBuf of p3 throws BufferExceededException only with every frame     *)
(* pinned: what p2's comment promises and p3's two rounds make true.       *)
THEOREM TwoRoundsAreEnough == Spec => []ExceededMeansAllPinned
<1>1. IInv => ExceededMeansAllPinned
  <2>. SUFFICES ASSUME IInv, NEW v \in Visits,
                       StopsAt(v) /\ AllocBuf(v).exc = "BufferExceeded",
                       NEW i \in Frames
                PROVE  desc[i].pinCnt > 0
    BY DEF ExceededMeansAllPinned
  <2>1. PICK w \in 1 .. NumBufs : FrameAt(clockHand, w + NumBufs) = i
    BY EveryFrameIsVisited DEF IInv
  <2>2. w + NumBufs \in 1 .. 2 * NumBufs /\ ~(w + NumBufs <= NumBufs)
    OBVIOUS
  <2>3. ~Takes(desc, clockHand, w + NumBufs)
    BY <2>2, GivingUpIsLate DEF TakesAt
  <2>4. desc[i].pinCnt # 0
    BY <2>1, <2>2, <2>3 DEF Takes, Referenced
  <2>. QED BY <2>4, ValidFrame DEF Desc
<1>. QED BY <1>1, Inductive, PTL

-----------------------------------------------------------------------------
(* A careful client: the pool as a page store.                             *)

\* An idle frame that is not dirty holds what the file holds.
CleanAll(d, p, D) ==
  \A i \in Frames :
    d[i].valid /\ d[i].pinCnt = 0 /\ ~d[i].dirty => p[i] = D[Key(d, i)]

\* Contents and pins as the chains of t lead to them.
ContentOf(t, p, D) ==
  [k \in Keys |-> IF lookup(t, k) \in Frames THEN p[lookup(t, k)] ELSE D[k]]

PinsOf(t, d) ==
  [k \in Keys |-> IF lookup(t, k) \in Frames THEN d[lookup(t, k)].pinCnt ELSE 0]

Content == ContentOf(ht, pool, disk)
Pins == PinsOf(ht, desc)

\* The same of two tables.
SameStore(t, d, p, D, u, e, q, E) ==
  ContentOf(u, q, E) = ContentOf(t, p, D) /\ PinsOf(u, e) = PinsOf(t, d)

CarefulInv == IInv /\ CleanAll(desc, pool, disk)

(* Reference bits say nothing.                                             *)
LEMMA StoreStill ==
  ASSUME NEW t, NEW d, NEW e, NEW p, NEW D,
         CleanAll(d, p, D), SameFrames(d, e),
         \A i \in Frames : e[i].pinCnt = d[i].pinCnt /\ e[i].dirty = d[i].dirty
  PROVE  CleanAll(e, p, D) /\ SameStore(t, d, p, D, t, e, p, D)
<1>1. CleanAll(e, p, D)
  BY DEF CleanAll, SameFrames, Key
<1>2. PinsOf(t, e) = PinsOf(t, d)
  BY DEF PinsOf
<1>. QED BY <1>1, <1>2 DEF SameStore

(* Frames that nobody holds, written if dirty, can go.                     *)
LEMMA StoreWithout ==
  ASSUME NEW d, NEW e, NEW u, NEW E, NEW S \in SUBSET Frames,
         Agree(ht, d, pool, disk), CleanAll(d, pool, disk),
         Dropped(ht, u, d, e, S), Wrote(d, S, E),
         \A i \in S : d[i].valid => d[i].pinCnt = 0
  PROVE  CleanAll(e, pool, E) /\ SameStore(ht, d, pool, disk, u, e, pool, E)
<1>1. NoFrame \notin Frames
  BY ManagerAssumption
<1>2. \A i \in Frames : /\ d[i].dirty => d[i].valid
                        /\ d[i].valid => Key(d, i) \in Keys /\ lookup(ht, Key(d, i)) = i
  BY DEF Agree, Valued, Clear
<1>3. \A k \in Keys : LET m == lookup(ht, k) IN
        m \in Frames => d[m].valid /\ Key(d, m) = k
  BY DEF Agree, Valued
<1>4. /\ \A i \in Frames : i \in S => ~e[i].valid
      /\ \A i \in Frames : i \notin S => e[i] = d[i] /\ Key(e, i) = Key(d, i)
  BY ClearFacts DEF Dropped, Key
<1>5. \A k \in Keys :
        lookup(u, k) = IF \E i \in S : d[i].valid /\ Key(d, i) = k
                       THEN NoFrame ELSE lookup(ht, k)
  BY DEF Dropped
<1>6. \A k \in Keys : \/ \E i \in S : d[i].dirty /\ Key(d, i) = k /\ E[k] = pool[i]
                      \/ E[k] = disk[k] /\ ~\E i \in S : d[i].dirty /\ Key(d, i) = k
  BY DEF Wrote
<1>7. ASSUME NEW i \in Frames, e[i].valid, e[i].pinCnt = 0, ~e[i].dirty
      PROVE  pool[i] = E[Key(e, i)]
  <2>1. i \notin S /\ e[i] = d[i] /\ Key(e, i) = Key(d, i)
    BY <1>4, <1>7
  <2>2. Key(d, i) \in Keys /\ lookup(ht, Key(d, i)) = i /\ pool[i] = disk[Key(d, i)]
    BY <1>2, <1>7, <2>1 DEF CleanAll
  <2>3. ~\E j \in S : d[j].dirty /\ Key(d, j) = Key(d, i)
    BY <1>2, <2>1, <2>2
  <2>4. E[Key(d, i)] = disk[Key(d, i)]
    BY <1>6, <2>2, <2>3
  <2>. QED BY <2>1, <2>2, <2>4
<1>8. ASSUME NEW k \in Keys
      PROVE  /\ ContentOf(u, pool, E)[k] = ContentOf(ht, pool, disk)[k]
             /\ PinsOf(u, e)[k] = PinsOf(ht, d)[k]
  <2>. DEFINE m == lookup(ht, k)
  <2>0. /\ ContentOf(ht, pool, disk)[k] = IF m \in Frames THEN pool[m] ELSE disk[k]
        /\ PinsOf(ht, d)[k] = IF m \in Frames THEN d[m].pinCnt ELSE 0
        /\ ContentOf(u, pool, E)[k] = IF lookup(u, k) \in Frames THEN pool[lookup(u, k)]
                                      ELSE E[k]
        /\ PinsOf(u, e)[k] = IF lookup(u, k) \in Frames THEN e[lookup(u, k)].pinCnt ELSE 0
    BY DEF ContentOf, PinsOf
  <2>1. m \in Frames => d[m].valid /\ Key(d, m) = k
    BY <1>3
  <2>2. \A j \in S : d[j].valid /\ Key(d, j) = k => j = m
    BY <1>2
  <2>. HIDE DEF m
  <2>3. CASE m \in S
    <3>1. m \in Frames /\ d[m].valid /\ Key(d, m) = k /\ d[m].pinCnt = 0
      BY <2>1, <2>3
    <3>2. lookup(u, k) = NoFrame
      BY <1>5, <2>3, <3>1
    <3>3. E[k] = pool[m]
      <4>1. CASE d[m].dirty
        BY <1>2, <1>6, <2>2, <2>3, <3>1, <4>1
      <4>2. CASE ~d[m].dirty
        <5>1. ~\E j \in S : d[j].dirty /\ Key(d, j) = k
          BY <1>2, <2>2, <4>2
        <5>2. E[k] = disk[k]
          BY <1>6, <5>1
        <5>. QED BY <3>1, <4>2, <5>2 DEF CleanAll
      <4>. QED BY <4>1, <4>2
    <3>. QED BY <1>1, <2>0, <3>1, <3>2, <3>3
  <2>4. CASE m \notin S
    <3>1. ~\E j \in S : d[j].valid /\ Key(d, j) = k
      BY <2>2, <2>4
    <3>2. lookup(u, k) = m
      BY <1>5, <3>1 DEF m
    <3>3. E[k] = disk[k]
      BY <1>2, <1>6, <3>1
    <3>4. m \in Frames => e[m] = d[m]
      BY <1>4, <2>4
    <3>. QED BY <2>0, <3>2, <3>3, <3>4
  <2>. QED BY <2>3, <2>4
<1>9. ContentOf(u, pool, E) = ContentOf(ht, pool, disk) /\ PinsOf(u, e) = PinsOf(ht, d)
  BY <1>8 DEF ContentOf, PinsOf
<1>10. CleanAll(e, pool, E)
  BY <1>7 DEF CleanAll
<1>. QED BY <1>9, <1>10 DEF SameStore

\* Page k put in frame i, which is clear, with content x.
Added(t, d, p, D, u, e, q, E, i, k, x) ==
  /\ i \in Frames /\ ~d[i].valid /\ k \in Keys /\ ~Has(t, k) /\ x \in Data
  /\ u = insert(t, k, i) /\ e = [d EXCEPT ![i] = Set(k)]
  /\ q = [p EXCEPT ![i] = x] /\ E = [D EXCEPT ![k] = x]

(* It is the only change, held once.                                       *)
LEMMA StoreWith ==
  ASSUME NEW t, NEW d, NEW p, NEW D, NEW u, NEW e, NEW q, NEW E, NEW i, NEW k, NEW x,
         Agree(t, d, p, D), CleanAll(d, p, D), Added(t, d, p, D, u, e, q, E, i, k, x)
  PROVE  /\ CleanAll(e, q, E)
         /\ ContentOf(u, q, E) = [ContentOf(t, p, D) EXCEPT ![k] = x]
         /\ PinsOf(u, e) = [PinsOf(t, d) EXCEPT ![k] = 1]
<1>. USE DEF Added
<1>1. Inserted(t, u, k, i)
  BY InsertSound DEF Agree
<1>2. /\ d \in [Frames -> Desc] /\ p \in [Frames -> Data \cup {Gone}]
      /\ D \in [Keys -> Data \cup {Gone}] /\ SoundTable(t) /\ Valued(t, d, p, D)
  BY DEF Agree
<1>3. lookup(t, k) \notin Frames
  BY <1>2, LookupNone
<1>4. /\ e[i] = Set(k) /\ q[i] = x /\ E[k] = x /\ Set(k).pinCnt = 1
      /\ \A j \in Frames : j # i => e[j] = d[j] /\ Key(e, j) = Key(d, j) /\ q[j] = p[j]
      /\ \A l \in Keys : l # k => E[l] = D[l]
  BY <1>2 DEF Key, Set
<1>5. lookup(u, k) = i /\ \A l \in Keys : l # k => lookup(u, l) = lookup(t, l)
  BY <1>1 DEF Inserted
<1>6. ASSUME NEW j \in Frames, e[j].valid, e[j].pinCnt = 0, ~e[j].dirty
      PROVE  q[j] = E[Key(e, j)]
  <2>1. j # i
    BY <1>4, <1>6
  <2>2. e[j] = d[j] /\ Key(e, j) = Key(d, j) /\ q[j] = p[j]
    BY <1>4, <2>1
  <2>3. /\ Key(d, j) \in Keys /\ lookup(t, Key(d, j)) = j /\ p[j] = D[Key(d, j)]
    BY <1>2, <1>6, <2>2 DEF Valued, CleanAll
  <2>4. Key(d, j) # k
    BY <1>3, <2>3
  <2>. QED BY <1>4, <2>2, <2>3, <2>4
<1>7. ASSUME NEW l \in Keys, l # k, lookup(t, l) \in Frames
      PROVE  lookup(t, l) # i
  BY <1>2, <1>7 DEF Valued
<1>8. ASSUME NEW l \in Keys
      PROVE  /\ ContentOf(u, q, E)[l] = IF l = k THEN x ELSE ContentOf(t, p, D)[l]
             /\ PinsOf(u, e)[l] = IF l = k THEN 1 ELSE PinsOf(t, d)[l]
  <2>1. CASE l = k
    BY <1>4, <1>5, <2>1 DEF ContentOf, PinsOf
  <2>2. CASE l # k
    <3>. DEFINE m == lookup(t, l)
    <3>1. lookup(u, l) = m /\ E[l] = D[l]
      BY <1>4, <1>5, <2>2
    <3>2. m \in Frames => m # i
      BY <1>7, <2>2
    <3>3. /\ ContentOf(t, p, D)[l] = IF m \in Frames THEN p[m] ELSE D[l]
          /\ PinsOf(t, d)[l] = IF m \in Frames THEN d[m].pinCnt ELSE 0
      BY DEF ContentOf, PinsOf
    <3>. HIDE DEF m
    <3>4. /\ ContentOf(u, q, E)[l] = IF m \in Frames THEN q[m] ELSE E[l]
          /\ PinsOf(u, e)[l] = IF m \in Frames THEN e[m].pinCnt ELSE 0
      BY <3>1 DEF ContentOf, PinsOf
    <3>. QED BY <1>4, <2>2, <3>1, <3>2, <3>3, <3>4
  <2>. QED BY <2>1, <2>2
<1>9. ContentOf(u, q, E) = [ContentOf(t, p, D) EXCEPT ![k] = x]
  BY <1>8 DEF ContentOf
<1>10. PinsOf(u, e) = [PinsOf(t, d) EXCEPT ![k] = 1]
  BY <1>8 DEF PinsOf
<1>11. CleanAll(e, q, E)
  BY <1>6 DEF CleanAll
<1>. QED BY <1>9, <1>10, <1>11

\* The contents and pins of Store, by the descriptors.
FoundIn(d, k) == {i \in Frames : Key(d, i) = k}

ViewContent(d, p, D) ==
  [k \in Keys |-> IF FoundIn(d, k) = {} THEN D[k] ELSE p[CHOOSE i \in FoundIn(d, k) : TRUE]]

ViewPins(d) ==
  [k \in Keys |-> IF FoundIn(d, k) = {} THEN 0
                  ELSE d[CHOOSE i \in FoundIn(d, k) : TRUE].pinCnt]

(* The chains lead to the same frame.                                      *)
LEMMA ViewIsContent ==
  ASSUME NEW t, NEW d, NEW p, NEW D, Agree(t, d, p, D)
  PROVE  ViewContent(d, p, D) = ContentOf(t, p, D) /\ ViewPins(d) = PinsOf(t, d)
<1>1. ASSUME NEW k \in Keys
      PROVE  FoundIn(d, k) = IF lookup(t, k) \in Frames THEN {lookup(t, k)} ELSE {}
  <2>1. ASSUME NEW i \in Frames, Key(d, i) = k PROVE lookup(t, k) = i
    <3>1. d[i].file \in Address
      BY <2>1 DEF Key, Keys
    <3>2. d[i].valid
      BY <3>1, ClearFacts DEF Agree, Valued
    <3>. QED BY <2>1, <3>2 DEF Agree, Valued
  <2>2. lookup(t, k) \in Frames => Key(d, lookup(t, k)) = k
    BY DEF Agree, Valued
  <2>. QED BY <2>1, <2>2 DEF FoundIn
<1>2. ASSUME NEW k \in Keys
      PROVE  /\ ViewContent(d, p, D)[k] = ContentOf(t, p, D)[k]
             /\ ViewPins(d)[k] = PinsOf(t, d)[k]
  <2>. DEFINE F == FoundIn(d, k)
              m == lookup(t, k)
  <2>1. F = IF m \in Frames THEN {m} ELSE {}
    BY <1>1
  <2>2. m \in Frames => (CHOOSE i \in F : TRUE) = m
    BY <2>1
  <2>3. /\ ContentOf(t, p, D)[k] = IF m \in Frames THEN p[m] ELSE D[k]
        /\ PinsOf(t, d)[k] = IF m \in Frames THEN d[m].pinCnt ELSE 0
    BY DEF ContentOf, PinsOf
  <2>4. /\ ViewContent(d, p, D)[k] = IF F = {} THEN D[k] ELSE p[CHOOSE i \in F : TRUE]
        /\ ViewPins(d)[k] = IF F = {} THEN 0 ELSE d[CHOOSE i \in F : TRUE].pinCnt
    BY DEF ViewContent, ViewPins
  <2>. HIDE DEF F, m
  <2>. QED BY <2>1, <2>2, <2>3, <2>4
<1>3. ViewContent(d, p, D) = ContentOf(t, p, D)
  BY <1>2 DEF ViewContent, ContentOf
<1>4. ViewPins(d) = PinsOf(t, d)
  BY <1>2 DEF ViewPins, PinsOf
<1>. QED BY <1>3, <1>4

\* What a step makes of the page store.
StoreSame == Content' = Content /\ Pins' = Pins
StoreAllocates(k) ==
  Content[k] = Gone /\ Content' = [Content EXCEPT ![k] = Empty]
  /\ Pins' = [Pins EXCEPT ![k] = 1]
StoreReads(k) ==
  Content[k] # Gone /\ Content' = Content /\ Pins' = [Pins EXCEPT ![k] = @ + 1]
StoreChanges(k, data) ==
  Pins[k] > 0 /\ Content' = [Content EXCEPT ![k] = data] /\ Pins' = Pins
StoreGivesBack(k) ==
  Pins[k] > 0 /\ Content' = Content /\ Pins' = [Pins EXCEPT ![k] = @ - 1]
StoreDisposes(k) ==
  Content[k] # Gone /\ Pins[k] = 0
  /\ Content' = [Content EXCEPT ![k] = Gone] /\ Pins' = Pins

StoreStep ==
  \/ StoreSame
  \/ \E k \in Keys :
       \/ StoreAllocates(k) \/ StoreReads(k) \/ StoreGivesBack(k) \/ StoreDisposes(k)
       \/ \E data \in Data : StoreChanges(k, data)

Kept == CleanAll(desc', pool', disk') /\ StoreStep

(* The store in terms of the chains, now and next.                         *)
LEMMA StoreTerms ==
  /\ Content = ContentOf(ht, pool, disk) /\ Pins = PinsOf(ht, desc)
  /\ Content' = ContentOf(ht', pool', disk') /\ Pins' = PinsOf(ht', desc')
  /\ Content = [k \in Keys |-> Content[k]] /\ Pins = [k \in Keys |-> Pins[k]]
BY DEF Content, Pins, ContentOf, PinsOf

(* Tables that are the same store.                                         *)
LEMMA SameIsKept ==
  ASSUME CleanAll(desc', pool', disk'), SameStore(ht, desc, pool, disk, ht', desc', pool', disk')
  PROVE  Kept
BY StoreTerms DEF SameStore, Kept, StoreStep, StoreSame

(* allocBuf shows the store nothing.                                       *)
LEMMA AllocSame ==
  ASSUME CarefulInv, NEW v \in Visits, StopsAt(v)
  PROVE  /\ CleanAll(AllocBuf(v).desc, pool, AllocBuf(v).disk)
         /\ SameStore(ht, desc, pool, disk, AllocBuf(v).ht, AllocBuf(v).desc,
                      pool, AllocBuf(v).disk)
<1>. DEFINE d == Swept(desc, clockHand, v)
            i == FrameAt(clockHand, v)
            a == AllocBuf(v)
<1>0. IInv /\ CleanAll(desc, pool, disk)
  BY DEF CarefulInv
<1>1. i \in Frames /\ Outcome(a, d, i) /\ Agree(ht, d, pool, disk)
  BY <1>0, AllocCases, SweepAgrees
<1>2. /\ SameFrames(desc, d)
      /\ \A j \in Frames : d[j].pinCnt = desc[j].pinCnt /\ d[j].dirty = desc[j].dirty
  BY <1>0, SweptSame
<1>. HIDE DEF d, i, a
<1>3. CleanAll(d, pool, disk) /\ SameStore(ht, desc, pool, disk, ht, d, pool, disk)
  BY <1>0, <1>2, StoreStill
<1>4. CASE FoundNone(a, d)
  BY <1>3, <1>4 DEF FoundNone, a
<1>5. CASE FoundFrame(a, d, i)
  <2>1. d[i].valid = desc[i].valid /\ Key(d, i) = Key(desc, i)
    BY <1>1, <1>2 DEF SameFrames, Key
  <2>2. Dropped(ht, a.ht, d, a.desc, {i})
    BY <1>0, <1>1, <1>5, <2>1, GivenUp
  <2>3. a.disk = WriteBack(i) /\ (d[i].valid => d[i].pinCnt = 0)
    BY <1>1, <1>2, <1>5, <2>1 DEF FoundFrame
  <2>4. Wrote(d, {i}, a.disk)
    <3>1. a.disk \in [Keys -> Data \cup {Gone}]
      BY <1>0, <1>1, <2>3, WriteBackFacts
    <3>2. \A k \in Keys : a.disk[k] = IF d[i].dirty /\ Key(d, i) = k
                                      THEN pool[i] ELSE disk[k]
      BY <1>0, <1>1, <1>2, <2>1, <2>3, WriteBackFacts
    <3>. QED BY <3>1, <3>2 DEF Wrote
  <2>5. /\ CleanAll(a.desc, pool, a.disk)
        /\ SameStore(ht, d, pool, disk, a.ht, a.desc, pool, a.disk)
    BY <1>1, <1>3, <2>2, <2>3, <2>4, StoreWithout
  <2>. QED BY <1>3, <2>5 DEF SameStore, a
<1>. QED BY <1>1, <1>4, <1>5 DEF Outcome

(* A call that throws after allocBuf shows the store nothing.              *)
LEMMA LeaveKept ==
  ASSUME CarefulInv, NEW v \in Visits, StopsAt(v), Leave(AllocBuf(v), v)
  PROVE  Kept
BY AllocSame, SameIsKept DEF Leave

(* A page put in the frame is the store's only change.                     *)
LEMMA PutKept ==
  ASSUME CarefulInv, NEW v \in Visits, StopsAt(v), AllocBuf(v).exc = "ok",
         NEW k \in Keys, NEW x \in Data, Put(AllocBuf(v), v, k, x),
         ~Has(AllocBuf(v).ht, k)
  PROVE  /\ CleanAll(desc', pool', disk')
         /\ Content' = [Content EXCEPT ![k] = x] /\ Pins' = [Pins EXCEPT ![k] = 1]
         /\ Content[k] = AllocBuf(v).disk[k] /\ Pins[k] = 0
<1>. DEFINE a == AllocBuf(v)
            i == FrameAt(clockHand, v)
<1>1. i \in Frames /\ Allocated(a, i)
  BY AllocKeeps DEF CarefulInv
<1>2. /\ desc' = [a.desc EXCEPT ![i] = Set(k)] /\ pool' = [pool EXCEPT ![i] = x]
      /\ disk' = [a.disk EXCEPT ![k] = x] /\ ht' = insert(a.ht, k, i)
  BY DEF Put
<1>3. ~a.desc[i].valid /\ Agree(a.ht, a.desc, pool, a.disk) /\ ~Has(a.ht, k)
  BY <1>1 DEF Allocated
<1>4. /\ CleanAll(a.desc, pool, a.disk)
      /\ Content = ContentOf(a.ht, pool, a.disk) /\ Pins = PinsOf(a.ht, a.desc)
  BY AllocSame, StoreTerms DEF SameStore
<1>. HIDE DEF a, i
<1>5. /\ CleanAll(desc', pool', disk')
      /\ ContentOf(ht', pool', disk') = [ContentOf(a.ht, pool, a.disk) EXCEPT ![k] = x]
      /\ PinsOf(ht', desc') = [PinsOf(a.ht, a.desc) EXCEPT ![k] = 1]
  <2>1. Added(a.ht, a.desc, pool, a.disk, ht', desc', pool', disk', i, k, x)
    BY <1>1, <1>2, <1>3 DEF Added
  <2>. QED BY <1>3, <1>4, <2>1, StoreWith
<1>6. lookup(a.ht, k) \notin Frames
  BY <1>3, LookupNone DEF Agree
<1>7. Content[k] = a.disk[k] /\ Pins[k] = 0
  BY <1>4, <1>6 DEF ContentOf, PinsOf
<1>. QED BY <1>4, <1>5, <1>7, StoreTerms DEF a

(* readPage of a page that is not in the pool.                             *)
LEMMA ReadMissKept ==
  ASSUME CarefulInv, NEW k \in Keys, ReadMiss(k)
  PROVE  Kept
<1>1. PICK v \in Visits :
        /\ StopsAt(v)
        /\ \/ Leave(AllocBuf(v), v)
           \/ /\ AllocBuf(v).exc = "ok" /\ AllocBuf(v).disk[k] # Gone
              /\ Put(AllocBuf(v), v, k, AllocBuf(v).disk[k])
  BY DEF ReadMiss
<1>. DEFINE x == AllocBuf(v).disk[k]
<1>2. Allocated(AllocBuf(v), FrameAt(clockHand, v))
  BY <1>1, AllocKeeps DEF CarefulInv
<1>3. ~Has(AllocBuf(v).ht, k) /\ (x # Gone => x \in Data)
  BY <1>2 DEF Allocated, Agree, ReadMiss
<1>4. CASE Leave(AllocBuf(v), v)
  BY <1>1, <1>4, LeaveKept
<1>5. CASE ~Leave(AllocBuf(v), v)
  <2>1. /\ CleanAll(desc', pool', disk')
        /\ Content' = [Content EXCEPT ![k] = x] /\ Pins' = [Pins EXCEPT ![k] = 1]
        /\ Content[k] = x /\ Pins[k] = 0 /\ x # Gone
    BY <1>1, <1>3, <1>5, PutKept
  <2>. HIDE DEF x
  <2>2. Content' = Content /\ Pins' = [Pins EXCEPT ![k] = @ + 1]
    BY <2>1, StoreTerms
  <2>3. StoreReads(k)
    BY <2>1, <2>2 DEF StoreReads
  <2>. QED BY <2>1, <2>3 DEF Kept, StoreStep
<1>. QED BY <1>4, <1>5

(* allocPage adds a page to the store, or throws and adds none.            *)
LEMMA AllocPageKept ==
  ASSUME CarefulInv, allocPage
  PROVE  Kept
<1>1. PICK v \in Visits :
        /\ StopsAt(v)
        /\ \/ Leave(AllocBuf(v), v)
           \/ /\ AllocBuf(v).exc = "ok"
              /\ \E k \in Keys : disk[k] = Gone /\ Put(AllocBuf(v), v, k, Empty)
  BY DEF allocPage, MayAllocate, Live
<1>2. Allocated(AllocBuf(v), FrameAt(clockHand, v))
  BY <1>1, AllocKeeps DEF CarefulInv
<1>3. ASSUME NEW k \in Keys, AllocBuf(v).exc = "ok", disk[k] = Gone,
             Put(AllocBuf(v), v, k, Empty)
      PROVE  Kept
  <2>1. ~Has(AllocBuf(v).ht, k) /\ AllocBuf(v).disk[k] = Gone
    BY <1>2, <1>3, NotInPool DEF Allocated
  <2>2. Empty \in Data
    BY ManagerAssumption
  <2>3. CleanAll(desc', pool', disk') /\ StoreAllocates(k)
    BY <1>1, <1>3, <2>1, <2>2, PutKept DEF StoreAllocates
  <2>. QED BY <2>3 DEF Kept, StoreStep
<1>. QED BY <1>1, <1>3, LeaveKept

(* One more pin, or one less: the page's pins alone change.                *)
LEMMA RepinnedStore ==
  ASSUME IInv, NEW k \in Keys, Has(ht, k), NEW r, NEW n, NEW b,
         Repinned(lookup(ht, k), r, n, b)
  PROVE  /\ Content' = Content /\ Pins' = [Pins EXCEPT ![k] = n]
         /\ Content[k] = pool[lookup(ht, k)] /\ Content[k] # Gone
         /\ Pins[k] = desc[lookup(ht, k)].pinCnt
<1>. DEFINE i == lookup(ht, k)
<1>1. i \in Frames /\ desc[i].valid
  BY PageFound
<1>2. /\ desc \in [Frames -> Desc] /\ pool[i] # Gone
  BY <1>1 DEF IInv, Agree, Valued
<1>3. /\ r.pinCnt = n /\ desc' = [desc EXCEPT ![i] = r]
      /\ pool' = pool /\ ht' = ht /\ disk' = disk
  BY DEF Repinned
<1>4. /\ Content' = Content /\ Content[k] = pool[i] /\ Pins[k] = desc[i].pinCnt
  BY <1>1, <1>3, StoreTerms DEF ContentOf, PinsOf
<1>5. ASSUME NEW l \in Keys PROVE Pins'[l] = IF l = k THEN n ELSE Pins[l]
  <2>1. CASE l = k
    BY <1>1, <1>2, <1>3, <2>1, StoreTerms DEF PinsOf
  <2>2. CASE l # k
    <3>. DEFINE m == lookup(ht, l)
    <3>1. m \in Frames => m # i
      BY <1>1, <2>2 DEF IInv, Agree, Valued
    <3>2. Pins[l] = IF m \in Frames THEN desc[m].pinCnt ELSE 0
      BY StoreTerms DEF PinsOf
    <3>3. Pins'[l] = IF m \in Frames THEN desc'[m].pinCnt ELSE 0
      BY <1>3, StoreTerms DEF PinsOf
    <3>. HIDE DEF i, m
    <3>. QED BY <1>2, <1>3, <2>2, <3>1, <3>2, <3>3
  <2>. QED BY <2>1, <2>2
<1>6. Pins' = [Pins EXCEPT ![k] = n]
  <2>1. Pins' = [l \in Keys |-> Pins'[l]]
    BY DEF Pins, PinsOf
  <2>. QED BY <1>5, <2>1, StoreTerms
<1>. QED BY <1>2, <1>4, <1>6 DEF i

(* The frame is clean afterwards if it has to be.                          *)
LEMMA RepinnedClean ==
  ASSUME CarefulInv, NEW k \in Keys, Has(ht, k), NEW r, NEW n, NEW b,
         Repinned(lookup(ht, k), r, n, b),
         n = 0 /\ ~b => pool[lookup(ht, k)] = disk[k]
  PROVE  CleanAll(desc', pool', disk')
<1>. DEFINE i == lookup(ht, k)
<1>1. i \in Frames /\ desc[i].valid /\ Key(desc, i) = k
  BY PageFound DEF CarefulInv
<1>2. desc \in [Frames -> Desc] /\ CleanAll(desc, pool, disk)
  BY DEF CarefulInv, IInv, Agree
<1>3. /\ desc' = [desc EXCEPT ![i] = r] /\ pool' = pool /\ disk' = disk
      /\ r.pinCnt = n /\ r.dirty = b /\ r.file = desc[i].file /\ r.pageNo = desc[i].pageNo
  BY DEF Repinned
<1>. HIDE DEF i
<1>4. /\ desc'[i] = r /\ \A j \in Frames : j # i => desc'[j] = desc[j]
  BY <1>1, <1>2, <1>3
<1>5. \A j \in Frames : Key(desc', j) = Key(desc, j)
  BY <1>3, <1>4 DEF Key
<1>6. ASSUME NEW j \in Frames, desc'[j].valid, desc'[j].pinCnt = 0, ~desc'[j].dirty
      PROVE  pool[j] = disk[Key(desc', j)]
  <2>1. CASE j = i
    BY <1>1, <1>3, <1>4, <1>5, <1>6, <2>1 DEF i
  <2>2. CASE j # i
    BY <1>2, <1>4, <1>5, <1>6, <2>2 DEF CleanAll
  <2>. QED BY <2>1, <2>2
<1>. QED BY <1>3, <1>6 DEF CleanAll

(* readPage of a page in the pool.                                         *)
LEMMA ReadHitKept ==
  ASSUME CarefulInv, NEW k \in Keys, ReadHit(k)
  PROVE  Kept
<1>. DEFINE i == lookup(ht, k)
<1>1. IInv /\ Has(ht, k)
  BY DEF CarefulInv, ReadHit
<1>2. PICK r : Repinned(i, r, desc[i].pinCnt + 1, desc[i].dirty)
  BY <1>1, ReadHitRepins
<1>3. desc[i].pinCnt \in Nat
  BY <1>1, PageFound DEF Desc
<1>4. desc[i].pinCnt + 1 # 0
  BY <1>3
<1>5. CleanAll(desc', pool', disk')
  BY <1>1, <1>2, <1>4, RepinnedClean
<1>6. StoreReads(k)
  BY <1>1, <1>2, RepinnedStore DEF StoreReads
<1>. QED BY <1>5, <1>6 DEF Kept, StoreStep

(* unPinPage by a client that is honest about its changes.                 *)
LEMMA UnPinKept ==
  ASSUME CarefulInv, NEW k \in Keys, NEW isDirty \in BOOLEAN,
         Honest(k, isDirty), unPinPage(k, isDirty)
  PROVE  Kept
<1>. DEFINE i == lookup(ht, k)
            c == desc[i].pinCnt
            n == IF c = 0 THEN 0 ELSE c - 1
<1>1. IInv /\ Has(ht, k)
  BY DEF CarefulInv, unPinPage
<1>2. PICK r : \E b \in BOOLEAN : /\ Repinned(i, r, n, b)
                                  /\ ~b => ~desc[i].dirty /\ ~isDirty
  BY <1>1, UnPinRepins
<1>3. PICK b \in BOOLEAN : Repinned(i, r, n, b) /\ (~b => ~desc[i].dirty /\ ~isDirty)
  BY <1>2
<1>4. c \in Nat /\ i \in Frames /\ desc[i].valid /\ Key(desc, i) = k
  BY <1>1, PageFound DEF Desc
<1>5. n = 0 /\ ~b => pool[i] = disk[k]
  <2>1. CASE c = 0
    BY <1>3, <1>4, <2>1 DEF CarefulInv, CleanAll
  <2>2. CASE c = 1
    BY <1>1, <1>3, <2>2 DEF Honest
  <2>3. CASE c # 0 /\ c # 1
    <3>1. n # 0
      BY <1>4, <2>3
    <3>. QED BY <3>1
  <2>. QED BY <2>1, <2>2, <2>3
<1>. HIDE DEF n
<1>6. CleanAll(desc', pool', disk')
  BY <1>1, <1>3, <1>5, RepinnedClean
<1>7. Content' = Content /\ Pins' = [Pins EXCEPT ![k] = n] /\ Pins[k] = c
  BY <1>1, <1>3, RepinnedStore
<1>. HIDE DEF c
<1>8. CASE c = 0
  <2>1. n = Pins[k]
    BY <1>7, <1>8 DEF n
  <2>2. Pins' = Pins
    BY <1>7, <2>1, StoreTerms
  <2>. QED BY <1>6, <1>7, <2>2 DEF Kept, StoreStep, StoreSame
<1>9. CASE c # 0
  <2>1. n = Pins[k] - 1 /\ Pins[k] > 0
    BY <1>4, <1>7, <1>9 DEF n, c
  <2>2. StoreGivesBack(k)
    BY <1>7, <2>1 DEF StoreGivesBack
  <2>. QED BY <1>6, <2>2 DEF Kept, StoreStep
<1>. QED BY <1>8, <1>9

(* disposePage of a page nobody holds.                                     *)
LEMMA DisposeKept ==
  ASSUME CarefulInv, NEW k \in Keys, ~Holding(k), disposePage(k)
  PROVE  Kept
<1>. DEFINE i == lookup(ht, k)
<1>1. /\ i \in Frames /\ desc[i].valid /\ Key(desc, i) = k /\ Has(ht, k)
      /\ desc[i].pinCnt \in Nat
  BY PageFound DEF disposePage, CarefulInv, Desc
<1>2. /\ SoundTable(ht) /\ desc \in [Frames -> Desc] /\ disk \in [Keys -> Data \cup {Gone}]
      /\ Valued(ht, desc, pool, disk) /\ CleanAll(desc, pool, disk)
      /\ NoFrame \notin Frames
  BY ManagerAssumption DEF CarefulInv, IInv, Agree
<1>3. desc[i].pinCnt = 0
  <2>1. ~(desc[i].pinCnt > 0)
    BY <1>1 DEF Holding
  <2>. QED BY <1>1, <2>1
<1>4. /\ desc' = [desc EXCEPT ![i] = Clear] /\ ht' = remove(ht, k)
      /\ disk' = [disk EXCEPT ![k] = Gone] /\ pool' = pool
  BY DEF disposePage
<1>5. Removed(ht, ht', k)
  BY <1>1, <1>2, <1>4, RemoveSound
<1>6. \A j \in Frames : j # i /\ desc[j].valid => Key(desc, j) \in Keys /\ Key(desc, j) # k
  BY <1>2 DEF Valued
<1>7. \A l \in Keys : l # k => lookup(ht, l) # i
  BY <1>1, <1>2 DEF Valued
<1>. HIDE DEF i
<1>8. /\ \A j \in Frames : j # i => desc'[j] = desc[j] /\ Key(desc', j) = Key(desc, j)
      /\ ~desc'[i].valid /\ disk'[k] = Gone
      /\ \A l \in Keys : l # k => disk'[l] = disk[l]
  BY <1>1, <1>2, <1>4, ClearFacts DEF Key
<1>9. CleanAll(desc', pool', disk')
  <2>1. ASSUME NEW j \in Frames, desc'[j].valid, desc'[j].pinCnt = 0, ~desc'[j].dirty
        PROVE  pool[j] = disk'[Key(desc', j)]
    <3>1. j # i /\ desc[j].valid /\ desc'[j] = desc[j] /\ Key(desc', j) = Key(desc, j)
      BY <1>8, <2>1
    <3>2. disk'[Key(desc, j)] = disk[Key(desc, j)]
      BY <1>6, <1>8, <3>1
    <3>. QED BY <1>2, <2>1, <3>1, <3>2 DEF CleanAll
  <2>. QED BY <1>4, <2>1 DEF CleanAll
<1>10. Content[k] = pool[i] /\ Content[k] # Gone /\ Pins[k] = 0
  <2>1. Content[k] = pool[i] /\ Pins[k] = desc[i].pinCnt
    BY <1>1, StoreTerms DEF ContentOf, PinsOf, i
  <2>2. pool[i] # Gone
    BY <1>1, <1>2 DEF Valued
  <2>. QED BY <1>3, <2>1, <2>2
<1>11. ASSUME NEW l \in Keys
       PROVE  /\ Content'[l] = IF l = k THEN Gone ELSE Content[l]
              /\ Pins'[l] = Pins[l]
  <2>1. /\ Content'[l] = IF lookup(ht', l) \in Frames THEN pool[lookup(ht', l)] ELSE disk'[l]
        /\ Pins'[l] = IF lookup(ht', l) \in Frames THEN desc'[lookup(ht', l)].pinCnt ELSE 0
    BY <1>4, StoreTerms DEF ContentOf, PinsOf
  <2>2. CASE l = k
    BY <1>2, <1>5, <1>8, <1>10, <2>1, <2>2 DEF Removed
  <2>3. CASE l # k
    <3>1. lookup(ht', l) = lookup(ht, l) /\ disk'[l] = disk[l] /\ lookup(ht, l) # i
      BY <1>5, <1>7, <1>8, <2>3 DEF Removed
    <3>2. /\ Content[l] = IF lookup(ht, l) \in Frames THEN pool[lookup(ht, l)] ELSE disk[l]
          /\ Pins[l] = IF lookup(ht, l) \in Frames THEN desc[lookup(ht, l)].pinCnt ELSE 0
      BY StoreTerms DEF ContentOf, PinsOf
    <3>. QED BY <1>8, <2>1, <2>3, <3>1, <3>2
  <2>. QED BY <2>2, <2>3
<1>12. Content' = [l \in Keys |-> Content'[l]] /\ Pins' = [l \in Keys |-> Pins'[l]]
  BY DEF Content, ContentOf, Pins, PinsOf
<1>13. Content' = [Content EXCEPT ![k] = Gone] /\ Pins' = Pins
  BY <1>11, <1>12, StoreTerms
<1>. QED BY <1>9, <1>10, <1>13 DEF Kept, StoreStep, StoreDisposes

(* flushFile is nothing to the store.                                      *)
LEMMA FlushKept ==
  ASSUME CarefulInv, NEW f \in Address, flushFile(f)
  PROVE  Kept
<1>1. /\ IInv /\ Agree(ht, desc, pool, disk) /\ CleanAll(desc, pool, disk)
      /\ pool' = pool
  BY DEF CarefulInv, IInv, flushFile
<1>2. /\ Flushed(f) \in SUBSET Frames
      /\ \A i \in Flushed(f) : desc[i].valid => desc[i].pinCnt = 0
  BY <1>1, FlushedFrames
<1>3. Dropped(ht, ht', desc, desc', Flushed(f)) /\ Wrote(desc, Flushed(f), disk')
  BY <1>1, FlushWrites DEF Written
<1>4. /\ CleanAll(desc', pool, disk')
      /\ SameStore(ht, desc, pool, disk, ht', desc', pool, disk')
  BY <1>1, <1>2, <1>3, StoreWithout
<1>. QED BY <1>1, <1>4, SameIsKept

(* A client changes the page it holds.                                     *)
LEMMA ChangeKept ==
  ASSUME CarefulInv, NEW i \in Frames, NEW data \in Data, ChangePage(i, data)
  PROVE  Kept
<1>. DEFINE k == Key(desc, i)
<1>1. /\ desc[i].pinCnt > 0 /\ pool' = [pool EXCEPT ![i] = data]
      /\ desc' = desc /\ ht' = ht /\ disk' = disk
  BY DEF ChangePage
<1>2. k \in Keys /\ lookup(ht, k) = i
  BY <1>1, ValidFrame DEF CarefulInv
<1>3. /\ pool \in [Frames -> Data \cup {Gone}] /\ CleanAll(desc, pool, disk)
      /\ Valued(ht, desc, pool, disk)
  BY DEF CarefulInv, IInv, Agree
<1>4. pool'[i] = data /\ \A j \in Frames : j # i => pool'[j] = pool[j]
  BY <1>1, <1>3
<1>5. CleanAll(desc', pool', disk')
  BY <1>1, <1>3, <1>4 DEF CleanAll
<1>. HIDE DEF k
<1>6. ASSUME NEW l \in Keys PROVE Content'[l] = IF l = k THEN data ELSE Content[l]
  <2>1. /\ Content'[l] = IF lookup(ht, l) \in Frames THEN pool'[lookup(ht, l)] ELSE disk[l]
        /\ Content[l] = IF lookup(ht, l) \in Frames THEN pool[lookup(ht, l)] ELSE disk[l]
    BY <1>1, StoreTerms DEF ContentOf
  <2>2. lookup(ht, l) = i <=> l = k
    BY <1>2, <1>3 DEF Valued, k
  <2>. QED BY <1>2, <1>4, <2>1, <2>2
<1>7. Content' = [Content EXCEPT ![k] = data]
  <2>1. Content' = [l \in Keys |-> Content'[l]]
    BY DEF Content, ContentOf
  <2>. QED BY <1>6, <2>1, StoreTerms
<1>8. Pins' = Pins /\ Pins[k] > 0
  BY <1>1, <1>2, StoreTerms DEF PinsOf
<1>9. StoreChanges(k, data)
  BY <1>7, <1>8 DEF StoreChanges
<1>. QED BY <1>2, <1>5, <1>9 DEF Kept, StoreStep

(* Destroying an idle manager is nothing to the store.                     *)
LEMMA RestartKept ==
  ASSUME CarefulInv, \A i \in Frames : desc[i].pinCnt = 0, restart
  PROVE  Kept
<1>1. /\ IInv /\ Agree(ht, desc, pool, disk) /\ CleanAll(desc, pool, disk)
      /\ SoundTable(ht) /\ Valued(ht, desc, pool, disk) /\ NoFrame \notin Frames
  BY ManagerAssumption DEF CarefulInv, IInv, Agree
<1>2. ht' = EmptyTable /\ desc' = [i \in Frames |-> Clear]
  BY DEF restart
<1>3. Dropped(ht, ht', desc, desc', Frames)
  <2>1. SoundTable(ht') /\ \A k \in Keys : lookup(ht', k) = NoFrame
    BY <1>2, EmptyTableSound
  <2>2. ASSUME NEW k \in Keys, ~\E i \in Frames : desc[i].valid /\ Key(desc, i) = k
        PROVE  lookup(ht, k) = NoFrame
    <3>1. lookup(ht, k) \notin Frames
      BY <1>1, <2>2 DEF Valued
    <3>. QED BY <1>1, <3>1, LookupNone
  <2>. QED BY <1>2, <2>1, <2>2 DEF Dropped
<1>4. Wrote(desc, Frames, disk')
  BY <1>1, RestartWrites DEF Written
<1>5. SameStore(ht, desc, pool, disk, ht', desc', pool, disk')
  BY <1>1, <1>3, <1>4, StoreWithout
<1>6. \A k \in Keys : lookup(ht', k) \notin Frames
  BY <1>1, <1>2, EmptyTableSound
<1>7. ContentOf(ht', pool', disk') = ContentOf(ht', pool, disk')
  BY <1>6 DEF ContentOf
<1>8. CleanAll(desc', pool', disk')
  BY <1>2, ClearFacts DEF CleanAll
<1>9. SameStore(ht, desc, pool, disk, ht', desc', pool', disk')
  BY <1>5, <1>7 DEF SameStore
<1>. QED BY <1>8, <1>9, SameIsKept

(* Every step of a careful client is one of any client.                    *)
LEMMA CarefulStep ==
  ASSUME CarefulInv, [CarefulNext]_vars
  PROVE  CarefulInv' /\ (Kept \/ UNCHANGED vars)
<1>1. [Next]_vars
  BY DEF CarefulNext, Next
<1>2. IInv'
  BY <1>1, StepKeeps DEF CarefulInv
<1>3. CASE UNCHANGED vars
  <2>1. CleanAll(desc', pool', disk')
    BY <1>3 DEF CarefulInv, vars
  <2>. QED BY <1>2, <1>3, <2>1 DEF CarefulInv, CleanAll, Key
<1>4. CASE CarefulNext
  <2>1. ASSUME NEW k \in Keys, readPage(k) PROVE Kept
    BY <2>1, ReadHitKept, ReadMissKept DEF readPage
  <2>2. ASSUME NEW k \in Keys, ~Holding(k), disposePage(k) PROVE Kept
    BY <2>2, DisposeKept
  <2>3. ASSUME NEW k \in Keys, NEW isDirty \in BOOLEAN,
               Honest(k, isDirty), unPinPage(k, isDirty)
        PROVE  Kept
    BY <2>3, UnPinKept
  <2>4. ASSUME allocPage PROVE Kept
    BY <2>4, AllocPageKept
  <2>5. ASSUME NEW f \in Address, flushFile(f) PROVE Kept
    BY <2>5, FlushKept
  <2>6. ASSUME NEW i \in Frames, NEW data \in Data, ChangePage(i, data) PROVE Kept
    BY <2>6, ChangeKept
  <2>7. ASSUME \A i \in Frames : desc[i].pinCnt = 0, restart PROVE Kept
    BY <2>7, RestartKept
  <2>8. Kept
    BY <1>4, <2>1, <2>2, <2>3, <2>4, <2>5, <2>6, <2>7 DEF CarefulNext
  <2>9. CleanAll(desc', pool', disk')
    BY <2>8 DEF Kept
  <2>. QED BY <1>2, <2>8, <2>9 DEF CarefulInv, CleanAll, Key
<1>. QED BY <1>3, <1>4

\* The state of Store, as BadgerBufMgr.tla gives it.
StoreContent ==
  [k \in Keys |-> IF FramesOf(k) = {} THEN disk[k]
                  ELSE pool[CHOOSE i \in FramesOf(k) : TRUE]]
StorePins ==
  [k \in Keys |-> IF FramesOf(k) = {} THEN 0
                  ELSE desc[CHOOSE i \in FramesOf(k) : TRUE].pinCnt]

(* The store of BadgerBufMgr.tla, now and next, in terms of the chains.    *)
LEMMA StoreIsContent ==
  ASSUME IInv, IInv'
  PROVE  /\ StoreContent = Content /\ StorePins = Pins
         /\ StoreContent' = Content' /\ StorePins' = Pins'
<1>1. /\ StoreContent = ViewContent(desc, pool, disk) /\ StorePins = ViewPins(desc)
      /\ StoreContent' = ViewContent(desc', pool', disk') /\ StorePins' = ViewPins(desc')
  BY DEF StoreContent, StorePins, ViewContent, ViewPins, FramesOf, FoundIn, Key
<1>2. Agree(ht, desc, pool, disk) /\ Agree(ht', desc', pool', disk')
  BY DEF IInv, Agree, SoundTable, Valued, Key
<1>3. StoreContent = Content /\ StorePins = Pins
  <2>1. /\ ViewContent(desc, pool, disk) = ContentOf(ht, pool, disk)
        /\ ViewPins(desc) = PinsOf(ht, desc)
    BY <1>2, ViewIsContent
  <2>. QED BY <1>1, <2>1 DEF Content, Pins
<1>4. /\ ViewContent(desc', pool', disk') = ContentOf(ht', pool', disk')
      /\ ViewPins(desc') = PinsOf(ht', desc')
  BY <1>2, ViewIsContent
<1>5. StoreContent' = Content' /\ StorePins' = Pins'
  BY <1>1, <1>4, StoreTerms
<1>. QED BY <1>3, <1>5

(* Every step of a careful client is one of the store, or none.            *)
LEMMA StepImplementsStore ==
  ASSUME CarefulInv, [CarefulNext]_vars
  PROVE  [Store!Next]_(Store!storeVars)
<1>1. (Kept \/ UNCHANGED vars) /\ IInv /\ IInv'
  BY CarefulStep DEF CarefulInv
<1>2. /\ StoreContent = Content /\ StorePins = Pins
      /\ StoreContent' = Content' /\ StorePins' = Pins'
  BY <1>1, StoreIsContent
<1>3. CASE UNCHANGED vars
  BY <1>3 DEF vars, Store!storeVars, FramesOf, Key
<1>4. CASE Kept
  <2>1. CASE StoreSame
    <3>1. StoreContent' = StoreContent /\ StorePins' = StorePins
      BY <1>2, <2>1 DEF StoreSame
    <3>. QED BY <3>1 DEF Store!storeVars, StoreContent, StorePins
  <2>2. ASSUME NEW k \in Keys, StoreAllocates(k) PROVE Store!Next
    <3>1. /\ StoreContent[k] = Gone /\ StoreContent' = [StoreContent EXCEPT ![k] = Empty]
          /\ StorePins' = [StorePins EXCEPT ![k] = 1]
      BY <1>2, <2>2 DEF StoreAllocates
    <3>. QED BY <3>1 DEF Store!Next, Store!Allocate, StoreContent, StorePins
  <2>3. ASSUME NEW k \in Keys, StoreReads(k) PROVE Store!Next
    <3>1. /\ StoreContent[k] # Gone /\ StoreContent' = StoreContent
          /\ StorePins' = [StorePins EXCEPT ![k] = @ + 1]
      BY <1>2, <2>3 DEF StoreReads
    <3>. QED BY <3>1 DEF Store!Next, Store!Read, StoreContent, StorePins
  <2>4. ASSUME NEW k \in Keys, StoreGivesBack(k) PROVE Store!Next
    <3>1. /\ StorePins[k] > 0 /\ StoreContent' = StoreContent
          /\ StorePins' = [StorePins EXCEPT ![k] = @ - 1]
      BY <1>2, <2>4 DEF StoreGivesBack
    <3>. QED BY <3>1 DEF Store!Next, Store!GiveBack, StoreContent, StorePins
  <2>5. ASSUME NEW k \in Keys, StoreDisposes(k) PROVE Store!Next
    <3>1. /\ StoreContent[k] # Gone /\ StorePins[k] = 0
          /\ StoreContent' = [StoreContent EXCEPT ![k] = Gone] /\ StorePins' = StorePins
      BY <1>2, <2>5 DEF StoreDisposes
    <3>. QED BY <3>1 DEF Store!Next, Store!Dispose, StoreContent, StorePins
  <2>6. ASSUME NEW k \in Keys, NEW data \in Data, StoreChanges(k, data) PROVE Store!Next
    <3>1. /\ StorePins[k] > 0 /\ StorePins' = StorePins
          /\ StoreContent' = [StoreContent EXCEPT ![k] = data]
      BY <1>2, <2>6 DEF StoreChanges
    <3>. QED BY <3>1 DEF Store!Next, Store!Change, StoreContent, StorePins
  <2>. QED BY <1>4, <2>1, <2>2, <2>3, <2>4, <2>5, <2>6 DEF Kept, StoreStep
<1>. QED BY <1>1, <1>3, <1>4

(* The initial states, and what they are to the store.                     *)
LEMMA InitImplementsStore ==
  ASSUME Init
  PROVE  CarefulInv /\ Store!Init
<1>1. IInv /\ \A i \in Frames : desc[i] = Clear
  BY InitAgrees DEF Init
<1>2. CleanAll(desc, pool, disk)
  BY <1>1, ClearFacts DEF CleanAll
<1>3. ASSUME NEW k \in Keys PROVE FramesOf(k) = {}
  <2>1. \A i \in Frames : desc[i].file \notin Address
    BY <1>1, ClearFacts
  <2>. QED BY <2>1 DEF FramesOf, Key, Keys
<1>4. StoreContent = [k \in Keys |-> Gone] /\ StorePins = [k \in Keys |-> 0]
  BY <1>3 DEF StoreContent, StorePins, Init
<1>5. Store!Init
  BY <1>4 DEF Store!Init, StoreContent, StorePins
<1>. QED BY <1>1, <1>2, <1>5 DEF CarefulInv

(* The buffer manager of p3 is a page store to a careful client: caching,  *)
(* eviction, flushing, calls that throw, closing and reopening do not      *)
(* show, however the chains of the hash table are laid out.                *)
THEOREM BadgerImplementsStore == CarefulSpec => ImplementsStore
<1>1. Init => CarefulInv /\ Store!Init
  BY InitImplementsStore
<1>2. CarefulInv /\ [CarefulNext]_vars => CarefulInv'
  BY CarefulStep
<1>3. CarefulInv /\ [CarefulNext]_vars => [Store!Next]_(Store!storeVars)
  BY StepImplementsStore
<1>. QED BY <1>1, <1>2, <1>3, PTL DEF CarefulSpec, ImplementsStore, Store!Spec

=============================================================================

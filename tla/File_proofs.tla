--------------------------- MODULE File_proofs ---------------------------
(***************************************************************************)
(* The two layers of a database file.                                      *)
(*                                                                         *)
(* First the two maps of class File of p3, for every set of names and of   *)
(* File objects: the count of a name is the number of its objects, and all *)
(* of them have one stream, which leads to the file the name leads to.     *)
(*                                                                         *)
(* Between the close and the open of an assignment an object has a name    *)
(* and is not counted, so soundness of a table is stated for the set of    *)
(* the objects that are counted in it.                                     *)
(*                                                                         *)
(* Then the lists of pages of p2's File, for files of every size, up to   *)
(* the refinement of FileContents.                                         *)
(***************************************************************************)
EXTENDS FileHandles, PagedFile, Integers, Functions, FiniteSetTheorems,
        WellFoundedInduction, TLAPS

\* The counted objects of a name.
OnIn(t, L, n) == {o \in L : t.objects[o].name = n}

TypedTable(t) ==
  t \in [streams : [Names -> Streams \cup {None}],
         counts : [Names -> (Nat \ {0}) \cup {None}],
         objects : [Objects -> [name : Names, stream : Streams \cup {None}]
                               \cup {None}],
         source : [Streams -> Files]]

Counted(t, L) ==
  \A n \in Names :
    t.counts[n] = IF OnIn(t, L, n) = {} THEN None ELSE Cardinality(OnIn(t, L, n))

Shared(t, files, L) ==
  /\ \A o \in L :
       /\ t.objects[o].stream # None
       /\ t.objects[o].stream = t.streams[t.objects[o].name]
       /\ t.source[t.objects[o].stream] = files[t.objects[o].name]
  /\ \A n \in Names : t.streams[n] # None => OnIn(t, L, n) # {}

SoundTable(t, files, L) ==
  /\ TypedTable(t)
  /\ files \in [Names -> Files \cup {None}]
  /\ L \subseteq {o \in Objects : t.objects[o] # None}
  /\ Counted(t, L)
  /\ Shared(t, files, L)

IInv == SoundTable(Tables, file, Live)

-----------------------------------------------------------------------------
(* Numbers that are free.                                                  *)

(* As many numbers as names and objects, a finite count.                   *)
LEMMA NumbersAreFinite ==
  /\ Cardinality(Names) \in Nat /\ Cardinality(Objects) \in Nat
  /\ None \notin Streams /\ None \notin Files /\ Streams = Files
  /\ \A n \in Names : Cardinality(Names) > 0
  /\ \A n \in Names : IsFiniteSet(Names \ {n})
                      /\ Cardinality(Names \ {n}) = Cardinality(Names) - 1
<1>1. Cardinality(Names) \in Nat /\ Cardinality(Objects) \in Nat
  BY HandlesAssumption, FS_CardinalityType
<1>2. ASSUME NEW n \in Names
      PROVE  /\ IsFiniteSet(Names \ {n})
             /\ Cardinality(Names \ {n}) = Cardinality(Names) - 1
             /\ Cardinality(Names) > 0
  <2>1. Cardinality(Names) # 0
    BY HandlesAssumption, FS_EmptySet
  <2>. QED BY <1>1, <2>1, HandlesAssumption, FS_RemoveElement
<1>3. None \notin Streams /\ None \notin Files /\ Streams = Files
  BY <1>1, HandlesAssumption DEF Streams, Files
<1>. QED BY <1>1, <1>2, <1>3

(* The values of a function on a finite set are no more than its           *)
(* arguments.                                                              *)
LEMMA ValuesBounded ==
  ASSUME NEW S, IsFiniteSet(S), NEW g
  PROVE  /\ IsFiniteSet({g[x] : x \in S})
         /\ Cardinality({g[x] : x \in S}) <= Cardinality(S)
<1>1. [x \in S |-> g[x]] \in Surjection(S, {g[x] : x \in S})
  BY DEF Surjection
<1>. QED BY <1>1, FS_Surjection

(* A set of natural numbers that is not empty has a least element.         *)
LEMMA LeastNatural ==
  ASSUME NEW S \in SUBSET Nat, S # {}
  PROVE  \E m \in S : \A k \in S : m <= k
<1>1. PICK m \in S : \A k \in S : ~(<<k, m>> \in OpToRel(<, Nat))
  BY NatLessThanWellFounded, WFMin
<1>2. ASSUME NEW k \in S PROVE ~(k < m)
  BY <1>1 DEF OpToRel
<1>. QED BY <1>2

(* Least is that element.                                                  *)
LEMMA LeastNumber ==
  ASSUME NEW S \in SUBSET Nat, S # {}
  PROVE  Least(S) \in S
BY LeastNatural DEF Least

\* Every element of U is g's of a name other than n, or h's of an object of L.
TakenFrom(U, n, L, g, h) ==
  \A u \in U : (\E m \in Names \ {n} : u = g[m]) \/ (\E o \in L : u = h[o])

(* Among the numbers one is none of those in use, if these are the values  *)
(* of a function on the names other than n and of one on objects.          *)
LEMMA ANumberIsFree ==
  ASSUME NEW n \in Names, NEW L \in SUBSET Objects,
         NEW g, NEW h, NEW U, TakenFrom(U, n, L, g, h)
  PROVE  Least(Streams \ U) \in Streams \ U
<1>. DEFINE K == Cardinality(Names) + Cardinality(Objects)
            G == {g[m] : m \in Names \ {n}}
            H == {h[o] : o \in L}
<1>1. IsFiniteSet(G) /\ Cardinality(G) \in Nat /\ Cardinality(G) < Cardinality(Names)
  <2>1. IsFiniteSet(G) /\ Cardinality(G) <= Cardinality(Names \ {n})
    BY NumbersAreFinite, ValuesBounded
  <2>2. Cardinality(G) \in Nat
    BY <2>1, FS_CardinalityType
  <2>3. Cardinality(Names \ {n}) = Cardinality(Names) - 1 /\ Cardinality(Names) \in Nat
    BY NumbersAreFinite
  <2>. HIDE DEF G
  <2>. QED BY <2>1, <2>2, <2>3
<1>2. IsFiniteSet(H) /\ Cardinality(H) \in Nat /\ Cardinality(H) <= Cardinality(Objects)
  <2>1. IsFiniteSet(L) /\ Cardinality(L) <= Cardinality(Objects)
    BY HandlesAssumption, FS_Subset
  <2>2. IsFiniteSet(H) /\ Cardinality(H) <= Cardinality(L)
    BY <2>1, ValuesBounded
  <2>3. Cardinality(H) \in Nat /\ Cardinality(L) \in Nat
    BY <2>1, <2>2, FS_CardinalityType
  <2>. HIDE DEF H
  <2>. QED BY <2>1, <2>2, <2>3, NumbersAreFinite
<1>. HIDE DEF G, H
<1>3. IsFiniteSet(G \cup H) /\ Cardinality(G \cup H) < K
  <2>1. Cardinality(G \cup H) = Cardinality(G) + Cardinality(H) - Cardinality(G \cap H)
        /\ IsFiniteSet(G \cup H)
    BY <1>1, <1>2, FS_Union
  <2>2. Cardinality(G \cap H) \in Nat
    BY <1>1, FS_Subset, FS_CardinalityType
  <2>. QED BY <1>1, <1>2, <2>1, <2>2, NumbersAreFinite
<1>4. K \in Nat /\ Streams = 1 .. K
  BY NumbersAreFinite DEF Streams
<1>. HIDE DEF K
<1>5. Cardinality(Streams) = K
  BY <1>4, FS_Interval
<1>6. Streams \ U # {}
  <2>. SUFFICES ASSUME Streams \subseteq G \cup H PROVE FALSE
    BY DEF G, H, TakenFrom
  <2>1. Cardinality(Streams) <= Cardinality(G \cup H)
    BY <1>3, FS_Subset
  <2>2. Cardinality(G \cup H) \in Nat
    BY <1>3, FS_CardinalityType
  <2>. QED BY <1>3, <1>4, <1>5, <2>1, <2>2
<1>7. Streams \ U \in SUBSET Nat
  BY <1>4
<1>. QED BY <1>6, <1>7, LeastNumber

-----------------------------------------------------------------------------
(* close and openIfNeeded.                                                 *)

(* The objects of a name are finitely many.                                *)
LEMMA OnIsFinite ==
  ASSUME NEW t, NEW files, NEW L, SoundTable(t, files, L), NEW n
  PROVE  /\ IsFiniteSet(OnIn(t, L, n))
         /\ Cardinality(OnIn(t, L, n)) \in Nat
         /\ Cardinality(OnIn(t, L, n)) = 0 <=> OnIn(t, L, n) = {}
<1>1. OnIn(t, L, n) \in SUBSET Objects
  BY DEF OnIn, SoundTable
<1>2. IsFiniteSet(OnIn(t, L, n))
  BY <1>1, HandlesAssumption, FS_Subset
<1>. QED BY <1>2, FS_CardinalityType, FS_EmptySet

(* A counted object has a name.                                            *)
LEMMA CountedIsNamed ==
  ASSUME NEW t, NEW files, NEW L, SoundTable(t, files, L), NEW o \in L
  PROVE  /\ o \in Objects /\ t.objects[o] \in [name : Names, stream : Streams \cup {None}]
         /\ o \in OnIn(t, L, t.objects[o].name)
         /\ t.counts[t.objects[o].name] = Cardinality(OnIn(t, L, t.objects[o].name))
         /\ t.counts[t.objects[o].name] # None
         /\ t.objects[o].stream \in Streams
         /\ files[t.objects[o].name] \in Files
<1>1. o \in Objects /\ t.objects[o] \in [name : Names, stream : Streams \cup {None}]
  BY DEF SoundTable, TypedTable
<1>2. o \in OnIn(t, L, t.objects[o].name)
  BY DEF OnIn
<1>3. t.counts[t.objects[o].name] = Cardinality(OnIn(t, L, t.objects[o].name))
  BY <1>1, <1>2 DEF SoundTable, Counted
<1>4. t.counts[t.objects[o].name] # None
  BY <1>3, OnIsFinite, HandlesAssumption
<1>5. t.objects[o].stream \in Streams
  BY <1>1 DEF SoundTable, Shared
<1>6. files[t.objects[o].name] \in Files
  BY <1>5 DEF SoundTable, Shared, TypedTable
<1>. QED BY <1>1, <1>2, <1>3, <1>4, <1>5, <1>6

(* close takes its object from the count, and forgets the name with the    *)
(* last of its objects.                                                    *)
LEMMA CloseIsSound ==
  ASSUME NEW t, NEW files, NEW L, SoundTable(t, files, L), NEW o \in L
  PROVE  /\ SoundTable(Closed(t, o), files, L \ {o})
         /\ Closed(t, o).objects =
              [t.objects EXCEPT ![o] = [name |-> t.objects[o].name, stream |-> None]]
<1>. DEFINE n == t.objects[o].name
            on == OnIn(t, L, n)
            c == Cardinality(on) - 1
            d == Closed(t, o)
<1>1. /\ o \in Objects /\ n \in Names /\ o \in on
      /\ t.objects[o] \in [name : Names, stream : Streams \cup {None}]
      /\ t.counts[n] = Cardinality(on) /\ t.counts[n] # None
  BY CountedIsNamed
<1>2. /\ Cardinality(on) \in Nat /\ Cardinality(on) # 0 /\ c \in Nat
      /\ IsFiniteSet(on) /\ Cardinality(on \ {o}) = c /\ (c = 0 <=> on \ {o} = {})
  <2>1. Cardinality(on) \in Nat /\ Cardinality(on) # 0 /\ IsFiniteSet(on)
    BY <1>1, OnIsFinite
  <2>2. IsFiniteSet(on \ {o}) /\ Cardinality(on \ {o}) = c
    BY <1>1, <2>1, FS_RemoveElement
  <2>3. c = 0 <=> on \ {o} = {}
    BY <2>2, FS_EmptySet
  <2>. HIDE DEF on
  <2>. QED BY <2>1, <2>2, <2>3
<1>3. /\ d.streams = IF c = 0 THEN [t.streams EXCEPT ![n] = None] ELSE t.streams
      /\ d.counts = [t.counts EXCEPT ![n] = IF c = 0 THEN None ELSE c]
      /\ d.objects = [t.objects EXCEPT ![o] = [name |-> n, stream |-> None]]
      /\ d.source = t.source
      /\ d = [streams |-> d.streams, counts |-> d.counts,
              objects |-> d.objects, source |-> d.source]
  BY <1>1, <1>2 DEF Closed, SoundTable, TypedTable
<1>. HIDE DEF d, c
<1>4. \A p \in Objects : d.objects[p].name = t.objects[p].name
                         /\ (p # o => d.objects[p] = t.objects[p])
  BY <1>1, <1>3 DEF SoundTable, TypedTable
<1>5. \A m \in Names : OnIn(d, L \ {o}, m) = IF m = n THEN on \ {o} ELSE OnIn(t, L, m)
  BY <1>1, <1>4 DEF OnIn, SoundTable
<1>. HIDE DEF on
<1>6. TypedTable(d)
  <2>1. d.streams \in [Names -> Streams \cup {None}]
    BY <1>1, <1>3 DEF SoundTable, TypedTable
  <2>2. d.counts \in [Names -> (Nat \ {0}) \cup {None}]
    BY <1>1, <1>2, <1>3 DEF SoundTable, TypedTable
  <2>3. d.objects \in [Objects -> [name : Names, stream : Streams \cup {None}] \cup {None}]
    BY <1>1, <1>3 DEF SoundTable, TypedTable
  <2>4. d.source \in [Streams -> Files]
    BY <1>3 DEF SoundTable, TypedTable
  <2>. QED BY <1>3, <2>1, <2>2, <2>3, <2>4 DEF TypedTable
<1>7. L \ {o} \subseteq {p \in Objects : d.objects[p] # None}
  BY <1>4 DEF SoundTable
<1>8. Counted(d, L \ {o})
  <2>. SUFFICES ASSUME NEW m \in Names
                PROVE  d.counts[m] = IF OnIn(d, L \ {o}, m) = {} THEN None
                                     ELSE Cardinality(OnIn(d, L \ {o}, m))
    BY DEF Counted
  <2>1. CASE m = n
    <3>1. d.counts[n] = IF c = 0 THEN None ELSE c
      BY <1>1, <1>3 DEF SoundTable, TypedTable
    <3>2. OnIn(d, L \ {o}, n) = on \ {o}
      BY <1>1, <1>5
    <3>. QED BY <1>2, <2>1, <3>1, <3>2
  <2>2. CASE m # n
    <3>1. d.counts[m] = t.counts[m]
      BY <1>1, <1>3, <2>2 DEF SoundTable, TypedTable
    <3>2. OnIn(d, L \ {o}, m) = OnIn(t, L, m)
      BY <1>5, <2>2
    <3>. QED BY <3>1, <3>2 DEF SoundTable, Counted
  <2>. QED BY <2>1, <2>2
<1>9. Shared(d, files, L \ {o})
  <2>1. ASSUME NEW p \in L \ {o}
        PROVE  /\ d.objects[p].stream # None
               /\ d.objects[p].stream = d.streams[d.objects[p].name]
               /\ d.source[d.objects[p].stream] = files[d.objects[p].name]
    <3>1. p \in Objects /\ d.objects[p] = t.objects[p] /\ t.objects[p].name \in Names
      BY <1>4, CountedIsNamed
    <3>2. t.objects[p].stream = t.streams[t.objects[p].name] /\ t.objects[p].stream # None
          /\ t.source[t.objects[p].stream] = files[t.objects[p].name]
      BY DEF SoundTable, Shared
    <3>3. d.streams[t.objects[p].name] = t.streams[t.objects[p].name]
      <4>1. CASE t.objects[p].name = n
        <5>1. p \in on \ {o}
          BY <4>1 DEF on, OnIn
        <5>. QED BY <1>1, <1>2, <1>3, <4>1, <5>1 DEF SoundTable, TypedTable
      <4>2. CASE t.objects[p].name # n
        BY <1>1, <1>3, <3>1, <4>2 DEF SoundTable, TypedTable
      <4>. QED BY <4>1, <4>2
    <3>. QED BY <1>3, <3>1, <3>2, <3>3
  <2>2. ASSUME NEW m \in Names, d.streams[m] # None PROVE OnIn(d, L \ {o}, m) # {}
    <3>1. CASE m = n
      BY <1>1, <1>2, <1>3, <1>5, <2>2, <3>1 DEF SoundTable, TypedTable
    <3>2. CASE m # n
      BY <1>1, <1>3, <1>5, <2>2, <3>2 DEF SoundTable, TypedTable, Shared
    <3>. QED BY <3>1, <3>2
  <2>. QED BY <2>1, <2>2 DEF Shared
<1>10. SoundTable(d, files, L \ {o})
  BY <1>6, <1>7, <1>8, <1>9 DEF SoundTable
<1>. QED BY <1>3, <1>10 DEF d

(* A name that is not counted has no stream and no object, and a stream    *)
(* number is free for it.                                                  *)
LEMMA UncountedName ==
  ASSUME NEW t, NEW files, NEW L, SoundTable(t, files, L),
         NEW n \in Names, t.counts[n] = None
  PROVE  /\ OnIn(t, L, n) = {} /\ t.streams[n] = None
         /\ NewStream(t.streams, t.objects) \in Streams
         /\ \A o \in L : t.objects[o].stream # NewStream(t.streams, t.objects)
<1>1. OnIn(t, L, n) = {}
  BY OnIsFinite, HandlesAssumption DEF SoundTable, Counted
<1>2. t.streams[n] = None
  BY <1>1 DEF SoundTable, Shared
<1>. DEFINE U == StreamsInUse(t.streams, t.objects)
            M == {o \in Objects : t.objects[o] # None}
            h == [o \in M |-> t.objects[o].stream]
<1>3. TakenFrom(U \ {None}, n, M, t.streams, h)
  BY <1>2 DEF StreamsInUse, TakenFrom
<1>4. Streams \ U = Streams \ (U \ {None})
  BY NumbersAreFinite
<1>5. M \in SUBSET Objects
  OBVIOUS
<1>6. Least(Streams \ (U \ {None})) \in Streams \ (U \ {None})
  <2>. HIDE DEF U, M, h
  <2>. QED BY <1>3, <1>5, ANumberIsFree
<1>7. NewStream(t.streams, t.objects) \in Streams \ U
  BY <1>4, <1>6 DEF NewStream
<1>8. \A o \in L : t.objects[o].stream \in U
  BY DEF StreamsInUse, SoundTable
<1>. QED BY <1>1, <1>2, <1>7, <1>8

\* o has become an object of name n with a stream.
NowOpen(objects, objects1, o, n) ==
  \E s \in Streams : objects1 = [objects EXCEPT ![o] = [name |-> n, stream |-> s]]

(* openIfNeeded counts its object in; a name that was not open gets a      *)
(* stream of its own, on the file f.                                       *)
LEMMA OpenIsSound ==
  ASSUME NEW t, NEW files, NEW L, SoundTable(t, files, L),
         NEW o \in Objects \ L, NEW n \in Names, NEW f \in Files,
         f = files[n] \/ t.counts[n] = None
  PROVE  /\ SoundTable(Opened(t, o, n, f), [files EXCEPT ![n] = f], L \cup {o})
         /\ NowOpen(t.objects, Opened(t, o, n, f).objects, o, n)
<1>. DEFINE on == OnIn(t, L, n)
            s == IF t.counts[n] # None THEN t.streams[n]
                 ELSE NewStream(t.streams, t.objects)
            d == Opened(t, o, n, f)
            files1 == [files EXCEPT ![n] = f]
<1>1. /\ s \in Streams
      /\ t.counts[n] # None => on # {} /\ t.counts[n] = Cardinality(on)
                               /\ s = t.streams[n] /\ f = files[n]
      /\ t.counts[n] = None => on = {} /\ \A p \in L : t.objects[p].stream # s
  <2>1. CASE t.counts[n] # None
    <3>1. on # {} /\ t.counts[n] = Cardinality(on)
      BY <2>1 DEF SoundTable, Counted
    <3>2. PICK p \in L : t.objects[p].name = n
      BY <3>1 DEF OnIn
    <3>3. t.streams[n] \in Streams
      BY <3>2, CountedIsNamed DEF SoundTable, Shared
    <3>. QED BY <2>1, <3>1, <3>3
  <2>2. CASE t.counts[n] = None
    BY <2>2, UncountedName
  <2>. QED BY <2>1, <2>2
<1>2. /\ d.streams = [t.streams EXCEPT ![n] = s]
      /\ d.counts = [t.counts EXCEPT ![n] = IF @ = None THEN 1 ELSE @ + 1]
      /\ d.objects = [t.objects EXCEPT ![o] = [name |-> n, stream |-> s]]
      /\ d.source = IF t.counts[n] # None THEN t.source ELSE [t.source EXCEPT ![s] = f]
      /\ d = [streams |-> d.streams, counts |-> d.counts,
              objects |-> d.objects, source |-> d.source]
  BY DEF Opened, SoundTable, TypedTable
<1>. HIDE DEF d, s
<1>3. /\ \A p \in L : d.objects[p] = t.objects[p]
      /\ d.objects[o] = [name |-> n, stream |-> s]
  BY <1>2 DEF SoundTable, TypedTable
<1>4. /\ \A m \in Names : OnIn(d, L \cup {o}, m) =
                            IF m = n THEN on \cup {o} ELSE OnIn(t, L, m)
      /\ o \notin on
  BY <1>3 DEF OnIn
<1>5. IsFiniteSet(on) /\ Cardinality(on) \in Nat /\ Cardinality(on \cup {o}) = Cardinality(on) + 1
      /\ (on = {} => Cardinality(on) = 0)
  <2>1. IsFiniteSet(on) /\ Cardinality(on) \in Nat /\ (on = {} => Cardinality(on) = 0)
    BY OnIsFinite
  <2>2. Cardinality(on \cup {o}) = Cardinality(on) + 1
    BY <1>4, <2>1, FS_AddElement
  <2>. QED BY <2>1, <2>2
<1>. HIDE DEF on
<1>6. d.counts[n] = Cardinality(on) + 1
  BY <1>1, <1>2, <1>5 DEF SoundTable, TypedTable
<1>7. TypedTable(d)
  <2>1. d.streams \in [Names -> Streams \cup {None}]
    BY <1>1, <1>2 DEF SoundTable, TypedTable
  <2>2. d.counts \in [Names -> (Nat \ {0}) \cup {None}]
    <3>1. Cardinality(on) + 1 \in Nat \ {0}
      BY <1>5
    <3>2. d.counts = [t.counts EXCEPT ![n] = Cardinality(on) + 1]
      BY <1>2, <1>6 DEF SoundTable, TypedTable
    <3>. QED BY <3>1, <3>2 DEF SoundTable, TypedTable
  <2>3. d.objects \in [Objects -> [name : Names, stream : Streams \cup {None}] \cup {None}]
    BY <1>1, <1>2 DEF SoundTable, TypedTable
  <2>4. d.source \in [Streams -> Files]
    BY <1>1, <1>2 DEF SoundTable, TypedTable
  <2>. QED BY <1>2, <2>1, <2>2, <2>3, <2>4 DEF TypedTable
<1>8. files1 \in [Names -> Files \cup {None}]
  BY DEF SoundTable
<1>9. L \cup {o} \subseteq {p \in Objects : d.objects[p] # None}
  <2>1. d.objects[o] # None
    BY <1>1, <1>3, HandlesAssumption
  <2>. QED BY <1>3, <2>1 DEF SoundTable
<1>10. Counted(d, L \cup {o})
  <2>. SUFFICES ASSUME NEW m \in Names
                PROVE  d.counts[m] = IF OnIn(d, L \cup {o}, m) = {} THEN None
                                     ELSE Cardinality(OnIn(d, L \cup {o}, m))
    BY DEF Counted
  <2>1. CASE m = n
    BY <1>4, <1>5, <1>6, <2>1
  <2>2. CASE m # n
    BY <1>2, <1>4, <2>2 DEF SoundTable, TypedTable, Counted
  <2>. QED BY <2>1, <2>2
<1>11. Shared(d, files1, L \cup {o})
  <2>1. /\ d.objects[o].stream = s /\ s # None /\ d.objects[o].name = n
        /\ s = d.streams[n] /\ d.source[s] = files1[n]
    <3>1. d.objects[o].stream = s /\ d.objects[o].name = n /\ s # None
      BY <1>1, <1>3, NumbersAreFinite
    <3>2. s = d.streams[n] /\ files1[n] = f
      BY <1>2 DEF SoundTable, TypedTable
    <3>3. d.source[s] = f
      <4>1. CASE t.counts[n] # None
        <5>1. PICK p \in L : t.objects[p].name = n
          BY <1>1, <4>1 DEF on, OnIn
        <5>. QED BY <1>1, <1>2, <4>1, <5>1 DEF SoundTable, Shared
      <4>2. CASE t.counts[n] = None
        BY <1>1, <1>2, <4>2 DEF SoundTable, TypedTable
      <4>. QED BY <4>1, <4>2
    <3>. QED BY <3>1, <3>2, <3>3
  <2>2. ASSUME NEW p \in L
        PROVE  /\ d.objects[p].stream # None
               /\ d.objects[p].stream = d.streams[d.objects[p].name]
               /\ d.source[d.objects[p].stream] = files1[d.objects[p].name]
    <3>1. /\ d.objects[p] = t.objects[p] /\ t.objects[p].name \in Names
          /\ t.objects[p].stream \in Streams
      BY <1>3, CountedIsNamed
    <3>2. t.objects[p].stream = t.streams[t.objects[p].name] /\ t.objects[p].stream # None
          /\ t.source[t.objects[p].stream] = files[t.objects[p].name]
      BY DEF SoundTable, Shared
    <3>3. CASE t.counts[n] # None
      <4>1. d.streams = t.streams /\ files1 = files /\ d.source = t.source
        BY <1>1, <1>2, <3>3 DEF SoundTable, TypedTable
      <4>. QED BY <3>1, <3>2, <4>1
    <3>4. CASE t.counts[n] = None
      <4>1. t.objects[p].name # n
        BY <1>1, <3>4 DEF on, OnIn
      <4>2. t.objects[p].stream # s
        BY <1>1, <3>4
      <4>3. d.streams[t.objects[p].name] = t.streams[t.objects[p].name]
        BY <1>2, <3>1, <4>1 DEF SoundTable, TypedTable
      <4>4. files1[t.objects[p].name] = files[t.objects[p].name]
        BY <3>1, <4>1 DEF SoundTable
      <4>5. d.source[t.objects[p].stream] = t.source[t.objects[p].stream]
        BY <1>2, <3>1, <3>4, <4>2 DEF SoundTable, TypedTable
      <4>. QED BY <3>1, <3>2, <4>3, <4>4, <4>5
    <3>. QED BY <3>3, <3>4
  <2>3. ASSUME NEW m \in Names, d.streams[m] # None PROVE OnIn(d, L \cup {o}, m) # {}
    <3>1. CASE m = n
      BY <1>4, <3>1
    <3>2. CASE m # n
      BY <1>2, <1>4, <2>3, <3>2 DEF SoundTable, TypedTable, Shared
    <3>. QED BY <3>1, <3>2
  <2>. QED BY <2>1, <2>2, <2>3 DEF Shared
<1>12. SoundTable(d, files1, L \cup {o})
  BY <1>7, <1>8, <1>9, <1>10, <1>11 DEF SoundTable
<1>. QED BY <1>1, <1>2, <1>12 DEF d, NowOpen

-----------------------------------------------------------------------------
(* The steps.                                                              *)

(* A file number is free for a name that is neither open nor there.        *)
LEMMA AFileIsFree ==
  ASSUME IInv, NEW n \in Names, ~exists(n)
  PROVE  NewFile \in Files
<1>. DEFINE S == StreamsInUse(open_streams, object) \ {None}
            U == {file[m] : m \in Names} \cup {source[s] : s \in S}
            h == [o \in Live |-> source[object[o].stream]]
<1>1. S \subseteq {object[o].stream : o \in Live}
  <2>1. ASSUME NEW m \in Names, open_streams[m] # None
        PROVE  \E o \in Live : open_streams[m] = object[o].stream
    <3>1. PICK o \in Live : object[o].name = m
      BY <2>1 DEF IInv, SoundTable, Shared, Tables, OnIn
    <3>. QED BY <3>1 DEF IInv, SoundTable, Shared, Tables
  <2>. QED BY <2>1 DEF StreamsInUse, Live
<1>2. TakenFrom(U \ {None}, n, Live, file, h)
  <2>1. \A m \in Names : file[m] # None => m \in Names \ {n}
    BY DEF exists
  <2>. QED BY <1>1, <2>1 DEF TakenFrom
<1>3. Streams \ (U \ {None}) = Files \ U
  BY NumbersAreFinite
<1>4. Live \in SUBSET Objects
  BY DEF Live
<1>5. Least(Streams \ (U \ {None})) \in Streams \ (U \ {None})
  <2>. HIDE DEF U, h
  <2>. QED BY <1>2, <1>4, ANumberIsFree
<1>6. NewFile = Least(Files \ U)
  BY DEF NewFile
<1>. QED BY <1>3, <1>5, <1>6

(* When the table of the next state is t, its soundness is the invariant.  *)
LEMMA Becoming ==
  ASSUME NEW t, Become(t), TypedTable(t)
  PROVE  /\ Tables' = t
         /\ Live' = {o \in Objects : t.objects[o] # None}
BY DEF Become, Tables, TypedTable, Live

(* The parts of the present table.                                         *)
LEMMA PresentTable ==
  /\ Tables.streams = open_streams /\ Tables.counts = open_counts
  /\ Tables.objects = object /\ Tables.source = source
BY DEF Tables

(* A File object comes to be: create, open and copy.                       *)
LEMMA OpeningKeeps ==
  ASSUME IInv, NEW o \in Objects, NEW n \in Names, NEW f \in Files,
         object[o] = None, f = file[n] \/ open_counts[n] = None,
         Become(Opened(Tables, o, n, f)), file' = [file EXCEPT ![n] = f]
  PROVE  IInv'
<1>. DEFINE d == Opened(Tables, o, n, f)
<1>1. o \in Objects \ Live
  BY DEF Live
<1>2. /\ SoundTable(d, [file EXCEPT ![n] = f], Live \cup {o})
      /\ NowOpen(object, d.objects, o, n)
  <2>1. SoundTable(Tables, file, Live) /\ (f = file[n] \/ Tables.counts[n] = None)
    BY PresentTable DEF IInv
  <2>2. /\ SoundTable(d, [file EXCEPT ![n] = f], Live \cup {o})
        /\ NowOpen(Tables.objects, d.objects, o, n)
    BY <1>1, <2>1, OpenIsSound
  <2>. QED BY <2>2, PresentTable
<1>. HIDE DEF d
<1>3. Tables' = d /\ Live' = {p \in Objects : d.objects[p] # None}
  BY <1>2, Becoming DEF d, SoundTable
<1>4. \A p \in Objects : p # o => d.objects[p] = object[p]
  BY <1>2 DEF IInv, SoundTable, TypedTable, Tables, NowOpen
<1>5. {p \in Objects : d.objects[p] # None} = Live \cup {o}
  BY <1>2, <1>4 DEF SoundTable, Live
<1>. QED BY <1>2, <1>3, <1>5 DEF IInv

(* A name with a live object is open, and leads to a file.                 *)
LEMMA LiveNameIsOpen ==
  ASSUME IInv, NEW o \in Live
  PROVE  object[o].name \in Names /\ exists(object[o].name)
         /\ file[object[o].name] \in Files
<1>1. object[o].name \in Names /\ file[object[o].name] \in Files
  BY CountedIsNamed, PresentTable DEF IInv
<1>. QED BY <1>1, NumbersAreFinite DEF exists

(* A name that is open leads to a file.                                    *)
LEMMA CountedNameHasFile ==
  ASSUME IInv, NEW n \in Names, open_counts[n] # None
  PROVE  file[n] \in Files
<1>1. PICK o \in Live : object[o].name = n
  BY PresentTable DEF IInv, SoundTable, Counted, OnIn
<1>. QED BY <1>1, LiveNameIsOpen

(* create: on a name that is open the file stays the same.                 *)
LEMMA CreateKeeps ==
  ASSUME IInv, NEW o \in Objects, NEW n \in Names, create(o, n)
  PROVE  IInv'
<1>1. CASE open_counts[n] = None
  <2>1. ~exists(n)
    BY <1>1, PresentTable DEF create, OpenFails
  <2>2. NewFile \in Files
    BY <2>1, AFileIsFree
  <2>. QED BY <1>1, <2>2, OpeningKeeps DEF create
<1>2. CASE open_counts[n] # None
  <2>1. file[n] \in Files
    BY <1>2, CountedNameHasFile
  <2>. QED BY <1>2, <2>1, OpeningKeeps DEF create
<1>. QED BY <1>1, <1>2

(* open, and with it the copy of an object.                                *)
LEMMA OpenKeeps ==
  ASSUME IInv, NEW o \in Objects, NEW n \in Names, open(o, n)
  PROVE  IInv'
<1>1. file[n] \in Files
  <2>1. CASE open_counts[n] = None
    <3>1. exists(n)
      BY <2>1, PresentTable DEF open, OpenFails
    <3>. QED BY <3>1 DEF IInv, SoundTable, exists
  <2>2. CASE open_counts[n] # None
    BY <2>2, CountedNameHasFile
  <2>. QED BY <2>1, <2>2
<1>2. file' = [file EXCEPT ![n] = file[n]]
  BY DEF open, IInv, SoundTable
<1>. QED BY <1>1, <1>2, OpeningKeeps DEF open

(* Assignment: close, then open under the other name.                      *)
LEMMA AssignKeeps ==
  ASSUME IInv, NEW o \in Objects, NEW rhs \in Objects, assign(o, rhs)
  PROVE  IInv'
<1>. DEFINE n == object[rhs].name
            t == Closed(Tables, o)
            d == Opened(t, o, n, file[n])
<1>1. o \in Live /\ rhs \in Live
  BY DEF assign, Live
<1>2. n \in Names /\ exists(n) /\ file[n] \in Files
  BY <1>1, LiveNameIsOpen
<1>3. /\ SoundTable(t, file, Live \ {o})
      /\ t.objects = [object EXCEPT ![o] = [name |-> object[o].name, stream |-> None]]
  BY <1>1, CloseIsSound, PresentTable DEF IInv
<1>4. ~OpenFails(t, n, FALSE)
  BY <1>2 DEF OpenFails
<1>5. Become(d) /\ file' = file
  BY <1>4 DEF assign
<1>. HIDE DEF t, n
<1>6. /\ SoundTable(d, [file EXCEPT ![n] = file[n]], (Live \ {o}) \cup {o})
      /\ NowOpen(t.objects, d.objects, o, n)
  <2>1. o \in Objects \ (Live \ {o})
    OBVIOUS
  <2>2. file[n] = file[n] \/ t.counts[n] = None
    OBVIOUS
  <2>. QED BY <1>2, <1>3, <2>1, <2>2, OpenIsSound
<1>. HIDE DEF d
<1>7. [file EXCEPT ![n] = file[n]] = file /\ (Live \ {o}) \cup {o} = Live
  BY <1>1 DEF IInv, SoundTable
<1>8. Tables' = d /\ Live' = {p \in Objects : d.objects[p] # None}
  BY <1>5, <1>6, Becoming DEF SoundTable
<1>9. \A p \in Objects : p # o => d.objects[p] = object[p]
  BY <1>3, <1>6 DEF IInv, SoundTable, TypedTable, Tables, NowOpen
<1>10. {p \in Objects : d.objects[p] # None} = Live
  BY <1>1, <1>6, <1>7, <1>9 DEF SoundTable, Live
<1>. QED BY <1>5, <1>6, <1>7, <1>8, <1>10 DEF IInv

(* The destructor: close, and the object is gone.                          *)
LEMMA DestroyKeeps ==
  ASSUME IInv, NEW o \in Objects, destroy(o)
  PROVE  IInv'
<1>. DEFINE t == Closed(Tables, o)
            d == [t EXCEPT !.objects = [@ EXCEPT ![o] = None]]
<1>1. o \in Live
  BY DEF destroy, Live
<1>2. /\ SoundTable(t, file, Live \ {o})
      /\ t.objects = [object EXCEPT ![o] = [name |-> object[o].name, stream |-> None]]
  BY <1>1, CloseIsSound, PresentTable DEF IInv
<1>3. Become(d) /\ file' = file
  BY DEF destroy
<1>. HIDE DEF t
<1>4. /\ d.streams = t.streams /\ d.counts = t.counts /\ d.source = t.source
      /\ d.objects = [t.objects EXCEPT ![o] = None]
      /\ TypedTable(d)
  BY <1>2 DEF SoundTable, TypedTable
<1>. HIDE DEF d
<1>5. \A p \in Live \ {o} : d.objects[p] = t.objects[p]
  BY <1>2, <1>4 DEF SoundTable, TypedTable
<1>6. \A m : OnIn(d, Live \ {o}, m) = OnIn(t, Live \ {o}, m)
  BY <1>5 DEF OnIn
<1>7. SoundTable(d, file, Live \ {o})
  BY <1>2, <1>4, <1>5, <1>6 DEF SoundTable, Counted, Shared
<1>8. Tables' = d /\ Live' = {p \in Objects : d.objects[p] # None}
  BY <1>3, <1>4, Becoming
<1>9. \A p \in Objects : d.objects[p] = IF p = o THEN None ELSE object[p]
  BY <1>2, <1>4 DEF IInv, SoundTable, TypedTable, Tables
<1>10. {p \in Objects : d.objects[p] # None} = Live \ {o}
  BY <1>9 DEF Live
<1>. QED BY <1>3, <1>7, <1>8, <1>10 DEF IInv

(* remove: no object has the name.                                         *)
LEMMA RemoveKeeps ==
  ASSUME IInv, NEW n \in Names, remove(n)
  PROVE  IInv'
<1>1. Tables' = Tables /\ Live' = Live
  BY DEF remove, Tables, Live
<1>2. open_counts[n] = None
  BY DEF remove, isOpen
<1>3. ASSUME NEW o \in Live PROVE Tables.objects[o].name # n
  BY <1>2, <1>3, CountedIsNamed, PresentTable DEF IInv
<1>4. ASSUME NEW o \in Live
      PROVE  file'[Tables.objects[o].name] = file[Tables.objects[o].name]
  BY <1>3, CountedIsNamed DEF remove, IInv, SoundTable
<1>5. file' \in [Names -> Files \cup {None}]
  BY DEF remove, IInv, SoundTable
<1>6. Shared(Tables, file', Live)
  BY <1>4 DEF IInv, SoundTable, Shared
<1>7. SoundTable(Tables, file', Live)
  BY <1>5, <1>6 DEF IInv, SoundTable
<1>. QED BY <1>1, <1>7 DEF IInv

(* The initial states.                                                     *)
LEMMA InitIInv == Init => IInv
<1>. SUFFICES ASSUME Init PROVE IInv
  OBVIOUS
<1>1. Live = {}
  BY DEF Init, Live
<1>2. \A n : OnIn(Tables, Live, n) = {}
  BY <1>1 DEF OnIn
<1>3. TypedTable(Tables)
  <2>1. ASSUME NEW s \in Streams PROVE 1 \in Files
    BY NumbersAreFinite DEF Streams, Files
  <2>. QED BY <2>1 DEF Init, Tables, TypedTable
<1>. QED BY <1>1, <1>2, <1>3 DEF Init, IInv, SoundTable, Counted, Shared, Tables

(* Every step.                                                             *)
LEMMA NextIInv == IInv /\ [Next]_vars => IInv'
<1>. SUFFICES ASSUME IInv, [Next]_vars PROVE IInv'
  OBVIOUS
<1>1. ASSUME NEW o \in Objects, NEW n \in Names, create(o, n) PROVE IInv'
  BY <1>1, CreateKeeps
<1>2. ASSUME NEW o \in Objects, NEW n \in Names, open(o, n) PROVE IInv'
  BY <1>2, OpenKeeps
<1>3. ASSUME NEW o \in Objects, NEW p \in Objects, copy(o, p) PROVE IInv'
  <2>1. p \in Live
    BY <1>3 DEF copy, Live
  <2>. QED BY <1>3, <2>1, LiveNameIsOpen, OpenKeeps DEF copy
<1>4. ASSUME NEW o \in Objects, NEW p \in Objects, assign(o, p) PROVE IInv'
  BY <1>4, AssignKeeps
<1>5. ASSUME NEW o \in Objects, destroy(o) PROVE IInv'
  BY <1>5, DestroyKeeps
<1>6. ASSUME NEW n \in Names, remove(n) PROVE IInv'
  BY <1>6, RemoveKeeps
<1>7. CASE UNCHANGED vars
  BY <1>7 DEF vars, IInv, Tables, Live
<1>. QED BY <1>1, <1>2, <1>3, <1>4, <1>5, <1>6, <1>7 DEF Next

(* Files, streams, counts and objects keep their types.                    *)
THEOREM HandlesTypeCorrect == Spec => []TypeOK
<1>1. IInv => TypeOK
  BY DEF IInv, SoundTable, TypedTable, Tables, TypeOK
<1>. QED BY <1>1, InitIInv, NextIInv, PTL DEF Spec

(* open_counts_ is the number of the File objects of each name, whatever   *)
(* is opened, copied, assigned, destroyed and removed (file.cpp of p3).    *)
THEOREM CountsAreExact == Spec => []CountsExact
<1>1. Spec => []IInv
  BY InitIInv, NextIInv, PTL DEF Spec
<1>2. IInv => CountsExact
  <2>1. \A n : OnIn(Tables, Live, n) = On(n)
    BY DEF OnIn, On, Tables
  <2>. QED BY <2>1, PresentTable DEF IInv, SoundTable, Counted, CountsExact
<1>. QED BY <1>1, <1>2, PTL

(* All File objects of a name share its stream, which leads to the file    *)
(* the name leads to, and no stream outlives them (openIfNeeded and close  *)
(* of file.cpp of p3).                                                     *)
THEOREM StreamsAreShared == Spec => []StreamsShared
<1>1. Spec => []IInv
  BY InitIInv, NextIInv, PTL DEF Spec
<1>2. IInv => StreamsShared
  <2>1. \A n : OnIn(Tables, Live, n) = On(n)
    BY DEF OnIn, On, Tables
  <2>. QED BY <2>1, PresentTable DEF IInv, SoundTable, Shared, StreamsShared
<1>. QED BY <1>1, <1>2, PTL

-----------------------------------------------------------------------------
-----------------------------------------------------------------------------
(* The lists of pages.  FileInv is inductive: the free list leads through  *)
(* all free pages; the list of used pages does so in page order, and ends, *)
(* as long as it is in order - and still leads to every page in use, in    *)
(* page order, when it is not: what goes wrong is only what follows the    *)
(* last page.                                                              *)

USE FileAssumption

UsedIn(pg) == {p \in Pages : pg[p].current # INVALID_NUMBER}

FreeIn(h, pg) == {p \in Pages : p < h.num_pages /\ p \notin UsedIn(pg)}

\* f is the free list: from first to the end in n steps, by way of each page
\* of S once.
Leads(f, pg, first, n, S) ==
  /\ f[0] = first /\ f[n] = INVALID_NUMBER
  /\ \A i \in 0 .. n - 1 : f[i] \in S /\ f[i + 1] = pg[f[i]].next
  /\ \A i, j \in 0 .. n - 1 : f[i] = f[j] => i = j
  /\ \A p \in S : \E i \in 0 .. n - 1 : f[i] = p

Linked(pg, first, n, S) ==
  \E f \in [0 .. n -> PageNumbers] : Leads(f, pg, first, n, S)

\* Of the list of used pages: q comes next after p, the pages in use being U.
\* Page 0 stands for the header.
ComesNext(U, p, q) ==
  /\ q = INVALID_NUMBER \/ (q \in U /\ q > p)
  /\ \A r \in U : r > p => q # INVALID_NUMBER /\ q <= r

After(pg, first, p) == IF p = INVALID_NUMBER THEN first ELSE pg[p].next

\* The pages in use can be walked in order; and the walk ends there, if exact.
Listed(pg, first, exact) ==
  \A p \in UsedIn(pg) \cup {INVALID_NUMBER} :
    exact \/ (\E r \in UsedIn(pg) : r > p)
      => ComesNext(UsedIn(pg), p, After(pg, first, p))

Sound(h, pg, exact) ==
  /\ h \in Header /\ pg \in [Pages -> Page]
  /\ \A p \in UsedIn(pg) : p < h.num_pages
  /\ \A p \in Pages : p \notin UsedIn(pg) => pg[p].data = Empty
  /\ h.num_free_pages = Cardinality(FreeIn(h, pg))
  /\ Linked(pg, h.first_free_page, h.num_free_pages, FreeIn(h, pg))
  /\ Listed(pg, h.first_used_page, exact)

FileInv ==
  /\ Sound(header, page, ~disordered)
  /\ outcome \in {"ok", "InvalidPage", "hangs"}
  /\ disordered \in BOOLEAN

-----------------------------------------------------------------------------
(* Numbers.                                                                *)

(* Induction, for a set of natural numbers.                                *)
LEMMA AllNaturals ==
  ASSUME NEW P \in SUBSET Nat, 0 \in P, \A n \in P : n + 1 \in P
  PROVE  P = Nat
<1>. SUFFICES ASSUME Nat \ P # {} PROVE FALSE
  OBVIOUS
<1>1. PICK m \in Nat \ P : \A k \in Nat \ P : m <= k
  BY LeastNatural
<1>2. m - 1 \in Nat /\ m - 1 \in P
  BY <1>1
<1>3. m - 1 + 1 = m
  BY <1>1
<1>. QED BY <1>1, <1>2, <1>3

(* Page numbers are finitely many.                                         *)
LEMMA PagesAreFinite ==
  ASSUME NEW S \in SUBSET Pages
  PROVE  IsFiniteSet(S) /\ Cardinality(S) \in 0 .. MaxPages
<1>1. IsFiniteSet(Pages) /\ Cardinality(Pages) = MaxPages
  BY FS_Interval DEF Pages
<1>2. IsFiniteSet(S) /\ Cardinality(S) <= Cardinality(Pages)
  BY <1>1, FS_Subset
<1>3. Cardinality(S) \in Nat
  BY <1>2, FS_CardinalityType
<1>. QED BY <1>1, <1>2, <1>3

-----------------------------------------------------------------------------
(* Walks.                                                                  *)

StepFrom(pg, q) == IF q = INVALID_NUMBER THEN INVALID_NUMBER ELSE pg[q].next

(* The recursive definition of Walk means what it says.                    *)
LEMMA WalkSteps ==
  ASSUME page \in [Pages -> Page], NEW first \in PageNumbers
  PROVE  /\ Walk(first) \in [Turns -> PageNumbers]
         /\ Walk(first)[0] = first
         /\ \A n \in Turns : n + 1 \in Turns =>
              Walk(first)[n + 1] = StepFrom(page, Walk(first)[n])
<1>1. \A q \in PageNumbers : StepFrom(page, q) \in PageNumbers
  BY DEF StepFrom, PageNumbers, Pages, Page, INVALID_NUMBER
<1>. DEFINE Steps(f, n) == /\ f \in [0 .. n -> PageNumbers] /\ f[0] = first
                           /\ \A i \in 0 .. n - 1 : f[i + 1] = StepFrom(page, f[i])
            P == {n \in Nat : \E f : Steps(f, n)}
<1>2. 0 \in P
  <2>1. Steps([i \in 0 .. 0 |-> first], 0)
    OBVIOUS
  <2>. HIDE DEF Steps
  <2>. QED BY <2>1
<1>3. ASSUME NEW n \in P PROVE n + 1 \in P
  <2>1. PICK f : Steps(f, n)
    OBVIOUS
  <2>. DEFINE g == [i \in 0 .. n + 1 |-> IF i <= n THEN f[i] ELSE StepFrom(page, f[n])]
  <2>2. g \in [0 .. n + 1 -> PageNumbers]
    BY <1>1, <2>1
  <2>3. g[0] = first
    BY <2>1
  <2>4. ASSUME NEW i \in 0 .. n PROVE g[i + 1] = StepFrom(page, g[i])
    <3>1. CASE i < n
      <4>1. i \in 0 .. n - 1 /\ i + 1 \in 0 .. n + 1 /\ i + 1 <= n /\ i \in 0 .. n + 1
        BY <3>1
      <4>. QED BY <2>1, <4>1
    <3>2. CASE i = n
      BY <3>2
    <3>. QED BY <3>1, <3>2
  <2>. HIDE DEF g
  <2>5. Steps(g, n + 1)
    BY <2>2, <2>3, <2>4
  <2>. HIDE DEF Steps
  <2>. QED BY <2>5
<1>4. P = Nat
  <2>. HIDE DEF P
  <2>1. P \in SUBSET Nat
    BY DEF P
  <2>. QED BY <1>2, <1>3, <2>1, AllNaturals
<1>5. PICK f : Steps(f, MaxPages)
  BY <1>4
<1>. DEFINE Eq(g) == g = [n \in 0 .. MaxPages |->
                            IF n = 0 THEN first
                            ELSE IF g[n - 1] = INVALID_NUMBER THEN INVALID_NUMBER
                            ELSE page[g[n - 1]].next]
<1>6. Eq(f)
  <2>1. ASSUME NEW n \in 0 .. MaxPages
        PROVE  f[n] = IF n = 0 THEN first
                      ELSE IF f[n - 1] = INVALID_NUMBER THEN INVALID_NUMBER
                      ELSE page[f[n - 1]].next
    <3>1. CASE n = 0
      BY <1>5, <3>1
    <3>2. CASE n # 0
      <4>1. n - 1 \in 0 .. MaxPages - 1 /\ n - 1 + 1 = n
        BY <3>2
      <4>2. f[n - 1 + 1] = StepFrom(page, f[n - 1])
        BY <1>5, <4>1
      <4>. QED BY <3>2, <4>1, <4>2 DEF StepFrom
    <3>. QED BY <3>1, <3>2
  <2>2. f = [n \in 0 .. MaxPages |-> f[n]]
    BY <1>5
  <2>. QED BY <2>1, <2>2
<1>. DEFINE at == Walk(first)
<1>7. Eq(at)
  <2>1. at = CHOOSE g : Eq(g)
    BY DEF Walk
  <2>. HIDE DEF Eq, at
  <2>. QED BY <1>6, <2>1
<1>. HIDE DEF at
<1>8. \A n \in 0 .. MaxPages :
        at[n] = IF n = 0 THEN first
                ELSE IF at[n - 1] = INVALID_NUMBER THEN INVALID_NUMBER
                ELSE page[at[n - 1]].next
  BY <1>7
<1>9. at[0] = first
  BY <1>8
<1>10. ASSUME NEW n \in Turns, n + 1 \in Turns
       PROVE  at[n + 1] = StepFrom(page, at[n])
  <2>1. n \in Nat /\ n + 1 \in 0 .. MaxPages /\ n + 1 # 0 /\ n + 1 - 1 = n
    BY <1>10 DEF Turns
  <2>. QED BY <1>8, <2>1 DEF StepFrom
<1>11. \A n \in Turns : at[n] \in PageNumbers
  <2>. DEFINE Q == {n \in Nat : n \in Turns => at[n] \in PageNumbers}
  <2>1. 0 \in Q
    BY <1>9
  <2>2. ASSUME NEW n \in Q PROVE n + 1 \in Q
    <3>1. n + 1 \in Turns => n \in Turns
      BY DEF Turns
    <3>. QED BY <1>1, <1>10, <3>1
  <2>3. Q = Nat
    <3>. HIDE DEF Q
    <3>1. Q \in SUBSET Nat
      BY DEF Q
    <3>. QED BY <2>1, <2>2, <3>1, AllNaturals
  <2>4. Turns \in SUBSET Nat
    BY DEF Turns
  <2>. QED BY <2>3, <2>4
<1>12. at \in [Turns -> PageNumbers]
  <2>1. DOMAIN at = Turns /\ at = [n \in Turns |-> at[n]]
    BY <1>7 DEF Turns
  <2>. QED BY <1>11, <2>1
<1>. QED BY <1>9, <1>10, <1>12 DEF at

-----------------------------------------------------------------------------
(* The free list.                                                          *)

(* A list stays the same when its pages keep their next pointers.          *)
LEMMA ListKept ==
  ASSUME NEW n \in Nat, NEW first, NEW S, NEW pg, NEW pg2, Linked(pg, first, n, S),
         \A p \in S : pg2[p].next = pg[p].next
  PROVE  Linked(pg2, first, n, S)
  BY DEF Linked, Leads

(* A page put in front of it.                                              *)
LEMMA ListPush ==
  ASSUME NEW n \in Nat, NEW first, NEW S, NEW pg, NEW pg2, Linked(pg, first, n, S),
         \A p \in S : pg2[p].next = pg[p].next,
         NEW p \in PageNumbers, p \notin S, pg2[p].next = first
  PROVE  Linked(pg2, p, n + 1, S \cup {p})
<1>1. PICK f \in [0 .. n -> PageNumbers] : Leads(f, pg, first, n, S)
  BY DEF Linked
<1>2. /\ f[0] = first /\ f[n] = INVALID_NUMBER
      /\ \A i \in 0 .. n - 1 : f[i] \in S /\ f[i + 1] = pg[f[i]].next
      /\ \A i, j \in 0 .. n - 1 : f[i] = f[j] => i = j
      /\ \A q \in S : \E i \in 0 .. n - 1 : f[i] = q
  BY <1>1 DEF Leads
<1>. DEFINE g == [i \in 0 .. n + 1 |-> IF i = 0 THEN p ELSE f[i - 1]]
<1>3. g \in [0 .. n + 1 -> PageNumbers] /\ g[0] = p /\ g[n + 1] = INVALID_NUMBER
  BY <1>2
<1>4. ASSUME NEW i \in 0 .. n PROVE g[i] \in S \cup {p} /\ g[i + 1] = pg2[g[i]].next
  <2>1. i + 1 \in 0 .. n + 1 /\ g[i + 1] = f[i]
    OBVIOUS
  <2>2. CASE i = 0
    BY <1>2, <2>1, <2>2
  <2>3. CASE i # 0
    <3>1. i - 1 \in 0 .. n - 1 /\ i - 1 + 1 = i /\ g[i] = f[i - 1]
      BY <2>3
    <3>2. f[i - 1] \in S /\ f[i - 1 + 1] = pg[f[i - 1]].next
      BY <1>2, <3>1
    <3>. HIDE DEF g
    <3>. QED BY <2>1, <3>1, <3>2
  <2>. QED BY <2>2, <2>3
<1>5. ASSUME NEW i \in 0 .. n, NEW j \in 0 .. n, g[i] = g[j] PROVE i = j
  <2>1. \A k \in 0 .. n : k # 0 => k - 1 \in 0 .. n - 1 /\ g[k] = f[k - 1] /\ g[k] \in S
    BY <1>2
  <2>2. g[0] = p
    OBVIOUS
  <2>. HIDE DEF g
  <2>3. CASE i = 0 \/ j = 0
    BY <1>5, <2>1, <2>2, <2>3
  <2>4. CASE i # 0 /\ j # 0
    <3>1. i - 1 = j - 1
      BY <1>2, <1>5, <2>1, <2>4
    <3>. QED BY <3>1
  <2>. QED BY <2>3, <2>4
<1>6. ASSUME NEW q \in S \cup {p} PROVE \E i \in 0 .. n : g[i] = q
  <2>1. CASE q = p
    BY <2>1
  <2>2. CASE q \in S
    <3>1. PICK i \in 0 .. n - 1 : f[i] = q
      BY <1>2, <2>2
    <3>2. i + 1 \in 0 .. n /\ g[i + 1] = q
      BY <3>1
    <3>. QED BY <3>2
  <2>. QED BY <2>1, <2>2
<1>. HIDE DEF g
<1>7. n + 1 - 1 = n
  OBVIOUS
<1>8. Leads(g, pg2, p, n + 1, S \cup {p})
  BY <1>3, <1>4, <1>5, <1>6, <1>7 DEF Leads
<1>. QED BY <1>3, <1>8 DEF Linked

(* Its first page.                                                         *)
LEMMA ListFirst ==
  ASSUME NEW n \in Nat, n > 0, NEW p, NEW S, NEW pg, Linked(pg, p, n, S)
  PROVE  p \in S /\ (n = 1 => pg[p].next = INVALID_NUMBER)
<1>1. PICK f \in [0 .. n -> PageNumbers] : Leads(f, pg, p, n, S)
  BY DEF Linked
<1>2. /\ f[0] = p /\ f[n] = INVALID_NUMBER
      /\ \A i \in 0 .. n - 1 : f[i] \in S /\ f[i + 1] = pg[f[i]].next
  BY <1>1 DEF Leads
<1>3. 0 \in 0 .. n - 1 /\ 0 + 1 = 1
  OBVIOUS
<1>. QED BY <1>2, <1>3

(* It is taken away.                                                       *)
LEMMA ListPop ==
  ASSUME NEW n \in Nat, n > 0, NEW p, NEW S, NEW pg, NEW pg2, Linked(pg, p, n, S),
         \A q \in S \ {p} : pg2[q].next = pg[q].next
  PROVE  Linked(pg2, pg[p].next, n - 1, S \ {p})
<1>1. PICK f \in [0 .. n -> PageNumbers] : Leads(f, pg, p, n, S)
  BY DEF Linked
<1>2. /\ f[0] = p /\ f[n] = INVALID_NUMBER
      /\ \A i \in 0 .. n - 1 : f[i] \in S /\ f[i + 1] = pg[f[i]].next
      /\ \A i, j \in 0 .. n - 1 : f[i] = f[j] => i = j
      /\ \A q \in S : \E i \in 0 .. n - 1 : f[i] = q
  BY <1>1 DEF Leads
<1>3. p \in S /\ f[1] = pg[p].next
  <2>1. 0 \in 0 .. n - 1 /\ 0 + 1 = 1
    OBVIOUS
  <2>. QED BY <1>2, <2>1
<1>. DEFINE g == [i \in 0 .. n - 1 |-> f[i + 1]]
<1>4. g \in [0 .. n - 1 -> PageNumbers] /\ g[0] = pg[p].next /\ g[n - 1] = INVALID_NUMBER
  BY <1>2, <1>3
<1>5. ASSUME NEW i \in 0 .. n - 2 PROVE g[i] \in S \ {p} /\ g[i + 1] = pg2[g[i]].next
  <2>1. /\ i + 1 \in 0 .. n - 1 /\ i + 1 # 0 /\ 0 \in 0 .. n - 1
        /\ g[i] = f[i + 1] /\ g[i + 1] = f[i + 1 + 1]
    OBVIOUS
  <2>. HIDE DEF g
  <2>2. f[i + 1] \in S /\ f[i + 1 + 1] = pg[f[i + 1]].next /\ f[i + 1] # p
    BY <1>2, <2>1
  <2>. QED BY <2>1, <2>2
<1>6. ASSUME NEW i \in 0 .. n - 2, NEW j \in 0 .. n - 2, g[i] = g[j] PROVE i = j
  <2>1. /\ i + 1 \in 0 .. n - 1 /\ g[i] = f[i + 1]
        /\ j + 1 \in 0 .. n - 1 /\ g[j] = f[j + 1]
    OBVIOUS
  <2>. HIDE DEF g
  <2>2. i + 1 = j + 1
    BY <1>2, <1>6, <2>1
  <2>. QED BY <2>2
<1>7. ASSUME NEW q \in S \ {p} PROVE \E i \in 0 .. n - 2 : g[i] = q
  <2>1. PICK i \in 0 .. n - 1 : f[i] = q
    BY <1>2
  <2>2. i # 0
    BY <1>2, <2>1
  <2>3. i - 1 \in 0 .. n - 2 /\ i - 1 + 1 = i
    BY <2>2
  <2>4. g[i - 1] = q
    BY <2>1, <2>3
  <2>. QED BY <2>3, <2>4
<1>. HIDE DEF g
<1>8. n - 1 - 1 = n - 2
  OBVIOUS
<1>9. Leads(g, pg2, pg[p].next, n - 1, S \ {p})
  BY <1>4, <1>5, <1>6, <1>7, <1>8 DEF Leads
<1>. QED BY <1>4, <1>9 DEF Linked

(* The walk along it.                                                      *)
LEMMA WalkOfList ==
  ASSUME page \in [Pages -> Page], NEW first \in PageNumbers, NEW n \in Turns,
         NEW S \in SUBSET Pages, Linked(page, first, n, S)
  PROVE  {Walk(first)[m] : m \in 0 .. n - 1} = S /\ Walk(first)[n] = INVALID_NUMBER
<1>1. PICK f \in [0 .. n -> PageNumbers] : Leads(f, page, first, n, S)
  BY DEF Linked
<1>2. /\ f[0] = first /\ f[n] = INVALID_NUMBER
      /\ \A i \in 0 .. n - 1 : f[i] \in S /\ f[i + 1] = page[f[i]].next
      /\ \A q \in S : \E i \in 0 .. n - 1 : f[i] = q
  BY <1>1 DEF Leads
<1>. DEFINE at == Walk(first)
<1>3. /\ at[0] = first
      /\ \A m \in Turns : m + 1 \in Turns => at[m + 1] = StepFrom(page, at[m])
  BY WalkSteps
<1>. HIDE DEF at
<1>4. n \in Nat /\ 0 .. n \in SUBSET Turns
  BY DEF Turns
<1>. DEFINE P == {m \in Nat : m <= n => at[m] = f[m]}
<1>5. 0 \in P
  BY <1>2, <1>3
<1>6. ASSUME NEW m \in P PROVE m + 1 \in P
  <2>. SUFFICES ASSUME m + 1 <= n PROVE at[m + 1] = f[m + 1]
    OBVIOUS
  <2>1. m \in Nat /\ m \in 0 .. n - 1 /\ m \in Turns /\ m + 1 \in Turns /\ at[m] = f[m]
    BY <1>4 DEF Turns
  <2>2. f[m] # INVALID_NUMBER
    BY <1>2, <2>1 DEF Pages, INVALID_NUMBER
  <2>. QED BY <1>2, <1>3, <2>1, <2>2 DEF StepFrom
<1>7. P = Nat
  <2>. HIDE DEF P
  <2>1. P \in SUBSET Nat
    BY DEF P
  <2>. QED BY <1>5, <1>6, <2>1, AllNaturals
<1>8. \A m \in 0 .. n : at[m] = f[m]
  BY <1>4, <1>7
<1>. HIDE DEF P
<1>9. {at[m] : m \in 0 .. n - 1} = S
  BY <1>2, <1>4, <1>8
<1>10. at[n] = INVALID_NUMBER
  BY <1>2, <1>4, <1>8
<1>. QED BY <1>9, <1>10 DEF at

-----------------------------------------------------------------------------
(* The list of used pages, as pages pg have it and as pages pg2 do after a *)
(* call.                                                                   *)

(* Pages in use are numbers above 0, and a page's link is a page number.   *)
LEMMA UsedAreNumbers ==
  ASSUME NEW pg \in [Pages -> Page]
  PROVE  /\ UsedIn(pg) \in SUBSET Pages
         /\ \A p \in UsedIn(pg) : p \in Nat /\ p > 0 /\ p # INVALID_NUMBER
         /\ \A p \in Pages : pg[p].next \in Nat /\ pg[p].next \in PageNumbers
  BY DEF UsedIn, Pages, Page, PageNumbers, INVALID_NUMBER

\* Page p put in front of the others, after page q; taken out from there.
PutFirst(pg, pg2, first, p, exact) ==
  /\ p \in Pages \ UsedIn(pg) /\ UsedIn(pg2) = UsedIn(pg) \cup {p}
  /\ first = INVALID_NUMBER \/ first > p
  /\ first > p => pg2[p].next = first
  /\ exact /\ first = INVALID_NUMBER => pg2[p].next = INVALID_NUMBER
  /\ \A r \in UsedIn(pg) : pg2[r].next = pg[r].next

PutAfter(pg, pg2, q, p) ==
  /\ p \in Pages \ UsedIn(pg) /\ UsedIn(pg2) = UsedIn(pg) \cup {p}
  /\ q \in UsedIn(pg) /\ q < p
  /\ pg[q].next > p \/ pg[q].next = INVALID_NUMBER
  /\ pg2[q].next = p /\ pg2[p].next = pg[q].next
  /\ \A r \in UsedIn(pg) : r # q => pg2[r].next = pg[r].next

TakenFirst(pg, pg2, p) ==
  /\ p \in UsedIn(pg) /\ UsedIn(pg2) = UsedIn(pg) \ {p}
  /\ \A r \in UsedIn(pg2) : pg2[r].next = pg[r].next

TakenAfter(pg, pg2, q, p) ==
  /\ p \in UsedIn(pg) /\ UsedIn(pg2) = UsedIn(pg) \ {p}
  /\ q \in UsedIn(pg) /\ q < p
  /\ pg[q].next = p /\ pg2[q].next = pg[p].next
  /\ \A r \in UsedIn(pg2) : r # q => pg2[r].next = pg[r].next

(* A page put first leaves a list in page order.                           *)
LEMMA UsedFirst ==
  ASSUME NEW pg \in [Pages -> Page], NEW pg2 \in [Pages -> Page],
         NEW first \in PageNumbers, NEW p, NEW exact \in BOOLEAN,
         Listed(pg, first, exact), PutFirst(pg, pg2, first, p, exact)
  PROVE  Listed(pg2, p, exact)
<1>. USE DEF PutFirst
<1>. DEFINE U == UsedIn(pg)
            V == UsedIn(pg2)
            Later(W, v) == \E r \in W : r > v
<1>1. /\ U \in SUBSET Pages /\ \A v \in V : v \in Nat /\ v > 0 /\ v # INVALID_NUMBER
      /\ p \in Nat /\ p > 0 /\ V = U \cup {p}
  BY UsedAreNumbers DEF Pages
<1>2. first \in Nat /\ INVALID_NUMBER = 0 /\ p # INVALID_NUMBER
  BY <1>1 DEF PageNumbers, INVALID_NUMBER
<1>3. \A v \in U \cup {INVALID_NUMBER} :
        exact \/ Later(U, v) => ComesNext(U, v, After(pg, first, v))
  BY DEF Listed
<1>. HIDE DEF U, V
<1>4. ASSUME NEW r \in U
      PROVE  first \in U /\ first <= r /\ p < first /\ p < r
  <2>1. r \in Nat /\ Later(U, 0)
    BY <1>1
  <2>2. ComesNext(U, 0, first)
    BY <1>2, <1>3, <2>1 DEF After
  <2>3. first \in U /\ first <= r
    BY <1>1, <1>2, <2>2 DEF ComesNext
  <2>. QED BY <1>2, <1>1, <2>1, <2>3
<1>5. ASSUME NEW v \in V \cup {INVALID_NUMBER}, exact \/ Later(V, v)
      PROVE  ComesNext(V, v, After(pg2, p, v))
  <2>1. CASE v = INVALID_NUMBER
    <3>1. After(pg2, p, v) = p
      BY <2>1 DEF After
    <3>2. \A r \in V : p <= r
      BY <1>1, <1>4
    <3>. QED BY <1>1, <1>2, <2>1, <3>1, <3>2 DEF ComesNext
  <2>2. CASE v = p
    <3>1. After(pg2, p, v) = pg2[p].next
      BY <1>2, <2>2 DEF After
    <3>2. CASE U = {}
      <4>1. exact
        BY <1>1, <1>5, <2>2, <3>2
      <4>2. first = INVALID_NUMBER
        BY <1>2, <1>3, <3>2, <4>1 DEF ComesNext, After
      <4>3. pg2[p].next = INVALID_NUMBER
        BY <4>1, <4>2
      <4>. QED BY <1>1, <2>2, <3>1, <3>2, <4>3 DEF ComesNext
    <3>3. CASE U # {}
      <4>1. first \in U /\ p < first /\ \A r \in U : first <= r
        BY <1>4, <3>3
      <4>2. pg2[p].next = first
        BY <1>1, <1>2, <4>1
      <4>3. \A r \in V : r > p => r \in U
        BY <1>1
      <4>. QED BY <1>1, <1>2, <2>2, <3>1, <4>1, <4>2, <4>3 DEF ComesNext
    <3>. QED BY <3>2, <3>3
  <2>3. CASE v \in U
    <3>1. p < v /\ v \in Nat /\ v # INVALID_NUMBER
      BY <1>1, <1>4, <2>3
    <3>2. exact \/ Later(U, v)
      BY <1>1, <1>5, <3>1
    <3>3. ComesNext(U, v, pg[v].next)
      BY <1>3, <2>3, <3>1, <3>2 DEF After
    <3>4. After(pg2, p, v) = pg[v].next
      BY <2>3, <3>1 DEF After, U
    <3>. QED BY <1>1, <3>1, <3>3, <3>4 DEF ComesNext
  <2>. QED BY <1>1, <2>1, <2>2, <2>3
<1>. QED BY <1>5 DEF Listed, V

(* So does a page put after page q.                                        *)
LEMMA UsedInside ==
  ASSUME NEW pg \in [Pages -> Page], NEW pg2 \in [Pages -> Page],
         NEW first \in PageNumbers, NEW p, NEW q, NEW exact \in BOOLEAN,
         Listed(pg, first, exact), PutAfter(pg, pg2, q, p)
  PROVE  Listed(pg2, first, exact)
<1>. USE DEF PutAfter
<1>. DEFINE U == UsedIn(pg)
            V == UsedIn(pg2)
            Later(W, v) == \E r \in W : r > v
            s == pg[q].next
<1>1. /\ \A v \in V : v \in Nat /\ v > 0 /\ v # INVALID_NUMBER
      /\ p \in Nat /\ p > 0 /\ V = U \cup {p} /\ q \in U /\ q \in Nat /\ s \in Nat
  BY UsedAreNumbers DEF Pages
<1>2. first \in Nat /\ INVALID_NUMBER = 0 /\ p # INVALID_NUMBER /\ q # INVALID_NUMBER
  BY <1>1 DEF PageNumbers, INVALID_NUMBER
<1>3. \A v \in U \cup {INVALID_NUMBER} :
        exact \/ Later(U, v) => ComesNext(U, v, After(pg, first, v))
  BY DEF Listed
<1>4. s > p \/ s = 0
  BY <1>2
<1>5. pg2[q].next = p /\ pg2[p].next = s /\ \A r \in U : r # q => pg2[r].next = pg[r].next
  OBVIOUS
<1>6. After(pg, first, q) = s
  BY <1>2 DEF After
<1>. HIDE DEF U, V, s
<1>7. ASSUME NEW r \in U, r > q PROVE s \in U /\ s > p /\ s <= r
  <2>1. ComesNext(U, q, s)
    BY <1>1, <1>3, <1>6, <1>7
  <2>. QED BY <1>1, <1>2, <1>4, <1>7, <2>1 DEF ComesNext
<1>8. ASSUME NEW v \in V \cup {INVALID_NUMBER}, exact \/ Later(V, v)
      PROVE  ComesNext(V, v, After(pg2, first, v))
  <2>1. CASE v = q
    <3>1. After(pg2, first, v) = p
      BY <1>2, <1>5, <2>1 DEF After
    <3>2. \A r \in U : r > q => p <= r
      BY <1>1, <1>7
    <3>. QED BY <1>1, <1>2, <2>1, <3>1, <3>2 DEF ComesNext
  <2>2. CASE v = p
    <3>1. After(pg2, first, v) = s
      BY <1>2, <1>5, <2>2 DEF After
    <3>2. CASE \E r \in U : r > q
      <4>1. s \in U /\ s > p
        BY <1>7, <3>2
      <4>2. \A r \in V : r > p => s <= r
        BY <1>1, <1>7
      <4>. QED BY <1>1, <1>2, <2>2, <3>1, <4>1, <4>2 DEF ComesNext
    <3>3. CASE ~\E r \in U : r > q
      <4>1. ~Later(V, p)
        BY <1>1, <3>3
      <4>2. exact
        BY <1>8, <2>2, <4>1
      <4>3. ComesNext(U, q, s)
        BY <1>1, <1>3, <1>6, <4>2
      <4>4. s = INVALID_NUMBER
        BY <3>3, <4>3 DEF ComesNext
      <4>. QED BY <2>2, <3>1, <4>1, <4>4 DEF ComesNext
    <3>. QED BY <3>2, <3>3
  <2>3. CASE v # q /\ v # p
    <3>. DEFINE n == After(pg2, first, v)
    <3>1. n = After(pg, first, v) /\ v \in U \cup {INVALID_NUMBER} /\ v \in Nat
      BY <1>1, <1>2, <1>5, <2>3 DEF After
    <3>. HIDE DEF n
    <3>2. CASE v < q
      <4>1. ComesNext(U, v, n)
        BY <1>1, <1>3, <3>1, <3>2
      <4>2. n # INVALID_NUMBER /\ n <= q /\ n \in U /\ n > v
        BY <1>1, <3>2, <4>1 DEF ComesNext
      <4>3. n \in Nat /\ n < p
        BY <1>1, <4>2
      <4>4. \A r \in V : r > v => n <= r
        BY <1>1, <4>1, <4>3 DEF ComesNext
      <4>. QED BY <1>1, <4>2, <4>4 DEF ComesNext, n
    <3>3. CASE v > q
      <4>1. v \in U /\ v > p
        <5>1. v \in U
          BY <1>1, <1>2, <3>1, <3>3
        <5>2. s > p /\ s <= v
          BY <1>7, <3>3, <5>1
        <5>. QED BY <1>1, <3>1, <5>1, <5>2
      <4>2. exact \/ Later(U, v)
        BY <1>1, <1>8, <3>1, <4>1
      <4>3. ComesNext(U, v, n)
        BY <1>3, <3>1, <4>2
      <4>. QED BY <1>1, <3>1, <4>1, <4>3 DEF ComesNext, n
    <3>. QED BY <1>1, <2>3, <3>1, <3>2, <3>3
  <2>. QED BY <2>1, <2>2, <2>3
<1>. QED BY <1>8 DEF Listed, V

(* The list without its first page.                                        *)
LEMMA UsedFirstGone ==
  ASSUME NEW pg \in [Pages -> Page], NEW pg2 \in [Pages -> Page],
         NEW exact \in BOOLEAN, NEW p,
         Listed(pg, p, exact), TakenFirst(pg, pg2, p)
  PROVE  Listed(pg2, pg[p].next, exact)
<1>. USE DEF TakenFirst
<1>. DEFINE U == UsedIn(pg)
            V == UsedIn(pg2)
            Later(W, v) == \E r \in W : r > v
            s == pg[p].next
<1>1. /\ \A v \in U : v \in Nat /\ v > 0 /\ v # INVALID_NUMBER
      /\ p \in Nat /\ p > 0 /\ V = U \ {p} /\ p \in U /\ s \in Nat
  BY UsedAreNumbers DEF Pages
<1>2. INVALID_NUMBER = 0 /\ p # INVALID_NUMBER
  BY <1>1 DEF INVALID_NUMBER
<1>3. \A v \in U \cup {INVALID_NUMBER} :
        exact \/ Later(U, v) => ComesNext(U, v, After(pg, p, v))
  BY DEF Listed
<1>4. \A r \in V : pg2[r].next = pg[r].next
  OBVIOUS
<1>5. After(pg, p, p) = s /\ After(pg, p, INVALID_NUMBER) = p
      /\ After(pg2, s, INVALID_NUMBER) = s
  BY <1>2 DEF After
<1>. HIDE DEF U, V, s
<1>6. ASSUME NEW r \in V PROVE r > p /\ r \in U
  <2>1. ComesNext(U, INVALID_NUMBER, p)
    BY <1>1, <1>2, <1>3, <1>5
  <2>2. p <= r /\ p # r /\ r \in U /\ r \in Nat
    BY <1>1, <1>2, <2>1 DEF ComesNext
  <2>. QED BY <1>1, <2>2
<1>7. ASSUME NEW v \in V \cup {INVALID_NUMBER}, exact \/ Later(V, v)
      PROVE  ComesNext(V, v, After(pg2, s, v))
  <2>1. CASE v = INVALID_NUMBER
    <3>1. exact \/ Later(U, p)
      BY <1>6, <1>7
    <3>2. ComesNext(U, p, s)
      BY <1>1, <1>3, <1>5, <3>1
    <3>3. s = INVALID_NUMBER \/ (s \in V /\ s > 0)
      BY <1>1, <3>2 DEF ComesNext
    <3>4. \A r \in V : s # INVALID_NUMBER /\ s <= r
      BY <1>1, <1>6, <3>2 DEF ComesNext
    <3>. QED BY <1>2, <1>5, <2>1, <3>3, <3>4 DEF ComesNext
  <2>2. CASE v \in V
    <3>1. v \in U /\ v > p /\ v \in Nat /\ v # INVALID_NUMBER
      BY <1>1, <1>6, <2>2
    <3>2. After(pg2, s, v) = pg[v].next /\ After(pg, p, v) = pg[v].next
      BY <1>4, <2>2, <3>1 DEF After
    <3>3. ComesNext(U, v, pg[v].next)
      BY <1>1, <1>3, <1>7, <3>1, <3>2
    <3>4. pg[v].next # p
      BY <1>1, <1>2, <3>1, <3>3 DEF ComesNext
    <3>. QED BY <1>1, <3>2, <3>3, <3>4 DEF ComesNext
  <2>. QED BY <2>1, <2>2
<1>. QED BY <1>7 DEF Listed, V, s

(* The list without a page that follows page q.                            *)
LEMMA UsedInsideGone ==
  ASSUME NEW pg \in [Pages -> Page], NEW pg2 \in [Pages -> Page],
         NEW first \in PageNumbers, NEW exact \in BOOLEAN, NEW p, NEW q,
         Listed(pg, first, exact), first # p, TakenAfter(pg, pg2, q, p)
  PROVE  Listed(pg2, first, exact)
<1>. USE DEF TakenAfter
<1>. DEFINE U == UsedIn(pg)
            V == UsedIn(pg2)
            Later(W, v) == \E r \in W : r > v
            s == pg[p].next
<1>1. /\ \A v \in U : v \in Nat /\ v > 0 /\ v # INVALID_NUMBER
      /\ p \in Nat /\ V = U \ {p} /\ p \in U /\ q \in U /\ q \in Nat /\ s \in Nat
  BY UsedAreNumbers DEF Pages
<1>2. /\ INVALID_NUMBER = 0 /\ p # INVALID_NUMBER /\ q # INVALID_NUMBER
      /\ first \in Nat
  BY <1>1 DEF INVALID_NUMBER, PageNumbers
<1>3. \A v \in U \cup {INVALID_NUMBER} :
        exact \/ Later(U, v) => ComesNext(U, v, After(pg, first, v))
  BY DEF Listed
<1>4. pg2[q].next = s /\ \A r \in V : r # q => pg2[r].next = pg[r].next
  OBVIOUS
<1>5. After(pg, first, p) = s /\ After(pg, first, q) = p
  BY <1>2 DEF After
<1>. HIDE DEF U, V, s
<1>6. ComesNext(U, q, p)
  BY <1>1, <1>3, <1>5
<1>7. ASSUME NEW v \in V \cup {INVALID_NUMBER}, exact \/ Later(V, v)
      PROVE  ComesNext(V, v, After(pg2, first, v))
  <2>1. CASE v = q
    <3>1. After(pg2, first, v) = s
      BY <1>2, <1>4, <2>1 DEF After
    <3>2. \A r \in V : r > q => r > p
      BY <1>1, <1>6 DEF ComesNext
    <3>3. exact \/ Later(U, p)
      BY <1>1, <1>7, <2>1, <3>2
    <3>4. ComesNext(U, p, s)
      BY <1>1, <1>3, <1>5, <3>3
    <3>5. s = INVALID_NUMBER \/ (s \in V /\ s > q)
      BY <1>1, <3>4 DEF ComesNext
    <3>6. \A r \in V : r > q => s # INVALID_NUMBER /\ s <= r
      BY <1>1, <3>2, <3>4 DEF ComesNext
    <3>. QED BY <2>1, <3>1, <3>5, <3>6 DEF ComesNext
  <2>2. CASE v # q
    <3>. DEFINE n == After(pg2, first, v)
    <3>1. n = After(pg, first, v) /\ v \in U \cup {INVALID_NUMBER} /\ v \in Nat /\ v # p
      BY <1>1, <1>2, <1>4, <2>2 DEF After
    <3>. HIDE DEF n
    <3>2. exact \/ Later(U, v)
      BY <1>1, <1>7
    <3>3. ComesNext(U, v, n)
      BY <1>3, <3>1, <3>2
    <3>4. n # p
      <4>. SUFFICES ASSUME n = p PROVE FALSE
        OBVIOUS
      <4>1. CASE v < q
        <5>1. p <= q
          BY <1>1, <3>3, <4>1 DEF ComesNext
        <5>. QED BY <1>1, <5>1
      <4>2. CASE q < v
        <5>1. v \in U /\ v < p
          BY <1>1, <1>2, <3>1, <3>3, <4>2 DEF ComesNext
        <5>2. p <= v
          BY <1>6, <4>2, <5>1 DEF ComesNext
        <5>. QED BY <1>1, <5>1, <5>2
      <4>. QED BY <1>1, <2>2, <3>1, <4>1, <4>2
    <3>. QED BY <1>1, <3>3, <3>4 DEF ComesNext, n
  <2>. QED BY <2>1, <2>2
<1>. QED BY <1>7 DEF Listed, V

-----------------------------------------------------------------------------
(* The loops over the pages of a file.                                     *)

(* What the loops of allocatePage and deletePage read: from page to page   *)
(* along the links.                                                        *)
LEMMA VisitedSteps ==
  ASSUME FileInv
  PROVE  /\ Visited \in [Turns -> PageNumbers]
         /\ Visited[0] = header.first_used_page
         /\ \A n \in Turns : n + 1 \in Turns =>
              Visited[n + 1] = StepFrom(page, Visited[n])
         /\ \A v \in Pages : Readable(v) <=> v \in UsedIn(page)
         /\ header.first_used_page \in PageNumbers
<1>1. page \in [Pages -> Page] /\ header.first_used_page \in PageNumbers
  BY DEF FileInv, Sound, Header
<1>2. \A v \in Pages : Readable(v) <=> v \in UsedIn(page)
  BY DEF FileInv, Sound, Readable, Used, UsedIn
<1>. QED BY <1>1, <1>2, WalkSteps DEF Visited

(* A loop that has reason to end ends in one of the three ways.            *)
LEMMA LoopEnds ==
  ASSUME NEW stop, NEW n \in Turns,
         \/ Visited[n] = INVALID_NUMBER
         \/ ~Readable(Visited[n])
         \/ Visited[n] \in stop
  PROVE  \E m \in Turns : BreaksAt(stop, m) \/ ThrowsAt(stop, m) \/ FindsEnd(stop, m)
<1>. DEFINE Reason(m) == \/ Visited[m] = INVALID_NUMBER
                         \/ ~Readable(Visited[m])
                         \/ Visited[m] \in stop
            S == {m \in Turns : Reason(m)}
<1>1. S \in SUBSET Nat /\ S # {} /\ \A m \in Turns : m \in Nat /\ m <= MaxPages
  BY DEF Turns
<1>2. PICK m \in S : \A k \in S : m <= k
  BY <1>1, LeastNatural
<1>3. ASSUME NEW k \in 0 .. m - 1 PROVE ~Reason(k)
  <2>1. k \in Turns /\ ~(m <= k)
    BY <1>1, <1>2 DEF Turns
  <2>2. k \notin S
    BY <1>2, <2>1
  <2>. QED BY <2>1, <2>2
<1>4. m \in Turns /\ m \in Nat /\ Reason(m) /\ \A k \in 0 .. m : k \in 0 .. m - 1 \/ k = m
  BY <1>1, <1>2
<1>. HIDE DEF S
<1>5. CASE Visited[m] = INVALID_NUMBER
  BY <1>3, <1>4, <1>5 DEF FindsEnd
<1>6. CASE Visited[m] # INVALID_NUMBER /\ ~Readable(Visited[m])
  BY <1>3, <1>4, <1>6 DEF ThrowsAt
<1>7. CASE Visited[m] # INVALID_NUMBER /\ Readable(Visited[m])
  BY <1>3, <1>4, <1>7 DEF BreaksAt
<1>. QED BY <1>5, <1>6, <1>7

(* The loop of deletePage finds the page before a page in use, even in a   *)
(* file whose list goes wrong after the last one.                          *)
LEMMA PredecessorIsFound ==
  ASSUME FileInv, NEW p \in UsedIn(page), p # header.first_used_page
  PROVE  LET stop == {q \in Pages : page[q].next = p}
         IN  /\ \E n \in Turns : BreaksAt(stop, n)
             /\ \A n \in Turns : ~ThrowsAt(stop, n) /\ ~FindsEnd(stop, n)
             /\ \A n \in Turns : BreaksAt(stop, n) =>
                  /\ Visited[n] \in UsedIn(page) /\ Visited[n] < p
                  /\ page[Visited[n]].next = p
<1>. DEFINE stop == {q \in Pages : page[q].next = p}
            U == UsedIn(page)
            first == header.first_used_page
            Ahead(n) == \A m \in 0 .. n - 1 : Visited[m] \notin stop
            P == {n \in Nat : n \in Turns /\ Ahead(n) =>
                     Visited[n] \in U /\ Visited[n] < p /\ n + 1 <= Visited[n]}
<1>1. /\ Visited[0] = first /\ first \in PageNumbers
      /\ \A n \in Turns : n + 1 \in Turns => Visited[n + 1] = StepFrom(page, Visited[n])
      /\ \A v \in Pages : Readable(v) <=> v \in U
  BY VisitedSteps
<1>2. /\ U \in SUBSET Pages /\ \A v \in U : v \in Nat /\ v > 0 /\ v # INVALID_NUMBER
      /\ p \in U /\ \A v \in U : v <= MaxPages /\ page[v].next \in Nat
      /\ INVALID_NUMBER = 0
  BY UsedAreNumbers DEF FileInv, Sound, Pages, INVALID_NUMBER
<1>3. \A v \in U \cup {INVALID_NUMBER} :
        v < p => ComesNext(U, v, After(page, first, v))
  BY <1>2 DEF FileInv, Sound, Listed
<1>. HIDE DEF U
<1>4. 0 \in P
  <2>1. ComesNext(U, INVALID_NUMBER, first)
    BY <1>2, <1>3 DEF After
  <2>2. first \in U /\ first <= p
    BY <1>2, <2>1 DEF ComesNext
  <2>3. first < p /\ 0 + 1 <= first
    BY <1>2, <2>2
  <2>. QED BY <1>1, <2>2, <2>3
<1>5. ASSUME NEW n \in P PROVE n + 1 \in P
  <2>. SUFFICES ASSUME n + 1 \in Turns, Ahead(n + 1)
                PROVE  /\ Visited[n + 1] \in U /\ Visited[n + 1] < p
                       /\ n + 1 + 1 <= Visited[n + 1]
    OBVIOUS
  <2>. DEFINE v == Visited[n]
              w == page[v].next
  <2>1. n \in Turns /\ Ahead(n) /\ n \in 0 .. n + 1 - 1 /\ n \in Nat
    BY DEF Turns
  <2>2. v \in U /\ v < p /\ n + 1 <= v /\ v \notin stop
    BY <2>1
  <2>3. Visited[n + 1] = w /\ w # p
    BY <1>1, <1>2, <2>1, <2>2 DEF StepFrom
  <2>4. ComesNext(U, v, w)
    BY <1>2, <1>3, <2>2 DEF After
  <2>. HIDE DEF v, w
  <2>5. w \in U /\ w > v /\ w <= p
    BY <1>2, <2>2, <2>4 DEF ComesNext
  <2>6. w < p /\ n + 1 + 1 <= w
    BY <1>2, <2>1, <2>2, <2>3, <2>5
  <2>. QED BY <2>3, <2>5, <2>6
<1>6. P = Nat
  <2>. HIDE DEF P
  <2>1. P \in SUBSET Nat
    BY DEF P
  <2>. QED BY <1>4, <1>5, <2>1, AllNaturals
<1>7. ASSUME NEW n \in Turns, Ahead(n)
      PROVE  Visited[n] \in U /\ Visited[n] < p /\ n + 1 <= Visited[n]
             /\ Visited[n] # INVALID_NUMBER /\ Readable(Visited[n])
  <2>1. n \in P
    BY <1>6 DEF Turns
  <2>2. Visited[n] \in U /\ Visited[n] < p /\ n + 1 <= Visited[n]
    BY <1>7, <2>1
  <2>. QED BY <1>1, <1>2, <2>2
<1>8. ASSUME NEW n \in Turns PROVE ~ThrowsAt(stop, n) /\ ~FindsEnd(stop, n)
  <2>. SUFFICES ASSUME ThrowsAt(stop, n) \/ FindsEnd(stop, n) PROVE FALSE
    OBVIOUS
  <2>1. Ahead(n)
    BY DEF ThrowsAt, FindsEnd
  <2>2. Visited[n] # INVALID_NUMBER /\ Readable(Visited[n])
    BY <1>7, <2>1
  <2>. QED BY <2>2 DEF ThrowsAt, FindsEnd
<1>9. \E n \in Turns : BreaksAt(stop, n)
  <2>1. \E n \in Turns : Visited[n] \in stop
    <3>. SUFFICES ASSUME \A n \in Turns : Visited[n] \notin stop PROVE FALSE
      OBVIOUS
    <3>1. MaxPages \in Turns /\ Ahead(MaxPages)
      BY DEF Turns
    <3>2. Visited[MaxPages] \in U /\ MaxPages + 1 <= Visited[MaxPages]
      BY <1>7, <3>1
    <3>3. Visited[MaxPages] <= MaxPages /\ Visited[MaxPages] \in Nat
      BY <1>2, <3>2
    <3>. QED BY <3>2, <3>3
  <2>. HIDE DEF stop
  <2>2. \E n \in Turns : BreaksAt(stop, n) \/ ThrowsAt(stop, n) \/ FindsEnd(stop, n)
    BY <2>1, LoopEnds
  <2>. QED BY <1>8, <2>2
<1>10. ASSUME NEW n \in Turns, BreaksAt(stop, n)
       PROVE  Visited[n] \in U /\ Visited[n] < p /\ page[Visited[n]].next = p
  <2>1. Ahead(n) /\ Visited[n] \in stop
    BY <1>10 DEF BreaksAt
  <2>. QED BY <1>7, <2>1
<1>. QED BY <1>8, <1>9, <1>10 DEF U

(* In a file that is in order, the loop of allocatePage meets pages in use *)
(* only, and ends.                                                         *)
LEMMA OrderedWalk ==
  ASSUME FileInv, ~disordered, NEW stop
  PROVE  /\ \A n \in Turns : ~ThrowsAt(stop, n)
         /\ \E n \in Turns : BreaksAt(stop, n) \/ FindsEnd(stop, n)
<1>. DEFINE U == UsedIn(page)
            first == header.first_used_page
            P == {n \in Nat : n \in Turns =>
                     \/ Visited[n] = INVALID_NUMBER
                     \/ Visited[n] \in U /\ n + 1 <= Visited[n]}
<1>1. /\ Visited[0] = first /\ first \in PageNumbers
      /\ \A n \in Turns : n + 1 \in Turns => Visited[n + 1] = StepFrom(page, Visited[n])
      /\ \A v \in Pages : Readable(v) <=> v \in U
  BY VisitedSteps
<1>2. /\ U \in SUBSET Pages /\ \A v \in U : v \in Nat /\ v > 0 /\ v # INVALID_NUMBER
      /\ \A v \in U : v <= MaxPages /\ page[v].next \in Nat
      /\ INVALID_NUMBER = 0
  BY UsedAreNumbers DEF FileInv, Sound, Pages, INVALID_NUMBER
<1>3. \A v \in U \cup {INVALID_NUMBER} : ComesNext(U, v, After(page, first, v))
  BY DEF FileInv, Sound, Listed
<1>. HIDE DEF U
<1>4. 0 \in P
  <2>1. ComesNext(U, INVALID_NUMBER, first)
    BY <1>3 DEF After
  <2>2. first = INVALID_NUMBER \/ (first \in U /\ 0 + 1 <= first)
    BY <1>2, <2>1 DEF ComesNext
  <2>. QED BY <1>1, <2>2
<1>5. ASSUME NEW n \in P PROVE n + 1 \in P
  <2>. SUFFICES ASSUME n + 1 \in Turns
                PROVE  \/ Visited[n + 1] = INVALID_NUMBER
                       \/ Visited[n + 1] \in U /\ n + 1 + 1 <= Visited[n + 1]
    OBVIOUS
  <2>. DEFINE v == Visited[n]
              w == page[v].next
  <2>1. n \in Turns /\ n \in Nat
    BY DEF Turns
  <2>2. v = INVALID_NUMBER \/ (v \in U /\ n + 1 <= v)
    BY <2>1
  <2>3. CASE v = INVALID_NUMBER
    BY <1>1, <2>1, <2>3 DEF StepFrom
  <2>4. CASE v \in U /\ n + 1 <= v
    <3>1. Visited[n + 1] = w
      BY <1>1, <1>2, <2>1, <2>4 DEF StepFrom
    <3>2. ComesNext(U, v, w)
      BY <1>2, <1>3, <2>4 DEF After
    <3>. HIDE DEF v, w
    <3>3. w = INVALID_NUMBER \/ (w \in U /\ n + 1 + 1 <= w)
      BY <1>2, <2>1, <2>4, <3>2 DEF ComesNext
    <3>. QED BY <3>1, <3>3
  <2>. QED BY <2>2, <2>3, <2>4
<1>6. P = Nat
  <2>. HIDE DEF P
  <2>1. P \in SUBSET Nat
    BY DEF P
  <2>. QED BY <1>4, <1>5, <2>1, AllNaturals
<1>7. ASSUME NEW n \in Turns
      PROVE  Visited[n] = INVALID_NUMBER \/ (Visited[n] \in U /\ n + 1 <= Visited[n])
  <2>1. n \in P
    BY <1>6 DEF Turns
  <2>. QED BY <2>1
<1>8. ASSUME NEW n \in Turns PROVE ~ThrowsAt(stop, n)
  BY <1>1, <1>2, <1>7 DEF ThrowsAt
<1>9. Visited[MaxPages] = INVALID_NUMBER /\ MaxPages \in Turns
  <2>1. MaxPages \in Turns
    BY DEF Turns
  <2>. QED BY <1>2, <1>7, <2>1
<1>10. \E n \in Turns : BreaksAt(stop, n) \/ ThrowsAt(stop, n) \/ FindsEnd(stop, n)
  BY <1>9, LoopEnds
<1>. QED BY <1>8, <1>10

-----------------------------------------------------------------------------
(* What a call does to the contents: a step of FileContents, or nothing.   *)

ContentIn(pg) == [p \in Pages |-> IF p \in UsedIn(pg) THEN pg[p].data ELSE Gone]

FileStep(c, e) ==
  \/ e = c
  \/ \E p \in Pages :
       \/ c[p] = Gone /\ e = [c EXCEPT ![p] = Empty]
       \/ c[p] # Gone /\ e = [c EXCEPT ![p] = Gone]
       \/ \E d \in Data : c[p] # Gone /\ e = [c EXCEPT ![p] = d]

(* A step that changes one page's use or content is a step of              *)
(* FileContents.                                                           *)
LEMMA ContentStep ==
  ASSUME NEW pg \in [Pages -> Page], NEW pg2 \in [Pages -> Page], NEW p \in Pages,
         \A r \in Pages : r # p => (r \in UsedIn(pg2) <=> r \in UsedIn(pg))
                                   /\ pg2[r].data = pg[r].data,
         \/ p \notin UsedIn(pg) /\ p \in UsedIn(pg2) /\ pg2[p].data = Empty
         \/ p \in UsedIn(pg)
  PROVE  FileStep(ContentIn(pg), ContentIn(pg2))
<1>. DEFINE c == ContentIn(pg)
            e == ContentIn(pg2)
<1>1. /\ DOMAIN c = Pages /\ DOMAIN e = Pages
      /\ c = [r \in Pages |-> c[r]] /\ e = [r \in Pages |-> e[r]]
      /\ \A r \in Pages : /\ c[r] = IF r \in UsedIn(pg) THEN pg[r].data ELSE Gone
                          /\ e[r] = IF r \in UsedIn(pg2) THEN pg2[r].data ELSE Gone
                          /\ pg[r].data \in Data /\ pg2[r].data \in Data
  BY DEF ContentIn, Page
<1>. HIDE DEF c, e
<1>2. \A r \in Pages : r # p => e[r] = c[r]
  BY <1>1
<1>3. e = [c EXCEPT ![p] = e[p]]
  BY <1>1, <1>2
<1>4. ASSUME p \notin UsedIn(pg) /\ p \in UsedIn(pg2) /\ pg2[p].data = Empty
      PROVE  FileStep(c, e)
  <2>1. c[p] = Gone /\ e[p] = Empty
    BY <1>1, <1>4
  <2>. QED BY <1>3, <2>1 DEF FileStep
<1>5. ASSUME p \in UsedIn(pg) PROVE FileStep(c, e)
  <2>1. c[p] # Gone
    BY <1>1, <1>5
  <2>2. e[p] = Gone \/ e[p] \in Data
    BY <1>1
  <2>. QED BY <1>3, <2>1, <2>2 DEF FileStep
<1>6. FileStep(c, e)
  BY <1>4, <1>5
<1>. QED BY <1>6 DEF c, e

-----------------------------------------------------------------------------
(* allocatePage.                                                           *)

(* The page allocatePage takes is the first of the free list.              *)
LEMMA FirstFree ==
  ASSUME FileInv, header.num_free_pages > 0
  PROVE  LET p == header.first_free_page
         IN  /\ p \in Pages /\ p \in FreeIn(header, page) /\ p \notin UsedIn(page)
             /\ header.num_free_pages = 1 => page[p].next = INVALID_NUMBER
<1>. DEFINE p == header.first_free_page
            n == header.num_free_pages
            F == FreeIn(header, page)
<1>1. n \in Nat /\ n > 0 /\ Linked(page, p, n, F)
  BY DEF FileInv, Sound, Header
<1>2. p \in F /\ (n = 1 => page[p].next = INVALID_NUMBER)
  <2>. HIDE DEF n, F, p
  <2>. QED BY <1>1, ListFirst
<1>. QED BY <1>2 DEF FreeIn

(* A free page is reused: what its place in the list of used pages has no  *)
(* part in.                                                                *)
Reuses(p, h2, pg2) ==
  /\ p = header.first_free_page
  /\ h2 \in Header /\ pg2 \in [Pages -> Page]
  /\ h2.num_pages = header.num_pages
  /\ h2.first_free_page = page[p].next
  /\ h2.num_free_pages = header.num_free_pages - 1
  /\ pg2[p].current = p /\ pg2[p].data = page[p].data
  /\ \A r \in Pages \ {p} : /\ pg2[r].current = page[r].current
                            /\ pg2[r].data = page[r].data
  /\ \A r \in FreeIn(header, page) \ {p} : pg2[r].next = page[r].next

(* Taking it leaves the free list the rest, once the used list has been    *)
(* mended.                                                                 *)
LEMMA Reused ==
  ASSUME FileInv, header.num_free_pages > 0,
         NEW p, NEW h2, NEW pg2, NEW exact \in BOOLEAN, Reuses(p, h2, pg2),
         Listed(pg2, h2.first_used_page, exact)
  PROVE  Sound(h2, pg2, exact) /\ FileStep(ContentIn(page), ContentIn(pg2))
<1>. USE DEF Reuses
<1>. DEFINE F == FreeIn(header, page)
            n == header.num_free_pages
<1>1. p \in Pages /\ p \in F /\ p \notin UsedIn(page) /\ p < header.num_pages
      /\ p # INVALID_NUMBER /\ page[p].data = Empty
  BY FirstFree DEF FileInv, Sound, FreeIn, Pages, INVALID_NUMBER
<1>2. UsedIn(pg2) = UsedIn(page) \cup {p}
  BY <1>1 DEF UsedIn
<1>3. FreeIn(h2, pg2) = F \ {p}
  BY <1>2 DEF FreeIn
<1>4. h2.num_free_pages = Cardinality(FreeIn(h2, pg2))
  <2>1. IsFiniteSet(F)
    BY PagesAreFinite DEF FreeIn
  <2>2. Cardinality(F \ {p}) = Cardinality(F) - 1
    BY <1>1, <2>1, FS_RemoveElement
  <2>. QED BY <1>3, <2>2 DEF FileInv, Sound
<1>5. Linked(pg2, h2.first_free_page, h2.num_free_pages, FreeIn(h2, pg2))
  <2>1. n \in Nat /\ n > 0 /\ Linked(page, p, n, F)
    BY DEF FileInv, Sound, Header
  <2>2. \A r \in F \ {p} : pg2[r].next = page[r].next
    OBVIOUS
  <2>3. Linked(pg2, page[p].next, n - 1, F \ {p})
    <3>. HIDE DEF n, F
    <3>. QED BY <2>1, <2>2, ListPop
  <2>. QED BY <1>3, <2>3
<1>6. \A r \in UsedIn(pg2) : r < h2.num_pages
  BY <1>1, <1>2 DEF FileInv, Sound
<1>7. \A r \in Pages : r \notin UsedIn(pg2) => pg2[r].data = Empty
  BY <1>1, <1>2 DEF FileInv, Sound
<1>8. FileStep(ContentIn(page), ContentIn(pg2))
  <2>1. page \in [Pages -> Page]
    BY DEF FileInv, Sound
  <2>. QED BY <1>1, <1>2, <2>1, ContentStep
<1>. QED BY <1>4, <1>5, <1>6, <1>7, <1>8 DEF Sound

(* The case in which disordered says that the list of used pages is broken.*)
LEMMA ReuseAsHeadKeeps ==
  ASSUME FileInv, header.num_free_pages > 0, ReuseAsHead,
         NEW exact \in BOOLEAN, exact => ~disordered /\ ~EmptiedList
  PROVE  Sound(header', page', exact) /\ FileStep(ContentIn(page), ContentIn(page'))
<1>. DEFINE p == header.first_free_page
            first == header.first_used_page
<1>1. /\ p \in Pages /\ p \in FreeIn(header, page) /\ p \notin UsedIn(page)
      /\ header.num_free_pages = 1 => page[p].next = INVALID_NUMBER
  BY FirstFree
<1>2. /\ page \in [Pages -> Page] /\ header \in Header /\ first \in PageNumbers
      /\ header.num_free_pages \in Nat /\ header.num_free_pages <= MaxPages
      /\ first \in Nat /\ p \in Nat /\ p > 0 /\ INVALID_NUMBER = 0 /\ p \in PageNumbers
      /\ page[p] \in Page /\ page[p].next \in PageNumbers /\ disordered \in BOOLEAN
      /\ MaxPages \in Nat
  BY <1>1 DEF FileInv, Sound, Header, Page, Pages, PageNumbers, INVALID_NUMBER
<1>3. Listed(page, first, ~disordered)
  BY DEF FileInv, Sound
<1>4. exact /\ first = INVALID_NUMBER => header.num_free_pages = 1
  BY <1>2 DEF EmptiedList
<1>5. Listed(page, first, exact)
  BY <1>3, <1>4 DEF Listed
<1>. DEFINE new == [current |-> p, data |-> page[p].data,
                    next |-> IF first > p THEN first ELSE page[p].next]
<1>6. /\ first = 0 \/ first > p
      /\ page' = [page EXCEPT ![p] = new]
      /\ header' = [header EXCEPT !.first_used_page = p,
                                  !.first_free_page = page[p].next,
                                  !.num_free_pages = header.num_free_pages - 1]
  BY <1>1, <1>2 DEF ReuseAsHead
<1>7. /\ header' \in Header /\ header'.num_pages = header.num_pages
      /\ header'.first_free_page = page[p].next /\ header'.first_used_page = p
      /\ header'.num_free_pages = header.num_free_pages - 1
  <2>1. header.num_free_pages - 1 \in 0 .. MaxPages
    BY <1>2
  <2>. HIDE DEF p
  <2>. QED BY <1>2, <1>6, <2>1 DEF Header
<1>8. new \in Page /\ new.current = p /\ new.data = page[p].data
      /\ new.next = IF first > p THEN first ELSE page[p].next
  BY <1>2 DEF Page
<1>. HIDE DEF new
<1>9. /\ page' \in [Pages -> Page]
      /\ page'[p] = new /\ \A r \in Pages : r # p => page'[r] = page[r]
  BY <1>1, <1>2, <1>6, <1>8
<1>10. UsedIn(page') = UsedIn(page) \cup {p}
  BY <1>1, <1>2, <1>8, <1>9 DEF UsedIn
<1>11. UsedIn(page) \in SUBSET Pages
  BY DEF UsedIn
<1>12. /\ first > p => page'[p].next = first
       /\ exact /\ first = INVALID_NUMBER => page'[p].next = INVALID_NUMBER
       /\ \A r \in UsedIn(page) : page'[r].next = page[r].next
  BY <1>1, <1>2, <1>4, <1>8, <1>9, <1>11
<1>13. Listed(page', p, exact)
  <2>1. /\ page \in [Pages -> Page] /\ page' \in [Pages -> Page]
        /\ first \in PageNumbers
    BY <1>2, <1>9
  <2>2. PutFirst(page, page', first, p, exact)
    BY <1>1, <1>2, <1>6, <1>10, <1>12 DEF PutFirst
  <2>. HIDE DEF first, p
  <2>. QED BY <2>1, <2>2, <1>5, UsedFirst
<1>14. \A r \in FreeIn(header, page) : r \in Pages
  BY DEF FreeIn
<1>15. Reuses(p, header', page')
  BY <1>7, <1>8, <1>9, <1>14 DEF Reuses
<1>16. Listed(page', header'.first_used_page, exact)
  BY <1>7, <1>13
<1>. HIDE DEF p
<1>. QED BY <1>15, <1>16, Reused

(* The page at which a loop breaks.                                        *)
LEMMA BreakFound ==
  ASSUME FileInv, NEW stop, NEW n \in Turns, BreaksAt(stop, n)
  PROVE  /\ Visited[n] \in UsedIn(page) /\ Visited[n] \in stop
         /\ \/ Visited[n] = header.first_used_page
            \/ \E r \in UsedIn(page) : r \notin stop /\ Visited[n] = page[r].next
<1>1. /\ Visited[0] = header.first_used_page
      /\ \A m \in Turns : m + 1 \in Turns => Visited[m + 1] = StepFrom(page, Visited[m])
      /\ \A v \in Pages : Readable(v) <=> v \in UsedIn(page)
      /\ \A m \in Turns : Visited[m] \in PageNumbers
  BY VisitedSteps
<1>2. \A v \in PageNumbers : v # INVALID_NUMBER => v \in Pages
  BY DEF PageNumbers, Pages, INVALID_NUMBER
<1>3. ASSUME NEW m \in 0 .. n PROVE m \in Turns /\ Visited[m] \in UsedIn(page)
  <2>1. m \in Turns
    BY DEF Turns
  <2>2. Visited[m] # INVALID_NUMBER /\ Readable(Visited[m])
    BY DEF BreaksAt
  <2>. QED BY <1>1, <1>2, <2>1, <2>2
<1>4. n \in Nat /\ n \in 0 .. n
  BY DEF Turns
<1>5. CASE n = 0
  BY <1>1, <1>3, <1>4, <1>5 DEF BreaksAt
<1>6. CASE n # 0
  <2>. DEFINE r == Visited[n - 1]
  <2>1. n - 1 \in 0 .. n /\ n - 1 \in 0 .. n - 1 /\ n - 1 + 1 = n
    BY <1>4, <1>6
  <2>2. n - 1 \in Turns /\ r \in UsedIn(page) /\ r # INVALID_NUMBER
    BY <1>3, <2>1 DEF UsedIn, Pages, INVALID_NUMBER
  <2>3. Visited[n] = page[r].next
    BY <1>1, <2>1, <2>2 DEF StepFrom
  <2>4. r \notin stop
    BY <2>1 DEF BreaksAt
  <2>. HIDE DEF r
  <2>. QED BY <1>3, <1>4, <2>2, <2>3, <2>4 DEF BreaksAt
<1>. QED BY <1>5, <1>6

(* allocatePage of a free page that comes after other used pages.          *)
LEMMA ReuseInsideKeeps ==
  ASSUME FileInv, header.num_free_pages > 0, NEW exact \in BOOLEAN, exact => ~disordered,
         LET p == header.first_free_page
             stop == {q \in Pages : page[q].next > p \/ page[q].next = INVALID_NUMBER}
         IN  /\ header.first_used_page # INVALID_NUMBER
             /\ header.first_used_page <= p
             /\ \E n \in Turns :
                  LET q == Visited[n] IN
                  /\ BreaksAt(stop, n)
                  /\ page' = [r \in Pages |->
                                IF r = q THEN [page[q] EXCEPT !.next = p]
                                ELSE IF r = p
                                THEN [page[p] EXCEPT !.current = p,
                                                     !.next = page[q].next]
                                ELSE page[r]]
                  /\ header' = [header EXCEPT !.first_free_page = page[p].next,
                                              !.num_free_pages = @ - 1]
  PROVE  Sound(header', page', exact) /\ FileStep(ContentIn(page), ContentIn(page'))
<1>. DEFINE p == header.first_free_page
            first == header.first_used_page
            stop == {q \in Pages : page[q].next > p \/ page[q].next = INVALID_NUMBER}
<1>1. p \in Pages /\ p \in FreeIn(header, page) /\ p \notin UsedIn(page)
  BY FirstFree
<1>2. /\ page \in [Pages -> Page] /\ header \in Header /\ first \in PageNumbers
      /\ header.num_free_pages \in Nat /\ header.num_free_pages <= MaxPages
      /\ first \in Nat /\ p \in Nat /\ p \in PageNumbers /\ MaxPages \in Nat
      /\ p # INVALID_NUMBER
  BY <1>1 DEF FileInv, Sound, Header, Page, Pages, PageNumbers, INVALID_NUMBER
<1>3. /\ UsedIn(page) \in SUBSET Pages
      /\ \A r \in UsedIn(page) : r \in Nat
      /\ \A r \in Pages : page[r].next \in Nat /\ page[r].next \in PageNumbers
  BY <1>2, UsedAreNumbers
<1>4. PICK n \in Turns :
        /\ BreaksAt(stop, n)
        /\ page' = [r \in Pages |->
                      IF r = Visited[n] THEN [page[Visited[n]] EXCEPT !.next = p]
                      ELSE IF r = p
                      THEN [page[p] EXCEPT !.current = p,
                                           !.next = page[Visited[n]].next]
                      ELSE page[r]]
        /\ header' = [header EXCEPT !.first_free_page = page[p].next,
                                    !.num_free_pages = header.num_free_pages - 1]
  OBVIOUS
<1>. DEFINE q == Visited[n]
            s == page[q].next
<1>5. q \in UsedIn(page) /\ q \in stop
      /\ (q = first \/ \E r \in UsedIn(page) : r \notin stop /\ q = page[r].next)
  BY <1>4, BreakFound
<1>6. first <= p
  OBVIOUS
<1>7. q < p /\ q \in Pages /\ s \in PageNumbers /\ s \in Nat
      /\ (s > p \/ s = INVALID_NUMBER)
  <2>1. q <= p
    BY <1>2, <1>3, <1>5, <1>6
  <2>. QED BY <1>1, <1>2, <1>3, <1>5, <2>1
<1>. DEFINE newq == [page[q] EXCEPT !.next = p]
            newp == [page[p] EXCEPT !.current = p, !.next = s]
<1>8. /\ newq \in Page /\ newq.next = p /\ newq.current = page[q].current
      /\ newq.data = page[q].data
  BY <1>2, <1>7 DEF Page
<1>9. /\ newp \in Page /\ newp.next = s /\ newp.current = p /\ newp.data = page[p].data
  <2>1. page[p] \in Page /\ p \in PageNumbers /\ s \in PageNumbers
    BY <1>1, <1>2, <1>7
  <2>. HIDE DEF p, s
  <2>. QED BY <2>1 DEF Page
<1>10. page' = [r \in Pages |-> IF r = q THEN newq ELSE IF r = p THEN newp ELSE page[r]]
  BY <1>4
<1>. HIDE DEF newq, newp, stop
<1>11. /\ page' \in [Pages -> Page] /\ page'[q] = newq /\ page'[p] = newp
       /\ \A r \in Pages : r # p /\ r # q => page'[r] = page[r]
  BY <1>1, <1>2, <1>7, <1>8, <1>9, <1>10
<1>12. UsedIn(page') = UsedIn(page) \cup {p}
  BY <1>1, <1>2, <1>7, <1>8, <1>9, <1>11 DEF UsedIn
<1>13. /\ header' \in Header /\ header'.num_pages = header.num_pages
       /\ header'.first_free_page = page[p].next /\ header'.first_used_page = first
       /\ header'.num_free_pages = header.num_free_pages - 1
  <2>1. header.num_free_pages - 1 \in 0 .. MaxPages /\ page[p].next \in PageNumbers
    BY <1>1, <1>2, <1>3
  <2>2. header' = [header EXCEPT !.first_free_page = page[p].next,
                                 !.num_free_pages = header.num_free_pages - 1]
    BY <1>4
  <2>. HIDE DEF p
  <2>. QED BY <1>2, <2>1, <2>2 DEF Header
<1>14. Listed(page', first, exact)
  <2>1. Listed(page, first, exact)
    BY DEF FileInv, Sound, Listed
  <2>2. \A r \in UsedIn(page) : r # q => page'[r].next = page[r].next
    BY <1>1, <1>3, <1>11
  <2>3. page'[q].next = p /\ page'[p].next = page[q].next
    BY <1>8, <1>9, <1>11
  <2>4. page[q].next > p \/ page[q].next = INVALID_NUMBER
    BY <1>7
  <2>5. q \in UsedIn(page) /\ q < p
    BY <1>5, <1>7
  <2>6. /\ page \in [Pages -> Page] /\ page' \in [Pages -> Page]
        /\ first \in PageNumbers /\ p \in Pages /\ p \notin UsedIn(page)
    BY <1>1, <1>2, <1>11
  <2>. HIDE DEF first, p, q, s
  <2>7. PutAfter(page, page', q, p)
    BY <1>12, <2>2, <2>3, <2>4, <2>5, <2>6 DEF PutAfter
  <2>. QED BY <2>1, <2>6, <2>7, UsedInside
<1>15. \A r \in FreeIn(header, page) : r \in Pages /\ r # q
  BY <1>5 DEF FreeIn
<1>16. \A r \in Pages \ {p} : /\ page'[r].current = page[r].current
                              /\ page'[r].data = page[r].data
  BY <1>8, <1>11
<1>17. Reuses(p, header', page')
  BY <1>9, <1>11, <1>13, <1>15, <1>16 DEF Reuses
<1>18. Listed(page', header'.first_used_page, exact)
  BY <1>13, <1>14
<1>. HIDE DEF p
<1>. QED BY <1>17, <1>18, Reused

(* The file grows by a page, which is in use from the start.               *)
Grows(h2, pg2) ==
  LET p == header.num_pages IN
  /\ p \in Pages
  /\ h2 \in Header /\ pg2 \in [Pages -> Page]
  /\ h2.num_pages = p + 1
  /\ h2.first_free_page = header.first_free_page
  /\ h2.num_free_pages = header.num_free_pages
  /\ pg2[p].current = p /\ pg2[p].data = Empty
  /\ \A r \in Pages \ {p} : /\ pg2[r].current = page[r].current
                            /\ pg2[r].data = page[r].data

(* A page added at the end of the file leaves the free list alone.         *)
LEMMA Grown ==
  ASSUME FileInv, header.num_free_pages = 0,
         NEW h2, NEW pg2, NEW exact \in BOOLEAN, Grows(h2, pg2),
         Listed(pg2, h2.first_used_page, exact)
  PROVE  Sound(h2, pg2, exact) /\ FileStep(ContentIn(page), ContentIn(pg2))
<1>. DEFINE p == header.num_pages
<1>1. /\ p \in Pages /\ p \in Nat /\ p # INVALID_NUMBER /\ page \in [Pages -> Page]
      /\ \A r \in Pages : r \in Nat
      /\ \A r \in UsedIn(page) : r < p
      /\ \A r \in Pages : r \notin UsedIn(page) => page[r].data = Empty
  BY DEF Grows, Pages, INVALID_NUMBER, FileInv, Sound
<1>2. /\ h2 \in Header /\ pg2 \in [Pages -> Page]
      /\ h2.num_pages = p + 1 /\ h2.first_free_page = header.first_free_page
      /\ h2.num_free_pages = 0
      /\ pg2[p].current = p /\ pg2[p].data = Empty
      /\ \A r \in Pages \ {p} : /\ pg2[r].current = page[r].current
                                /\ pg2[r].data = page[r].data
  BY DEF Grows
<1>3. FreeIn(header, page) = {}
  <2>1. FreeIn(header, page) \in SUBSET Pages /\ Cardinality(FreeIn(header, page)) = 0
    BY DEF FileInv, Sound, FreeIn
  <2>. QED BY <2>1, PagesAreFinite, FS_EmptySet
<1>. HIDE DEF p
<1>4. UsedIn(pg2) = UsedIn(page) \cup {p} /\ p \notin UsedIn(page)
  <2>1. p \notin UsedIn(page)
    BY <1>1
  <2>2. \A r \in Pages : r \in UsedIn(pg2) <=> r \in UsedIn(page) \/ r = p
    BY <1>1, <1>2 DEF UsedIn
  <2>3. UsedIn(pg2) \in SUBSET Pages /\ UsedIn(page) \in SUBSET Pages
    BY DEF UsedIn
  <2>. QED BY <1>1, <2>1, <2>2, <2>3
<1>5. FreeIn(h2, pg2) = {}
  <2>1. \A r \in Pages : r < p => r \in UsedIn(page)
    BY <1>3 DEF FreeIn, p
  <2>2. \A r \in Pages : r < p + 1 => r \in UsedIn(pg2)
    BY <1>1, <1>4, <2>1
  <2>. QED BY <1>2, <2>2 DEF FreeIn
<1>6. h2.num_free_pages = Cardinality(FreeIn(h2, pg2))
  BY <1>2, <1>5, FS_EmptySet
<1>7. Linked(pg2, h2.first_free_page, h2.num_free_pages, FreeIn(h2, pg2))
  <2>1. Linked(page, header.first_free_page, 0, {})
    BY <1>3 DEF FileInv, Sound
  <2>2. Linked(pg2, header.first_free_page, 0, {})
    BY <2>1, ListKept
  <2>. QED BY <1>2, <1>5, <2>2
<1>8. \A r \in UsedIn(pg2) : r < h2.num_pages
  <2>1. \A r \in UsedIn(page) : r \in Nat
    BY <1>1 DEF UsedIn
  <2>. QED BY <1>1, <1>2, <1>4, <2>1
<1>9. \A r \in Pages : r \notin UsedIn(pg2) => pg2[r].data = Empty
  BY <1>1, <1>2, <1>4
<1>10. FileStep(ContentIn(page), ContentIn(pg2))
  BY <1>1, <1>2, <1>4, ContentStep
<1>. QED BY <1>2, <1>6, <1>7, <1>8, <1>9, <1>10 DEF Sound

(* allocatePage when no page is free.                                      *)
LEMMA GrowKeeps ==
  ASSUME FileInv, header.num_free_pages = 0, Grow, outcome' # "hangs",
         outcome' # "InvalidPage", NEW exact \in BOOLEAN, exact => ~disordered
  PROVE  Sound(header', page', exact) /\ FileStep(ContentIn(page), ContentIn(page'))
<1>. DEFINE p == header.num_pages
            first == header.first_used_page
            stop == {q \in Pages : page[q].next = INVALID_NUMBER}
            new == [current |-> p, next |-> INVALID_NUMBER, data |-> Empty]
<1>1. /\ page \in [Pages -> Page] /\ header \in Header /\ first \in PageNumbers
      /\ p \in 1 .. MaxPages /\ p \in Nat /\ p \in Pages /\ p \in PageNumbers
      /\ \A r \in UsedIn(page) : r < p
      /\ p \notin UsedIn(page) /\ p # INVALID_NUMBER /\ first \in Nat
  BY DEF FileInv, Sound, Header, Grow, Pages, PageNumbers, INVALID_NUMBER
<1>2. new \in Page /\ new.current = p /\ new.next = INVALID_NUMBER /\ new.data = Empty
  BY <1>1 DEF Page, PageNumbers, INVALID_NUMBER
<1>3. Listed(page, first, exact)
  BY DEF FileInv, Sound, Listed
<1>4. UsedIn(page) \in SUBSET Pages
  BY DEF UsedIn
<1>5. CASE /\ first = INVALID_NUMBER
           /\ page' = [page EXCEPT ![p] = new]
           /\ header' = [header EXCEPT !.first_used_page = p, !.num_pages = p + 1]
  <2>. HIDE DEF new
  <2>1. /\ page' \in [Pages -> Page] /\ page'[p] = new
        /\ \A r \in Pages : r # p => page'[r] = page[r]
    BY <1>1, <1>2, <1>5
  <2>2. /\ header' \in Header /\ header'.num_pages = p + 1
        /\ header'.first_used_page = p
        /\ header'.first_free_page = header.first_free_page
        /\ header'.num_free_pages = header.num_free_pages
    <3>1. p + 1 \in 1 .. MaxPages + 1
      BY <1>1
    <3>. HIDE DEF p
    <3>. QED BY <1>1, <1>5, <3>1 DEF Header
  <2>3. UsedIn(page') = UsedIn(page) \cup {p}
    BY <1>1, <1>2, <2>1 DEF UsedIn
  <2>4. PutFirst(page, page', first, p, exact)
    BY <1>1, <1>2, <1>4, <1>5, <2>1, <2>3 DEF PutFirst, INVALID_NUMBER
  <2>5. Listed(page', p, exact)
    <3>. HIDE DEF p, first
    <3>. QED BY <1>1, <1>3, <2>1, <2>4, UsedFirst
  <2>6. Grows(header', page')
    BY <1>1, <1>2, <2>1, <2>2 DEF Grows
  <2>7. Listed(page', header'.first_used_page, exact)
    BY <2>2, <2>5
  <2>. QED BY <2>6, <2>7, Grown
<1>6. CASE first # INVALID_NUMBER
  <2>0. ~Fails(stop)
    BY DEF Fails
  <2>1. PICK n \in Turns :
          /\ BreaksAt(stop, n)
          /\ page' = [r \in Pages |->
                        IF r = Visited[n] THEN [page[r] EXCEPT !.next = p]
                        ELSE IF r = p THEN new ELSE page[r]]
          /\ header' = [header EXCEPT !.num_pages = @ + 1]
    BY <1>6, <2>0 DEF Grow
  <2>. DEFINE q == Visited[n]
              newq == [page[q] EXCEPT !.next = p]
  <2>2. q \in UsedIn(page) /\ q \in stop
    BY <2>1, BreakFound
  <2>3. q < p /\ q \in Pages /\ q # p /\ page[q].next = INVALID_NUMBER
    BY <1>1, <1>4, <2>2
  <2>4. /\ newq \in Page /\ newq.next = p /\ newq.current = page[q].current
        /\ newq.data = page[q].data
    <3>1. page[q] \in Page
      BY <1>1, <2>3
    <3>. HIDE DEF p, q
    <3>. QED BY <1>1, <3>1 DEF Page
  <2>5. page' = [r \in Pages |-> IF r = q THEN newq ELSE IF r = p THEN new ELSE page[r]]
    BY <2>1
  <2>. HIDE DEF newq, new, stop
  <2>6. /\ page' \in [Pages -> Page] /\ page'[q] = newq /\ page'[p] = new
        /\ \A r \in Pages : r # p /\ r # q => page'[r] = page[r]
    BY <1>1, <1>2, <2>3, <2>4, <2>5
  <2>7. /\ header' \in Header /\ header'.num_pages = p + 1
        /\ header'.first_used_page = first
        /\ header'.first_free_page = header.first_free_page
        /\ header'.num_free_pages = header.num_free_pages
    <3>1. p + 1 \in 1 .. MaxPages + 1 /\ header' = [header EXCEPT !.num_pages = p + 1]
      BY <1>1, <2>1
    <3>. HIDE DEF p
    <3>. QED BY <1>1, <3>1 DEF Header
  <2>8. UsedIn(page') = UsedIn(page) \cup {p}
    BY <1>1, <1>2, <2>3, <2>4, <2>6 DEF UsedIn
  <2>9. PutAfter(page, page', q, p)
    <3>1. page'[q].next = p /\ page'[p].next = page[q].next
      BY <1>2, <2>3, <2>4, <2>6
    <3>2. \A r \in UsedIn(page) : r # q => page'[r].next = page[r].next
      BY <1>1, <1>4, <2>6
    <3>. HIDE DEF p, q
    <3>. QED BY <1>1, <2>2, <2>3, <2>8, <3>1, <3>2 DEF PutAfter
  <2>10. Listed(page', first, exact)
    <3>. HIDE DEF p, q, first
    <3>. QED BY <1>1, <1>3, <2>6, <2>9, UsedInside
  <2>11. Grows(header', page')
    BY <1>1, <1>2, <2>4, <2>6, <2>7 DEF Grows
  <2>12. Listed(page', header'.first_used_page, exact)
    BY <2>7, <2>10
  <2>. QED BY <2>11, <2>12, Grown
<1>. QED BY <1>5, <1>6 DEF Grow

-----------------------------------------------------------------------------
(* deletePage.                                                             *)

Frees(h2, pg2, p) ==
  /\ p \in UsedIn(page)
  /\ h2 \in Header /\ pg2 \in [Pages -> Page]
  /\ h2.num_pages = header.num_pages
  /\ h2.first_free_page = p
  /\ h2.num_free_pages = header.num_free_pages + 1
  /\ pg2[p].current = INVALID_NUMBER /\ pg2[p].data = Empty
  /\ pg2[p].next = header.first_free_page
  /\ \A r \in Pages \ {p} : /\ pg2[r].current = page[r].current
                            /\ pg2[r].data = page[r].data
  /\ \A r \in FreeIn(header, page) : pg2[r].next = page[r].next

(* A page deleted goes in front of the free list.                          *)
LEMMA Freed ==
  ASSUME FileInv, NEW p, NEW h2, NEW pg2, NEW exact \in BOOLEAN, Frees(h2, pg2, p),
         Listed(pg2, h2.first_used_page, exact)
  PROVE  Sound(h2, pg2, exact) /\ FileStep(ContentIn(page), ContentIn(pg2))
<1>. DEFINE F == FreeIn(header, page)
            n == header.num_free_pages
<1>1. /\ p \in UsedIn(page) /\ p \in Pages /\ p \in PageNumbers
      /\ h2 \in Header /\ pg2 \in [Pages -> Page]
      /\ h2.num_pages = header.num_pages
      /\ h2.first_free_page = p /\ h2.num_free_pages = n + 1
      /\ pg2[p].current = INVALID_NUMBER /\ pg2[p].data = Empty
      /\ pg2[p].next = header.first_free_page
      /\ \A r \in Pages \ {p} : /\ pg2[r].current = page[r].current
                                /\ pg2[r].data = page[r].data
      /\ \A r \in F : pg2[r].next = page[r].next
  BY DEF Frees, UsedIn, Pages, PageNumbers
<1>2. /\ page \in [Pages -> Page] /\ n \in Nat /\ n = Cardinality(F)
      /\ Linked(page, header.first_free_page, n, F)
      /\ \A r \in UsedIn(page) : r < header.num_pages
      /\ \A r \in Pages : r \notin UsedIn(page) => page[r].data = Empty
  BY DEF FileInv, Sound, Header
<1>3. UsedIn(pg2) = UsedIn(page) \ {p}
  BY <1>1 DEF UsedIn
<1>4. FreeIn(h2, pg2) = F \cup {p} /\ p \notin F
  BY <1>1, <1>2, <1>3 DEF FreeIn
<1>5. h2.num_free_pages = Cardinality(FreeIn(h2, pg2))
  <2>1. IsFiniteSet(F)
    BY PagesAreFinite DEF FreeIn
  <2>2. Cardinality(F \cup {p}) = Cardinality(F) + 1
    BY <1>4, <2>1, FS_AddElement
  <2>. QED BY <1>1, <1>2, <1>4, <2>2
<1>6. Linked(pg2, h2.first_free_page, h2.num_free_pages, FreeIn(h2, pg2))
  <2>1. Linked(pg2, p, n + 1, F \cup {p})
    <3>. HIDE DEF n, F
    <3>. QED BY <1>1, <1>2, <1>4, ListPush
  <2>. QED BY <1>1, <1>4, <2>1
<1>7. FileStep(ContentIn(page), ContentIn(pg2))
  BY <1>1, <1>2, <1>3, ContentStep
<1>8. /\ \A r \in UsedIn(pg2) : r < h2.num_pages
      /\ \A r \in Pages : r \notin UsedIn(pg2) => pg2[r].data = Empty
  BY <1>1, <1>2, <1>3
<1>. QED BY <1>1, <1>5, <1>6, <1>7, <1>8 DEF Sound

(* deletePage once it has found the page before the one it deletes.        *)
LEMMA FreeKeeps ==
  ASSUME FileInv, NEW p \in UsedIn(page), NEW pred, Free(p, pred),
         \/ p = header.first_used_page /\ pred = INVALID_NUMBER
         \/ /\ p # header.first_used_page
            /\ pred \in UsedIn(page) /\ pred < p /\ page[pred].next = p,
         NEW exact \in BOOLEAN, exact => ~disordered
  PROVE  Sound(header', page', exact) /\ FileStep(ContentIn(page), ContentIn(page'))
<1>. DEFINE first == header.first_used_page
            n == header.num_free_pages
            s == page[p].next
            gone == [Blank EXCEPT !.next = header.first_free_page]
<1>1. /\ page \in [Pages -> Page] /\ header \in Header /\ first \in PageNumbers
      /\ p \in Pages /\ p \in PageNumbers /\ p \in Nat /\ p # INVALID_NUMBER
      /\ s \in PageNumbers /\ header.first_free_page \in PageNumbers
      /\ UsedIn(page) \in SUBSET Pages /\ INVALID_NUMBER \notin Pages
      /\ n \in Nat /\ n <= MaxPages
  BY DEF FileInv, Sound, Header, Page, UsedIn, Pages, PageNumbers, INVALID_NUMBER
<1>2. /\ gone \in Page /\ gone.current = INVALID_NUMBER /\ gone.data = Empty
      /\ gone.next = header.first_free_page
  BY <1>1 DEF Blank, Page, PageNumbers, INVALID_NUMBER
<1>3. n + 1 <= MaxPages
  <2>. DEFINE F == FreeIn(header, page)
  <2>1. F \in SUBSET Pages /\ p \notin F /\ n = Cardinality(F)
    BY DEF FreeIn, FileInv, Sound
  <2>2. IsFiniteSet(F)
    BY <2>1, PagesAreFinite
  <2>3. Cardinality(F \cup {p}) = Cardinality(F) + 1
    BY <2>1, <2>2, FS_AddElement
  <2>4. Cardinality(F \cup {p}) \in 0 .. MaxPages
    BY <1>1, <2>1, PagesAreFinite
  <2>. QED BY <1>1, <2>1, <2>3, <2>4
<1>4. /\ page' = [r \in Pages |->
                    IF r = p THEN gone
                    ELSE IF r = pred THEN [page[r] EXCEPT !.next = s]
                    ELSE page[r]]
      /\ header' = [header EXCEPT !.first_free_page = p,
                                  !.num_free_pages = n + 1,
                                  !.first_used_page = IF p = first THEN s ELSE first]
  BY DEF Free
<1>5. /\ header' \in Header /\ header'.num_pages = header.num_pages
      /\ header'.first_free_page = p /\ header'.num_free_pages = n + 1
      /\ header'.first_used_page = IF p = first THEN s ELSE first
  <2>1. n + 1 \in 0 .. MaxPages /\ (IF p = first THEN s ELSE first) \in PageNumbers
    BY <1>1, <1>3
  <2>. HIDE DEF s
  <2>. QED BY <1>1, <1>4, <2>1 DEF Header
<1>. HIDE DEF gone
<1>6. \A r \in Pages : /\ [page[r] EXCEPT !.next = s] \in Page
                       /\ [page[r] EXCEPT !.next = s].current = page[r].current
                       /\ [page[r] EXCEPT !.next = s].data = page[r].data
                       /\ [page[r] EXCEPT !.next = s].next = s
  <2>1. \A r \in Pages : page[r] \in Page
    BY <1>1
  <2>. HIDE DEF s
  <2>. QED BY <1>1, <2>1 DEF Page
<1>7. /\ page' \in [Pages -> Page] /\ page'[p] = gone
      /\ \A r \in Pages : r # p => /\ page'[r].current = page[r].current
                                   /\ page'[r].data = page[r].data
      /\ \A r \in Pages : r # p /\ r # pred => page'[r].next = page[r].next
      /\ pred \in Pages /\ pred # p => page'[pred].next = s
  <2>. HIDE DEF s
  <2>. QED BY <1>1, <1>2, <1>4, <1>6
<1>8. UsedIn(page') = UsedIn(page) \ {p}
  BY <1>1, <1>2, <1>7 DEF UsedIn
<1>9. Frees(header', page', p)
  <2>1. pred \notin FreeIn(header, page) /\ p \notin FreeIn(header, page)
        /\ \A r \in FreeIn(header, page) : r \in Pages
    BY <1>1 DEF FreeIn
  <2>. HIDE DEF n, s
  <2>. QED BY <1>1, <1>2, <1>5, <1>7, <2>1 DEF Frees, n
<1>10. Listed(page, first, exact)
  BY DEF FileInv, Sound, Listed
<1>11. Listed(page', header'.first_used_page, exact)
  <2>1. CASE p = first /\ pred = INVALID_NUMBER
    <3>1. TakenFirst(page, page', p)
      BY <1>1, <1>7, <1>8, <2>1 DEF TakenFirst
    <3>2. Listed(page, p, exact)
      BY <1>10, <2>1
    <3>3. Listed(page', s, exact)
      BY <1>1, <1>7, <3>1, <3>2, UsedFirstGone
    <3>. QED BY <1>5, <2>1, <3>3
  <2>2. CASE p # first /\ pred \in UsedIn(page) /\ pred < p /\ page[pred].next = p
    <3>1. pred \in Pages /\ pred # p
      BY <1>1, <2>2
    <3>2. TakenAfter(page, page', pred, p)
      BY <1>1, <1>7, <1>8, <2>2, <3>1 DEF TakenAfter
    <3>3. Listed(page', first, exact)
      <4>. HIDE DEF first
      <4>. QED BY <1>1, <1>7, <1>10, <2>2, <3>2, UsedInsideGone
    <3>. QED BY <1>5, <2>2, <3>3
  <2>. QED BY <2>1, <2>2
<1>. QED BY <1>9, <1>11, Freed

-----------------------------------------------------------------------------
(* writePage.                                                              *)

(* writePage writes the page as it is given but for the link, which it     *)
(* keeps.                                                                  *)
LEMMA WriteKeeps ==
  ASSUME FileInv, NEW p \in Pages, NEW d \in Data, Used(p),
         page' = [page EXCEPT ![p] = [current |-> p, next |-> @.next, data |-> d]],
         header' = header, NEW exact \in BOOLEAN, exact => ~disordered
  PROVE  Sound(header', page', exact) /\ FileStep(ContentIn(page), ContentIn(page'))
<1>. DEFINE new == [current |-> p, next |-> page[p].next, data |-> d]
<1>1. /\ page \in [Pages -> Page] /\ header \in Header
      /\ p \in PageNumbers /\ p # INVALID_NUMBER /\ page[p].next \in PageNumbers
      /\ p \in UsedIn(page)
  BY DEF FileInv, Sound, Page, Pages, PageNumbers, INVALID_NUMBER, Used, UsedIn
<1>2. new \in Page /\ new.current = p /\ new.next = page[p].next
  BY <1>1 DEF Page
<1>3. page' = [page EXCEPT ![p] = new]
  BY <1>1
<1>. HIDE DEF new
<1>4. /\ page' \in [Pages -> Page] /\ page'[p] = new
      /\ \A r \in Pages : r # p => page'[r] = page[r]
  BY <1>1, <1>2, <1>3
<1>5. UsedIn(page') = UsedIn(page)
  BY <1>1, <1>2, <1>4 DEF UsedIn
<1>6. \A r \in Pages : page'[r].next = page[r].next
  BY <1>2, <1>4
<1>7. FreeIn(header', page') = FreeIn(header, page)
  BY <1>5 DEF FreeIn
<1>8. Linked(page', header'.first_free_page, header'.num_free_pages, FreeIn(header', page'))
  <2>. DEFINE F == FreeIn(header, page)
              n == header.num_free_pages
              f == header.first_free_page
  <2>1. n \in Nat /\ Linked(page, f, n, F) /\ \A r \in F : page'[r].next = page[r].next
    BY <1>6 DEF FileInv, Sound, Header, FreeIn
  <2>2. Linked(page', f, n, F)
    <3>. HIDE DEF F, n, f
    <3>. QED BY <2>1, ListKept
  <2>. QED BY <1>7, <2>2
<1>9. Listed(page', header'.first_used_page, exact)
  <2>. DEFINE first == header.first_used_page
  <2>1. Listed(page, first, exact)
    BY DEF FileInv, Sound, Listed
  <2>2. \A v \in UsedIn(page) \cup {INVALID_NUMBER} :
          After(page', first, v) = After(page, first, v)
    BY <1>6 DEF After, UsedIn
  <2>3. Listed(page', first, exact)
    BY <1>5, <2>1, <2>2 DEF Listed
  <2>. QED BY <2>3
<1>10. FileStep(ContentIn(page), ContentIn(page'))
  BY <1>1, <1>4, <1>5, ContentStep
<1>11. \A r \in Pages : r \notin UsedIn(page') => page'[r].data = Empty
  BY <1>1, <1>4, <1>5 DEF FileInv, Sound
<1>. QED BY <1>1, <1>4, <1>5, <1>7, <1>8, <1>9, <1>10, <1>11 DEF FileInv, Sound

-----------------------------------------------------------------------------
(* Every step.                                                             *)

(* A new file.                                                             *)
LEMMA InitSound == FileInit => FileInv /\ ContentIn(page) = [p \in Pages |-> Gone]
<1>. SUFFICES ASSUME FileInit PROVE FileInv /\ ContentIn(page) = [p \in Pages |-> Gone]
  OBVIOUS
<1>1. /\ header = [num_pages |-> 1, first_used_page |-> INVALID_NUMBER,
                   num_free_pages |-> 0, first_free_page |-> INVALID_NUMBER]
      /\ page = [p \in Pages |-> Blank] /\ outcome = "ok" /\ disordered = FALSE
  BY DEF FileInit
<1>2. Blank \in Page /\ Blank.current = INVALID_NUMBER /\ Blank.data = Empty
  BY DEF Blank, Page, PageNumbers, INVALID_NUMBER
<1>3. header \in Header
  BY <1>1 DEF Header, PageNumbers, INVALID_NUMBER
<1>4. page \in [Pages -> Page] /\ \A p \in Pages : page[p] = Blank
  BY <1>1, <1>2
<1>5. UsedIn(page) = {}
  BY <1>2, <1>4 DEF UsedIn
<1>6. FreeIn(header, page) = {}
  BY <1>1, <1>5 DEF FreeIn, Pages
<1>7. Cardinality({}) = 0
  BY FS_EmptySet
<1>8. Linked(page, INVALID_NUMBER, 0, {})
  <2>. DEFINE f == [i \in 0 .. 0 |-> INVALID_NUMBER]
  <2>1. f \in [0 .. 0 -> PageNumbers]
    BY DEF PageNumbers, INVALID_NUMBER
  <2>2. Leads(f, page, INVALID_NUMBER, 0, {})
    BY DEF Leads
  <2>. HIDE DEF f
  <2>. QED BY <2>1, <2>2 DEF Linked
<1>9. Listed(page, INVALID_NUMBER, ~disordered)
  <2>1. After(page, INVALID_NUMBER, INVALID_NUMBER) = INVALID_NUMBER
    BY DEF After
  <2>2. ComesNext({}, INVALID_NUMBER, INVALID_NUMBER)
    BY DEF ComesNext
  <2>. QED BY <1>5, <2>1, <2>2 DEF Listed
<1>10. Sound(header, page, ~disordered)
  BY <1>1, <1>2, <1>3, <1>4, <1>5, <1>6, <1>7, <1>8, <1>9 DEF Sound
<1>11. ContentIn(page) = [p \in Pages |-> Gone]
  BY <1>5 DEF ContentIn
<1>. QED BY <1>1, <1>10, <1>11 DEF FileInv

(* A call that refuses changes neither list.                               *)
LEMMA RefusalKeepsFile ==
  ASSUME FileInv, Unchanged, NEW exact \in BOOLEAN, exact => ~disordered
  PROVE  Sound(header', page', exact) /\ FileStep(ContentIn(page), ContentIn(page'))
<1>1. header' = header /\ page' = page
  BY DEF Unchanged
<1>2. Listed(page, header.first_used_page, exact)
  BY DEF FileInv, Sound, Listed
<1>3. Sound(header, page, exact)
  BY <1>2 DEF FileInv, Sound
<1>. QED BY <1>1, <1>3 DEF FileStep

(* allocatePage.                                                           *)
LEMMA AllocateKeeps ==
  ASSUME FileInv, allocatePage
  PROVE  FileInv' /\ FileStep(ContentIn(page), ContentIn(page'))
<1>. DEFINE x == ~disordered'
<1>1. /\ disordered' \in BOOLEAN /\ x \in BOOLEAN
      /\ x => ~disordered /\ ~EmptiedList
  BY DEF allocatePage, FileInv, EmptiedList
<1>2. header.num_free_pages \in Nat
  BY DEF FileInv, Sound, Header
<1>. HIDE DEF x
<1>3. /\ Sound(header', page', x) /\ FileStep(ContentIn(page), ContentIn(page'))
      /\ outcome' \in {"ok", "InvalidPage", "hangs"}
  <2>1. CASE header.num_free_pages > 0 /\ ReuseAsHead
    <3>1. outcome' = "ok"
      BY <2>1 DEF ReuseAsHead
    <3>. QED BY <1>1, <2>1, <3>1, ReuseAsHeadKeeps
  <2>2. CASE header.num_free_pages > 0 /\ ReuseInside
    <3>. DEFINE p == header.first_free_page
                stop == {q \in Pages : page[q].next > p \/ page[q].next = INVALID_NUMBER}
    <3>1. CASE Unchanged /\ Fails(stop)
      BY <1>1, <3>1, RefusalKeepsFile DEF Fails
    <3>2. CASE ~(Unchanged /\ Fails(stop))
      <4>1. Sound(header', page', x) /\ FileStep(ContentIn(page), ContentIn(page'))
        BY <1>1, <2>2, <3>2, ReuseInsideKeeps DEF ReuseInside
      <4>2. outcome' = "ok"
        BY <2>2, <3>2 DEF ReuseInside
      <4>. QED BY <4>1, <4>2
    <3>. QED BY <3>1, <3>2
  <2>3. CASE header.num_free_pages = 0 /\ Grow
    <3>. DEFINE stop == {q \in Pages : page[q].next = INVALID_NUMBER}
    <3>1. CASE Unchanged /\ Fails(stop)
      BY <1>1, <3>1, RefusalKeepsFile DEF Fails
    <3>2. CASE ~(Unchanged /\ Fails(stop))
      <4>1. outcome' = "ok"
        BY <2>3, <3>2 DEF Grow
      <4>. QED BY <1>1, <2>3, <4>1, GrowKeeps
    <3>. QED BY <3>1, <3>2
  <2>. QED BY <1>2, <2>1, <2>2, <2>3 DEF allocatePage
<1>. QED BY <1>1, <1>3 DEF FileInv, x

(* deletePage.                                                             *)
LEMMA DeletePageKeeps ==
  ASSUME FileInv, NEW p \in Pages, deletePage(p), UNCHANGED disordered
  PROVE  FileInv' /\ FileStep(ContentIn(page), ContentIn(page'))
<1>. DEFINE x == ~disordered'
            stop == {q \in Pages : page[q].next = p}
<1>1. disordered' \in BOOLEAN /\ x \in BOOLEAN /\ (x => ~disordered)
  BY DEF FileInv
<1>. HIDE DEF x
<1>2. Readable(p) <=> p \in UsedIn(page)
  BY VisitedSteps
<1>3. /\ Sound(header', page', x) /\ FileStep(ContentIn(page), ContentIn(page'))
      /\ outcome' \in {"ok", "InvalidPage", "hangs"}
  <2>1. CASE ~Readable(p) /\ outcome' = "InvalidPage" /\ Unchanged
    BY <1>1, <2>1, RefusalKeepsFile
  <2>2. CASE Readable(p) /\ p = header.first_used_page /\ Free(p, INVALID_NUMBER)
    <3>1. outcome' = "ok"
      BY <2>2 DEF Free
    <3>. QED BY <1>1, <1>2, <2>2, <3>1, FreeKeeps
  <2>3. CASE Readable(p) /\ p # header.first_used_page
    <3>1. CASE Unchanged /\ Fails(stop)
      BY <1>1, <3>1, RefusalKeepsFile DEF Fails
    <3>2. \A n \in Turns : ~FindsEnd(stop, n)
      BY <1>2, <2>3, PredecessorIsFound
    <3>3. CASE \E n \in Turns : BreaksAt(stop, n) /\ Free(p, Visited[n])
      <4>1. PICK n \in Turns : BreaksAt(stop, n) /\ Free(p, Visited[n])
        BY <3>3
      <4>2. Visited[n] \in UsedIn(page) /\ Visited[n] < p /\ page[Visited[n]].next = p
        BY <1>2, <2>3, <4>1, PredecessorIsFound
      <4>3. outcome' = "ok"
        BY <4>1 DEF Free
      <4>. QED BY <1>1, <1>2, <2>3, <4>1, <4>2, <4>3, FreeKeeps
    <3>. QED BY <2>3, <3>1, <3>2, <3>3 DEF deletePage
  <2>. QED BY <2>1, <2>2, <2>3 DEF deletePage
<1>. QED BY <1>1, <1>3 DEF FileInv, x

(* writePage.                                                              *)
LEMMA WritePageKeeps ==
  ASSUME FileInv, NEW p \in Pages, NEW d \in Data, NEW oldNext, writePage(p, d, oldNext),
         UNCHANGED disordered
  PROVE  FileInv' /\ FileStep(ContentIn(page), ContentIn(page'))
<1>. DEFINE x == ~disordered'
<1>1. disordered' \in BOOLEAN /\ x \in BOOLEAN /\ (x => ~disordered)
  BY DEF FileInv
<1>. HIDE DEF x
<1>2. /\ Sound(header', page', x) /\ FileStep(ContentIn(page), ContentIn(page'))
      /\ outcome' \in {"ok", "InvalidPage", "hangs"}
  <2>1. CASE Used(p)
    BY <1>1, <2>1, WriteKeeps DEF writePage
  <2>2. CASE ~Used(p)
    BY <1>1, <2>2, RefusalKeepsFile DEF writePage, Unchanged
  <2>. QED BY <2>1, <2>2
<1>. QED BY <1>1, <1>2 DEF FileInv, x

(* Every call on the file keeps the lists and is a step of FileContents.   *)
LEMMA FileNextKeeps ==
  ASSUME FileInv, [FileNext]_fileVars
  PROVE  FileInv' /\ FileStep(ContentIn(page), ContentIn(page'))
<1>1. CASE allocatePage
  BY <1>1, AllocateKeeps
<1>2. CASE \E p \in Pages : deleteOrWrite(p)
  <2>1. PICK p \in Pages : deleteOrWrite(p)
    BY <1>2
  <2>2. CASE deletePage(p)
    BY <2>1, <2>2, DeletePageKeeps DEF deleteOrWrite
  <2>3. CASE \E d \in Data, oldNext \in PageNumbers : writePage(p, d, oldNext)
    BY <2>1, <2>3, WritePageKeeps DEF deleteOrWrite
  <2>. QED BY <2>1, <2>2, <2>3 DEF deleteOrWrite
<1>3. CASE UNCHANGED fileVars
  BY <1>3 DEF fileVars, FileInv, FileStep
<1>. QED BY <1>1, <1>2, <1>3 DEF FileNext

-----------------------------------------------------------------------------
(* What holds of every file.                                               *)

(* Sound is inductive.                                                     *)
LEMMA FileInductive == FileSpec => []FileInv
<1>1. FileInit => FileInv
  BY InitSound
<1>2. FileInv /\ [FileNext]_fileVars => FileInv'
  BY FileNextKeeps
<1>. QED BY <1>1, <1>2, PTL DEF FileSpec

(* The header and the pages keep their types: the counts and the numbers   *)
(* File writes to disk stay within the file.                               *)
THEOREM FileTypeCorrect == FileSpec => []FileTypeOK
<1>1. FileInv => FileTypeOK
  BY DEF FileInv, Sound, FileTypeOK
<1>. QED BY <1>1, FileInductive, PTL

(* The order of pages that PagedFile.tla speaks of is this one.            *)
LEMMA NextIsComesNext ==
  ASSUME NEW p, NEW q
  PROVE  IsNext(p, q) <=> ComesNext(UsedIn(page), p, q)
<1>1. UsedPages = UsedIn(page)
  BY DEF UsedPages, UsedIn, Used
<1>. QED BY <1>1 DEF IsNext, ComesNext

(* UsedListExact: the pages in use are linked in page order, all of them   *)
(* and no other, until a page is allocated from a file that was emptied of *)
(* several (File::allocatePage, File::deletePage).                         *)
THEOREM UsedListIsExact == FileSpec => []UsedListExact
<1>1. FileInv => UsedListExact
  <2>. SUFFICES ASSUME FileInv, ~disordered
                PROVE  /\ IsNext(INVALID_NUMBER, header.first_used_page)
                       /\ \A p \in UsedPages : IsNext(p, page[p].next)
    BY DEF UsedListExact
  <2>1. \A p \in UsedIn(page) \cup {INVALID_NUMBER} :
          ComesNext(UsedIn(page), p, After(page, header.first_used_page, p))
    BY DEF FileInv, Sound, Listed
  <2>2. UsedPages = UsedIn(page) /\ \A p \in UsedPages : p # INVALID_NUMBER
    BY DEF UsedPages, UsedIn, Used, Pages, INVALID_NUMBER
  <2>. QED BY <2>1, <2>2, NextIsComesNext DEF After
<1>. QED BY <1>1, FileInductive, PTL

(* FreeListExact: the free list holds every page below num_pages that is   *)
(* not in use, once, and num_free_pages counts them - in every state, the  *)
(* broken ones of the other list included.                                 *)
THEOREM FreeListIsExact == FileSpec => []FreeListExact
<1>1. FileInv => FreeListExact
  <2>. SUFFICES ASSUME FileInv PROVE FreeListExact
    OBVIOUS
  <2>. DEFINE n == header.num_free_pages
              first == header.first_free_page
              S == FreeIn(header, page)
  <2>1. /\ page \in [Pages -> Page] /\ first \in PageNumbers /\ n \in Turns
        /\ S \in SUBSET Pages /\ Linked(page, first, n, S) /\ n = Cardinality(S)
    BY DEF FileInv, Sound, Header, Turns, FreeIn
  <2>2. {p \in Pages : p < header.num_pages /\ ~Used(p)} = S
    BY DEF FreeIn, UsedIn, Used
  <2>3. {Walk(first)[m] : m \in 0 .. n - 1} = S /\ Walk(first)[n] = INVALID_NUMBER
    <3>. HIDE DEF n, first, S
    <3>. QED BY <2>1, WalkOfList
  <2>. HIDE DEF S
  <2>. QED BY <2>1, <2>2, <2>3 DEF FreeListExact
<1>. QED BY <1>1, FileInductive, PTL

(* AllocationSucceeds: until then, allocatePage finds its place in the     *)
(* list: it neither throws nor goes round for ever (File::allocatePage).   *)
THEOREM AllocationAlwaysSucceeds == FileSpec => AllocationSucceeds
<1>1. ASSUME FileInv, ~disordered, allocatePage PROVE outcome' = "ok"
  <2>1. ASSUME NEW stop PROVE ~Fails(stop)
    BY <1>1, OrderedWalk DEF Fails
  <2>. QED BY <1>1, <2>1 DEF allocatePage, ReuseAsHead, ReuseInside, Grow
<1>2. FileInv /\ [FileNext]_fileVars
        => [~disordered /\ allocatePage => outcome' = "ok"]_fileVars
  BY <1>1
<1>. QED BY <1>2, FileInductive, PTL DEF FileSpec, AllocationSucceeds

(* LivePagesCanBeDeleted: a page in use is always found in the list and    *)
(* can be deleted, in a file whose list is broken too (File::deletePage).  *)
THEOREM LivePagesDeletable == FileSpec => LivePagesCanBeDeleted
<1>1. ASSUME FileInv, NEW p \in Pages, Used(p), deletePage(p) PROVE outcome' = "ok"
  <2>. DEFINE stop == {q \in Pages : page[q].next = p}
  <2>1. p \in UsedIn(page) /\ Readable(p)
    BY <1>1, VisitedSteps DEF UsedIn, Used
  <2>2. p # header.first_used_page => ~Fails(stop)
    BY <1>1, <2>1, PredecessorIsFound DEF Fails
  <2>. QED BY <1>1, <2>1, <2>2 DEF deletePage, Free
<1>2. FileInv /\ [FileNext]_fileVars
        => [\A p \in Pages : Used(p) /\ deletePage(p) => outcome' = "ok"]_fileVars
  BY <1>1
<1>. QED BY <1>2, FileInductive, PTL DEF FileSpec, LivePagesCanBeDeleted

(* ImplementsContents: the file refines FileContents - whatever becomes of *)
(* its lists, a page in use keeps its content until it is written or       *)
(* deleted, and no page in use is given out again (File).                  *)
THEOREM FileImplementsContents == FileSpec => ImplementsContents
<1>. DEFINE c == [p \in Pages |-> IF Used(p) THEN page[p].data ELSE Gone]
<1>1. c = ContentIn(page)
  BY DEF ContentIn, UsedIn, Used
<1>2. FileInit => Contents!Init
  BY <1>1, InitSound DEF Contents!Init
<1>3. FileInv /\ [FileNext]_fileVars => [Contents!Next]_c
  <2>. SUFFICES ASSUME FileInv, [FileNext]_fileVars PROVE Contents!Next \/ c' = c
    OBVIOUS
  <2>1. FileStep(ContentIn(page), ContentIn(page'))
    BY FileNextKeeps
  <2>2. c' = ContentIn(page')
    BY DEF ContentIn, UsedIn, Used
  <2>3. FileStep(c, c')
    BY <1>1, <2>1, <2>2
  <2>. QED BY <2>3 DEF FileStep, Contents!Next, Contents!Allocate, Contents!Delete,
                       Contents!Write
<1>. QED BY <1>2, <1>3, FileInductive, PTL
       DEF FileSpec, ImplementsContents, Contents!Spec

=============================================================================

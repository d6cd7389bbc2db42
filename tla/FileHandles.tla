---------------------------- MODULE FileHandles ----------------------------
(***************************************************************************)
(* Handles of database files (class File of p3/btree/src/file.cpp, under   *)
(* PageFile and BlobFile; p2's class keeps the same two maps).  All File   *)
(* objects of a name share one stream, found in the static map             *)
(* open_streams_ and counted in open_counts_.                              *)
(*                                                                         *)
(* A name leads to a file, and remove followed by create makes it lead to  *)
(* another: the model numbers files and streams, so that a handle of a     *)
(* file that is no longer there would show.  A number is used again when   *)
(* nothing refers to it.                                                   *)
(***************************************************************************)
EXTENDS Naturals, FiniteSets

CONSTANTS
  Names,
  Objects,       \* the File objects of the program
  None           \* no file, no stream, no entry

\* Enough numbers for one file of each name and one stream of each object.
Files == 1 .. Cardinality(Names) + Cardinality(Objects)
Streams == 1 .. Cardinality(Names) + Cardinality(Objects)

ASSUME HandlesAssumption ==
  /\ IsFiniteSet(Names) /\ IsFiniteSet(Objects)
  /\ None \notin Nat
  /\ \A n \in Names, s \in Streams \cup {None} : [name |-> n, stream |-> s] # None

VARIABLES
  file,          \* file a name leads to in the file system, or None
  source,        \* file each stream was opened on
  open_streams,  \* stream of each name, or None
  open_counts,   \* count of each name, or None
  object         \* name and stream of each File object, or None

vars == <<file, source, open_streams, open_counts, object>>

Live == {o \in Objects : object[o] # None}
On(n) == {o \in Live : object[o].name = n}

TypeOK ==
  /\ file \in [Names -> Files \cup {None}]
  /\ source \in [Streams -> Files]
  /\ open_streams \in [Names -> Streams \cup {None}]
  /\ open_counts \in [Names -> (Nat \ {0}) \cup {None}]
  /\ object \in [Objects -> [name : Names, stream : Streams \cup {None}]
                            \cup {None}]

Init ==
  /\ file = [n \in Names |-> None]
  /\ source = [s \in Streams |-> 1]
  /\ open_streams = [n \in Names |-> None]
  /\ open_counts = [n \in Names |-> None]
  /\ object = [o \in Objects |-> None]

Least(S) == CHOOSE x \in S : \A y \in S : x <= y

StreamsInUse(streams, objects) ==
  {streams[n] : n \in Names} \cup
  {objects[o].stream : o \in {p \in Objects : objects[p] # None}}

\* A file is there as long as a name or a stream in use leads to it.
NewStream(streams, objects) == Least(Streams \ StreamsInUse(streams, objects))
NewFile == Least(Files \ ({file[n] : n \in Names}
                   \cup {source[s] : s \in StreamsInUse(open_streams, object)
                                             \ {None}}))

exists(n) == file[n] # None

\* With isOpen, "exists and is open".
isOpen(n) == exists(n) /\ open_counts[n] # None

-----------------------------------------------------------------------------
(* openIfNeeded and close, as changes of the two maps and the objects.  A  *)
(* table is a record of the three, so that assignment can close and open.  *)

Tables == [streams |-> open_streams, counts |-> open_counts,
           objects |-> object, source |-> source]

Closed(t, o) ==
  LET n == t.objects[o].name
      c == IF t.counts[n] = None \/ t.counts[n] = 0 THEN 0 ELSE t.counts[n] - 1
  IN  [streams |-> IF c = 0 THEN [t.streams EXCEPT ![n] = None] ELSE t.streams,
       counts |-> [t.counts EXCEPT ![n] = IF c = 0 THEN None ELSE c],
       objects |-> [t.objects EXCEPT ![o] = [name |-> n, stream |-> None]],
       source |-> t.source]

OpenFails(t, n, create_new) ==
  t.counts[n] = None /\ (create_new <=> exists(n))

\* Variant with a bug: an entry that is there is not counted.
Opened_NotCounted(t, o, n, f) ==
  LET s == IF t.counts[n] # None THEN t.streams[n]
           ELSE NewStream(t.streams, t.objects)
  IN  [streams |-> [t.streams EXCEPT ![n] = s],
       counts |-> [t.counts EXCEPT ![n] = IF @ = None THEN 1 ELSE @],
       objects |-> [t.objects EXCEPT ![o] = [name |-> n, stream |-> s]],
       source |-> IF t.counts[n] # None THEN t.source
                  ELSE [t.source EXCEPT ![s] = f]]

\* o becomes an object of name n; f is the file n leads to.
Opened(t, o, n, f) ==
  LET s == IF t.counts[n] # None THEN t.streams[n]
           ELSE NewStream(t.streams, t.objects)
  IN  [streams |-> [t.streams EXCEPT ![n] = s],
       counts |-> [t.counts EXCEPT ![n] = IF @ = None THEN 1 ELSE @ + 1],
       objects |-> [t.objects EXCEPT ![o] = [name |-> n, stream |-> s]],
       source |-> IF t.counts[n] # None THEN t.source
                  ELSE [t.source EXCEPT ![s] = f]]

Become(t) ==
  /\ open_streams' = t.streams
  /\ open_counts' = t.counts
  /\ object' = t.objects
  /\ source' = t.source

-----------------------------------------------------------------------------
(* The operations.  A constructor that throws leaves no object.            *)

\* A new file is made only when the name is not open.  The header is written
\* in any case: an open file is then PagedFile's initial one again.
create(o, n) ==
  /\ object[o] = None
  /\ ~OpenFails(Tables, n, TRUE)
  /\ LET f == IF open_counts[n] = None THEN NewFile ELSE file[n] IN
     /\ Become(Opened(Tables, o, n, f))
     /\ file' = [file EXCEPT ![n] = f]

open(o, n) ==
  /\ object[o] = None
  /\ ~OpenFails(Tables, n, FALSE)
  /\ Become(Opened(Tables, o, n, file[n]))
  /\ UNCHANGED file

copy(o, other) == object[other] # None /\ open(o, object[other].name)

\* operator=, also of an object to itself; the name is rhs's after close.
assign(o, rhs) ==
  /\ object[o] # None /\ object[rhs] # None
  /\ LET n == object[rhs].name
         t == Closed(Tables, o)
     IN  IF OpenFails(t, n, FALSE)
         THEN Become([t EXCEPT !.objects = [@ EXCEPT ![o] = [name |-> n, stream |-> None]]])
         ELSE Become(Opened(t, o, n, file[n]))
  /\ UNCHANGED file

destroy(o) ==
  /\ object[o] # None
  /\ LET t == Closed(Tables, o) IN
     Become([t EXCEPT !.objects = [@ EXCEPT ![o] = None]])
  /\ UNCHANGED file

\* Variant with a bug: whether the file is open is not asked.
remove_Open(n) ==
  /\ exists(n)
  /\ file' = [file EXCEPT ![n] = None]
  /\ UNCHANGED <<source, open_streams, open_counts, object>>

remove(n) ==
  /\ exists(n)
  /\ ~isOpen(n)
  /\ file' = [file EXCEPT ![n] = None]
  /\ UNCHANGED <<source, open_streams, open_counts, object>>

Next ==
  \/ \E o \in Objects, n \in Names : create(o, n) \/ open(o, n)
  \/ \E o, p \in Objects : copy(o, p) \/ assign(o, p)
  \/ \E o \in Objects : destroy(o)
  \/ \E n \in Names : remove(n)

Spec == Init /\ [][Next]_vars

-----------------------------------------------------------------------------
(* open_counts_ counts the File objects of the name, and has an entry only *)
(* while there is one: the last close, and only it, forgets the name.      *)
CountsExact ==
  \A n \in Names :
    open_counts[n] =
      IF On(n) = {} THEN None ELSE Cardinality(On(n))

(* "If multiple File objects refer to the same underlying file, they will  *)
(* share the stream in memory" (file.h): every object has the stream of    *)
(* its name, it leads to the file the name leads to now, and the map keeps *)
(* no stream alive that no object has.                                     *)
StreamsShared ==
  /\ \A o \in Live :
       /\ object[o].stream # None
       /\ object[o].stream = open_streams[object[o].name]
       /\ source[object[o].stream] = file[object[o].name]
  /\ \A n \in Names : open_streams[n] # None => On(n) # {}

=============================================================================

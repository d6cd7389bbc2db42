----------------------------- MODULE PageLists -----------------------------
(***************************************************************************)
(* What a buffer manager depends on of the lists in which a file keeps its *)
(* pages (p2/bufmgr/src/file.cpp, and PageFile of p3): which page          *)
(* allocatePage takes, and whether it may throw.  The lists themselves are *)
(* in PagedFile.tla: it shows that allocatePage can only throw, or walk    *)
(* for ever, once a page was allocated from a file emptied of several.     *)
(*                                                                         *)
(* The pages are pairs of a file and a number; live is the set of those in *)
(* use.                                                                    *)
(***************************************************************************)
EXTENDS Naturals

PageListsOf(pages, files) == [had : SUBSET pages, disordered : SUBSET files]

\* had: the pages each file has grown to, in use or free; disordered: the
\* files whose list of used pages may lead to a free page.
NewLists == [had |-> {}, disordered |-> {}]

FreePages(lists, live, f) == {k \in lists.had : k[1] = f /\ k \notin live}

\* File::allocatePage takes a free page, and if there is none a new one.
MayAllocate(lists, live, k) ==
  /\ k \notin live
  /\ FreePages(lists, live, k[1]) # {} => k \in lists.had

\* Every page was deleted and several are free: the page allocated next keeps
\* its free-list pointer, and with it a free page in the list of used ones.
EmptiedOfSeveral(lists, live, f) ==
  /\ \A k \in live : k[1] # f
  /\ \E j, k \in FreePages(lists, live, f) : j # k

WithPage(lists, live, k) ==
  [had |-> lists.had \cup {k},
   disordered |-> IF EmptiedOfSeveral(lists, live, k[1])
                  THEN lists.disordered \cup {k[1]} ELSE lists.disordered]

\* The walk along the used list meets a free page: readPage throws
\* InvalidPageException (it may also meet a used page twice and never end).
\* Taken to stay possible from then on.
AllocationMayThrow(lists, f) == f \in lists.disordered

=============================================================================

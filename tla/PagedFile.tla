----------------------------- MODULE PagedFile -----------------------------
(***************************************************************************)
(* File of p2 (p2/bufmgr/src/file.cpp): the header and the pages on disk,  *)
(* where pages in use form one linked list, in page order, and deleted     *)
(* pages another.  A call is one step (one thread, one stream per file).   *)
(***************************************************************************)
EXTENDS Naturals, FiniteSets

CONSTANTS
  MaxPages,  \* bound: the pages the file may grow to
  Data,      \* contents of a page
  Empty,     \* the content of a new Page
  Gone       \* not a content: of a page that is not in use

ASSUME FileAssumption ==
  MaxPages \in Nat \ {0} /\ Empty \in Data /\ Gone \notin Data

INVALID_NUMBER == 0         \* also the end of a list
Pages == 1 .. MaxPages
PageNumbers == 0 .. MaxPages

VARIABLES
  header,    \* FileHeader on disk
  page,      \* page[p]: the header fields and the content of page p on disk
  outcome,   \* history: how the last call ended
  disordered \* history: a page was allocated from an EmptiedList

fileVars == <<header, page, outcome, disordered>>

Header == [num_pages : 1 .. MaxPages + 1, first_used_page : PageNumbers,
           num_free_pages : 0 .. MaxPages, first_free_page : PageNumbers]
Page   == [current : PageNumbers, next : PageNumbers, data : Data]

FileTypeOK ==
  /\ header \in Header
  /\ page \in [Pages -> Page]
  /\ outcome \in {"ok", "InvalidPage", "hangs"}
  /\ disordered \in BOOLEAN

\* Page::initialize
Blank == [current |-> INVALID_NUMBER, next |-> INVALID_NUMBER, data |-> Empty]

\* File::create
FileInit ==
  /\ header = [num_pages |-> 1, first_used_page |-> INVALID_NUMBER,
               num_free_pages |-> 0, first_free_page |-> INVALID_NUMBER]
  /\ page = [p \in Pages |-> Blank]
  /\ outcome = "ok"
  /\ disordered = FALSE

-----------------------------------------------------------------------------
(* readPage(p), and FileIterator::operator*, throw InvalidPageException    *)
(* unless Readable(p).  Page 0 is the header: no list leads there, and no  *)
(* caller of the repository asks for it.                                   *)
Used(p) == page[p].current # INVALID_NUMBER

Readable(p) == p < header.num_pages /\ Used(p)

\* The page a walk along the next pointers from page first is at after n
\* steps.  FileIterator::operator++ follows the pointer of any page, in use
\* or not.
Walk(first) ==
  LET at[n \in 0 .. MaxPages] ==
        IF n = 0 THEN first
        ELSE IF at[n - 1] = INVALID_NUMBER THEN INVALID_NUMBER
        ELSE page[at[n - 1]].next
  IN  at

Visited == Walk(header.first_used_page)

\* A loop over the file's pages that dereferences the iterator in each turn
\* and breaks at a page of set stop: after n turns it breaks, finds end(), or
\* throws; if it does none of these in as many turns as there are pages, it
\* has met a page twice and goes round for ever.
BreaksAt(stop, n) ==
  /\ Visited[n] \in stop
  /\ \A m \in 0 .. n : Visited[m] # INVALID_NUMBER /\ Readable(Visited[m])
  /\ \A m \in 0 .. n - 1 : Visited[m] \notin stop

ThrowsAt(stop, n) ==
  /\ Visited[n] # INVALID_NUMBER /\ ~Readable(Visited[n])
  /\ \A m \in 0 .. n - 1 : Visited[m] # INVALID_NUMBER /\ Readable(Visited[m])
                           /\ Visited[m] \notin stop

FindsEnd(stop, n) ==
  /\ Visited[n] = INVALID_NUMBER
  /\ \A m \in 0 .. n - 1 : Visited[m] # INVALID_NUMBER /\ Readable(Visited[m])
                           /\ Visited[m] \notin stop

Turns == 0 .. MaxPages

Fails(stop) ==
  \/ /\ \E n \in Turns : ThrowsAt(stop, n)
     /\ outcome' = "InvalidPage"
  \/ /\ ~\E n \in Turns :
            BreaksAt(stop, n) \/ ThrowsAt(stop, n) \/ FindsEnd(stop, n)
     /\ outcome' = "hangs"

-----------------------------------------------------------------------------
(* allocatePage.                                                           *)

Unchanged == UNCHANGED <<header, page>>

\* A reused page goes before the first page in use, or is the only one.  If
\* there was none, its next pointer stays that of the free list.
ReuseAsHead ==
  LET p == header.first_free_page
      first == header.first_used_page
  IN  /\ first = INVALID_NUMBER \/ first > p
      /\ page' = [page EXCEPT ![p] = [current |-> p, data |-> @.data,
                                      next |-> IF first > p THEN first
                                               ELSE @.next]]
      /\ header' = [header EXCEPT !.first_used_page = p,
                                  !.first_free_page = page[p].next,
                                  !.num_free_pages = @ - 1]
      /\ outcome' = "ok"

\* Otherwise it goes after the last page in use with a lower number.
ReuseInside ==
  LET p == header.first_free_page
      first == header.first_used_page
      stop == {q \in Pages : page[q].next > p \/ page[q].next = INVALID_NUMBER}
  IN  /\ first # INVALID_NUMBER /\ first <= p
      /\ \/ Unchanged /\ Fails(stop)
         \/ \E n \in Turns :
              LET q == Visited[n] IN
              /\ BreaksAt(stop, n)
              /\ page' = [r \in Pages |->
                            IF r = q THEN [page[q] EXCEPT !.next = p]
                            ELSE IF r = p
                            THEN [page[p] EXCEPT !.current = p,
                                                 !.next = page[q].next]
                            ELSE page[r]]
              /\ header' = [header EXCEPT !.first_free_page = page[p].next,
                                          !.num_free_pages = @ - 1]
              /\ outcome' = "ok"

\* No free page: the file grows by one, at the end of the list.
Grow ==
  LET p == header.num_pages
      stop == {q \in Pages : page[q].next = INVALID_NUMBER}
      new == [current |-> p, next |-> INVALID_NUMBER, data |-> Empty]
  IN  /\ p <= MaxPages
      /\ \/ /\ header.first_used_page = INVALID_NUMBER
            /\ page' = [page EXCEPT ![p] = new]
            /\ header' = [header EXCEPT !.first_used_page = p,
                                        !.num_pages = @ + 1]
            /\ outcome' = "ok"
         \/ /\ header.first_used_page # INVALID_NUMBER
            /\ \/ Unchanged /\ Fails(stop)
               \/ \E n \in Turns :
                    /\ BreaksAt(stop, n)
                    /\ page' = [r \in Pages |->
                                  IF r = Visited[n]
                                  THEN [page[r] EXCEPT !.next = p]
                                  ELSE IF r = p THEN new ELSE page[r]]
                    /\ header' = [header EXCEPT !.num_pages = @ + 1]
                    /\ outcome' = "ok"

\* The case in which the list of used pages goes wrong: every page was
\* deleted, several are free, and one is allocated again.
EmptiedList ==
  header.first_used_page = INVALID_NUMBER /\ header.num_free_pages > 1

allocatePage ==
  /\ outcome # "hangs"
  /\ disordered' = (disordered \/ EmptiedList)
  /\ IF header.num_free_pages > 0 THEN ReuseAsHead \/ ReuseInside ELSE Grow

-----------------------------------------------------------------------------
(* deletePage and writePage.                                               *)

\* Variant with a bug: the page is not linked to the rest of the free list.
Free_NoLink(p, pred) ==
  /\ page' = [r \in Pages |->
                IF r = p THEN Blank
                ELSE IF r = pred THEN [page[r] EXCEPT !.next = page[p].next]
                ELSE page[r]]
  /\ header' = [header EXCEPT !.first_free_page = p,
                              !.num_free_pages = @ + 1,
                              !.first_used_page =
                                IF p = @ THEN page[p].next ELSE @]
  /\ outcome' = "ok"

\* Variant with a bug: the page is not initialized.
Free_KeepsContent(p, pred) ==
  /\ page' = [r \in Pages |->
                IF r = p THEN [page[p] EXCEPT !.current = INVALID_NUMBER,
                                              !.next = header.first_free_page]
                ELSE IF r = pred THEN [page[r] EXCEPT !.next = page[p].next]
                ELSE page[r]]
  /\ header' = [header EXCEPT !.first_free_page = p,
                              !.num_free_pages = @ + 1,
                              !.first_used_page =
                                IF p = @ THEN page[p].next ELSE @]
  /\ outcome' = "ok"

\* The page becomes the first free page; pred is the page whose next pointer
\* led to it, or INVALID_NUMBER if first_used_page did.
Free(p, pred) ==
  /\ page' = [r \in Pages |->
                IF r = p THEN [Blank EXCEPT !.next = header.first_free_page]
                ELSE IF r = pred THEN [page[r] EXCEPT !.next = page[p].next]
                ELSE page[r]]
  /\ header' = [header EXCEPT !.first_free_page = p,
                              !.num_free_pages = @ + 1,
                              !.first_used_page =
                                IF p = @ THEN page[p].next ELSE @]
  /\ outcome' = "ok"

\* Variant with a bug: the page before it is not looked for.
deletePage_NoRelink(p) ==
  outcome # "hangs" /\ Readable(p) /\ Free(p, INVALID_NUMBER)

deletePage(p) ==
  LET stop == {q \in Pages : page[q].next = p} IN
  /\ outcome # "hangs"
  /\ \/ /\ ~Readable(p)
        /\ outcome' = "InvalidPage"
        /\ Unchanged
     \/ /\ Readable(p)
        /\ p = header.first_used_page
        /\ Free(p, INVALID_NUMBER)
     \/ /\ Readable(p)
        /\ p # header.first_used_page
        /\ \/ Unchanged /\ Fails(stop)
           \/ \E n \in Turns : BreaksAt(stop, n) /\ Free(p, Visited[n])
           \/ (\E n \in Turns : FindsEnd(stop, n)) /\ Free(p, INVALID_NUMBER)

\* Variant with a bug: the client's next pointer is written.
writePage_TrustsClient(p, data, oldNext) ==
  /\ outcome # "hangs"
  /\ Used(p)
  /\ page' = [page EXCEPT ![p] = [current |-> p, next |-> oldNext,
                                  data |-> data]]
  /\ outcome' = "ok"
  /\ UNCHANGED header

\* The client writes back a Page it was given earlier, whose next pointer is
\* old by now: the one on disk is kept.
writePage(p, data, oldNext) ==
  /\ outcome # "hangs"
  /\ IF Used(p)
     THEN /\ page' = [page EXCEPT ![p] = [current |-> p, next |-> @.next,
                                          data |-> data]]
          /\ outcome' = "ok"
     ELSE /\ outcome' = "InvalidPage"
          /\ UNCHANGED page
  /\ UNCHANGED header

\* A client writes pages that it once got from this file.
deleteOrWrite(p) ==
  /\ p < header.num_pages
  /\ \/ deletePage(p)
     \/ \E data \in Data, oldNext \in PageNumbers :
          writePage(p, data, oldNext)
  /\ UNCHANGED disordered

FileNext == allocatePage \/ \E p \in Pages : deleteOrWrite(p)

FileSpec == FileInit /\ [][FileNext]_fileVars

-----------------------------------------------------------------------------
(* Properties.                                                             *)

UsedPages == {p \in Pages : Used(p)}

\* q is the next page in use after p, in page order.
IsNext(p, q) ==
  /\ q = INVALID_NUMBER \/ (q \in UsedPages /\ q > p)
  /\ \A r \in UsedPages : r > p => q # INVALID_NUMBER /\ q <= r

(* The pages in use are linked in page order, all of them and no other: a  *)
(* FileIterator visits each page in use once - as long as no page was      *)
(* allocated from a file emptied of several pages.                         *)
UsedListExact == ~disordered =>
  /\ IsNext(INVALID_NUMBER, header.first_used_page)
  /\ \A p \in UsedPages : IsNext(p, page[p].next)

(* The free list links all pages below num_pages that are not in use, once *)
(* each, and num_free_pages counts them - in any state the file reaches,   *)
(* those with a broken list of used pages included.                        *)
FreeListExact ==
  LET free == {p \in Pages : p < header.num_pages /\ ~Used(p)}
      at == Walk(header.first_free_page)
      n == header.num_free_pages
  IN  /\ n = Cardinality(free)
      /\ {at[m] : m \in 0 .. n - 1} = free
      /\ at[n] = INVALID_NUMBER

(* So long, allocatePage does not throw either.                            *)
AllocationSucceeds ==
  [][~disordered /\ allocatePage => outcome' = "ok"]_fileVars

(* A page in use can be deleted, whatever became of the list it is in.     *)
LivePagesCanBeDeleted ==
  [][\A p \in Pages : Used(p) /\ deletePage(p) => outcome' = "ok"]_fileVars

(* The lists keep the promise of FileContents: a page in use keeps its     *)
(* content whatever happens to other pages and to the lists.               *)
Contents == INSTANCE FileContents WITH
  content <- [p \in Pages |-> IF Used(p) THEN page[p].data ELSE Gone]

ImplementsContents == Contents!Spec

=============================================================================

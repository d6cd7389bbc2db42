-------------------------- MODULE MCSearchResults --------------------------
(***************************************************************************)
(* SearchResults for results pages of the generated index: pages with rows *)
(* of one result and of several, among them rows that have the same        *)
(* identifier, and one where a row is the prefix of others.                *)
(***************************************************************************)
EXTENDS SearchResults, SearchIndex

\* What SearchResults assumes of the order of the rows holds of every page that
\* was generated, not only of those the run takes.
ASSUME GeneratedPagesInOrder ==
  \A page \in p2_pages \cup p3_pages : RowsInOrder(page.rows)

SomePages == {p2_all_66, p3_all_62, p3_all_63, p3_all_6f, p3_all_70, p3_all_72}

=============================================================================

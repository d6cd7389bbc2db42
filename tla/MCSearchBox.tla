---------------------------- MODULE MCSearchBox ----------------------------
(***************************************************************************)
(* SearchBox for the documentation of p1, whose tables are empty, and for  *)
(* two sections of p3: one that has a page for the letter f, and one that  *)
(* has none.  The comparison with the last search removes every space of  *)
(* a value, the search only those at its head: " f" and "f i" tell.        *)
(***************************************************************************)
EXTENDS SearchBox, SearchIndex

Label_ == "Search"
Values_ == {"", Label_, "f", " f", "f i", "fi"}
Squeezed_ == [v \in Values_ |->
                CASE v = " f" -> "f" [] v = "f i" -> "fi" [] OTHER -> v]
Trimmed_ == [v \in Values_ |-> IF v = " f" THEN "f" ELSE v]
Letter_ == [v \in Values_ |->
              CASE v = "" -> "" [] v = Label_ -> "s" [] v = " f" -> " "
                [] OTHER -> "f"]
Hits_ == {"f", "fi"}
Sites_ == {p1_indexSectionsWithContent,
           <<p3_indexSectionsWithContent[1], p3_indexSectionsWithContent[3]>>}

=============================================================================

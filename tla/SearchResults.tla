--------------------------- MODULE SearchResults ---------------------------
(***************************************************************************)
(* The results page of the documentation's search (class SearchResults and *)
(* createResults in search.js): the rows that match the search, the lists  *)
(* of results that fold out below a row, and the way through them with the *)
(* arrow keys.                                                             *)
(*                                                                         *)
(* Rows and results are numbered from 1.  The page lies in a frame next to *)
(* the search field: keys go to the element that has the focus, and the    *)
(* focus can change between the press of a key and its release.            *)
(***************************************************************************)
EXTENDS Naturals, Sequences, FiniteSetsExt

CONSTANT Pages      \* results pages: sequences of <<identifier, results>>

\* Identifiers consist of these characters (convertToId), here in the order
\* in which doxygen sorts the rows by them.
Alphabet == "0123456789_abcdefghijklmnopqrstuvwxyz"

Rank(c) ==
  Max({0} \cup {x \in 1 .. Len(Alphabet) : SubSeq(Alphabet, x, x) = c})

\* a = b, or a is a prefix of b, or has the lower of the characters that
\* first differ.
Precedes(a, b) ==
  \E n \in 0 .. Len(a) :
    /\ n <= Len(b) /\ SubSeq(a, 1, n) = SubSeq(b, 1, n)
    /\ n < Len(a) =>
         n < Len(b) /\ Rank(SubSeq(a, n + 1, n + 1)) < Rank(SubSeq(b, n + 1, n + 1))

RowsInOrder(page) ==
  \A i, j \in DOMAIN page : i <= j => Precedes(page[i][1], page[j][1])

ASSUME PagesAssumption == Pages \subseteq Seq(STRING \X (Nat \ {0}))

ASSUME OrderAssumption ==
  /\ Len(Alphabet) \in Nat
  /\ \A page \in Pages :
       RowsInOrder(page) /\ \A i \in DOMAIN page : Len(page[i][1]) \in Nat

ResultsKeys == {"Up", "Down", "Left", "Right", "Enter", "Escape"}
NoKey == "none"     \* lastKey = 0
Field == <<0>>        \* MSearchField
Elsewhere == <<>>

VARIABLES
  rows,       \* the page
  matched,    \* rows that match the search, and so are displayed
  opened,     \* rows whose children are displayed
  closed,     \* the results window was closed
  focus,      \* Field, Elsewhere, a row <<i>> or a child of it <<i, c>>
  lastKey, repeatOn,
  held        \* the key that is down, or NoKey

resultsVars ==
  <<rows, matched, opened, closed, focus, lastKey, repeatOn, held>>

HasChildren(i) == rows[i][2] > 1
Children(i) == IF HasChildren(i) THEN {<<i, c>> : c \in 1 .. rows[i][2]} ELSE {}
Items == {<<i>> : i \in DOMAIN rows} \cup UNION {Children(i) : i \in DOMAIN rows}

ResultsTypeOK ==
  /\ rows \in Pages
  /\ matched \subseteq DOMAIN rows
  /\ opened \subseteq {i \in DOMAIN rows : HasChildren(i)}
  /\ focus \in Items \cup {Field, Elsewhere}
  /\ {lastKey, held} \subseteq ResultsKeys \cup {NoKey}
  /\ {repeatOn, closed} \subseteq BOOLEAN

-----------------------------------------------------------------------------
(* The page.                                                               *)

\* Variant with a bug: a row matches if the search occurs anywhere in it.
Matches_Anywhere(id, search) ==
  \E n \in 0 .. Len(id) - Len(search) :
    SubSeq(id, n + 1, n + Len(search)) = search

\* A row matches if its identifier begins with the search.
Matches(id, search) ==
  Len(search) <= Len(id) /\ SubSeq(id, 1, Len(search)) = search

\* SearchResults.Search, called when the page was created.
SearchRows(search) == {i \in DOMAIN rows : Matches(rows[i][1], search)}

\* A row, or a child of an opened row, is on the screen.
Displayed(e) ==
  ~closed /\ \E i \in matched : e = <<i>> \/ (i \in opened /\ e \in Children(i))

\* focus() on an element that is not displayed does nothing.
Focused(e) == IF e = Field \/ Displayed(e) THEN e ELSE focus

\* getElementById finds the first of the rows that have the same identifier,
\* which is where the children of row i are looked for.
FindChildElement(i) ==
  LET row == Min({j \in DOMAIN rows : rows[j][1] = rows[i][1]})
  IN  {j \in {row} : HasChildren(j)}

ChildrenVisible(i) == FindChildElement(i) \cap opened # {}

\* NavNext and NavPrev: the next visible row from n on, if there is one.
NavNext(n) ==
  LET after == {i \in matched : i >= n} IN
  IF after = {} THEN {} ELSE {Min(after)}

NavPrev(n) ==
  LET before == {i \in matched : i <= n} IN
  IF before = {} THEN {} ELSE {Max(before)}

\* focus() on the row that was found, if one was.
FocusRow(found) ==
  IF found = {} THEN focus ELSE Focused(<<Max(found)>>)

-----------------------------------------------------------------------------
(* The keys of a row and of a child.                                       *)

\* Up: the row before or its last child, or the field.
UpFrom(i) ==
  IF NavPrev(i - 1) = {} THEN Field
  ELSE LET row == Max(NavPrev(i - 1)) IN
       \* its last child, which is looked for below row i - 1
       IF ChildrenVisible(row) /\ HasChildren(i - 1)
       THEN Focused(<<i - 1, rows[i - 1][2]>>) ELSE Focused(<<row>>)

\* Down: its first child, or the next row.
DownFrom(i) ==
  IF ChildrenVisible(i) /\ HasChildren(i) THEN Focused(<<i, 1>>)
  ELSE FocusRow(NavNext(i + 1))

\* Escape: CloseResultsWindow, and back to the field.
Leave == closed' = TRUE /\ focus' = Field /\ UNCHANGED opened

\* SearchResults.Nav, for a key that ProcessKeys let pass.
Nav(i, k) ==
  \/ k = "Up" /\ focus' = UpFrom(i) /\ UNCHANGED <<opened, closed>>
  \/ k = "Down" /\ focus' = DownFrom(i) /\ UNCHANGED <<opened, closed>>
  \/ /\ k = "Right" /\ opened' = opened \cup FindChildElement(i)
     /\ UNCHANGED <<focus, closed>>
  \/ /\ k = "Left" /\ opened' = opened \ FindChildElement(i)
     /\ UNCHANGED <<focus, closed>>
  \/ k = "Escape" /\ Leave

\* Variant with a bug: Left folds in the children, the one with the focus too.
NavChild_LeftFolds(i, c, k) ==
  /\ k = "Left"
  /\ opened' = opened \ FindChildElement(i)
  /\ UNCHANGED <<focus, closed>>

\* Variant with a bug: Up from a first child goes to the row before.
NavChild_SkipsParent(i, c, k) ==
  /\ focus' = CASE k = "Up" -> IF c > 1 THEN Focused(<<i, c - 1>>)
                               ELSE FocusRow(NavPrev(i - 1))
                [] k = "Down" -> IF c < rows[i][2] THEN Focused(<<i, c + 1>>)
                                 ELSE FocusRow(NavNext(i + 1))
                [] OTHER -> focus
  /\ UNCHANGED <<opened, closed>>

\* SearchResults.NavChild
NavChild(i, c, k) ==
  \/ /\ k = "Up"
     /\ focus' = IF c > 1 THEN Focused(<<i, c - 1>>) ELSE Focused(<<i>>)
     /\ UNCHANGED <<opened, closed>>
  \/ /\ k = "Down"
     /\ focus' = IF c < rows[i][2] THEN Focused(<<i, c + 1>>)
                 ELSE FocusRow(NavNext(i + 1))
     /\ UNCHANGED <<opened, closed>>
  \/ k \in {"Left", "Right"} /\ UNCHANGED <<opened, focus, closed>>
  \/ k = "Escape" /\ Leave

-----------------------------------------------------------------------------
(* Events.                                                                 *)

\* Variant with a bug: takes a key for held as long as nothing released it.
ProcessKeys_KeepsKey(type, k) ==
  CASE type = "keydown"  -> [lastKey |-> IF lastKey = NoKey THEN k ELSE lastKey,
                             repeatOn |-> FALSE, go |-> TRUE]
    [] type = "keypress" -> [lastKey |-> lastKey,
                             repeatOn |-> repeatOn \/ lastKey # NoKey,
                             go |-> repeatOn /\ lastKey # NoKey]
    [] type = "keyup"    -> [lastKey |-> NoKey, repeatOn |-> FALSE, go |-> FALSE]

\* What an event makes of lastKey and repeatOn, and whether Nav goes on.  The
\* first keypress belongs to the keydown before it; more are repetitions.
ProcessKeys(type, k) ==
  CASE type = "keydown"  -> [lastKey |-> k, repeatOn |-> FALSE, go |-> TRUE]
    [] type = "keypress" -> [lastKey |-> lastKey,
                             repeatOn |-> repeatOn \/ lastKey # NoKey,
                             go |-> repeatOn /\ lastKey # NoKey]
    [] type = "keyup"    -> [lastKey |-> NoKey, repeatOn |-> FALSE, go |-> FALSE]

\* setKeyActions: the three events of key k at a row or child.  Enter is left
\* to the browser, before ProcessKeys.
AtItem(type, k) ==
  LET p == ProcessKeys(type, k) IN
  /\ focus \in Items
  /\ IF k = "Enter" THEN UNCHANGED <<opened, closed, focus, lastKey, repeatOn>>
     ELSE /\ lastKey' = p.lastKey
          /\ repeatOn' = p.repeatOn
          /\ IF ~p.go THEN UNCHANGED <<opened, closed, focus>>
             ELSE IF Len(focus) = 1 THEN Nav(focus[1], p.lastKey)
             ELSE NavChild(focus[1], focus[2], p.lastKey)

\* The release of Down or Enter in the field goes to the first row that is
\* visible (OnSearchFieldChange); nothing else listens.
Outside(type, k) ==
  /\ focus \notin Items
  /\ focus' = IF focus = Field /\ type = "keyup" /\ k \in {"Down", "Enter"}
              THEN FocusRow(NavNext(1)) ELSE focus
  /\ UNCHANGED <<opened, closed, lastKey, repeatOn>>

Event(type, k) == AtItem(type, k) \/ Outside(type, k)

\* While a key is down a browser repeats keydown, keypress or both.
KeyDown(k) ==
  /\ held \in {NoKey, k}
  /\ held' = k
  /\ Event("keydown", k)
  /\ UNCHANGED <<rows, matched>>

KeyPress ==
  /\ held # NoKey
  /\ Event("keypress", held)
  /\ UNCHANGED <<rows, matched, held>>

KeyUp ==
  /\ held # NoKey
  /\ held' = NoKey
  /\ Event("keyup", held)
  /\ UNCHANGED <<rows, matched>>

\* A click on the link of a row that has several results, or Enter on it.
Toggle(i) ==
  /\ held \in {NoKey, "Enter"}
  /\ HasChildren(i) /\ Displayed(<<i>>)
  /\ opened' = (opened \ FindChildElement(i)) \cup (FindChildElement(i) \ opened)
  /\ focus' = <<i>>
  /\ UNCHANGED <<rows, matched, closed, lastKey, repeatOn, held>>

\* The reader clicks into the field or anywhere else, with no key held down.
ClickAway ==
  /\ held = NoKey
  /\ focus' \in {Field, Elsewhere}
  /\ UNCHANGED <<rows, matched, opened, closed, lastKey, repeatOn, held>>

\* The searches that find something: identifiers cut off at a character, not
\* inside the code that convertToId writes for one.
RowSearches ==
  UNION {{SubSeq(rows[i][1], 1, n) : n \in
            {n \in 1 .. Len(rows[i][1]) :
               \A m \in {n - 1, n} \ {0} : SubSeq(rows[i][1], m, m) # "_"}} :
         i \in DOMAIN rows}

ResultsInit ==
  /\ rows \in Pages
  /\ matched \in {SearchRows(s) : s \in RowSearches} \cup {{}}
  /\ opened = {}
  /\ closed = FALSE
  /\ focus = Field
  /\ lastKey = NoKey /\ repeatOn = FALSE
  /\ held = NoKey

ResultsNext ==
  \/ \E k \in ResultsKeys : KeyDown(k)
  \/ KeyPress
  \/ KeyUp
  \/ \E i \in DOMAIN rows : Toggle(i)
  \/ ClickAway

ResultsSpec == ResultsInit /\ [][ResultsNext]_resultsVars

-----------------------------------------------------------------------------
(* Properties.                                                             *)

\* What is on the screen, from top to bottom.
Before(a, b) ==
  \/ a[1] < b[1]
  \/ a[1] = b[1] /\ (Len(a) < Len(b) \/ (Len(a) = 2 /\ Len(b) = 2 /\ a[2] < b[2]))

OnScreen == {e \in Items : Displayed(e)}

\* The focus is never on a row or child that is not on the screen, from where
\* no key would bring the reader back: rows fold in below the focus, events of
\* a key arrive after it moved, and two rows can have the same identifier.
FocusOnScreen == focus \in Items => (closed \/ focus \in OnScreen)

\* The rows that match lie together.  Nav relies on it when it goes Up: it
\* finds the row above with NavPrev, but that row's last child with i - 1.
MatchesTogether ==
  \A i, j \in matched : \A m \in i .. j : m \in matched

\* A key that is held down on a row or child is the one its repetitions act
\* for.  lastKey is not reset when the focus leaves for the field with the key
\* down: the next key of the page must not act for the one before.
KeyInHand ==
  focus \in Items /\ held \notin {NoKey, "Enter"} => lastKey = held

\* The way through the results is up and down the screen: a move from a row or
\* child ends at the one just below or just above it, or above the first row
\* in the field.  Rows with the same identifier share the state of one of
\* them, and only what is visible counts.
OneStepUpOrDown ==
  LET below == {e \in OnScreen : Before(focus, e)}
      above == {e \in OnScreen : Before(e, focus)}
  IN  \/ focus' = focus
      \/ focus' \in below /\ \A e \in below : e = focus' \/ Before(focus', e)
      \/ focus' \in above /\ \A e \in above : e = focus' \/ Before(e, focus')
      \/ focus' = Field /\ (above = {} \/ closed')

KeyEvent == KeyPress \/ KeyUp \/ \E k \in ResultsKeys : KeyDown(k)

ArrowsWalk == [][KeyEvent /\ focus \in OnScreen => OneStepUpOrDown]_resultsVars

=============================================================================

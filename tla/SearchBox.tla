----------------------------- MODULE SearchBox -----------------------------
(***************************************************************************)
(* The search panel of the documentation's pages (class SearchBox in       *)
(* search.js): the search field, the window with the results in a frame,   *)
(* and the window in which the sections to search are selected.            *)
(*                                                                         *)
(* A search starts some time after the last key was released.  Browser     *)
(* events run one at a time, each to its end; between them timers fire and *)
(* the frame loads.  Moving the focus runs the handlers of the field at    *)
(* once, inside the handler that moves it.                                 *)
(***************************************************************************)
EXTENDS Naturals, Sequences

CONSTANTS
  Values,     \* what can be in the search field
  Label,      \* searchLabel, shown in the field that is not in use
  Squeezed,   \* values with all spaces removed
  Trimmed,    \* values with leading spaces removed
  Letter,     \* first letters of values
  Hits,       \* values that match a row of each results page of their letter
  Sites,      \* tables of search.js: for each section, letters with a page
  MaxTimers   \* bound: searches that are due at the same time

ASSUME ValuesAssumption ==
  /\ "" \in Values /\ Label \in Values
  /\ Squeezed \in [Values -> Values]
  /\ Trimmed \in [Values -> Values] /\ Trimmed[Label] = Label
  /\ Sites \subseteq Seq(SUBSET STRING)
  /\ MaxTimers \in Nat

\* Nothing is left of nothing.
ASSUME SpacesAssumption == Squeezed[""] = ""

NoMatches == [section |-> 0, letter |-> "nomatches"]
NoPage == [section |-> 0, letter |-> "none"]
NoURL == [page |-> NoPage, search |-> ""]

VARIABLES
  site,       \* indexSectionsWithContent
  box,        \* the SearchBox and the elements of the page it works on
  shown,      \* the document in the frame of the results window
  over        \* the mouse is over the icon or window of the selection

vars == <<site, box, shown, over>>

\* What OnSearchFieldChange tells apart; Enter is like Down.
Keys == {"char", "Down", "ShiftDown", "Escape"}

Focuses == {"none", "field", "results", "select"}
Letters == {Letter[v] : v \in Values} \cup {"nomatches", "none"}
ResultsPages == [section : Nat, letter : Letters]
URLs == [page : ResultsPages, search : Values]

Boxes == [value : Values, focus : Focuses, searchActive : BOOLEAN,
          popup : BOOLEAN, select : BOOLEAN, searchIndex : 0 .. Len(site),
          lastSearchValue : Values, lastResultsPage : ResultsPages,
          location : URLs, loading : BOOLEAN,
          keyTimeout : BOOLEAN, keyTimers : 0 .. MaxTimers, hideTimer : BOOLEAN]

TypeOK ==
  /\ site \in Sites
  /\ box \in Boxes
  /\ shown \in URLs
  /\ over \in BOOLEAN

-----------------------------------------------------------------------------
(* Parts of the handlers.                                                  *)

\* Variant with a bug: removes the panel while its results are shown.
Activate_IgnoresWindow(b, isActive) ==
  IF isActive
  THEN IF b.value = Label
       THEN [b EXCEPT !.value = "", !.searchActive = TRUE] ELSE b
  ELSE [b EXCEPT !.value = Label, !.searchActive = FALSE,
                 !.lastSearchValue = "", !.lastResultsPage = NoPage]

\* Variant with a bug: does not reset the value of the field.
Activate_KeepsValue(b, isActive) ==
  IF isActive \/ b.popup
  THEN IF b.value = Label
       THEN [b EXCEPT !.value = "", !.searchActive = TRUE] ELSE b
  ELSE [b EXCEPT !.searchActive = FALSE,
                 !.lastSearchValue = "", !.lastResultsPage = NoPage]

\* Enters the panel, or removes it unless its results are shown.
Activate(b, isActive) ==
  IF isActive \/ b.popup
  THEN IF b.value = Label
       THEN [b EXCEPT !.value = "", !.searchActive = TRUE] ELSE b
  ELSE [b EXCEPT !.value = Label, !.searchActive = FALSE,
                 !.lastSearchValue = "", !.lastResultsPage = NoPage]

\* focus(), blur() or a click: OnSearchFieldFocus runs when the field loses
\* the focus and when it gets it.
MoveFocus(b, to) ==
  LET left == IF b.focus = "field" /\ to # "field"
              THEN Activate([b EXCEPT !.focus = to], FALSE)
              ELSE [b EXCEPT !.focus = to]
  IN  IF b.focus # "field" /\ to = "field" THEN Activate(left, TRUE) ELSE left

\* style.display = 'none': what is not displayed has not the focus.
HideResults(b) ==
  [b EXCEPT !.popup = FALSE,
            !.focus = IF @ = "results" THEN "none" ELSE @]

CloseSelectionWindow(b) ==
  [b EXCEPT !.select = FALSE,
            !.focus = IF @ = "select" THEN "none" ELSE @]

CloseResultsWindow(b) == Activate(HideResults(b), FALSE)

OnSearchSelectShow(b) == [b EXCEPT !.select = TRUE, !.hideTimer = FALSE]

\* The results page for a value in a section.
ResultsPage(section, value) ==
  IF Letter[value] \in site[section + 1]
  THEN [section |-> section, letter |-> Letter[value]] ELSE NoMatches

URL(page, value) ==
  [page |-> page, search |-> IF page = NoMatches THEN "" ELSE value]

\* There is no section with the index that is selected: Search throws.
Throws(b) == b.searchIndex >= Len(site)

\* Variant with a bug: remembers the page only when it opens the window.
Search_PageOnce(b) ==
  LET value == Trimmed[b.value]
      page == ResultsPage(b.searchIndex, value)
  IN  IF Throws(b) THEN [b EXCEPT !.keyTimeout = FALSE]
      ELSE [b EXCEPT !.keyTimeout = FALSE, !.loading = TRUE, !.popup = TRUE,
                     !.location = URL(page, value), !.lastSearchValue = value,
                     !.lastResultsPage = IF b.popup THEN @ ELSE page]

\* Loads the results and shows the window.
Search(b) ==
  LET value == Trimmed[b.value]
      page == ResultsPage(b.searchIndex, value)
  IN  IF Throws(b) THEN [b EXCEPT !.keyTimeout = FALSE]
      ELSE [b EXCEPT !.keyTimeout = FALSE, !.loading = TRUE, !.popup = TRUE,
                     !.location = URL(page, value), !.lastSearchValue = value,
                     !.lastResultsPage = page]

\* OnSelectItem searches if something is in the field.
Searches(b) == Squeezed[b.value] # "" /\ b.searchActive

OnSelectItem(b, id) ==
  LET selected == [b EXCEPT !.searchIndex = id]
  IN  IF Searches(selected) THEN Search(selected) ELSE selected

-----------------------------------------------------------------------------
(* Keys in the search field: OnSearchFieldChange, when a key is released.  *)

\* Variant with a bug: clears the timer and keeps its number.
ClearKeyTimeout_KeepsNumber(b) ==
  IF b.keyTimeout /\ b.keyTimers > 0 THEN [b EXCEPT !.keyTimers = @ - 1] ELSE b

ClearKeyTimeout(b) ==
  IF b.keyTimeout
  THEN [b EXCEPT !.keyTimeout = FALSE, !.keyTimers = @ - 1] ELSE b

\* The document in the frame has rows that can get the focus.
HasRows == shown.page \notin {NoPage, NoMatches} /\ shown.search \in Hits

\* Variant with a bug: goes by the page that is shown, not by the search.
Changed_SameLetter(b) ==
  IF Squeezed[b.value] = b.lastSearchValue
     \/ (b.popup /\ b.lastResultsPage.letter = Letter[Squeezed[b.value]]) THEN b
  ELSE IF Squeezed[b.value] # ""
       THEN [b EXCEPT !.keyTimeout = TRUE, !.keyTimers = @ + 1]
       ELSE [HideResults(b) EXCEPT !.lastSearchValue = ""]

\* A value that is not the one last searched for is searched for later; the
\* empty one closes the results.
Changed(b) ==
  IF Squeezed[b.value] = b.lastSearchValue THEN b
  ELSE IF Squeezed[b.value] # ""
       THEN [b EXCEPT !.keyTimeout = TRUE, !.keyTimers = @ + 1]
       ELSE [HideResults(b) EXCEPT !.lastSearchValue = ""]

\* Down or Enter goes to the first row; what it finds may be of the page that
\* is about to be replaced.
ToResults(b) == IF HasRows /\ b.popup THEN MoveFocus(b, "results") ELSE b

\* Down or Enter with Shift opens the selection and goes to its first item.
ToSelection(b) ==
  IF site = <<>> THEN OnSearchSelectShow(b)
  ELSE MoveFocus(OnSearchSelectShow(b), "select")

Escaped(b) ==
  Activate([HideResults(MoveFocus(b, "none")) EXCEPT !.lastSearchValue = ""],
           FALSE)

OnSearchFieldChange(key) ==
  LET b == ClearKeyTimeout(box) IN
  /\ box.focus = "field"
  /\ b.keyTimers < MaxTimers
  /\ box' = CASE key = "char" -> Changed(b)
              [] key = "Down" -> Changed(ToResults(b))
              [] key = "ShiftDown" -> ToSelection(b)
              [] key = "Escape" -> Escaped(b)
  /\ UNCHANGED <<site, shown, over>>

\* The reader edits the value; the page hears of it when the key is released.
Edit ==
  /\ box.focus = "field"
  /\ \E v \in Values : box' = [box EXCEPT !.value = v]
  /\ UNCHANGED <<site, shown, over>>

-----------------------------------------------------------------------------
(* The selection of a section.                                             *)

\* OnSearchSelectKey at an item.  SelectItemCount is the number of sections,
\* which are numbered from 0.
SelectDown ==
  /\ box.focus = "select" /\ box.searchIndex < Len(site)
  /\ box' = OnSelectItem(box, box.searchIndex + 1)
  /\ UNCHANGED <<site, shown, over>>

SelectUp ==
  /\ box.focus = "select" /\ box.searchIndex > 0
  /\ box' = OnSelectItem(box, box.searchIndex - 1)
  /\ UNCHANGED <<site, shown, over>>

\* Enter and Escape do not come to close the window if Search throws.
SelectDone ==
  LET b == OnSelectItem(box, box.searchIndex) IN
  /\ box.focus = "select"
  /\ box' = IF Searches(box) /\ Throws(box) THEN b
            ELSE MoveFocus(CloseSelectionWindow(b), "field")
  /\ UNCHANGED <<site, shown, over>>

\* A click on an item takes the focus from the field before it selects.
ClickItem(id) ==
  /\ box.select /\ over /\ id < Len(site)
  /\ box' = OnSelectItem(MoveFocus(box, "select"), id)
  /\ UNCHANGED <<site, shown, over>>

\* The mouse comes over the icon or the window, and leaves (OnSearchSelectHide).
MouseOver ==
  /\ ~over /\ over' = TRUE
  /\ box' = OnSearchSelectShow(box)
  /\ UNCHANGED <<site, shown>>

MouseOut ==
  /\ over /\ over' = FALSE
  /\ box' = [box EXCEPT !.hideTimer = TRUE]
  /\ UNCHANGED <<site, shown>>

-----------------------------------------------------------------------------
(* The results window, and clicks.                                         *)

\* Up from the first row.
ResultsUp ==
  /\ box.focus = "results"
  /\ box' = MoveFocus(box, "field")
  /\ UNCHANGED <<site, shown, over>>

ResultsEscape ==
  /\ box.focus = "results"
  /\ box' = MoveFocus(CloseResultsWindow(box), "field")
  /\ UNCHANGED <<site, shown, over>>

\* A click into the field, on a row of the results or elsewhere in the page.
Click(to) ==
  /\ to = "results" => box.popup /\ HasRows
  /\ to # "select"
  /\ box' = MoveFocus(box, to)
  /\ UNCHANGED <<site, shown, over>>

ClickClose ==
  /\ box.popup
  /\ box' = CloseResultsWindow(MoveFocus(box, "none"))
  /\ UNCHANGED <<site, shown, over>>

-----------------------------------------------------------------------------
(* Timers and the frame.                                                   *)

\* Variant with a bug: the search is repeated, as by setInterval.
KeyTimer_Repeats ==
  /\ box.keyTimers > 0
  /\ box' = Search(box)
  /\ UNCHANGED <<site, shown, over>>

\* A search that is due: the one of keyTimeout, or one whose number Search
\* dropped when it ran for another reason.
KeyTimer ==
  /\ box.keyTimers > 0
  /\ box' = [Search(box) EXCEPT !.keyTimers = @ - 1]
  /\ UNCHANGED <<site, shown, over>>

HideTimer ==
  /\ box.hideTimer
  /\ box' = [CloseSelectionWindow(box) EXCEPT !.hideTimer = FALSE]
  /\ UNCHANGED <<site, shown, over>>

\* The frame has loaded its location; the row that had the focus is gone.
Load ==
  /\ box.loading
  /\ shown' = box.location
  /\ box' = [box EXCEPT !.loading = FALSE,
                        !.focus = IF @ = "results" THEN "none" ELSE @]
  /\ UNCHANGED <<site, over>>

-----------------------------------------------------------------------------
\* The constructor, and OnSelectItem(0) when the document is ready.
Init ==
  /\ site \in Sites
  /\ box = [value |-> Label, focus |-> "none", searchActive |-> FALSE,
            popup |-> FALSE, select |-> FALSE, searchIndex |-> 0,
            lastSearchValue |-> "", lastResultsPage |-> NoPage,
            location |-> NoURL, loading |-> FALSE,
            keyTimeout |-> FALSE, keyTimers |-> 0, hideTimer |-> FALSE]
  /\ shown = NoURL
  /\ over = FALSE

Reader ==
  \/ Edit
  \/ \E key \in Keys : OnSearchFieldChange(key)
  \/ SelectDown \/ SelectUp \/ SelectDone
  \/ \E id \in 0 .. Len(site) : ClickItem(id)
  \/ MouseOver \/ MouseOut
  \/ ResultsUp \/ ResultsEscape
  \/ \E to \in {"none", "field", "results"} : Click(to)
  \/ ClickClose

Browser == KeyTimer \/ HideTimer \/ Load

Next == Reader \/ Browser

Spec == Init /\ [][Next]_vars

\* Timers fire and the frame loads, whatever the reader does.
Fairness == WF_vars(KeyTimer) /\ WF_vars(HideTimer) /\ WF_vars(Load)

FairSpec == Spec /\ Fairness

-----------------------------------------------------------------------------
(* Properties.                                                             *)

\* A panel that is not in use looks like it: the field shows its label and has
\* not the focus.  The focus comes and goes by handlers inside handlers, with
\* the results shown or not.
IsReset(b) == ~b.searchActive => b.value = Label /\ b.focus # "field"

InactivePanelIsReset == IsReset(box)

\* A search that runs late, when the panel was removed, opens it again, but
\* only for the label: nothing the reader typed is searched for after that.
ShowsLabelOnly(b) == ~b.searchActive /\ b.popup => b.lastSearchValue = Label

InactiveShowsLabelOnly == ShowsLabelOnly(box)

\* The results that are shown, or being loaded, are those of the search that
\* later values and keys are compared with.
ShowsLastSearch(b) ==
  b.popup => b.location = URL(b.lastResultsPage, b.lastSearchValue)

ShownIsLastSearch == ShowsLastSearch(box)

\* keyTimeout is the number of a timer that runs, never of one that fired or
\* was cleared: it can be cleared, and a new one replaces it.
TimerRuns(b) == b.keyTimeout => b.keyTimers > 0

KnownTimerRuns == TimerRuns(box)

\* The panel knows what is in the field: it shows the search that Search would
\* make for it, or has one due that it can still cancel.
UpToDate ==
  \/ ~box.searchActive
  \/ Squeezed[box.value] = ""
  \/ box.keyTimeout
  \/ box.popup /\ box.lastSearchValue = Trimmed[box.value]

\* OnSearchFieldChange finds the value equal to the one last searched for, but
\* only because it removes the spaces inside it, which Search leaves.
DiffersInSpaces(b) ==
  Squeezed[b.value] = b.lastSearchValue /\ Trimmed[b.value] # b.lastSearchValue

\* Nothing but an edit makes the panel lag behind the field, and the release
\* of a key makes it catch up: no change of the focus, no click on a section
\* and no timer drops a search that is due.  Three steps may: Shift+Down, which
\* kills the timer and returns; a search that throws; and a key released when
\* the value differs from the last search in spaces only - "fi" was searched
\* for, the field reads "f i" and the panel goes on showing "fi".
KeepsUp ==
  [][\/ Edit \/ OnSearchFieldChange("ShiftDown") \/ Throws(box')
     \/ \E key \in Keys : OnSearchFieldChange(key) /\ DiffersInSpaces(box')
     \/ (UpToDate \/ \E key \in Keys : OnSearchFieldChange(key))
           => UpToDate']_vars

\* When the reader stops, no search stays due, the frame comes to show the
\* last one, and the selection does not linger for a mouse that left.
Settles ==
  <>[][Browser]_vars =>
    <>[](box.keyTimers = 0 /\ ~box.hideTimer /\ shown = box.location)

=============================================================================

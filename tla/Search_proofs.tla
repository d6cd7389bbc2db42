---------------------------- MODULE Search_proofs ----------------------------
(***************************************************************************)
(* What the search of the documentation keeps.                             *)
(*                                                                         *)
(* The panel (SearchBox), for every set of values, every table of sections *)
(* and every number of timers: a panel that is not in use is reset and     *)
(* shows no search of the reader's, the results shown are those of the     *)
(* last search, and keyTimeout is the number of a running timer.  The      *)
(* handlers are functions of the box, and so are the invariants: each part *)
(* of a handler is shown to keep them, whatever box it is given.           *)
(*                                                                         *)
(* The results (SearchResults), for every results page: the focus stays on *)
(* the screen, keys act for themselves, and the arrows walk the screen.    *)
(***************************************************************************)
EXTENDS SearchBox, SearchResults, SequenceTheorems, FiniteSetTheorems,
        WellFoundedInduction, TLAPS


Sound(b) ==
  b \in Boxes /\ IsReset(b) /\ ShowsLabelOnly(b) /\ ShowsLastSearch(b) /\ TimerRuns(b)

\* What a step of the focus or of the windows leaves alone.
SameDue(b, c) ==
  c.keyTimers = b.keyTimers /\ c.keyTimeout = b.keyTimeout
  /\ c.searchIndex = b.searchIndex
  /\ c.location = b.location /\ c.loading = b.loading

IInv == site \in Sites /\ shown \in URLs /\ over \in BOOLEAN /\ Sound(box)

-----------------------------------------------------------------------------
(* Parts of the handlers.                                                  *)

(* The values the panel starts from.                                       *)
LEMMA DefaultValues == "" \in Values /\ Label \in Values
BY ValuesAssumption

(* The bound on the timers.                                                *)
LEMMA BoundIsNatural == MaxTimers \in Nat
BY ValuesAssumption

(* NoPage and NoMatches are pages.                                         *)
LEMMA PagesAreTyped ==
  NoPage \in ResultsPages /\ NoMatches \in ResultsPages /\ NoURL \in URLs
<1>1. NoPage \in ResultsPages /\ NoMatches \in ResultsPages
  BY DEF NoPage, NoMatches, ResultsPages, Letters
<1>2. "" \in Values
  BY ValuesAssumption
<1>. QED BY <1>1, <1>2 DEF NoURL, URLs

(* Removing the panel keeps it sound if the field has not the focus.       *)
LEMMA RemovingIsSound ==
  ASSUME NEW b, Sound(b), b.focus # "field"
  PROVE  /\ Sound(Activate(b, FALSE))
         /\ Activate(b, FALSE).focus = b.focus
         /\ SameDue(b, Activate(b, FALSE))
<1>1. CASE b.popup
  <2>1. CASE b.value = Label
    BY <1>1, <2>1, DefaultValues
    DEF Activate, Sound, IsReset, ShowsLabelOnly, ShowsLastSearch,
                      TimerRuns, Boxes, SameDue
  <2>2. CASE b.value # Label
    BY <1>1, <2>2 DEF Activate, Sound, SameDue
  <2>. QED BY <2>1, <2>2
<1>2. CASE ~b.popup
  BY <1>2, PagesAreTyped, DefaultValues
  DEF Activate, Sound, IsReset, ShowsLabelOnly, ShowsLastSearch, TimerRuns,
      Boxes, SameDue
<1>. QED BY <1>1, <1>2

(* The focus of the box alone.                                             *)
LEMMA FocusElsewhereIsSound ==
  ASSUME NEW b, Sound(b), NEW to \in Focuses, to # "field"
  PROVE  /\ Sound([b EXCEPT !.focus = to])
         /\ [b EXCEPT !.focus = to].focus = to
         /\ SameDue(b, [b EXCEPT !.focus = to])
BY DEF Sound, IsReset, ShowsLabelOnly, ShowsLastSearch, TimerRuns, Boxes, SameDue

(* The field gets the focus: Activate makes the panel one in use.          *)
LEMMA EnteringIsSound ==
  ASSUME NEW b, Sound(b)
  PROVE  LET c == Activate([b EXCEPT !.focus = "field"], TRUE)
         IN  Sound(c) /\ c.focus = "field" /\ SameDue(b, c)
<1>1. CASE b.value = Label
  BY <1>1, DefaultValues
  DEF Activate, Sound, IsReset, ShowsLabelOnly, ShowsLastSearch,
              TimerRuns, Boxes, Focuses, SameDue
<1>2. CASE b.value # Label
  BY <1>2 DEF Activate, Sound, IsReset, ShowsLabelOnly, ShowsLastSearch,
              TimerRuns, Boxes, Focuses, SameDue
<1>. QED BY <1>1, <1>2

(* Whatever has the focus and whatever gets it, MoveFocus keeps the box    *)
(* sound.                                                                  *)
LEMMA MoveFocusIsSound ==
  ASSUME NEW b, Sound(b), NEW to \in Focuses
  PROVE  /\ Sound(MoveFocus(b, to))
         /\ MoveFocus(b, to).focus = to
         /\ SameDue(b, MoveFocus(b, to))
<1>1. CASE to = "field" /\ b.focus # "field"
  <2>1. MoveFocus(b, to) = Activate([b EXCEPT !.focus = "field"], TRUE)
    BY <1>1 DEF MoveFocus
  <2>. QED BY <2>1, <1>1, EnteringIsSound
<1>2. CASE to = "field" /\ b.focus = "field"
  <2>1. MoveFocus(b, to) = b
    BY <1>2 DEF MoveFocus, Sound, Boxes
  <2>. QED BY <2>1, <1>2 DEF SameDue
<1>3. CASE to # "field"
  <2> DEFINE c == [b EXCEPT !.focus = to]
  <2>1. Sound(c) /\ c.focus = to /\ SameDue(b, c)
    BY <1>3, FocusElsewhereIsSound
  <2>2. MoveFocus(b, to) = IF b.focus = "field" THEN Activate(c, FALSE) ELSE c
    BY <1>3 DEF MoveFocus
  <2>. HIDE DEF c
  <2>3. Sound(Activate(c, FALSE)) /\ Activate(c, FALSE).focus = to
        /\ SameDue(c, Activate(c, FALSE))
    BY <1>3, <2>1, RemovingIsSound
  <2>. QED BY <2>1, <2>2, <2>3 DEF SameDue
<1>. QED BY <1>1, <1>2, <1>3

(* Hiding the results, and with them a focus in them.                      *)
LEMMA HidingIsSound ==
  ASSUME NEW b, Sound(b)
  PROVE  /\ Sound(HideResults(b))
         /\ HideResults(b).focus = (IF b.focus = "results" THEN "none" ELSE b.focus)
         /\ ~HideResults(b).popup
         /\ SameDue(b, HideResults(b))
BY DEF HideResults, Sound, IsReset, ShowsLabelOnly, ShowsLastSearch, TimerRuns,
       Boxes, Focuses, SameDue

(* Once the results are hidden, the last search can be forgotten.          *)
LEMMA ForgettingIsSound ==
  ASSUME NEW b, Sound(b), ~b.popup
  PROVE  LET c == [b EXCEPT !.lastSearchValue = ""]
         IN  Sound(c) /\ c.focus = b.focus /\ SameDue(b, c)
BY DefaultValues
DEF Sound, IsReset, ShowsLabelOnly, ShowsLastSearch, TimerRuns, Boxes, SameDue

(* The window of the selection shows and closes.                           *)
LEMMA SelectionIsSound ==
  ASSUME NEW b, Sound(b)
  PROVE  /\ Sound(OnSearchSelectShow(b)) /\ SameDue(b, OnSearchSelectShow(b))
         /\ Sound(CloseSelectionWindow(b)) /\ SameDue(b, CloseSelectionWindow(b))
BY DEF OnSearchSelectShow, CloseSelectionWindow, Sound, IsReset, ShowsLabelOnly,
       ShowsLastSearch, TimerRuns, Boxes, Focuses, SameDue

(* Closing the results of a panel whose field has not the focus.           *)
LEMMA ClosingIsSound ==
  ASSUME NEW b, Sound(b), b.focus # "field"
  PROVE  Sound(CloseResultsWindow(b)) /\ SameDue(b, CloseResultsWindow(b))
<1> DEFINE c == HideResults(b)
<1>1. Sound(c) /\ c.focus # "field" /\ SameDue(b, c)
  BY HidingIsSound
<1>. HIDE DEF c
<1>2. Sound(Activate(c, FALSE)) /\ SameDue(c, Activate(c, FALSE))
  BY <1>1, RemovingIsSound
<1>. QED BY <1>1, <1>2 DEF CloseResultsWindow, SameDue, c

(* A search of a sound panel: when the panel is not in use, it is for the  *)
(* label.  No timer is known after it, and none has gone.                  *)
LEMMA SearchIsSound ==
  ASSUME NEW b, Sound(b), site \in Sites
  PROVE  /\ Sound(Search(b))
         /\ ~Search(b).keyTimeout
         /\ Search(b).keyTimers = b.keyTimers
         /\ Search(b).searchIndex = b.searchIndex
         /\ Search(b).focus = b.focus
<1> DEFINE value == Trimmed[b.value]
           page == ResultsPage(b.searchIndex, value)
<1>1. CASE Throws(b)
  BY <1>1 DEF Search, Sound, IsReset, ShowsLabelOnly, ShowsLastSearch, TimerRuns, Boxes
<1>2. CASE ~Throws(b)
  <2>1. value \in Values
    BY ValuesAssumption DEF Sound, Boxes
  <2>2. page \in ResultsPages
    <3>1. b.searchIndex \in Nat
      <4>1. Len(site) \in Nat
        BY ValuesAssumption, LenProperties
      <4>. QED BY <4>1 DEF Sound, Boxes
    <3>2. Letter[value] \in Letters
      BY <2>1 DEF Letters
    <3>. HIDE DEF value
    <3>. QED BY <3>1, <3>2, PagesAreTyped DEF ResultsPage, ResultsPages, page
  <2>3. ~b.searchActive => value = Label
    BY ValuesAssumption DEF Sound, IsReset
  <2> HIDE DEF value, page
  <2>4. URL(page, value) \in URLs
    BY <2>1, <2>2, ValuesAssumption DEF URL, URLs
  <2>5. Search(b) =
          [b EXCEPT !.keyTimeout = FALSE, !.loading = TRUE, !.popup = TRUE,
                    !.location = URL(page, value), !.lastSearchValue = value,
                    !.lastResultsPage = page]
    BY <1>2 DEF Search, value, page
  <2>6. Search(b) \in Boxes /\ IsReset(Search(b)) /\ TimerRuns(Search(b))
    BY <2>1, <2>2, <2>4, <2>5 DEF Sound, Boxes, IsReset, TimerRuns
  <2>7. ShowsLabelOnly(Search(b)) /\ ShowsLastSearch(Search(b))
    BY <2>3, <2>5 DEF Sound, Boxes, ShowsLabelOnly, ShowsLastSearch
  <2>8. /\ ~Search(b).keyTimeout /\ Search(b).keyTimers = b.keyTimers
        /\ Search(b).searchIndex = b.searchIndex /\ Search(b).focus = b.focus
    BY <2>5 DEF Sound, Boxes
  <2>. QED BY <2>6, <2>7, <2>8 DEF Sound
<1>. QED BY <1>1, <1>2

(* Selecting a section, or the index one past the last.                    *)
LEMMA SelectingIsSound ==
  ASSUME NEW b, Sound(b), site \in Sites, NEW id \in 0 .. Len(site)
  PROVE  /\ Sound(OnSelectItem(b, id))
         /\ OnSelectItem(b, id).keyTimers = b.keyTimers
         /\ OnSelectItem(b, id).focus = b.focus
<1> DEFINE c == [b EXCEPT !.searchIndex = id]
<1>1. Sound(c) /\ c.keyTimers = b.keyTimers /\ c.focus = b.focus
  BY DEF Sound, IsReset, ShowsLabelOnly, ShowsLastSearch, TimerRuns, Boxes
<1>2. OnSelectItem(b, id) = IF Searches(c) THEN Search(c) ELSE c
  BY DEF OnSelectItem
<1>. HIDE DEF c
<1>3. Sound(Search(c)) /\ Search(c).keyTimers = b.keyTimers /\ Search(c).focus = b.focus
  BY <1>1, SearchIsSound
<1>. QED BY <1>1, <1>2, <1>3

-----------------------------------------------------------------------------
(* A key in the search field.                                              *)

(* The timer that is known is cleared.                                     *)
LEMMA ClearingIsSound ==
  ASSUME NEW b, Sound(b)
  PROVE  /\ Sound(ClearKeyTimeout(b))
         /\ ~ClearKeyTimeout(b).keyTimeout
         /\ ClearKeyTimeout(b).focus = b.focus
<1>1. CASE ~b.keyTimeout
  BY <1>1 DEF ClearKeyTimeout
<1>2. CASE b.keyTimeout
  <2> DEFINE left == b.keyTimers - 1
  <2>1. left \in 0 .. MaxTimers
    BY <1>2, BoundIsNatural DEF Sound, Boxes, TimerRuns
  <2>2. ClearKeyTimeout(b) = [b EXCEPT !.keyTimeout = FALSE, !.keyTimers = left]
    BY <1>2 DEF ClearKeyTimeout, Sound, Boxes
  <2>. HIDE DEF left
  <2>. QED BY <2>1, <2>2 DEF Sound, IsReset, ShowsLabelOnly, ShowsLastSearch,
              TimerRuns, Boxes
<1>. QED BY <1>1, <1>2

(* A change of the value, if there is room for one more timer.             *)
LEMMA ChangingIsSound ==
  ASSUME NEW b, Sound(b), b.keyTimers < MaxTimers
  PROVE  Sound(Changed(b))
<1>1. CASE Squeezed[b.value] = b.lastSearchValue
  BY <1>1 DEF Changed
<1>2. CASE Squeezed[b.value] # b.lastSearchValue /\ Squeezed[b.value] # ""
  <2> DEFINE more == b.keyTimers + 1
  <2>1. more \in 0 .. MaxTimers /\ more > 0
    BY BoundIsNatural DEF Sound, Boxes
  <2>2. Changed(b) = [b EXCEPT !.keyTimeout = TRUE, !.keyTimers = more]
    BY <1>2 DEF Changed, Sound, Boxes
  <2>. HIDE DEF more
  <2>. QED BY <2>1, <2>2 DEF Sound, IsReset, ShowsLabelOnly, ShowsLastSearch,
              TimerRuns, Boxes
<1>3. CASE Squeezed[b.value] # b.lastSearchValue /\ Squeezed[b.value] = ""
  <2>1. Sound(HideResults(b)) /\ ~HideResults(b).popup
    BY HidingIsSound
  <2>. QED BY <1>3, <2>1, ForgettingIsSound DEF Changed
<1>. QED BY <1>1, <1>2, <1>3

(* Escape: three handlers in a row, on a field that loses the focus.       *)
LEMMA EscapingIsSound ==
  ASSUME NEW b, Sound(b)
  PROVE  Sound(Escaped(b))
<1> DEFINE c == HideResults(MoveFocus(b, "none"))
           d == [c EXCEPT !.lastSearchValue = ""]
<1>1. Sound(MoveFocus(b, "none")) /\ MoveFocus(b, "none").focus = "none"
  BY MoveFocusIsSound DEF Focuses
<1>2. Sound(c) /\ ~c.popup /\ c.focus = "none"
  BY <1>1, HidingIsSound
<1>. HIDE DEF c
<1>3. Sound(d) /\ d.focus = "none"
  BY <1>2, ForgettingIsSound
<1>. HIDE DEF d
<1>4. Sound(Activate(d, FALSE))
  BY <1>3, RemovingIsSound
<1>. QED BY <1>4 DEF Escaped, c, d

(* OnSearchFieldChange keeps the box sound.                                *)
LEMMA FieldChangeIsSound ==
  ASSUME IInv, NEW key \in Keys, OnSearchFieldChange(key)
  PROVE  Sound(box')
<1> DEFINE b == ClearKeyTimeout(box)
<1>1. Sound(b)
  BY ClearingIsSound DEF IInv
<1>2. b.keyTimers < MaxTimers
  BY DEF OnSearchFieldChange
<1>3. Sound(Changed(b))
  BY <1>1, <1>2, ChangingIsSound
<1>4. Sound(Changed(ToResults(b)))
  <2>1. Sound(ToResults(b)) /\ ToResults(b).keyTimers = b.keyTimers
    BY <1>1, MoveFocusIsSound DEF ToResults, Focuses, SameDue
  <2>. QED BY <1>2, <2>1, ChangingIsSound
<1>5. Sound(ToSelection(b))
  <2>1. Sound(OnSearchSelectShow(b))
    BY <1>1, SelectionIsSound
  <2>. QED BY <2>1, MoveFocusIsSound DEF ToSelection, Focuses
<1>6. Sound(Escaped(b))
  BY <1>1, EscapingIsSound
<1>7. box' = CASE key = "char" -> Changed(b)
               [] key = "Down" -> Changed(ToResults(b))
               [] key = "ShiftDown" -> ToSelection(b)
               [] key = "Escape" -> Escaped(b)
  BY DEF OnSearchFieldChange
<1>. HIDE DEF b
<1>. QED BY <1>3, <1>4, <1>5, <1>6, <1>7 DEF Keys

-----------------------------------------------------------------------------
(* The invariant.                                                          *)

(* The constructor makes a sound panel.                                    *)
LEMMA InitIsSound == Init => IInv
<1> SUFFICES ASSUME Init PROVE IInv
  OBVIOUS
<1>1. Len(site) \in Nat
  BY ValuesAssumption, LenProperties DEF Init
<1>2. box \in Boxes
  <2>1. 0 \in 0 .. MaxTimers /\ 0 \in 0 .. Len(site)
    BY <1>1, BoundIsNatural
  <2>. QED BY <2>1, PagesAreTyped, DefaultValues DEF Init, Boxes, Focuses
<1>3. IsReset(box) /\ ShowsLabelOnly(box) /\ ShowsLastSearch(box) /\ TimerRuns(box)
  BY DEF Init, IsReset, ShowsLabelOnly, ShowsLastSearch, TimerRuns
<1>. QED BY <1>2, <1>3, PagesAreTyped DEF Init, IInv, Sound

(* Every step of the reader keeps the box sound.                           *)
LEMMA ReaderIsSound ==
  ASSUME IInv, Reader
  PROVE  Sound(box')
<1>. USE DEF IInv
<1>a. Sound(box) /\ site \in Sites
  OBVIOUS
<1>b. box.searchIndex \in 0 .. Len(site) /\ Len(site) \in Nat
  BY ValuesAssumption, LenProperties DEF Sound, Boxes
<1>1. CASE Edit
  BY <1>1 DEF Edit, Sound, IsReset, ShowsLabelOnly, ShowsLastSearch, TimerRuns, Boxes
<1>2. ASSUME NEW key \in Keys, OnSearchFieldChange(key) PROVE Sound(box')
  BY <1>2, FieldChangeIsSound
<1>3. CASE SelectDown
  <2>1. box.searchIndex + 1 \in 0 .. Len(site)
    BY <1>3, <1>b DEF SelectDown
  <2>. QED BY <1>3, <1>a, <2>1, SelectingIsSound DEF SelectDown
<1>4. CASE SelectUp
  <2>1. box.searchIndex - 1 \in 0 .. Len(site)
    BY <1>4, <1>b DEF SelectUp
  <2>. QED BY <1>4, <1>a, <2>1, SelectingIsSound DEF SelectUp
<1>5. CASE SelectDone
  <2> DEFINE b == OnSelectItem(box, box.searchIndex)
  <2>1. Sound(b)
    BY <1>a, <1>b, SelectingIsSound
  <2>2. Sound(CloseSelectionWindow(b))
    BY <2>1, SelectionIsSound
  <2>3. Sound(MoveFocus(CloseSelectionWindow(b), "field"))
    BY <2>2, MoveFocusIsSound DEF Focuses
  <2>. QED BY <1>5, <2>1, <2>3 DEF SelectDone
<1>6. ASSUME NEW id \in 0 .. Len(site), ClickItem(id) PROVE Sound(box')
  <2>1. Sound(MoveFocus(box, "select"))
    BY <1>a, MoveFocusIsSound DEF Focuses
  <2>. QED BY <1>6, <1>a, <2>1, SelectingIsSound DEF ClickItem
<1>7. CASE MouseOver
  BY <1>7, <1>a, SelectionIsSound DEF MouseOver
<1>8. CASE MouseOut
  BY <1>8 DEF MouseOut, Sound, IsReset, ShowsLabelOnly, ShowsLastSearch,
              TimerRuns, Boxes
<1>9. CASE ResultsUp
  BY <1>9, <1>a, MoveFocusIsSound DEF ResultsUp, Focuses
<1>10. CASE ResultsEscape
  <2>1. Sound(CloseResultsWindow(box))
    BY <1>10, <1>a, ClosingIsSound DEF ResultsEscape
  <2>. QED BY <1>10, <2>1, MoveFocusIsSound DEF ResultsEscape, Focuses
<1>11. ASSUME NEW to \in {"none", "field", "results"}, Click(to) PROVE Sound(box')
  BY <1>11, <1>a, MoveFocusIsSound DEF Click, Focuses
<1>12. CASE ClickClose
  <2>1. Sound(MoveFocus(box, "none")) /\ MoveFocus(box, "none").focus = "none"
    BY <1>a, MoveFocusIsSound DEF Focuses
  <2>. QED BY <1>12, <2>1, ClosingIsSound DEF ClickClose
<1>. QED BY <1>1, <1>2, <1>3, <1>4, <1>5, <1>6, <1>7, <1>8, <1>9, <1>10, <1>11,
            <1>12 DEF Reader

(* Timers and the frame keep the box sound.                                *)
LEMMA BrowserIsSound ==
  ASSUME IInv, Browser
  PROVE  Sound(box') /\ shown' \in URLs
<1>. USE DEF IInv
<1>1. CASE KeyTimer
  <2> DEFINE b == Search(box)
  <2>1. Sound(b) /\ ~b.keyTimeout /\ b.keyTimers > 0
    BY <1>1, SearchIsSound DEF KeyTimer
  <2>2. box' = [b EXCEPT !.keyTimers = @ - 1] /\ shown' = shown
    BY <1>1 DEF KeyTimer
  <2>. HIDE DEF b
  <2>. QED BY <2>1, <2>2, BoundIsNatural DEF Sound, IsReset, ShowsLabelOnly,
              ShowsLastSearch, TimerRuns, Boxes
<1>2. CASE HideTimer
  <2> DEFINE b == CloseSelectionWindow(box)
  <2>1. Sound(b)
    BY SelectionIsSound
  <2>2. box' = [b EXCEPT !.hideTimer = FALSE] /\ shown' = shown
    BY <1>2 DEF HideTimer
  <2>. HIDE DEF b
  <2>. QED BY <2>1, <2>2 DEF Sound, IsReset, ShowsLabelOnly, ShowsLastSearch,
              TimerRuns, Boxes
<1>3. CASE Load
  BY <1>3 DEF Load, Sound, IsReset, ShowsLabelOnly, ShowsLastSearch, TimerRuns,
              Boxes, Focuses
<1>. QED BY <1>1, <1>2, <1>3 DEF Browser

(* What the panel keeps besides the box.                                   *)
LEMMA RestIsTyped ==
  ASSUME IInv, Reader
  PROVE  site' = site /\ shown' = shown /\ over' \in BOOLEAN
BY DEF IInv, Reader, Edit, OnSearchFieldChange, SelectDown, SelectUp, SelectDone,
       ClickItem, MouseOver, MouseOut, ResultsUp, ResultsEscape, Click, ClickClose

(* The strengthened invariant is inductive.                                *)
LEMMA SoundnessIsInductive == IInv /\ [Next]_vars => IInv'
<1> SUFFICES ASSUME IInv, [Next]_vars PROVE IInv'
  OBVIOUS
<1>1. ASSUME site' = site, Sound(box') PROVE Sound(box)'
  BY <1>1 DEF Sound, Boxes, IsReset, ShowsLabelOnly, ShowsLastSearch, TimerRuns
<1>2. CASE Reader
  BY <1>1, <1>2, ReaderIsSound, RestIsTyped DEF IInv
<1>3. CASE Browser
  <2>1. site' = site /\ over' = over
    BY <1>3 DEF Browser, KeyTimer, HideTimer, Load
  <2>2. Sound(box') /\ shown' \in URLs
    BY <1>3, BrowserIsSound
  <2>. QED BY <1>1, <2>1, <2>2 DEF IInv
<1>4. CASE UNCHANGED vars
  BY <1>1, <1>4 DEF vars, IInv
<1>. QED BY <1>2, <1>3, <1>4 DEF Next

(* The invariant holds in every reachable state of the panel.              *)
LEMMA AlwaysSound == Spec => []IInv
<1>1. Init => IInv
  BY InitIsSound
<1>2. IInv /\ [Next]_vars => IInv'
  BY SoundnessIsInductive
<1>. QED BY <1>1, <1>2, PTL DEF Spec

-----------------------------------------------------------------------------
(* Keeping up with the field.                                              *)

\* The panel knows what is in the field: UpToDate of any box.
InStep(b) ==
  \/ ~b.searchActive
  \/ Squeezed[b.value] = ""
  \/ b.keyTimeout
  \/ b.popup /\ b.lastSearchValue = Trimmed[b.value]

\* Or a section is selected that does not exist.
Up(b) == InStep(b) \/ Throws(b)

\* Results that are not shown are not compared with.
Forgotten(b) == ~b.popup => b.lastSearchValue = ""

\* Boxes that differ in nothing that the three look at.
Alike(b, c) ==
  /\ c.value = b.value /\ c.searchActive = b.searchActive /\ c.popup = b.popup
  /\ c.lastSearchValue = b.lastSearchValue /\ c.keyTimeout = b.keyTimeout
  /\ c.searchIndex = b.searchIndex

(* Activate, entering the panel or removing it; a panel whose results are  *)
(* hidden is removed and forgets them.                                     *)
LEMMA ActivatingKeepsUp ==
  ASSUME NEW b \in Boxes, NEW isActive \in BOOLEAN, Forgotten(b) \/ ~isActive
  PROVE  LET c == Activate(b, isActive)
         IN  /\ Forgotten(c)
             /\ InStep(b) \/ ~(isActive \/ b.popup) => InStep(c)
<1>. DEFINE c == Activate(b, isActive)
<1>1. CASE (isActive \/ b.popup) /\ b.value = Label
  <2>1. /\ c.value = "" /\ c.popup = b.popup /\ c.lastSearchValue = b.lastSearchValue
    BY <1>1 DEF Activate, Boxes
  <2>2. Squeezed[c.value] = ""
    BY <2>1, SpacesAssumption
  <2>. QED BY <1>1, <2>1, <2>2 DEF Forgotten, InStep
<1>2. CASE (isActive \/ b.popup) /\ b.value # Label
  BY <1>2 DEF Activate, Forgotten
<1>3. CASE ~(isActive \/ b.popup)
  <2>1. ~c.searchActive /\ c.lastSearchValue = ""
    BY <1>3 DEF Activate, Boxes
  <2>. QED BY <1>3, <2>1 DEF Forgotten, InStep
<1>. QED BY <1>1, <1>2, <1>3

(* The focus drops no search, whatever handlers it runs.                   *)
LEMMA MovingFocusKeepsUp ==
  ASSUME NEW b, Sound(b), Forgotten(b), NEW to \in Focuses
  PROVE  /\ Forgotten(MoveFocus(b, to))
         /\ InStep(b) => InStep(MoveFocus(b, to))
         /\ Up(b) => Up(MoveFocus(b, to))
<1>. DEFINE c == [b EXCEPT !.focus = to]
<1>1. c \in Boxes /\ Alike(b, c)
  BY DEF Sound, Boxes, Alike
<1>2. MoveFocus(b, to) = IF to = "field" /\ b.focus # "field" THEN Activate(c, TRUE)
                         ELSE IF b.focus = "field" /\ to # "field"
                         THEN Activate(c, FALSE) ELSE c
  BY DEF MoveFocus
<1>. HIDE DEF c
<1>3. Forgotten(c) /\ (InStep(b) => InStep(c))
  BY <1>1 DEF Alike, Forgotten, InStep
<1>4. /\ Forgotten(Activate(c, TRUE)) /\ (InStep(c) => InStep(Activate(c, TRUE)))
      /\ Forgotten(Activate(c, FALSE)) /\ (InStep(c) => InStep(Activate(c, FALSE)))
  BY <1>1, <1>3, ActivatingKeepsUp
<1>5. MoveFocus(b, to).searchIndex = b.searchIndex
  BY MoveFocusIsSound DEF SameDue
<1>. QED BY <1>2, <1>3, <1>4, <1>5 DEF Up, Throws

(* Closing the results removes the panel.                                  *)
LEMMA ClosingKeepsUp ==
  ASSUME NEW b, Sound(b)
  PROVE  Forgotten(CloseResultsWindow(b)) /\ InStep(CloseResultsWindow(b))
<1>1. HideResults(b) \in Boxes /\ ~HideResults(b).popup
  BY HidingIsSound DEF Sound
<1>. QED BY <1>1, ActivatingKeepsUp DEF CloseResultsWindow

(* A search is for what is in the field, unless it throws.                 *)
LEMMA SearchingKeepsUp ==
  ASSUME NEW b, Sound(b), Forgotten(b)
  PROVE  Forgotten(Search(b)) /\ Up(Search(b))
<1>1. CASE Throws(b)
  <2>1. Search(b) = [b EXCEPT !.keyTimeout = FALSE]
    BY <1>1 DEF Search
  <2>. QED BY <1>1, <2>1 DEF Sound, Boxes, Forgotten, Up, Throws
<1>2. CASE ~Throws(b)
  <2>1. /\ Search(b).popup /\ Search(b).value = b.value
        /\ Search(b).lastSearchValue = Trimmed[b.value]
    BY <1>2 DEF Search, Sound, Boxes
  <2>2. b.value \in Values
    BY DEF Sound, Boxes
  <2>. QED BY <2>1, <2>2, SpacesAssumption DEF Forgotten, Up, InStep
<1>. QED BY <1>1, <1>2

(* Selecting a section searches for what is in the field.                  *)
LEMMA SelectingKeepsUp ==
  ASSUME NEW b, Sound(b), Forgotten(b), NEW id \in 0 .. Len(site)
  PROVE  Forgotten(OnSelectItem(b, id)) /\ (InStep(b) => Up(OnSelectItem(b, id)))
<1>. DEFINE c == [b EXCEPT !.searchIndex = id]
<1>1. /\ Sound(c) /\ Forgotten(c) /\ (InStep(b) => InStep(c))
  BY DEF Sound, IsReset, ShowsLabelOnly, ShowsLastSearch, TimerRuns, Boxes,
         Forgotten, InStep
<1>2. OnSelectItem(b, id) = IF Searches(c) THEN Search(c) ELSE c
  BY DEF OnSelectItem
<1>. HIDE DEF c
<1>. QED BY <1>1, <1>2, SearchingKeepsUp DEF Up

(* A key that changes the value makes the panel catch up: what is not the  *)
(* value last searched for is searched for, or is nothing - unless the two *)
(* differ in spaces only.                                                  *)
LEMMA ChangingCatchesUp ==
  ASSUME NEW b, Sound(b), Forgotten(b)
  PROVE  /\ Forgotten(Changed(b))
         /\ InStep(Changed(b)) \/ DiffersInSpaces(Changed(b))
<1>1. CASE Squeezed[b.value] = b.lastSearchValue
  <2>1. Changed(b) = b
    BY <1>1 DEF Changed
  <2>. QED BY <1>1, <2>1 DEF Forgotten, InStep, DiffersInSpaces
<1>2. CASE Squeezed[b.value] # b.lastSearchValue /\ Squeezed[b.value] # ""
  BY <1>2 DEF Changed, Sound, Boxes, Forgotten, InStep
<1>3. CASE Squeezed[b.value] # b.lastSearchValue /\ Squeezed[b.value] = ""
  <2>1. /\ Changed(b).value = b.value /\ Changed(b).lastSearchValue = ""
    BY <1>3 DEF Changed, HideResults, Sound, Boxes
  <2>. QED BY <1>3, <2>1 DEF Forgotten, InStep
<1>. QED BY <1>1, <1>2, <1>3

(* Escape removes the panel.                                               *)
LEMMA EscapingCatchesUp ==
  ASSUME NEW b, Sound(b)
  PROVE  Forgotten(Escaped(b)) /\ InStep(Escaped(b))
<1>. DEFINE c == HideResults(MoveFocus(b, "none"))
            d == [c EXCEPT !.lastSearchValue = ""]
<1>1. c \in Boxes /\ ~c.popup
  BY MoveFocusIsSound, HidingIsSound DEF Focuses, Sound
<1>. HIDE DEF c
<1>2. ~d.popup /\ Escaped(b) = Activate(d, FALSE) /\ d \in Boxes
  BY <1>1, DefaultValues DEF Escaped, c, Boxes
<1>. HIDE DEF d
<1>. QED BY <1>2 DEF Activate, Boxes, Forgotten, InStep

(* A key in the field, unless it is Shift+Down, makes the panel catch up,  *)
(* or leaves it with a value that differs in spaces only.                  *)
LEMMA FieldChangeCatchesUp ==
  ASSUME IInv, Forgotten(box), NEW key \in Keys, OnSearchFieldChange(key)
  PROVE  /\ Forgotten(box')
         /\ key # "ShiftDown" => InStep(box') \/ DiffersInSpaces(box')
<1>. DEFINE b == ClearKeyTimeout(box)
<1>1. Sound(b)
  BY ClearingIsSound DEF IInv
<1>2. Forgotten(b)
  BY DEF ClearKeyTimeout, IInv, Sound, Boxes, Forgotten
<1>3. Sound(ToResults(b)) /\ Forgotten(ToResults(b))
  BY <1>1, <1>2, MoveFocusIsSound, MovingFocusKeepsUp DEF ToResults, Focuses
<1>4. Forgotten(ToSelection(b))
  <2>1. Sound(OnSearchSelectShow(b)) /\ Forgotten(OnSearchSelectShow(b))
    <3>1. Sound(OnSearchSelectShow(b))
      BY <1>1, SelectionIsSound
    <3>. HIDE DEF b
    <3>. QED BY <1>1, <1>2, <3>1 DEF OnSearchSelectShow, Sound, Boxes, Forgotten
  <2>. QED BY <2>1, MovingFocusKeepsUp DEF ToSelection, Focuses
<1>5. box' = CASE key = "char" -> Changed(b)
               [] key = "Down" -> Changed(ToResults(b))
               [] key = "ShiftDown" -> ToSelection(b)
               [] key = "Escape" -> Escaped(b)
  BY DEF OnSearchFieldChange
<1>. HIDE DEF b
<1>6. /\ Forgotten(Changed(b))
      /\ InStep(Changed(b)) \/ DiffersInSpaces(Changed(b))
      /\ Forgotten(Changed(ToResults(b)))
      /\ InStep(Changed(ToResults(b))) \/ DiffersInSpaces(Changed(ToResults(b)))
      /\ Forgotten(Escaped(b)) /\ InStep(Escaped(b))
  BY <1>1, <1>2, <1>3, ChangingCatchesUp, EscapingCatchesUp
<1>. QED BY <1>4, <1>5, <1>6 DEF Keys

(* What every step but Edit and Shift+Down does.                           *)
LEMMA StepKeepsUp ==
  ASSUME IInv, Forgotten(box), Next
  PROVE  /\ Forgotten(box')
         /\ \/ Edit \/ OnSearchFieldChange("ShiftDown")
            \/ \E key \in Keys : /\ OnSearchFieldChange(key)
                                /\ (InStep(box') \/ DiffersInSpaces(box'))
            \/ (\A key \in Keys : ~OnSearchFieldChange(key))
                 /\ (InStep(box) => Up(box'))
<1>1. Sound(box) /\ site \in Sites /\ box \in Boxes
  BY DEF IInv, Sound
<1>2. box.searchIndex \in 0 .. Len(site) /\ Len(site) \in Nat
  BY <1>1, ValuesAssumption, LenProperties DEF Boxes
<1>3. CASE Edit
  BY <1>1, <1>3 DEF Edit, Boxes, Forgotten
<1>4. CASE \E key \in Keys : OnSearchFieldChange(key)
  <2>1. PICK key \in Keys : OnSearchFieldChange(key)
    BY <1>4
  <2>. QED BY <2>1, FieldChangeCatchesUp
<1>. SUFFICES ASSUME ~Edit, \A key \in Keys : ~OnSearchFieldChange(key)
              PROVE  Forgotten(box') /\ (InStep(box) => Up(box'))
  BY <1>3, <1>4
<1>5. ASSUME Alike(box, box') PROVE Forgotten(box') /\ (InStep(box) => Up(box'))
  BY <1>5 DEF Alike, Forgotten, Up, InStep
<1>6. CASE SelectDown
  <2>1. box.searchIndex + 1 \in 0 .. Len(site)
    BY <1>6, <1>2 DEF SelectDown
  <2>. QED BY <1>6, <1>1, <2>1, SelectingKeepsUp DEF SelectDown
<1>7. CASE SelectUp
  <2>1. box.searchIndex - 1 \in 0 .. Len(site)
    BY <1>7, <1>2 DEF SelectUp
  <2>. QED BY <1>7, <1>1, <2>1, SelectingKeepsUp DEF SelectUp
<1>8. CASE SelectDone
  <2> DEFINE b == OnSelectItem(box, box.searchIndex)
             c == CloseSelectionWindow(b)
  <2>1. Sound(b) /\ Forgotten(b) /\ (InStep(box) => Up(b))
    BY <1>1, <1>2, SelectingIsSound, SelectingKeepsUp
  <2>. HIDE DEF b
  <2>2. Sound(c)
    BY <2>1, SelectionIsSound
  <2>3. Forgotten(c) /\ (Up(b) => Up(c))
    BY <2>1 DEF CloseSelectionWindow, Sound, Boxes, Forgotten, Up, InStep, Throws
  <2>. HIDE DEF c
  <2>4. Forgotten(MoveFocus(c, "field")) /\ (Up(c) => Up(MoveFocus(c, "field")))
    BY <2>2, <2>3, MovingFocusKeepsUp DEF Focuses
  <2>5. box' = b \/ box' = MoveFocus(c, "field")
    BY <1>8 DEF SelectDone, b, c
  <2>. QED BY <2>1, <2>3, <2>4, <2>5
<1>9. ASSUME NEW id \in 0 .. Len(site), ClickItem(id)
      PROVE  Forgotten(box') /\ (InStep(box) => Up(box'))
  <2> DEFINE b == MoveFocus(box, "select")
  <2>1. Sound(b) /\ Forgotten(b) /\ (InStep(box) => InStep(b))
    BY <1>1, MoveFocusIsSound, MovingFocusKeepsUp DEF Focuses
  <2>2. box' = OnSelectItem(b, id)
    BY <1>9 DEF ClickItem
  <2>. QED BY <2>1, <2>2, SelectingKeepsUp
<1>10. CASE MouseOver \/ MouseOut \/ HideTimer \/ Load
  <2>1. Alike(box, box')
    BY <1>1, <1>10 DEF MouseOver, MouseOut, HideTimer, Load, OnSearchSelectShow,
                       CloseSelectionWindow, Boxes, Alike
  <2>. QED BY <1>5, <2>1
<1>11. CASE ResultsUp
  BY <1>1, <1>11, MovingFocusKeepsUp DEF ResultsUp, Focuses, Up
<1>12. CASE ResultsEscape
  <2>1. Sound(CloseResultsWindow(box))
    BY <1>1, <1>12, ClosingIsSound DEF ResultsEscape
  <2>2. Forgotten(CloseResultsWindow(box)) /\ InStep(CloseResultsWindow(box))
    BY <1>1, ClosingKeepsUp
  <2>. QED BY <1>12, <2>1, <2>2, MovingFocusKeepsUp DEF ResultsEscape, Focuses, Up
<1>13. ASSUME NEW to \in {"none", "field", "results"}, Click(to)
       PROVE  Forgotten(box') /\ (InStep(box) => Up(box'))
  BY <1>1, <1>13, MovingFocusKeepsUp DEF Click, Focuses, Up
<1>14. CASE ClickClose
  <2>1. Sound(MoveFocus(box, "none"))
    BY <1>1, MoveFocusIsSound DEF Focuses
  <2>. QED BY <1>14, <2>1, ClosingKeepsUp DEF ClickClose, Up
<1>15. CASE KeyTimer
  <2> DEFINE b == Search(box)
  <2>1. Sound(b) /\ Forgotten(b) /\ Up(b)
    BY <1>1, SearchIsSound, SearchingKeepsUp
  <2>2. box' = [b EXCEPT !.keyTimers = @ - 1]
    BY <1>15 DEF KeyTimer
  <2>. HIDE DEF b
  <2>. QED BY <2>1, <2>2 DEF Sound, Boxes, Forgotten, Up, InStep, Throws
<1>. QED BY <1>6, <1>7, <1>8, <1>9, <1>10, <1>11, <1>12, <1>13, <1>14, <1>15
         DEF Next, Reader, Browser

-----------------------------------------------------------------------------
(* Theorems.                                                               *)

(* The panel's fields keep their types, and no more searches are due than  *)
(* the bound allows: SearchBox's handlers of search.js.                    *)
THEOREM TypeCorrect == Spec => []TypeOK
<1>1. IInv => TypeOK
  BY DEF IInv, Sound, TypeOK
<1>. QED BY <1>1, AlwaysSound, PTL

(* A panel that is not in use shows its label and has not the focus:       *)
(* Activate as it is run by focus, blur and the closing of the results.    *)
THEOREM InactivePanelsAreReset == Spec => []InactivePanelIsReset
<1>1. IInv => InactivePanelIsReset
  BY DEF IInv, Sound, InactivePanelIsReset
<1>. QED BY <1>1, AlwaysSound, PTL

(* A panel that was removed can only come back with the results for its    *)
(* label: Search as a timer runs it late.                                  *)
THEOREM RemovedPanelsShowTheLabel == Spec => []InactiveShowsLabelOnly
<1>1. IInv => InactiveShowsLabelOnly
  BY DEF IInv, Sound, InactiveShowsLabelOnly
<1>. QED BY <1>1, AlwaysSound, PTL

(* The frame shows or loads the page of the last search: Search, and the   *)
(* handlers that forget it.                                                *)
THEOREM ResultsAreOfLastSearch == Spec => []ShownIsLastSearch
<1>1. IInv => ShownIsLastSearch
  BY DEF IInv, Sound, ShownIsLastSearch
<1>. QED BY <1>1, AlwaysSound, PTL

(* keyTimeout, when set, is the number of a timer that has yet to fire:    *)
(* OnSearchFieldChange and Search.                                         *)
THEOREM KnownTimersRun == Spec => []KnownTimerRuns
<1>1. IInv => KnownTimerRuns
  BY DEF IInv, Sound, KnownTimerRuns
<1>. QED BY <1>1, AlwaysSound, PTL

(* Nothing but an edit, Shift+Down or a search that throws makes the panel *)
(* lag behind its field, and a released key makes it catch up unless the   *)
(* value differs from the last search in spaces only: the timers and       *)
(* comparisons of OnSearchFieldChange and Search.                          *)
THEOREM PanelKeepsUp == Spec => KeepsUp
<1>. DEFINE Step ==
       \/ Edit \/ OnSearchFieldChange("ShiftDown") \/ Throws(box')
       \/ \E key \in Keys : OnSearchFieldChange(key) /\ DiffersInSpaces(box')
       \/ (UpToDate \/ \E key \in Keys : OnSearchFieldChange(key)) => UpToDate'
<1>1. Init => Forgotten(box)
  <2>. SUFFICES ASSUME Init PROVE Forgotten(box)
    OBVIOUS
  <2>. QED BY DEF Init, Forgotten
<1>2. IInv /\ Forgotten(box) /\ [Next]_vars => Forgotten(box)'
  <2>. SUFFICES ASSUME IInv, Forgotten(box), [Next]_vars PROVE Forgotten(box')
    BY DEF Forgotten
  <2>. QED BY StepKeepsUp DEF vars
<1>3. IInv /\ Forgotten(box) /\ [Next]_vars => [Step]_vars
  <2>. SUFFICES ASSUME IInv, Forgotten(box), Next PROVE Step
    OBVIOUS
  <2>1. UpToDate <=> InStep(box)
    BY DEF UpToDate, InStep
  <2>2. UpToDate' <=> InStep(box')
    BY DEF UpToDate, InStep
  <2>. QED BY <2>1, <2>2, StepKeepsUp DEF Up
<1>. QED BY <1>1, <1>2, <1>3, AlwaysSound, PTL DEF Spec, KeepsUp

-----------------------------------------------------------------------------
(* What is left to do when the reader stops.                               *)

\* What timers and the frame have yet to do; a search that a timer starts
\* leaves the frame to load.
Work(b) ==
  2 * b.keyTimers + (IF b.loading THEN 1 ELSE 0) + (IF b.hideTimer THEN 1 ELSE 0)

\* A new location is one to load.
Loads(b, c) == c.loading \/ (c.loading = b.loading /\ c.location = b.location)

\* A frame that does not load shows its location.
Loaded == ~box.loading => shown = box.location

(* A search sets the location and loads it, or throws.                    *)
LEMMA SearchLoads == ASSUME NEW b, Sound(b) PROVE Loads(b, Search(b))
<1>1. CASE Throws(b)
  BY <1>1 DEF Search, Sound, Boxes, Loads
<1>2. CASE ~Throws(b)
  BY <1>2 DEF Search, Sound, Boxes, Loads
<1>. QED BY <1>1, <1>2

(* Selecting a section loads if it searches.                               *)
LEMMA SelectingLoads ==
  ASSUME NEW b, Sound(b), NEW id \in 0 .. Len(site)
  PROVE  Loads(b, OnSelectItem(b, id))
<1> DEFINE c == [b EXCEPT !.searchIndex = id]
<1>1. Sound(c) /\ c.loading = b.loading /\ c.location = b.location
  BY DEF Sound, IsReset, ShowsLabelOnly, ShowsLastSearch, TimerRuns, Boxes
<1>2. OnSelectItem(b, id) = IF Searches(c) THEN Search(c) ELSE c
  BY DEF OnSelectItem
<1>. HIDE DEF c
<1>. QED BY <1>1, <1>2, SearchLoads DEF Loads

(* The focus and its handlers leave the frame alone.                       *)
LEMMA MovingFocusLoads ==
  ASSUME NEW b, Sound(b), NEW to \in Focuses PROVE Loads(b, MoveFocus(b, to))
BY MoveFocusIsSound DEF SameDue, Loads

\* Loads composes.
LEMMA LoadsAfter ==
  ASSUME NEW a, NEW b, NEW c, Loads(a, b), Loads(b, c) PROVE Loads(a, c)
BY DEF Loads

(* Escape hides the frame and leaves what it loads.                        *)
LEMMA EscapingLoads == ASSUME NEW b, Sound(b) PROVE Loads(b, Escaped(b))
<1> DEFINE a == MoveFocus(b, "none")
           c == HideResults(a)
           d == [c EXCEPT !.lastSearchValue = ""]
<1>1. Sound(a) /\ a.focus = "none" /\ Loads(b, a)
  BY MoveFocusIsSound, MovingFocusLoads DEF Focuses
<1>2. Escaped(b) = Activate(d, FALSE)
  BY DEF Escaped
<1>. HIDE DEF a
<1>3. Sound(c) /\ ~c.popup /\ c.focus = "none" /\ Loads(a, c)
  BY <1>1, HidingIsSound DEF SameDue, Loads
<1>. HIDE DEF c
<1>4. Sound(d) /\ d.focus = "none" /\ Loads(c, d)
  BY <1>3, ForgettingIsSound DEF Loads, Sound, Boxes
<1>. HIDE DEF d
<1>5. Loads(d, Activate(d, FALSE))
  BY <1>4, RemovingIsSound DEF SameDue, Loads
<1>. QED BY <1>1, <1>2, <1>3, <1>4, <1>5, LoadsAfter

(* A change of the value starts a timer, or hides the frame.               *)
LEMMA ChangingLoads == ASSUME NEW b, Sound(b) PROVE Loads(b, Changed(b))
BY DEF Changed, HideResults, Sound, Boxes, Loads

(* A key in the field.                                                     *)
LEMMA FieldChangeLoads ==
  ASSUME IInv, NEW key \in Keys, OnSearchFieldChange(key)
  PROVE  Loads(box, box')
<1>. DEFINE b == ClearKeyTimeout(box)
<1>1. Sound(b)
  BY ClearingIsSound DEF IInv
<1>2. Loads(box, b)
  BY DEF ClearKeyTimeout, IInv, Sound, Boxes, Loads
<1>3. box' = CASE key = "char" -> Changed(b)
               [] key = "Down" -> Changed(ToResults(b))
               [] key = "ShiftDown" -> ToSelection(b)
               [] key = "Escape" -> Escaped(b)
  BY DEF OnSearchFieldChange
<1>. HIDE DEF b
<1>4. Sound(ToResults(b)) /\ Loads(b, ToResults(b))
  BY <1>1, MoveFocusIsSound, MovingFocusLoads DEF ToResults, Focuses, Loads
<1>5. Loads(b, ToSelection(b))
  <2> DEFINE s == OnSearchSelectShow(b)
  <2>1. Sound(s)
    BY <1>1, SelectionIsSound
  <2>2. Loads(b, s)
    BY <1>1 DEF OnSearchSelectShow, Sound, Boxes, Loads
  <2>3. ToSelection(b) = s \/ ToSelection(b) = MoveFocus(s, "select")
    BY DEF ToSelection
  <2>. HIDE DEF s
  <2>4. Loads(s, MoveFocus(s, "select"))
    BY <2>1, MovingFocusLoads DEF Focuses
  <2>. QED BY <2>2, <2>3, <2>4, LoadsAfter
<1>6. Loads(b, Changed(b)) /\ Loads(ToResults(b), Changed(ToResults(b)))
      /\ Loads(b, Escaped(b))
  BY <1>1, <1>4, ChangingLoads, EscapingLoads
<1>7. Loads(b, box')
  BY <1>3, <1>4, <1>5, <1>6, LoadsAfter DEF Keys
<1>. QED BY <1>2, <1>7, LoadsAfter

(* What the reader does never changes the location of a frame at rest.     *)
LEMMA ReaderLoads ==
  ASSUME IInv, Reader PROVE Loads(box, box') /\ shown' = shown
<1>1. Sound(box) /\ site \in Sites /\ box \in Boxes
  BY DEF IInv, Sound
<1>2. box.searchIndex \in 0 .. Len(site) /\ Len(site) \in Nat
  BY <1>1, ValuesAssumption, LenProperties DEF Boxes
<1>3. shown' = shown
  BY DEF Reader, Edit, OnSearchFieldChange, SelectDown, SelectUp, SelectDone,
         ClickItem, MouseOver, MouseOut, ResultsUp, ResultsEscape, Click, ClickClose
<1>. SUFFICES Loads(box, box')
  BY <1>3
<1>4. CASE Edit
  <2>1. PICK v \in Values : box' = [box EXCEPT !.value = v]
    BY <1>4 DEF Edit
  <2>2. box'.loading = box.loading /\ box'.location = box.location
    BY <1>1, <2>1 DEF Boxes
  <2>. QED BY <2>2 DEF Loads
<1>5. CASE \E key \in Keys : OnSearchFieldChange(key)
  BY <1>5, FieldChangeLoads
<1>6. CASE SelectDown
  <2>1. box.searchIndex + 1 \in 0 .. Len(site)
    BY <1>6, <1>2 DEF SelectDown
  <2>. QED BY <1>6, <1>1, <2>1, SelectingLoads DEF SelectDown
<1>7. CASE SelectUp
  <2>1. box.searchIndex - 1 \in 0 .. Len(site)
    BY <1>7, <1>2 DEF SelectUp
  <2>. QED BY <1>7, <1>1, <2>1, SelectingLoads DEF SelectUp
<1>8. CASE SelectDone
  <2> DEFINE b == OnSelectItem(box, box.searchIndex)
             c == CloseSelectionWindow(b)
  <2>1. Sound(b) /\ Loads(box, b)
    BY <1>1, <1>2, SelectingIsSound, SelectingLoads
  <2>2. box' = b \/ box' = MoveFocus(c, "field")
    BY <1>8 DEF SelectDone
  <2>. HIDE DEF b
  <2>3. Sound(c) /\ Loads(b, c)
    BY <2>1, SelectionIsSound DEF CloseSelectionWindow, Sound, Boxes, Loads
  <2>. HIDE DEF c
  <2>4. Loads(c, MoveFocus(c, "field"))
    BY <2>3, MovingFocusLoads DEF Focuses
  <2>5. Loads(box, MoveFocus(c, "field"))
    BY <2>1, <2>3, <2>4, LoadsAfter
  <2>. QED BY <2>1, <2>2, <2>5
<1>9. ASSUME NEW id \in 0 .. Len(site), ClickItem(id) PROVE Loads(box, box')
  <2> DEFINE b == MoveFocus(box, "select")
  <2>1. Sound(b) /\ Loads(box, b)
    BY <1>1, MoveFocusIsSound, MovingFocusLoads DEF Focuses
  <2>2. box' = OnSelectItem(b, id)
    BY <1>9 DEF ClickItem
  <2>. HIDE DEF b
  <2>3. Loads(b, OnSelectItem(b, id))
    BY <2>1, SelectingLoads
  <2>. QED BY <2>1, <2>2, <2>3, LoadsAfter
<1>10. CASE MouseOver \/ MouseOut
  BY <1>1, <1>10 DEF MouseOver, MouseOut, OnSearchSelectShow, Boxes, Loads
<1>11. CASE ResultsUp
  BY <1>1, <1>11, MovingFocusLoads DEF ResultsUp, Focuses
<1>12. CASE ResultsEscape
  <2> DEFINE b == CloseResultsWindow(box)
  <2>1. box.focus # "field" /\ box' = MoveFocus(b, "field")
    BY <1>12 DEF ResultsEscape
  <2>2. Sound(b) /\ Loads(box, b)
    BY <1>1, <2>1, ClosingIsSound DEF SameDue, Loads
  <2>. HIDE DEF b
  <2>3. Loads(b, MoveFocus(b, "field"))
    BY <2>2, MovingFocusLoads DEF Focuses
  <2>4. Loads(box, MoveFocus(b, "field"))
    BY <2>2, <2>3, LoadsAfter
  <2>. QED BY <2>1, <2>4
<1>13. ASSUME NEW to \in {"none", "field", "results"}, Click(to)
       PROVE  Loads(box, box')
  BY <1>1, <1>13, MovingFocusLoads DEF Click, Focuses
<1>14. CASE ClickClose
  <2> DEFINE b == MoveFocus(box, "none")
  <2>1. Sound(b) /\ b.focus = "none" /\ Loads(box, b)
    BY <1>1, MoveFocusIsSound, MovingFocusLoads DEF Focuses
  <2>2. box' = CloseResultsWindow(b)
    BY <1>14 DEF ClickClose
  <2>. HIDE DEF b
  <2>3. b.focus # "field"
    BY <2>1
  <2>4. Loads(b, CloseResultsWindow(b))
    BY <2>1, <2>3, ClosingIsSound DEF SameDue, Loads
  <2>5. Loads(box, CloseResultsWindow(b))
    BY <2>1, <2>4, LoadsAfter
  <2>. QED BY <2>2, <2>5
<1>. QED BY <1>4, <1>5, <1>6, <1>7, <1>8, <1>9, <1>10, <1>11, <1>12, <1>13,
            <1>14 DEF Reader

(* A timer or the frame takes some of the work off.                        *)
LEMMA BrowserWorks ==
  ASSUME IInv, Browser
  PROVE  Work(box') < Work(box) /\ (Loaded => Loaded')
<1>1. Sound(box) /\ site \in Sites /\ box \in Boxes
  BY DEF IInv, Sound
<1>2. box.keyTimers \in Nat /\ box.loading \in BOOLEAN /\ box.hideTimer \in BOOLEAN
  BY <1>1, BoundIsNatural DEF Boxes
<1>3. CASE KeyTimer
  <2> DEFINE b == Search(box)
  <2>1. Sound(b) /\ b.keyTimers = box.keyTimers /\ Loads(box, b)
    BY <1>1, SearchIsSound, SearchLoads
  <2>2. b.hideTimer = box.hideTimer
    BY <1>1 DEF Search, Boxes
  <2>3. box.keyTimers > 0 /\ box' = [b EXCEPT !.keyTimers = @ - 1] /\ shown' = shown
    BY <1>3 DEF KeyTimer
  <2>. HIDE DEF b
  <2>4. /\ box'.keyTimers = box.keyTimers - 1 /\ box'.hideTimer = box.hideTimer
        /\ box'.loading = b.loading /\ box'.location = b.location
        /\ b.loading \in BOOLEAN
    BY <2>1, <2>2, <2>3 DEF Sound, Boxes
  <2>5. Work(box') < Work(box)
    BY <1>2, <2>3, <2>4 DEF Work
  <2>. QED BY <2>1, <2>3, <2>4, <2>5 DEF Loads, Loaded
<1>4. CASE HideTimer
  <2>1. /\ box'.keyTimers = box.keyTimers /\ box'.loading = box.loading
        /\ box'.location = box.location /\ box.hideTimer /\ box'.hideTimer = FALSE
        /\ shown' = shown
    BY <1>1, <1>4 DEF HideTimer, CloseSelectionWindow, Boxes
  <2>2. Work(box') < Work(box)
    BY <1>2, <2>1 DEF Work
  <2>. QED BY <2>1, <2>2 DEF Loaded
<1>5. CASE Load
  <2>1. /\ box'.keyTimers = box.keyTimers /\ box'.hideTimer = box.hideTimer
        /\ box'.location = box.location /\ box.loading /\ box'.loading = FALSE
        /\ shown' = box.location
    BY <1>1, <1>5 DEF Load, Boxes
  <2>2. Work(box') < Work(box)
    BY <1>2, <2>1 DEF Work
  <2>. QED BY <2>1, <2>2 DEF Loaded
<1>. QED BY <1>3, <1>4, <1>5 DEF Browser

(* Every timer that fires and every load of the frame leaves less to do,   *)
(* and when nothing is left no search is due, the selection does not wait  *)
(* to be hidden and the frame shows its location: the timers of            *)
(* OnSearchFieldChange and OnSearchSelectHide and the frame of Search.     *)
THEOREM WorkRunsOut ==
  Spec => /\ [](/\ Work(box) \in Nat
                /\ Work(box) = 0 => /\ box.keyTimers = 0 /\ ~box.hideTimer
                                    /\ shown = box.location)
          /\ [][Browser => Work(box') < Work(box)]_vars
<1>1. Init => Loaded
  <2>. SUFFICES ASSUME Init PROVE Loaded
    OBVIOUS
  <2>1. box.location = NoURL /\ shown = NoURL
    BY DEF Init
  <2>. QED BY <2>1 DEF Loaded
<1>2. IInv /\ Loaded /\ [Next]_vars => Loaded'
  <2>. SUFFICES ASSUME IInv, Loaded, [Next]_vars PROVE Loaded'
    OBVIOUS
  <2>1. CASE Reader
    BY <2>1, ReaderLoads DEF Loads, Loaded
  <2>2. CASE Browser
    BY <2>2, BrowserWorks
  <2>3. CASE UNCHANGED vars
    BY <2>3 DEF vars, Loaded
  <2>. QED BY <2>1, <2>2, <2>3 DEF Next
<1>3. IInv /\ Loaded => /\ Work(box) \in Nat
                        /\ Work(box) = 0 => /\ box.keyTimers = 0 /\ ~box.hideTimer
                                            /\ shown = box.location
  <2>. SUFFICES ASSUME IInv, Loaded
                PROVE  /\ Work(box) \in Nat
                       /\ Work(box) = 0 => /\ box.keyTimers = 0 /\ ~box.hideTimer
                                           /\ ~box.loading
    BY DEF Loaded
  <2>1. box.keyTimers \in Nat /\ box.loading \in BOOLEAN /\ box.hideTimer \in BOOLEAN
    BY BoundIsNatural DEF IInv, Sound, Boxes
  <2>2. CASE box.loading
    BY <2>1, <2>2 DEF Work
  <2>3. CASE box.hideTimer
    BY <2>1, <2>3 DEF Work
  <2>4. CASE ~box.loading /\ ~box.hideTimer
    BY <2>1, <2>4 DEF Work
  <2>. QED BY <2>1, <2>2, <2>3, <2>4
<1>4. IInv /\ [Next]_vars => [Browser => Work(box') < Work(box)]_vars
  BY BrowserWorks
<1>. QED BY <1>1, <1>2, <1>3, <1>4, AlwaysSound, PTL DEF Spec

-----------------------------------------------------------------------------
(* What an event of a key does.                                            *)

(* The rows never change, nor do those that match.                         *)
LEMMA PageStays ==
  ASSUME [ResultsNext]_resultsVars PROVE rows' = rows /\ matched' = matched
BY DEF ResultsNext, resultsVars, KeyDown, KeyPress, KeyUp, Toggle, ClickAway

(* A key is taken when it goes down, and forgotten when it is released.    *)
LEMMA KeyProcessed ==
  ASSUME NEW k
  PROVE  /\ ProcessKeys("keydown", k).lastKey = k
         /\ ProcessKeys("keypress", k).lastKey = lastKey
         /\ ProcessKeys("keyup", k).go = FALSE
BY DEF ProcessKeys

(* The repetitions of a key on a row or child are taken for that key,      *)
(* wherever the focus went since it went down: see KeyInHand.              *)
THEOREM KeyIsInHand == ResultsSpec => []KeyInHand
<1>1. ResultsInit => KeyInHand
  BY DEF ResultsInit, KeyInHand
<1>2. KeyInHand /\ [ResultsNext]_resultsVars => KeyInHand'
  <2>. SUFFICES ASSUME KeyInHand, [ResultsNext]_resultsVars PROVE KeyInHand'
    OBVIOUS
  <2>1. Items' = Items
    BY PageStays DEF Items, Children, HasChildren
  <2>2. ASSUME NEW k \in ResultsKeys, KeyDown(k) PROVE KeyInHand'
    <3>1. CASE AtItem("keydown", k)
      BY <2>2, <3>1, KeyProcessed DEF KeyDown, AtItem, KeyInHand
    <3>2. CASE Outside("keydown", k)
      <4>1. focus \notin Items /\ focus' = focus
        BY <3>2 DEF Outside
      <4>. QED BY <4>1, <2>1 DEF KeyInHand
    <3>. QED BY <2>2, <3>1, <3>2 DEF KeyDown, Event
  <2>3. CASE KeyPress
    <3>1. CASE AtItem("keypress", held)
      BY <2>3, <3>1, KeyProcessed DEF KeyPress, AtItem, KeyInHand
    <3>2. CASE Outside("keypress", held)
      <4>1. focus \notin Items /\ focus' = focus
        BY <3>2 DEF Outside
      <4>. QED BY <4>1, <2>1 DEF KeyInHand
    <3>. QED BY <2>3, <3>1, <3>2 DEF KeyPress, Event
  <2>4. CASE KeyUp
    BY <2>4 DEF KeyUp, KeyInHand
  <2>5. ASSUME NEW i \in DOMAIN rows, Toggle(i) PROVE KeyInHand'
    BY <2>5 DEF Toggle, KeyInHand
  <2>6. CASE ClickAway
    BY <2>6 DEF ClickAway, KeyInHand
  <2>7. CASE UNCHANGED resultsVars
    BY <2>7, <2>1 DEF resultsVars, KeyInHand
  <2>. QED BY <2>2, <2>3, <2>4, <2>5, <2>6, <2>7 DEF ResultsNext
<1>. QED BY <1>1, <1>2, PTL DEF ResultsSpec

-----------------------------------------------------------------------------
(* The focus.                                                              *)

(* A row, a child, the field and no element are four different things.     *)
LEMMA Elements ==
  ASSUME NEW i, NEW j, NEW c
  PROVE  /\ <<i>> # <<j, c>> /\ <<i>>[1] = i /\ Len(<<i>>) = 1
         /\ <<j, c>>[1] = j /\ <<j, c>>[2] = c /\ Len(<<j, c>>) = 2
<1>1. Len(<<i>>) = 1 /\ Len(<<j, c>>) = 2
  OBVIOUS
<1>. QED BY <1>1

\* Where a key may take the focus, if it closes nothing.
Landing == focus' \in {focus, Field} \/ Displayed(focus')

(* focus() leaves the focus or moves it to what is displayed.              *)
LEMMA FocusLands == ASSUME NEW e, focus' = Focused(e) PROVE Landing
BY DEF Focused, Landing

(* So does focus() on a row that may not be found.                         *)
LEMMA RowLands == ASSUME NEW found, focus' = FocusRow(found) PROVE Landing
BY FocusLands DEF FocusRow, Landing

(* The keys of a row move the focus, fold below it, or leave.              *)
LEMMA NavLands ==
  ASSUME NEW i, NEW k, Nav(i, k)
  PROVE  \/ Landing /\ UNCHANGED <<opened, closed>>
         \/ UNCHANGED <<focus, closed>>
         \/ focus' = Field
<1>1. ASSUME focus' = UpFrom(i) PROVE Landing
  BY <1>1, FocusLands DEF UpFrom, Landing
<1>2. ASSUME focus' = DownFrom(i) PROVE Landing
  BY <1>2, FocusLands, RowLands DEF DownFrom
<1>. QED BY <1>1, <1>2 DEF Nav, Leave

(* The keys of a child move the focus or leave.                            *)
LEMMA NavChildLands ==
  ASSUME NEW i, NEW c, NEW k, NavChild(i, c, k)
  PROVE  (Landing /\ UNCHANGED <<opened, closed>>) \/ focus' = Field
<1>1. CASE k = "Up"
  BY <1>1, FocusLands DEF NavChild
<1>2. CASE k = "Down"
  BY <1>2, FocusLands, RowLands DEF NavChild
<1>3. CASE k \notin {"Up", "Down"}
  BY <1>3 DEF NavChild, Leave, Landing
<1>. QED BY <1>1, <1>2, <1>3

(* An event of a key: what folds in or out does so below a row that has    *)
(* the focus.                                                              *)
LEMMA EventLands ==
  ASSUME NEW type, NEW k, Event(type, k)
  PROVE  \/ Landing /\ UNCHANGED <<opened, closed>>
         \/ UNCHANGED <<focus, closed>> /\ Len(focus) = 1
         \/ focus' = Field
<1>1. CASE AtItem(type, k)
  <2>. DEFINE p == ProcessKeys(type, k)
  <2>1. \/ UNCHANGED <<opened, closed, focus>>
        \/ Nav(focus[1], p.lastKey) /\ Len(focus) = 1
        \/ NavChild(focus[1], focus[2], p.lastKey)
    BY <1>1 DEF AtItem
  <2>2. UNCHANGED <<opened, closed, focus>> => Landing
    BY DEF Landing
  <2>. HIDE DEF p
  <2>. QED BY <2>1, <2>2, NavLands, NavChildLands
<1>2. CASE Outside(type, k)
  <2>1. Landing
    BY <1>2, RowLands DEF Outside, Landing
  <2>. QED BY <1>2, <2>1 DEF Outside
<1>. QED BY <1>1, <1>2 DEF Event

(* The field is no item, and an item of length 1 is a row.                 *)
LEMMA ItemsAreTyped ==
  ASSUME rows \in Pages
  PROVE  /\ Field \notin Items /\ Elsewhere \notin Items
         /\ DOMAIN rows \subseteq Nat \ {0}
         /\ \A e \in Items : /\ e[1] \in DOMAIN rows
                             /\ Len(e) = 1 => e = <<e[1]>>
                             /\ Len(e) # 1 => /\ HasChildren(e[1])
                                              /\ e[2] \in 1 .. rows[e[1]][2]
                                              /\ e = <<e[1], e[2]>>
                                              /\ Len(e) = 2
<1>1. rows \in Seq(STRING \X (Nat \ {0}))
  BY PagesAssumption
<1>2. DOMAIN rows \subseteq Nat \ {0}
  BY <1>1
<1>3. \A e \in Items : \/ \E i \in DOMAIN rows : e = <<i>>
                       \/ \E i \in DOMAIN rows : \E c \in 1 .. rows[i][2] :
                            HasChildren(i) /\ e = <<i, c>>
  <2>1. \A i \in DOMAIN rows : \A e \in Children(i) :
          \E c \in 1 .. rows[i][2] : HasChildren(i) /\ e = <<i, c>>
    BY DEF Children
  <2>. QED BY <2>1 DEF Items
<1>4. Field \notin Items
  <2>1. ASSUME NEW i \in DOMAIN rows PROVE Field # <<i>>
    <3>1. i # 0
      BY <1>2
    <3>. QED BY <3>1 DEF Field
  <2>2. ASSUME NEW i, NEW c PROVE Field # <<i, c>>
    BY Elements DEF Field
  <2>. QED BY <1>3, <2>1, <2>2
<1>5. Elsewhere \notin Items
  <2>1. ASSUME NEW i PROVE <<>> # <<i>>
    BY Elements
  <2>2. ASSUME NEW i, NEW c PROVE <<>> # <<i, c>>
    BY Elements
  <2>. QED BY <1>3, <2>1, <2>2 DEF Elsewhere
<1>6. ASSUME NEW e \in Items
      PROVE  /\ e[1] \in DOMAIN rows
             /\ Len(e) = 1 => e = <<e[1]>>
             /\ Len(e) # 1 => /\ HasChildren(e[1])
                              /\ e[2] \in 1 .. rows[e[1]][2]
                              /\ e = <<e[1], e[2]>>
                              /\ Len(e) = 2
  <2>1. CASE \E i \in DOMAIN rows : e = <<i>>
    BY <2>1, Elements
  <2>2. CASE \E i \in DOMAIN rows : \E c \in 1 .. rows[i][2] :
               HasChildren(i) /\ e = <<i, c>>
    <3>1. PICK i \in DOMAIN rows : \E c \in 1 .. rows[i][2] :
                 HasChildren(i) /\ e = <<i, c>>
      BY <2>2
    <3>2. PICK c \in 1 .. rows[i][2] : HasChildren(i) /\ e = <<i, c>>
      BY <3>1
    <3>3. e[1] = i /\ e[2] = c /\ Len(e) = 2
      BY <3>2, Elements
    <3>. QED BY <3>2, <3>3
  <2>. QED BY <1>3, <2>1, <2>2
<1>. QED BY <1>2, <1>4, <1>5, <1>6

(* What is displayed: a row that matches, or a child of one that is open.  *)
LEMMA DisplayedIs ==
  ASSUME NEW e
  PROVE  Displayed(e) <=> /\ ~closed
                          /\ \/ \E i \in matched : e = <<i>>
                             \/ \E i \in matched \cap opened :
                                  \E c \in 1 .. rows[i][2] :
                                    HasChildren(i) /\ e = <<i, c>>
BY DEF Displayed, Children

(* A row is displayed if it matches.                                       *)
LEMMA RowDisplayed ==
  ASSUME NEW i PROVE Displayed(<<i>>) <=> ~closed /\ i \in matched
<1>1. \A j : <<i>> = <<j>> => i = j
  BY Elements
<1>2. \A j, c : <<i>> # <<j, c>>
  BY Elements
<1>. QED BY DisplayedIs, <1>1, <1>2

(* A child is displayed if its row matches and is open.                    *)
LEMMA ChildDisplayed ==
  ASSUME NEW i, NEW c
  PROVE  Displayed(<<i, c>>) <=> /\ ~closed /\ i \in matched \cap opened
                                 /\ HasChildren(i) /\ c \in 1 .. rows[i][2]
<1>1. \A j, d : <<i, c>> = <<j, d>> => i = j /\ c = d
  BY Elements
<1>2. \A j : <<j>> # <<i, c>>
  BY Elements
<1>. QED BY DisplayedIs, <1>1, <1>2

\* FocusOnScreen, and the page.
FocusInv == rows \in Pages /\ (focus \in Items => closed \/ Displayed(focus))

(* Where the focus lands it is on the screen, if nothing folds in.         *)
LEMMA LandingIsOnScreen ==
  ASSUME FocusInv, rows' = rows, matched' = matched, Landing,
         UNCHANGED <<opened, closed>>
  PROVE  FocusInv'
<1>1. Items' = Items
  BY DEF Items, Children, HasChildren
<1>2. Displayed(focus)' <=> Displayed(focus')
  BY DEF Displayed, Children, HasChildren
<1>3. Field \notin Items
  BY ItemsAreTyped DEF FocusInv
<1>4. focus' = focus => (Displayed(focus') <=> Displayed(focus))
  OBVIOUS
<1>. QED BY <1>1, <1>2, <1>3, <1>4 DEF FocusInv, Landing

(* A row that has the focus stays on the screen whatever folds below it.   *)
LEMMA RowStaysOnScreen ==
  ASSUME FocusInv, rows' = rows, matched' = matched, UNCHANGED <<focus, closed>>,
         Len(focus) = 1
  PROVE  FocusInv'
<1>1. Items' = Items
  BY DEF Items, Children, HasChildren
<1>2. ASSUME focus \in Items, ~closed PROVE Displayed(focus)'
  <2>1. focus = <<focus[1]>> /\ focus[1] \in matched
    BY <1>2, ItemsAreTyped, RowDisplayed DEF FocusInv
  <2>2. focus' = <<focus[1]>> /\ focus[1] \in matched' /\ ~closed'
    BY <1>2, <2>1
  <2>. QED BY <2>2 DEF Displayed
<1>. QED BY <1>1, <1>2 DEF FocusInv

(* The field is never lost.                                                *)
LEMMA FieldIsSafe ==
  ASSUME FocusInv, rows' = rows, focus' \in {Field, Elsewhere}
  PROVE  FocusInv'
<1>1. Items' = Items
  BY DEF Items, Children, HasChildren
<1>2. Field \notin Items /\ Elsewhere \notin Items
  BY ItemsAreTyped DEF FocusInv
<1>. QED BY <1>1, <1>2 DEF FocusInv

(* The focus is never on a row or child that folded in below it, or was    *)
(* never shown: see FocusOnScreen.                                         *)
THEOREM FocusStaysOnScreen == ResultsSpec => []FocusOnScreen
<1>1. ResultsInit => FocusInv
  BY ItemsAreTyped DEF ResultsInit, FocusInv
<1>2. FocusInv /\ [ResultsNext]_resultsVars => FocusInv'
  <2>. SUFFICES ASSUME FocusInv, [ResultsNext]_resultsVars PROVE FocusInv'
    OBVIOUS
  <2>1. rows' = rows /\ matched' = matched
    BY PageStays
  <2>2. ASSUME NEW type, NEW k, Event(type, k) PROVE FocusInv'
    BY <2>1, <2>2, EventLands, LandingIsOnScreen, RowStaysOnScreen, FieldIsSafe
  <2>3. ASSUME NEW i \in DOMAIN rows, Toggle(i) PROVE FocusInv'
    <3>1. focus' = <<i>> /\ i \in matched /\ ~closed'
      BY <2>3, RowDisplayed DEF Toggle
    <3>2. Displayed(focus)'
      BY <2>1, <3>1 DEF Displayed
    <3>. QED BY <2>1, <3>2 DEF FocusInv
  <2>4. CASE ClickAway
    BY <2>1, <2>4, FieldIsSafe DEF ClickAway
  <2>5. CASE UNCHANGED resultsVars
    BY <2>1, <2>5, LandingIsOnScreen DEF resultsVars, Landing
  <2>. QED BY <2>2, <2>3, <2>4, <2>5 DEF ResultsNext, KeyDown, KeyPress, KeyUp
<1>3. FocusInv => FocusOnScreen
  BY DEF FocusInv, FocusOnScreen, OnScreen
<1>. QED BY <1>1, <1>2, <1>3, PTL DEF ResultsSpec

-----------------------------------------------------------------------------
(* The way through the rows.                                               *)

(* A set of natural numbers that is not empty has a least element.         *)
LEMMA LeastNatural ==
  ASSUME NEW S \in SUBSET Nat, S # {}
  PROVE  \E m \in S : \A k \in S : m <= k
<1>1. PICK m \in S : \A k \in S : ~(<<k, m>> \in OpToRel(<, Nat))
  BY NatLessThanWellFounded, WFMin
<1>2. ASSUME NEW k \in S PROVE ~(k < m)
  BY <1>1 DEF OpToRel
<1>. QED BY <1>2

(* One that has a bound has a greatest element.                            *)
LEMMA GreatestNatural ==
  ASSUME NEW S \in SUBSET Nat, S # {}, NEW n \in Nat, \A s \in S : s <= n
  PROVE  \E m \in S : \A k \in S : k <= m
<1>. DEFINE T == {k \in 0 .. n : n - k \in S}
<1>1. T # {}
  <2>1. PICK s \in S : TRUE
    OBVIOUS
  <2>2. n - s \in T /\ n - (n - s) = s
    BY <2>1
  <2>. QED BY <2>2
<1>2. T \in SUBSET Nat
  OBVIOUS
<1>3. PICK t \in T : \A k \in T : t <= k
  BY <1>1, <1>2, LeastNatural
<1>4. ASSUME NEW k \in S PROVE k <= n - t
  <2>1. n - k \in 0 .. n /\ n - (n - k) = k
    BY <1>4
  <2>2. n - k \in T
    BY <2>1
  <2>. QED BY <1>3, <2>2
<1>. QED BY <1>3, <1>4

(* Min is the least element of a set of numbers.                           *)
LEMMA MinIsLeast ==
  ASSUME NEW S \in SUBSET Nat, S # {}
  PROVE  Min(S) \in S /\ \A k \in S : Min(S) <= k
BY LeastNatural DEF Min

(* Max is the greatest one, if there is a bound.                           *)
LEMMA MaxIsGreatest ==
  ASSUME NEW S \in SUBSET Nat, S # {}, NEW n \in Nat, \A s \in S : s <= n
  PROVE  Max(S) \in S /\ \A k \in S : k <= Max(S)
<1>1. \E m \in S : \A k \in S : k <= m
  BY GreatestNatural
<1>2. \E m \in S : \A k \in S : m >= k
  BY <1>1
<1>3. Max(S) \in S /\ \A k \in S : Max(S) >= k
  BY <1>2 DEF Max
<1>. QED BY <1>3

(* Of one number, it is that number.                                       *)
LEMMA MaxOfOne == ASSUME NEW n \in Nat PROVE Max({n}) = n
BY MaxIsGreatest

\* Only the first of the rows with an identifier folds out, and only if it has
\* several results.
FoldInv ==
  /\ rows \in Pages
  /\ matched \subseteq DOMAIN rows
  /\ \A i \in opened : i \in FindChildElement(i)

(* The row that folds for row i folds for itself.                          *)
LEMMA FirstFoldsForItself ==
  ASSUME rows \in Pages, NEW i \in DOMAIN rows, NEW j \in FindChildElement(i)
  PROVE  j \in FindChildElement(j)
<1>. DEFINE S(k) == {m \in DOMAIN rows : rows[m][1] = rows[k][1]}
<1>1. j = Min(S(i)) /\ HasChildren(j)
  BY DEF FindChildElement
<1>2. S(i) \in SUBSET Nat /\ S(i) # {}
  BY ItemsAreTyped
<1>3. j \in S(i)
  BY <1>1, <1>2, MinIsLeast
<1>4. S(j) = S(i)
  BY <1>3
<1>5. j = Min(S(j))
  BY <1>1, <1>4
<1>. HIDE DEF S
<1>6. FindChildElement(j) = {m \in {Min(S(j))} : HasChildren(m)}
  BY DEF FindChildElement, S
<1>. QED BY <1>1, <1>5, <1>6

(* A row that is open sees its own children, which it has.                 *)
LEMMA OpenRowsShowChildren ==
  ASSUME FoldInv, NEW i \in opened
  PROVE  ChildrenVisible(i) /\ HasChildren(i)
<1>1. i \in FindChildElement(i)
  BY DEF FoldInv
<1>2. HasChildren(i)
  BY <1>1 DEF FindChildElement
<1>. QED BY <1>1, <1>2 DEF ChildrenVisible

(* FoldInv holds whatever is folded in and out.                            *)
LEMMA FoldsAreFirst == ResultsSpec => []FoldInv
<1>1. ResultsInit => FoldInv
  BY DEF ResultsInit, FoldInv, SearchRows
<1>2. FoldInv /\ [ResultsNext]_resultsVars => FoldInv'
  <2>. SUFFICES ASSUME FoldInv, [ResultsNext]_resultsVars PROVE FoldInv'
    OBVIOUS
  <2>1. rows' = rows /\ matched' = matched
    BY PageStays
  <2>2. \A i : FindChildElement(i)' = FindChildElement(i)
    BY <2>1 DEF FindChildElement, HasChildren
  <2>3. ASSUME NEW i \in DOMAIN rows,
               opened' \subseteq opened \cup FindChildElement(i)
        PROVE  FoldInv'
    <3>1. \A j \in opened' : j \in FindChildElement(j)
      BY <2>3, FirstFoldsForItself DEF FoldInv
    <3>. QED BY <2>1, <2>2, <3>1 DEF FoldInv
  <2>4. ASSUME opened' = opened PROVE FoldInv'
    BY <2>1, <2>2, <2>4 DEF FoldInv
  <2>5. ASSUME NEW type, NEW k, Event(type, k) PROVE FoldInv'
    <3>1. ASSUME AtItem(type, k), opened' # opened PROVE FoldInv'
      <4>. DEFINE p == ProcessKeys(type, k)
      <4>1. focus[1] \in DOMAIN rows
        BY <3>1, ItemsAreTyped DEF AtItem, FoldInv
      <4>2. Nav(focus[1], p.lastKey) \/ NavChild(focus[1], focus[2], p.lastKey)
        BY <3>1 DEF AtItem
      <4>. HIDE DEF p
      <4>3. opened' \subseteq opened \cup FindChildElement(focus[1])
        BY <3>1, <4>2 DEF Nav, NavChild, Leave
      <4>. QED BY <2>3, <4>1, <4>3
    <3>. QED BY <2>4, <2>5, <3>1 DEF Event, Outside
  <2>6. ASSUME NEW i \in DOMAIN rows, Toggle(i) PROVE FoldInv'
    BY <2>3, <2>6 DEF Toggle
  <2>7. CASE ClickAway
    BY <2>4, <2>7 DEF ClickAway
  <2>8. CASE UNCHANGED resultsVars
    BY <2>4, <2>8 DEF resultsVars
  <2>. QED BY <2>5, <2>6, <2>7, <2>8 DEF ResultsNext, KeyDown, KeyPress, KeyUp
<1>. QED BY <1>1, <1>2, PTL DEF ResultsSpec

(* What is on the screen: rows that match, children of open ones.          *)
LEMMA ScreenIs ==
  ASSUME FoldInv, NEW e \in OnScreen
  PROVE  /\ e \in Items /\ Displayed(e) /\ ~closed
         /\ e[1] \in matched /\ e[1] \in Nat \ {0}
         /\ \/ Len(e) = 1 /\ e = <<e[1]>>
            \/ /\ Len(e) = 2 /\ e = <<e[1], e[2]>> /\ e[1] \in opened
               /\ rows[e[1]][2] \in Nat /\ e[2] \in 1 .. rows[e[1]][2]
               /\ HasChildren(e[1])
<1>1. e \in Items /\ Displayed(e) /\ ~closed
  BY DEF OnScreen, Displayed
<1>2. rows \in Seq(STRING \X (Nat \ {0})) /\ rows \in Pages
  BY PagesAssumption DEF FoldInv
<1>3. e[1] \in DOMAIN rows /\ e[1] \in Nat \ {0} /\ rows[e[1]][2] \in Nat
  BY <1>1, <1>2, ItemsAreTyped
<1>4. CASE Len(e) = 1
  <2>1. e = <<e[1]>>
    BY <1>1, <1>2, <1>4, ItemsAreTyped
  <2>2. e[1] \in matched
    BY <1>1, <2>1, RowDisplayed
  <2>. QED BY <1>1, <1>3, <1>4, <2>1, <2>2
<1>5. CASE Len(e) # 1
  <2>1. /\ HasChildren(e[1]) /\ e[2] \in 1 .. rows[e[1]][2]
        /\ e = <<e[1], e[2]>> /\ Len(e) = 2
    BY <1>1, <1>2, <1>5, ItemsAreTyped
  <2>2. e[1] \in matched \cap opened
    BY <1>1, <2>1, ChildDisplayed
  <2>. QED BY <1>1, <1>3, <2>1, <2>2
<1>. QED BY <1>4, <1>5

(* What is displayed is on the screen.                                     *)
LEMMA OnScreenIf ==
  ASSUME FoldInv, ~closed, NEW i \in matched
  PROVE  /\ <<i>> \in OnScreen
         /\ i \in opened => \A c \in 1 .. rows[i][2] : <<i, c>> \in OnScreen
<1>1. i \in DOMAIN rows
  BY DEF FoldInv
<1>2. <<i>> \in Items /\ (HasChildren(i) => \A c \in 1 .. rows[i][2] : <<i, c>> \in Items)
  BY <1>1 DEF Items, Children
<1>3. <<i>> \in OnScreen
  BY <1>2, RowDisplayed DEF OnScreen
<1>4. ASSUME i \in opened, NEW c \in 1 .. rows[i][2] PROVE <<i, c>> \in OnScreen
  BY <1>2, <1>4, ChildDisplayed, OpenRowsShowChildren DEF OnScreen
<1>. QED BY <1>3, <1>4

(* A step down to an element of the screen with none between.              *)
LEMMA StepDown ==
  ASSUME focus \in OnScreen, NEW e \in OnScreen, focus' = e, Before(focus, e),
         \A f \in OnScreen : Before(focus, f) => f = e \/ Before(e, f)
  PROVE  OneStepUpOrDown
BY DEF OneStepUpOrDown

(* A step up.                                                              *)
LEMMA StepUp ==
  ASSUME focus \in OnScreen, NEW e \in OnScreen, focus' = e, Before(e, focus),
         \A f \in OnScreen : Before(f, focus) => f = e \/ Before(f, e)
  PROVE  OneStepUpOrDown
BY DEF OneStepUpOrDown

(* NavNext finds the first row from n on.                                  *)
LEMMA NextRowIs ==
  ASSUME FoldInv, NEW n \in Nat
  PROVE  \/ NavNext(n) = {} /\ \A i \in matched : i < n
         \/ \E m \in matched : /\ NavNext(n) = {m} /\ m >= n
                               /\ \A i \in matched : i < n \/ m <= i
<1>. DEFINE after == {i \in matched : i >= n}
<1>1. after \in SUBSET Nat /\ matched \in SUBSET Nat
  BY ItemsAreTyped DEF FoldInv
<1>2. CASE after = {}
  BY <1>1, <1>2 DEF NavNext
<1>3. CASE after # {}
  <2>1. Min(after) \in after /\ \A k \in after : Min(after) <= k
    BY <1>1, <1>3, MinIsLeast
  <2>2. NavNext(n) = {Min(after)}
    BY <1>3 DEF NavNext
  <2>. HIDE DEF after
  <2>3. \A i \in matched : i \in after \/ i < n
    BY <1>1 DEF after
  <2>4. Min(after) \in matched /\ Min(after) >= n
    BY <2>1 DEF after
  <2>. QED BY <2>1, <2>2, <2>3, <2>4
<1>. QED BY <1>2, <1>3

(* NavPrev finds the last row up to n.                                     *)
LEMMA PrevRowIs ==
  ASSUME FoldInv, NEW n \in Nat
  PROVE  \/ NavPrev(n) = {} /\ \A i \in matched : i > n
         \/ \E m \in matched : /\ NavPrev(n) = {m} /\ m <= n
                               /\ \A i \in matched : i > n \/ i <= m
<1>. DEFINE before == {i \in matched : i <= n}
<1>1. before \in SUBSET Nat /\ matched \in SUBSET Nat
  BY ItemsAreTyped DEF FoldInv
<1>2. CASE before = {}
  BY <1>1, <1>2 DEF NavPrev
<1>3. CASE before # {}
  <2>1. Max(before) \in before /\ \A k \in before : k <= Max(before)
    BY <1>1, <1>3, MaxIsGreatest
  <2>2. NavPrev(n) = {Max(before)}
    BY <1>3 DEF NavPrev
  <2>. HIDE DEF before
  <2>3. \A i \in matched : i \in before \/ i > n
    BY <1>1 DEF before
  <2>4. Max(before) \in matched /\ Max(before) <= n
    BY <2>1 DEF before
  <2>. QED BY <2>1, <2>2, <2>3, <2>4
<1>. QED BY <1>2, <1>3

(* To the next row, from the last element of this one.                     *)
LEMMA ToNextRow ==
  ASSUME FoldInv, focus \in OnScreen, focus' = FocusRow(NavNext(focus[1] + 1)),
         \A f \in OnScreen : Before(focus, f) => f[1] # focus[1]
  PROVE  OneStepUpOrDown
<1>1. focus[1] \in Nat /\ ~closed
  BY ScreenIs
<1>2. CASE NavNext(focus[1] + 1) = {}
  BY <1>2 DEF FocusRow, OneStepUpOrDown
<1>3. ASSUME NEW m \in matched, NavNext(focus[1] + 1) = {m}, m >= focus[1] + 1,
             \A i \in matched : i < focus[1] + 1 \/ m <= i
      PROVE  OneStepUpOrDown
  <2>1. m \in Nat
    BY ItemsAreTyped DEF FoldInv
  <2>2. <<m>> \in OnScreen
    BY <1>1, OnScreenIf
  <2>3. <<m>>[1] = m /\ Len(<<m>>) = 1
    BY Elements
  <2>4. focus' = <<m>>
    <3>1. focus' = Focused(<<m>>)
      BY <1>3, <2>1, MaxOfOne DEF FocusRow
    <3>2. Displayed(<<m>>)
      BY <2>2 DEF OnScreen
    <3>. QED BY <3>1, <3>2 DEF Focused
  <2>5. Before(focus, <<m>>)
    BY <1>1, <1>3, <2>1, <2>3 DEF Before
  <2>6. ASSUME NEW f \in OnScreen, Before(focus, f)
        PROVE  f = <<m>> \/ Before(<<m>>, f)
    <3>1. f[1] \in matched /\ f[1] \in Nat
      BY ScreenIs
    <3>2. f[1] > focus[1]
      BY <1>1, <2>6, <3>1 DEF Before
    <3>3. m <= f[1]
      BY <1>1, <1>3, <3>1, <3>2
    <3>4. CASE f[1] = m
      BY <2>3, <3>4, ScreenIs DEF Before
    <3>5. CASE f[1] # m
      BY <2>1, <2>3, <3>1, <3>3, <3>5 DEF Before
    <3>. QED BY <3>4, <3>5
  <2>. QED BY <2>2, <2>4, <2>5, <2>6, StepDown
<1>. QED BY <1>1, <1>2, <1>3, NextRowIs

(* Up from a child goes to the child or row above it.                      *)
LEMMA ChildUp ==
  ASSUME FoldInv, focus \in OnScreen, Len(focus) # 1,
         NavChild(focus[1], focus[2], "Up")
  PROVE  OneStepUpOrDown
<1>. DEFINE i == focus[1]
            c == focus[2]
<1>1. /\ focus = <<i, c>> /\ i \in matched \cap opened /\ i \in Nat
      /\ rows[i][2] \in Nat /\ c \in 1 .. rows[i][2] /\ ~closed
      /\ Len(focus) = 2
  BY ScreenIs
<1>2. ASSUME NEW f \in OnScreen, Before(f, focus)
      PROVE  /\ f[1] \in Nat /\ f[1] <= i
             /\ f[1] = i => \/ f = <<i>>
                            \/ f = <<i, f[2]>> /\ f[2] \in 1 .. c - 1 /\ Len(f) = 2
  BY <1>1, <1>2, ScreenIs DEF Before
<1>3. CASE c > 1
  <2>1. <<i, c - 1>> \in OnScreen
    <3>1. c - 1 \in 1 .. rows[i][2]
      BY <1>1, <1>3
    <3>. QED BY <1>1, <3>1, OnScreenIf
  <2>2. focus' = <<i, c - 1>>
    BY <1>3, <2>1 DEF NavChild, Focused, OnScreen
  <2>3. <<i, c - 1>>[1] = i /\ <<i, c - 1>>[2] = c - 1 /\ Len(<<i, c - 1>>) = 2
    BY Elements
  <2>4. Before(<<i, c - 1>>, focus)
    BY <1>1, <2>3 DEF Before
  <2>5. ASSUME NEW f \in OnScreen, Before(f, focus)
        PROVE  f = <<i, c - 1>> \/ Before(f, <<i, c - 1>>)
    <3>1. CASE f[1] # i
      BY <1>1, <1>2, <2>3, <2>5, <3>1 DEF Before
    <3>2. CASE f = <<i>>
      BY <2>3, <3>2, Elements DEF Before
    <3>3. CASE f[1] = i /\ f = <<i, f[2]>> /\ f[2] \in 1 .. c - 1 /\ Len(f) = 2
      BY <1>1, <2>3, <3>3 DEF Before
    <3>. QED BY <1>2, <2>5, <3>1, <3>2, <3>3
  <2>. QED BY <2>1, <2>2, <2>4, <2>5, StepUp
<1>4. CASE ~(c > 1)
  <2>1. <<i>> \in OnScreen
    BY <1>1, OnScreenIf
  <2>2. focus' = <<i>>
    BY <1>4, <2>1 DEF NavChild, Focused, OnScreen
  <2>3. Before(<<i>>, focus)
    BY <1>1, Elements DEF Before
  <2>4. ASSUME NEW f \in OnScreen, Before(f, focus)
        PROVE  f = <<i>> \/ Before(f, <<i>>)
    <3>1. CASE f[1] # i
      BY <1>1, <1>2, <2>4, <3>1, Elements DEF Before
    <3>2. CASE f[1] = i
      BY <1>1, <1>2, <1>4, <2>4, <3>2
    <3>. QED BY <3>1, <3>2
  <2>. QED BY <2>1, <2>2, <2>3, <2>4, StepUp
<1>. QED BY <1>3, <1>4

(* Down from a child goes to the next child or row.                        *)
LEMMA ChildDown ==
  ASSUME FoldInv, focus \in OnScreen, Len(focus) # 1,
         NavChild(focus[1], focus[2], "Down")
  PROVE  OneStepUpOrDown
<1>. DEFINE i == focus[1]
            c == focus[2]
<1>1. /\ focus = <<i, c>> /\ i \in matched \cap opened /\ i \in Nat
      /\ rows[i][2] \in Nat /\ c \in 1 .. rows[i][2] /\ ~closed
      /\ Len(focus) = 2
  BY ScreenIs
<1>2. ASSUME NEW f \in OnScreen, Before(focus, f)
      PROVE  /\ f[1] \in Nat /\ f[1] >= i
             /\ f[1] = i => /\ f = <<i, f[2]>> /\ Len(f) = 2
                            /\ f[2] \in c + 1 .. rows[i][2]
  <2>1. f[1] \in Nat /\ f[1] >= i
    BY <1>1, <1>2, ScreenIs DEF Before
  <2>2. ASSUME f[1] = i PROVE Len(f) = 2 /\ c < f[2]
    <3>1. Len(f) \in {1, 2} /\ f[1] \in Nat
      BY ScreenIs
    <3>2. Len(focus) = 2 /\ focus[1] = i /\ focus[2] = c /\ i \in Nat
      BY <1>1
    <3>. HIDE DEF i, c
    <3>3. ~(focus[1] < f[1])
      BY <2>2, <3>2
    <3>4. \/ Len(focus) < Len(f)
          \/ Len(f) = 2 /\ focus[2] < f[2]
      BY <1>2, <3>3 DEF Before
    <3>5. Len(f) = 1 => ~(Len(focus) < Len(f))
      BY <3>2
    <3>6. Len(f) = 2 => ~(Len(focus) < Len(f))
      BY <3>2
    <3>. QED BY <3>1, <3>2, <3>4, <3>5, <3>6
  <2>3. ASSUME f[1] = i
        PROVE  f = <<i, f[2]>> /\ f[2] \in 1 .. rows[i][2]
    BY <2>2, <2>3, ScreenIs
  <2>. QED BY <1>1, <2>1, <2>2, <2>3
<1>3. CASE c < rows[i][2]
  <2>1. <<i, c + 1>> \in OnScreen
    <3>1. c + 1 \in 1 .. rows[i][2]
      BY <1>1, <1>3
    <3>. QED BY <1>1, <3>1, OnScreenIf
  <2>2. focus' = <<i, c + 1>>
    BY <1>3, <2>1 DEF NavChild, Focused, OnScreen
  <2>3. <<i, c + 1>>[1] = i /\ <<i, c + 1>>[2] = c + 1 /\ Len(<<i, c + 1>>) = 2
    BY Elements
  <2>4. Before(focus, <<i, c + 1>>)
    BY <1>1, <2>3 DEF Before
  <2>5. ASSUME NEW f \in OnScreen, Before(focus, f)
        PROVE  f = <<i, c + 1>> \/ Before(<<i, c + 1>>, f)
    <3>1. CASE f[1] # i
      BY <1>1, <1>2, <2>3, <2>5, <3>1 DEF Before
    <3>2. CASE f[1] = i
      BY <1>1, <1>2, <2>3, <2>5, <3>2 DEF Before
    <3>. QED BY <3>1, <3>2
  <2>. QED BY <2>1, <2>2, <2>4, <2>5, StepDown
<1>4. CASE ~(c < rows[i][2])
  <2>1. focus' = FocusRow(NavNext(focus[1] + 1))
    BY <1>4 DEF NavChild
  <2>2. \A f \in OnScreen : Before(focus, f) => f[1] # focus[1]
    BY <1>1, <1>2, <1>4
  <2>. QED BY <2>1, <2>2, ToNextRow
<1>. QED BY <1>3, <1>4

(* Down from a row goes to its first child or to the next row.             *)
LEMMA RowDown ==
  ASSUME FoldInv, focus \in OnScreen, Len(focus) = 1, focus' = DownFrom(focus[1])
  PROVE  OneStepUpOrDown
<1>. DEFINE i == focus[1]
<1>1. /\ focus = <<i>> /\ i \in matched /\ i \in Nat /\ ~closed
  BY ScreenIs
<1>2. CASE ChildrenVisible(i) /\ HasChildren(i)
  <2>1. focus' = Focused(<<i, 1>>)
    BY <1>2 DEF DownFrom
  <2>2. CASE ~Displayed(<<i, 1>>)
    <3>1. <<i, 1>> # Field
      BY Elements DEF Field
    <3>. QED BY <2>1, <2>2, <3>1 DEF Focused, OneStepUpOrDown
  <2>3. CASE Displayed(<<i, 1>>)
    <3>1. i \in opened /\ 1 \in 1 .. rows[i][2]
      BY <2>3, ChildDisplayed
    <3>2. <<i, 1>> \in OnScreen
      BY <1>1, <3>1, OnScreenIf
    <3>3. focus' = <<i, 1>>
      BY <2>1, <2>3 DEF Focused
    <3>4. <<i, 1>>[1] = i /\ <<i, 1>>[2] = 1 /\ Len(<<i, 1>>) = 2
      BY Elements
    <3>5. Before(focus, <<i, 1>>)
      BY <1>1, <3>4 DEF Before
    <3>6. ASSUME NEW f \in OnScreen, Before(focus, f)
          PROVE  f = <<i, 1>> \/ Before(<<i, 1>>, f)
      BY <1>1, <3>4, <3>6, ScreenIs DEF Before
    <3>. QED BY <3>2, <3>3, <3>5, <3>6, StepDown
  <2>. QED BY <2>2, <2>3
<1>3. CASE ~(ChildrenVisible(i) /\ HasChildren(i))
  <2>1. focus' = FocusRow(NavNext(focus[1] + 1))
    BY <1>3 DEF DownFrom
  <2>2. i \notin opened
    BY <1>3, OpenRowsShowChildren
  <2>3. ASSUME NEW f \in OnScreen, Before(focus, f) PROVE f[1] # focus[1]
    <3>1. ASSUME f[1] = i PROVE Len(f) = 1
      BY <2>2, <3>1, ScreenIs
    <3>2. Len(focus) = 1 /\ focus[1] \in Nat
      BY <1>1
    <3>3. ASSUME f[1] = focus[1], Len(f) = 1 PROVE FALSE
      BY <2>3, <3>2, <3>3 DEF Before
    <3>. QED BY <3>1, <3>3
  <2>. QED BY <2>1, <2>3, ToNextRow
<1>. QED BY <1>2, <1>3

(* Up from a row goes to the row above, to its last child, or to the field *)
(* if there is no row above.                                               *)
LEMMA RowUp ==
  ASSUME FoldInv, MatchesTogether, focus \in OnScreen, Len(focus) = 1,
         focus' = UpFrom(focus[1])
  PROVE  OneStepUpOrDown
<1>. DEFINE i == focus[1]
            n == rows[i - 1][2]
<1>1. /\ focus = <<i>> /\ i \in matched /\ i \in Nat \ {0} /\ ~closed
  BY ScreenIs
<1>2. i - 1 \in Nat
  BY <1>1
<1>3. ASSUME NEW f \in OnScreen, Before(f, focus)
      PROVE  f[1] \in matched /\ f[1] \in Nat /\ f[1] <= i - 1
  BY <1>1, <1>3, ScreenIs DEF Before
<1>4. CASE NavPrev(i - 1) = {} /\ \A j \in matched : j > i - 1
  <2>1. focus' = Field
    BY <1>4 DEF UpFrom
  <2>2. {e \in OnScreen : Before(e, focus)} = {}
    BY <1>2, <1>3, <1>4
  <2>. QED BY <2>1, <2>2 DEF OneStepUpOrDown
<1>5. ASSUME NEW m \in matched, NavPrev(i - 1) = {m}, m <= i - 1
      PROVE  OneStepUpOrDown
  <2>1. m \in Nat
    BY ItemsAreTyped DEF FoldInv
  <2>2. m = i - 1 /\ i - 1 \in matched
    <3>1. i - 1 \in m .. i
      BY <1>1, <1>5, <2>1
    <3>2. i - 1 \in matched
      BY <1>1, <3>1 DEF MatchesTogether
    <3>3. NavPrev(i - 1) # {} => \A j \in matched : j > i - 1 \/ j <= m
      BY <1>2, <1>5, PrevRowIs
    <3>. QED BY <1>2, <1>5, <2>1, <3>2, <3>3
  <2>3. Max(NavPrev(i - 1)) = i - 1
    BY <1>2, <1>5, <2>2, MaxOfOne
  <2>4. <<i - 1>> \in OnScreen
    BY <1>1, <2>2, OnScreenIf
  <2>5. <<i - 1>>[1] = i - 1 /\ Len(<<i - 1>>) = 1
    BY Elements
  <2>6. CASE ChildrenVisible(i - 1) /\ HasChildren(i - 1)
    <3>1. focus' = Focused(<<i - 1, n>>)
      BY <1>5, <2>3, <2>6 DEF UpFrom
    <3>2. CASE ~Displayed(<<i - 1, n>>)
      <4>1. <<i - 1, n>> # Field
        BY Elements DEF Field
      <4>. QED BY <3>1, <3>2, <4>1 DEF Focused, OneStepUpOrDown
    <3>3. CASE Displayed(<<i - 1, n>>)
      <4>1. i - 1 \in opened /\ n \in 1 .. n
        BY <3>3, ChildDisplayed
      <4>2. <<i - 1, n>> \in OnScreen
        BY <1>1, <2>2, <4>1, OnScreenIf
      <4>3. focus' = <<i - 1, n>>
        BY <3>1, <3>3 DEF Focused
      <4>4. <<i - 1, n>>[1] = i - 1 /\ <<i - 1, n>>[2] = n /\ Len(<<i - 1, n>>) = 2
        BY Elements
      <4>5. Before(<<i - 1, n>>, focus)
        BY <1>1, <4>4 DEF Before
      <4>6. ASSUME NEW f \in OnScreen, Before(f, focus)
            PROVE  f = <<i - 1, n>> \/ Before(f, <<i - 1, n>>)
        <5>1. CASE f[1] # i - 1
          BY <1>2, <1>3, <4>4, <4>6, <5>1 DEF Before
        <5>2. CASE f[1] = i - 1 /\ Len(f) = 1
          BY <4>4, <5>2 DEF Before
        <5>3. CASE f[1] = i - 1 /\ Len(f) # 1
          <6>1. /\ f = <<i - 1, f[2]>> /\ Len(f) = 2
                /\ n \in Nat /\ f[2] \in 1 .. n
            BY <5>3, ScreenIs
          <6>. QED BY <4>4, <5>3, <6>1 DEF Before
        <5>. QED BY <5>1, <5>2, <5>3
      <4>. QED BY <4>2, <4>3, <4>5, <4>6, StepUp
    <3>. QED BY <3>2, <3>3
  <2>7. CASE ~(ChildrenVisible(i - 1) /\ HasChildren(i - 1))
    <3>1. focus' = Focused(<<i - 1>>)
      BY <1>5, <2>3, <2>7 DEF UpFrom
    <3>2. focus' = <<i - 1>>
      BY <2>4, <3>1 DEF Focused, OnScreen
    <3>3. i - 1 \notin opened
      BY <2>7, OpenRowsShowChildren
    <3>4. Before(<<i - 1>>, focus)
      BY <1>1, <2>5 DEF Before
    <3>5. ASSUME NEW f \in OnScreen, Before(f, focus)
          PROVE  f = <<i - 1>> \/ Before(f, <<i - 1>>)
      <4>1. CASE f[1] # i - 1
        BY <1>2, <1>3, <2>5, <3>5, <4>1 DEF Before
      <4>2. CASE f[1] = i - 1
        BY <3>3, <4>2, ScreenIs
      <4>. QED BY <4>1, <4>2
    <3>. QED BY <2>4, <3>2, <3>4, <3>5, StepUp
  <2>. QED BY <2>6, <2>7
<1>. QED BY <1>2, <1>4, <1>5, PrevRowIs

(* Every event of a key.                                                   *)
LEMMA EventSteps ==
  ASSUME FoldInv, MatchesTogether, focus \in OnScreen, NEW type, NEW k, Event(type, k)
  PROVE  OneStepUpOrDown
<1>1. focus \in Items
  BY ScreenIs
<1>2. AtItem(type, k)
  BY <1>1 DEF Event, Outside
<1>3. CASE focus' = focus
  BY <1>3 DEF OneStepUpOrDown
<1>4. CASE focus' = Field /\ closed'
  BY <1>4 DEF OneStepUpOrDown
<1>. DEFINE p == ProcessKeys(type, k)
<1>5. CASE Len(focus) = 1 /\ Nav(focus[1], p.lastKey)
  BY <1>3, <1>4, <1>5, RowUp, RowDown DEF Nav, Leave
<1>6. CASE Len(focus) # 1 /\ NavChild(focus[1], focus[2], p.lastKey)
  <2>1. CASE p.lastKey = "Up"
    BY <1>6, <2>1, ChildUp
  <2>2. CASE p.lastKey = "Down"
    BY <1>6, <2>2, ChildDown
  <2>3. CASE p.lastKey \notin {"Up", "Down"}
    BY <1>3, <1>4, <1>6, <2>3 DEF NavChild, Leave
  <2>. QED BY <2>1, <2>2, <2>3
<1>. QED BY <1>2, <1>3, <1>5, <1>6 DEF AtItem

-----------------------------------------------------------------------------
(* Rows that match lie together, because the rows are in order.            *)

(* Characters are compared by numbers.                                     *)
LEMMA RankIsNatural == ASSUME NEW c PROVE Rank(c) \in Nat
<1>. DEFINE S == {0} \cup {x \in 1 .. Len(Alphabet) : SubSeq(Alphabet, x, x) = c}
<1>1. S \in SUBSET Nat /\ S # {} /\ \A s \in S : s <= Len(Alphabet)
  BY OrderAssumption
<1>2. Max(S) \in S
  <2>. HIDE DEF S
  <2>. QED BY <1>1, OrderAssumption, MaxIsGreatest
<1>. QED BY <1>1, <1>2 DEF Rank

(* Identifiers that begin alike have the same shorter beginnings and the   *)
(* same characters in them.                                                *)
LEMMA SameBeginning ==
  ASSUME NEW a, NEW b, NEW n \in Nat, NEW k \in 1 .. n,
         SubSeq(a, 1, n) = SubSeq(b, 1, n)
  PROVE  SubSeq(a, 1, k) = SubSeq(b, 1, k) /\ SubSeq(a, k, k) = SubSeq(b, k, k)
<1>1. \A i \in 1 .. n : a[i] = b[i]
  <2>1. \A i \in 1 .. n : SubSeq(a, 1, n)[i] = a[i] /\ SubSeq(b, 1, n)[i] = b[i]
    OBVIOUS
  <2>. QED BY <2>1
<1>2. SubSeq(a, 1, k) = SubSeq(b, 1, k)
  BY <1>1
<1>3. SubSeq(a, k, k) = SubSeq(b, k, k)
  BY <1>1
<1>. QED BY <1>2, <1>3

(* What lies between two identifiers with the same beginning has it too:   *)
(* where it first differed from one of them, it would be out of order with *)
(* the other.                                                              *)
LEMMA BetweenBeginsAlike ==
  ASSUME NEW a, NEW m, NEW b, NEW k \in Nat,
         Len(a) \in Nat, Len(m) \in Nat, Len(b) \in Nat,
         k <= Len(a), k <= Len(b), SubSeq(a, 1, k) = SubSeq(b, 1, k),
         Precedes(a, m), Precedes(m, b)
  PROVE  k <= Len(m) /\ SubSeq(m, 1, k) = SubSeq(a, 1, k)
<1>. DEFINE At(s, i) == Rank(SubSeq(s, i, i))
<1>1. PICK p \in 0 .. Len(a) :
        /\ p <= Len(m) /\ SubSeq(a, 1, p) = SubSeq(m, 1, p)
        /\ p < Len(a) => p < Len(m) /\ At(a, p + 1) < At(m, p + 1)
  BY DEF Precedes
<1>2. PICK q \in 0 .. Len(m) :
        /\ q <= Len(b) /\ SubSeq(m, 1, q) = SubSeq(b, 1, q)
        /\ q < Len(m) => q < Len(b) /\ At(m, q + 1) < At(b, q + 1)
  BY DEF Precedes
<1>3. \A i \in Nat : At(a, i) \in Nat /\ At(m, i) \in Nat /\ At(b, i) \in Nat
  BY RankIsNatural
<1>4. \A i \in 1 .. k : At(a, i) = At(b, i)
  BY SameBeginning
<1>5. ASSUME NEW i \in 1 .. p PROVE At(a, i) = At(m, i)
  <2>1. p \in Nat /\ SubSeq(a, 1, p) = SubSeq(m, 1, p)
    BY <1>1
  <2>2. SubSeq(a, i, i) = SubSeq(m, i, i)
    BY <2>1, SameBeginning
  <2>. QED BY <2>2
<1>6. ASSUME NEW i \in 1 .. q PROVE At(m, i) = At(b, i)
  <2>1. q \in Nat /\ SubSeq(m, 1, q) = SubSeq(b, 1, q)
    BY <1>2
  <2>2. SubSeq(m, i, i) = SubSeq(b, i, i)
    BY <2>1, SameBeginning
  <2>. QED BY <2>2
<1>. HIDE DEF At
<1>7. CASE k = 0
  <2>1. SubSeq(m, 1, 0) = SubSeq(a, 1, 0)
    OBVIOUS
  <2>. QED BY <1>7, <2>1
<1>8. CASE k > 0 /\ k <= p
  <2>1. k \in 1 .. p /\ k <= Len(m)
    BY <1>1, <1>8
  <2>. QED BY <1>1, <2>1, SameBeginning
<1>9. CASE k > 0 /\ k <= q
  <2>1. k \in 1 .. q /\ k <= Len(m)
    BY <1>2, <1>9
  <2>2. SubSeq(m, 1, k) = SubSeq(b, 1, k)
    BY <1>2, <2>1, SameBeginning
  <2>. QED BY <2>1, <2>2
<1>10. CASE p < k /\ q < k
  <2>1. p < Len(m) /\ At(a, p + 1) < At(m, p + 1)
    BY <1>1, <1>10
  <2>2. CASE p < q
    <3>1. p + 1 \in 1 .. q /\ p + 1 \in 1 .. k /\ p + 1 \in Nat
      BY <1>1, <1>2, <1>10, <2>2
    <3>2. At(m, p + 1) = At(b, p + 1) /\ At(a, p + 1) = At(b, p + 1)
      BY <1>4, <1>6, <3>1
    <3>. QED BY <1>3, <2>1, <3>1, <3>2
  <2>3. CASE q <= p
    <3>1. At(m, q + 1) < At(b, q + 1)
      BY <1>1, <1>2, <2>1, <2>3
    <3>2. q + 1 \in 1 .. k /\ q + 1 \in Nat
      BY <1>2, <1>10
    <3>3. At(a, q + 1) = At(b, q + 1)
      BY <1>4, <3>2
    <3>4. CASE q = p
      <4>1. At(a, q + 1) < At(m, q + 1)
        BY <2>1, <3>4
      <4>2. /\ At(a, q + 1) \in Nat /\ At(m, q + 1) \in Nat
            /\ At(b, q + 1) \in Nat
        BY <1>3, <3>2
      <4>. QED BY <3>1, <3>3, <4>1, <4>2
    <3>5. CASE q < p
      <4>1. q + 1 \in 1 .. p
        BY <1>1, <1>2, <3>5
      <4>2. At(a, q + 1) = At(m, q + 1)
        BY <1>5, <4>1
      <4>. QED BY <1>3, <3>1, <3>2, <3>3, <4>2
    <3>6. q = p \/ q < p
      BY <2>3
    <3>. QED BY <3>4, <3>5, <3>6
  <2>. QED BY <1>1, <1>2, <2>2, <2>3
<1>. QED BY <1>1, <1>2, <1>7, <1>8, <1>9, <1>10

(* The rows that match a search lie together: between two of them there is *)
(* no row that does not match.  They do when the page is searched, because *)
(* its rows are in the order of their identifiers, and no event of a key   *)
(* or of the mouse changes what matched.                                   *)
THEOREM RowsMatchTogether == ResultsSpec => []MatchesTogether
<1>1. ASSUME rows \in Pages, NEW s, NEW i \in SearchRows(s), NEW j \in SearchRows(s),
             NEW m \in i .. j, Len(s) \in Nat
      PROVE  m \in SearchRows(s)
  <2>1. DOMAIN rows \subseteq Nat \ {0} /\ i \in DOMAIN rows /\ j \in DOMAIN rows
    BY <1>1, ItemsAreTyped DEF SearchRows
  <2>2. m \in DOMAIN rows /\ i <= m /\ m <= j
    <3>1. DOMAIN rows = 1 .. Len(rows) /\ Len(rows) \in Nat
      BY <1>1, PagesAssumption
    <3>. QED BY <2>1, <3>1
  <2>. DEFINE a == rows[i][1]
              c == rows[m][1]
              b == rows[j][1]
  <2>3. Precedes(a, c) /\ Precedes(c, b)
    BY <1>1, <2>1, <2>2, OrderAssumption DEF RowsInOrder
  <2>4. Len(a) \in Nat /\ Len(c) \in Nat /\ Len(b) \in Nat
    BY <1>1, <2>1, <2>2, OrderAssumption
  <2>5. /\ Len(s) <= Len(a) /\ SubSeq(a, 1, Len(s)) = s
        /\ Len(s) <= Len(b) /\ SubSeq(b, 1, Len(s)) = s
    BY DEF SearchRows, Matches
  <2>. HIDE DEF a, b, c
  <2>6. Len(s) <= Len(c) /\ SubSeq(c, 1, Len(s)) = s
    BY <1>1, <2>3, <2>4, <2>5, BetweenBeginsAlike
  <2>. QED BY <2>2, <2>6 DEF SearchRows, Matches, c
<1>2. ASSUME rows \in Pages, NEW s \in RowSearches PROVE Len(s) \in Nat
  <2>1. PICK i \in DOMAIN rows : \E n \in 1 .. Len(rows[i][1]) : s = SubSeq(rows[i][1], 1, n)
    BY <1>2 DEF RowSearches
  <2>2. PICK n \in 1 .. Len(rows[i][1]) : s = SubSeq(rows[i][1], 1, n)
    BY <2>1
  <2>3. n \in Nat
    BY <1>2, <2>2, OrderAssumption
  <2>. QED BY <2>2, <2>3
<1>3. ResultsInit => MatchesTogether
  <2>. SUFFICES ASSUME ResultsInit PROVE MatchesTogether
    OBVIOUS
  <2>1. CASE matched = {}
    BY <2>1 DEF MatchesTogether
  <2>2. ASSUME NEW s \in RowSearches, matched = SearchRows(s) PROVE MatchesTogether
    BY <1>1, <1>2, <2>2 DEF MatchesTogether, ResultsInit
  <2>. QED BY <2>1, <2>2 DEF ResultsInit
<1>4. MatchesTogether /\ [ResultsNext]_resultsVars => MatchesTogether'
  BY PageStays DEF MatchesTogether
<1>. QED BY <1>3, <1>4, PTL DEF ResultsSpec

(* The arrow keys walk up and down the screen, one element at a time (see  *)
(* ArrowsWalk): the row above row i is found twice, by NavPrev and as row  *)
(* i - 1, and these are the same because rows that match lie together.     *)
THEOREM ArrowsWalkTheScreen == ResultsSpec => ArrowsWalk
<1>1. FoldInv /\ MatchesTogether /\ [ResultsNext]_resultsVars
        => [KeyEvent /\ focus \in OnScreen => OneStepUpOrDown]_resultsVars
  <2>. SUFFICES ASSUME FoldInv, MatchesTogether, KeyEvent, focus \in OnScreen
                PROVE  OneStepUpOrDown
    OBVIOUS
  <2>1. \E type, k : Event(type, k)
    BY DEF KeyEvent, KeyPress, KeyUp, KeyDown
  <2>. QED BY <2>1, EventSteps
<1>. QED BY <1>1, RowsMatchTogether, FoldsAreFirst, PTL DEF ResultsSpec, ArrowsWalk

(* Rows, focus and keys keep their types.                                  *)
THEOREM ResultsTypeCorrect == ResultsSpec => []ResultsTypeOK
<1>1. ResultsInit => ResultsTypeOK
  BY DEF ResultsInit, ResultsTypeOK, SearchRows
<1>2. ResultsTypeOK /\ FoldInv /\ FoldInv' /\ [ResultsNext]_resultsVars
        => ResultsTypeOK'
  <2>. SUFFICES ASSUME ResultsTypeOK, FoldInv, FoldInv', [ResultsNext]_resultsVars
                PROVE  ResultsTypeOK'
    OBVIOUS
  <2>1. rows' = rows /\ matched' = matched /\ rows \in Pages
    BY PageStays DEF FoldInv
  <2>2. Items' = Items /\ \A i : HasChildren(i)' = HasChildren(i)
    BY <2>1 DEF Items, Children, HasChildren
  <2>3. \A e : Displayed(e) => e \in Items
    <3>1. matched \subseteq DOMAIN rows
      BY DEF FoldInv
    <3>. QED BY <3>1 DEF Displayed, Items
  <2>4. Landing => focus' \in Items \cup {Field, Elsewhere}
    BY <2>3 DEF Landing, ResultsTypeOK
  <2>. DEFINE KeysTyped == /\ {lastKey, held} \subseteq ResultsKeys \cup {NoKey}
                          /\ repeatOn \in BOOLEAN
              Folding == \E i \in DOMAIN rows :
                           opened' \subseteq opened \cup FindChildElement(i)
  <2>5. \A i \in DOMAIN rows :
          FindChildElement(i) \subseteq {j \in DOMAIN rows : HasChildren(j)}
    <3>. SUFFICES ASSUME NEW i \in DOMAIN rows, NEW j \in FindChildElement(i)
                  PROVE  j \in DOMAIN rows /\ HasChildren(j)
      OBVIOUS
    <3>. DEFINE S == {m \in DOMAIN rows : rows[m][1] = rows[i][1]}
    <3>1. j = Min(S) /\ HasChildren(j)
      BY DEF FindChildElement
    <3>2. S \in SUBSET Nat /\ S # {}
      BY <2>1, ItemsAreTyped
    <3>. QED BY <3>1, <3>2, MinIsLeast
  <2>6. Folding => opened' \subseteq {i \in DOMAIN rows' : HasChildren(i)'}
    BY <2>1, <2>2, <2>5 DEF ResultsTypeOK
  <2>7. opened' = opened => opened' \subseteq {i \in DOMAIN rows' : HasChildren(i)'}
    BY <2>1, <2>2 DEF ResultsTypeOK
  <2>. HIDE DEF Folding, KeysTyped
  <2>8. ASSUME opened' = opened \/ Folding, closed' \in BOOLEAN, KeysTyped',
               focus' \in Items \cup {Field, Elsewhere}
        PROVE  ResultsTypeOK'
    BY <2>1, <2>2, <2>6, <2>7, <2>8 DEF ResultsTypeOK, KeysTyped
  <2>9. ASSUME NEW type \in {"keydown", "keypress", "keyup"}, NEW k \in ResultsKeys,
               Event(type, k), held' \in ResultsKeys \cup {NoKey}
        PROVE  ResultsTypeOK'
    <3>1. closed' \in BOOLEAN /\ focus' \in Items \cup {Field, Elsewhere}
      <4>1. focus \in Items \cup {Field, Elsewhere} /\ closed \in BOOLEAN
        BY DEF ResultsTypeOK
      <4>2. closed' \in BOOLEAN
        BY <2>9, <4>1 DEF Event, AtItem, Outside, Nav, NavChild, Leave
      <4>. QED BY <2>4, <2>9, <4>1, <4>2, EventLands
    <3>2. KeysTyped'
      <4>. DEFINE p == ProcessKeys(type, k)
      <4>1. p.lastKey \in ResultsKeys \cup {NoKey} /\ p.repeatOn \in BOOLEAN
        BY <2>9 DEF ProcessKeys, ResultsTypeOK
      <4>2. \/ lastKey' = lastKey /\ repeatOn' = repeatOn
            \/ lastKey' = p.lastKey /\ repeatOn' = p.repeatOn
        BY <2>9 DEF Event, AtItem, Outside
      <4>. HIDE DEF p
      <4>. QED BY <2>9, <4>1, <4>2 DEF KeysTyped, ResultsTypeOK
    <3>3. opened' = opened \/ Folding
      <4>. SUFFICES ASSUME opened' # opened PROVE Folding
        OBVIOUS
      <4>. DEFINE p == ProcessKeys(type, k)
      <4>1. AtItem(type, k) /\ focus \in Items
        BY <2>9 DEF Event, AtItem, Outside
      <4>2. focus[1] \in DOMAIN rows
        BY <2>1, <4>1, ItemsAreTyped
      <4>3. Nav(focus[1], p.lastKey) \/ NavChild(focus[1], focus[2], p.lastKey)
        BY <4>1 DEF AtItem
      <4>. HIDE DEF p
      <4>4. opened' \subseteq opened \cup FindChildElement(focus[1])
        BY <4>3 DEF Nav, NavChild, Leave
      <4>. QED BY <4>2, <4>4 DEF Folding
    <3>. QED BY <2>8, <3>1, <3>2, <3>3
  <2>10. ASSUME NEW i \in DOMAIN rows, Toggle(i) PROVE ResultsTypeOK'
    <3>1. Folding
      BY <2>10 DEF Toggle, Folding
    <3>2. <<i>> \in Items
      BY DEF Items
    <3>3. KeysTyped' /\ closed' \in BOOLEAN
      BY <2>10 DEF Toggle, KeysTyped, ResultsTypeOK
    <3>. QED BY <2>8, <2>10, <3>1, <3>2, <3>3 DEF Toggle
  <2>11. CASE ClickAway
    <3>1. KeysTyped' /\ closed' \in BOOLEAN
      BY <2>11 DEF ClickAway, KeysTyped, ResultsTypeOK
    <3>. QED BY <2>8, <2>11, <3>1 DEF ClickAway
  <2>12. CASE UNCHANGED resultsVars
    <3>1. KeysTyped' /\ closed' \in BOOLEAN
      BY <2>12 DEF resultsVars, KeysTyped, ResultsTypeOK
    <3>2. focus' \in Items \cup {Field, Elsewhere} /\ opened' = opened
      BY <2>12 DEF resultsVars, ResultsTypeOK
    <3>. QED BY <2>8, <3>1, <3>2
  <2>13. ASSUME NEW k \in ResultsKeys, KeyDown(k) PROVE ResultsTypeOK'
    BY <2>9, <2>13 DEF KeyDown
  <2>14. CASE KeyPress
    BY <2>9, <2>14 DEF KeyPress, ResultsTypeOK
  <2>15. CASE KeyUp
    BY <2>9, <2>15 DEF KeyUp, ResultsTypeOK
  <2>. QED BY <2>10, <2>11, <2>12, <2>13, <2>14, <2>15 DEF ResultsNext
<1>. QED BY <1>1, <1>2, FoldsAreFirst, PTL DEF ResultsSpec


=============================================================================

# TLA+ verification of the cs640 programs

This directory models the database coursework in `src/`: the buffer managers of
`p2/bufmgr` and `p3/btree` with the files and pages beneath them and the scans
above them, and the search panel of the programs' documentation, which is all of
the JavaScript that the repository runs. The modules are written in TLA+,
checked on small instances with TLC, and the central theorems are proved with
TLAPS. `PROJECT.json` lists the runs, the mutants that each
property must catch, the source lines behind each definition, the hazards and
the findings.

## 1. The system

The repository holds five programs that share no process, and the documentation
of three of them. All C++ programs have one thread; the interleavings that
matter are orders of calls, calls that throw half way, and (p5) requests of
several browser tabs. The documentation's scripts run in the browser's event
loop: key, mouse and focus events, timers and the loading of a frame.

| Component | State | Operations | Hard to get right |
|---|---|---|---|
| p2 buffer manager `buffer.cpp` | descriptor table, pool, clock hand | `readPage` `allocPage` `unPinPage` `disposePage` `flushFile`, destructor | eviction by the clock, flushes that throw half way, a failed read after the victim was given up, dirty bits |
| p2 hash table `bufHashTbl.cpp` | array of chains | `insert` `lookup` `remove` | collisions, unlinking inside a chain, wrapping sum |
| p2 file, page lists `file.cpp` | header, next pointer of each page | `allocatePage` `deletePage` `readPage` `writePage`, iterator | two linked lists in one file, stale copies held by clients, loops over a damaged list |
| p2 file, handles `file.cpp` | static `open_counts_`, `open_streams_` | `create` `open` `remove`, copy, assign, `close` | one stream shared by handles, closing twice |
| p2 page `page.cpp` | slot array and record bytes in one block | `insertRecord` `updateRecord` `deleteRecord` `getRecord` | records move when another goes, slots are reused, old bytes stay behind |
| p3 buffer manager | as p2, other algorithm | as p2 | `disposePage` of a pinned page |
| p3 files | as p2, and files without lists (`BlobFile`) | as p2 | closing count |
| p3 relation scan `filescan.cpp` | two iterators and a pinned page | `scanNext` `markDirty`, destructor | end of file, empty pages |
| p3 B+ tree `btree.cpp` | index pages in the pool, scan position | constructor, `insertEntry` `startScan` `scanNext` `endScan`, destructor | pins kept too long, members left over from earlier scans, the end of the leaf, capacity |
| search panel `search.js` (`SearchBox`) | field, windows, filter index, last search, two timers | focus, keys, section selection, `Search`, `Activate`, timers | focus handlers that run inside handlers, searches due when the panel is gone, timers nobody knows any more |
| search results `search.js` (`SearchResults`, `createResults`) | rows shown and folded out, `lastKey`, `repeatOn` | `Search`, `Nav`, `NavChild`, `ProcessKeys`, `Toggle` | key repetition, rows with the same identifier, a focus that must stay on the screen |
| p1 word locator `wl.cpp` | a dictionary, the last command | `new` `load` `locate` `end` | state carried over from earlier commands |
| p4 census loader `load.cpp` | tokenizer flags, sqlite tables | one pass | quotes across tokens |
| p5 population pages | a PHP session, a PostgreSQL table | search, inspect, edit, submit, commit, load, delete | tabs sharing a session, partial loads |

How they interact: a client of p2 calls `BufMgr`, which owns the descriptors,
the pool and the `BufHashTbl`, and calls `File::readPage`, `writePage`,
`allocatePage` and `deletePage`; `File` reads and writes `Page` objects, whose
header carries the links of the file's lists; clients change records through
the `Page*` that `readPage` and `allocPage` hand out, as long as the page is
pinned. There are no callbacks. In p3, `FileScan` and `BTreeIndex` are clients
of the buffer manager.

`SearchBox` lives in each page of the documentation. Its `Search` sets the
location of a frame to a results page, where `createResults` builds the rows
from the generated `searchData` and `SearchResults.Search` shows those that
match. Keys in the frame move the focus there, and back into the field, whose
handlers then run at once; the frame calls `CloseResultsWindow` of the page
around it. `search.js` is written by doxygen; the copies of p1, p2 and p3 differ
only in the tables at their head, and p1's tables are empty.

What makes each part correct:

* buffer manager: no update is lost, a held page stays where it is, a page is
  never two pages, calls that throw leave tables that later calls can use;
* clock: it ends, gives second chances, and gives up only when it must;
* hash table: a partial function from keys to frames;
* file: live pages keep their content; both lists hold the pages they should;
* page: a map from record numbers to records;
* scans (of a relation, of an index): every record asked for once, in order;
  the page in hand pinned, and for scans of a relation nothing else;
* search panel: what is shown and what is in the field agree once the reader
  stops, and a panel that was left is reset;
* search results: arrow keys walk what is on the screen, one step at a time.

## 2. Modules

| Module | Models | Notes |
|---|---|---|
| `ClockRule` | the decision of `allocBuf` as a relation on the descriptor table | used by the next two |
| `ClockSweep` | the loop of `allocBuf`, one step per turn | shown to compute `ClockRule` |
| `ClockSweep_proofs` | theorems about `ClockSweep` | |
| `PageStore` | what a client may expect of a buffer manager | abstract specification |
| `PageLists` | what a buffer manager depends on of a file's page lists | used by both managers |
| `BufMgr` | `buffer.cpp`: every public operation is one action | implements `PageStore` |
| `MCBufMgr` | constants, symmetry and view for TLC | |
| `BufMgr_proofs` | theorems about `BufMgr`, for any client and for a careful one | |
| `BufHashTbl` | `bufHashTbl.cpp`: chains as sequences, operations as operators | used by the next |
| `BadgerBufMgr` | p3's `buffer.cpp` with its hash chains | implements `PageStore` |
| `MCBadgerBufMgr` | view for TLC | |
| `BadgerBufMgr_proofs` | theorems about `BadgerBufMgr` and its chains | |
| `FileContents` | a set of pages with contents | abstract specification |
| `PagedFile` | `file.cpp`: the two linked lists | implements `FileContents` |
| `RecordMap` | a map from record numbers to records | abstract specification |
| `SlottedPage` | `page.cpp`: slots, offsets and bytes | implements `RecordMap` |
| `MCSlottedPage` | records for TLC | |
| `SlottedPage_proofs` | theorems about `SlottedPage` | |
| `FileHandles` | class `File`: the static maps of counts and streams | |
| `File_proofs` | theorems about `FileHandles` and `PagedFile` | |
| `RecordCursor` | what a client may expect of a scan | abstract specification |
| `RelationScan` | p3's `filescan.cpp`, several scans over one pool | implements `RecordCursor` |
| `RelationScan_proofs` | theorems about `RelationScan` | |
| `IndexScan` | p3's `btree.cpp` while the root is a leaf: build, reopen, scans, pins | |
| `IndexScan_proofs` | theorems about `IndexScan` | |
| `SearchIndex` | the generated tables and results pages | data of the next two |
| `SearchBox` | class `SearchBox`: the panel, its timers and the frame | |
| `MCSearchBox` | values and sections for TLC | |
| `SearchResults` | class `SearchResults` and `createResults` | |
| `MCSearchResults` | results pages for TLC | |
| `Search_proofs` | theorems about `SearchBox` and `SearchResults` | |

The two parts of `file.cpp` and the two classes of `search.js` share a proof module each,
and so the initial state, the actions and the specification of `PagedFile` are
called `FileInit`, `FileNext` and `FileSpec`, and those of `SearchResults`
`ResultsInit`, `ResultsNext` and `ResultsSpec`; its `SearchRows` is the method
`Search`.

The layers are stacked by what each needs of the one below. `BufMgr` treats the
hash table as a function, the file as the contents of its pages, which
`FileContents`/`PagedFile` justifies, with as much of the page lists
(`PageLists`) as tells which page is allocated and when that may fail, and a
page as one content, of which `SlottedPage` gives the inside. `BadgerBufMgr`
runs the same kind of manager over the chains themselves: `ChainsAreAFunction`
proves that they are that function, and `PoolIndexed` says that it is the
pool's. `RelationScan` keeps only the pins of the buffer manager, and that a
read fails only when every frame is pinned, which is `BadgerBufMgr`'s
`ExceededMeansAllPinned`.

### State and actions against the code

**BufMgr.** `desc`, `pool`, `hash`, `clockHand` are the members of the class;
`disk` is the content of each page of each file, or `Gone`; `thrown` records
what the last call threw. A call is one step because nothing else runs. An
exception is not an abort: the step keeps what the call had done before it
threw. `flushFile` is given as functions of the tables it finds (`FlushDesc`,
`FlushHash`, `FlushDisk`), because `allocBuf` runs it in the middle of
`readPage` or `allocPage` on the tables the sweep left: a dirty victim is
written with its *whole file*, and a pinned page of that file makes the call
throw. `AllocOutcome` names how `allocBuf` ends; `Visits` and `Ends` come from
`ClockRule`. `restart` is the destructor followed by a new manager on the same
files. `ChangePage` is a client that writes through its pointer. `disposePage`
and `File::deletePage` of a page that does not exist throw after the frame and
entry are gone, in the code's order.

`allocPage` calls `allocBuf` before `File::allocatePage`, which takes a free page
if there is one. `lists` says for each file what it needs to know: the pages the
file has grown to, and whether its used list may lead to a free page, which is so
once a page was allocated from a file emptied of several (section 4). From then on
`allocatePage` may throw `InvalidPageException` (`buffer.cpp:247`), with the
victim's entry gone. `PagedFile` has the lists themselves, and shows that there is
no other way to it; `lists` does not follow them, so a file that once went wrong
may throw for good in the model, even where its list happens to have mended. A
walk that goes round for ever is a call that does not return: it has no step here.

`Spec` allows any client. `CarefulSpec` restricts the client, not the manager:
it reads only pages that exist, allocates no page from a file it has emptied of
several (`EmptiedOfSeveral`), marks a page it changed by the time it gives
back its last pin, and has no pins when it destroys the manager. The tests of
`main.cpp` that do not provoke an exception are such clients.

**ClockSweep.** `SkipReferenced`, `SkipPinned` and `Take` are the three ways
through the loop body; `Hit`, `Unpin` and `Drop` are the effects of other calls
on the fields the loop reads, so every table that calls can produce is a
starting point.

**PagedFile.** `header` and `page` are what is on disk. `Walk` is the
`FileIterator`; the loops of `allocatePage` and `deletePage` are described by
where they stop (`BreaksAt`), throw (`ThrowsAt`) or reach `end()` (`FindsEnd`).
A walk that does none of these within as many turns as there are pages goes
round for ever: outcome `"hangs"`, the end of the behaviour. `writePage` takes
the next pointer of the client's old copy as a parameter, any page number.
`disordered` is a history variable set when a page is allocated from a file
that was emptied of several pages.

**SlottedPage.** Slots that are allocated are records of their own in the model;
the flag of a slot that is *not* allocated is whatever byte of `data` lies there
(`UsedFlag`). If `insertRecord` allocates a slot whose byte reads as used
(`SlotInUse`), the slot stays used, and counted as free in the header. After a
call has taken such bytes for a slot (`SlotInUse` or `Garbage`) the behaviour
stops: what the code does then depends on reinterpreted bytes.

**BadgerBufMgr.** `ht` is the array of chains of `BufHashTbl`; `hash` is the sum
of address and page number, wrapping at `Width` bits, modulo the size. The sweep
goes round at most twice (`StopsAt`), takes a frame that is unpinned and not
referenced, and writes only the victim (`WriteBack`). `Spec` is any client;
`CarefulSpec` marks what it changes, does not dispose of a page it holds and has
no pins at the end, but may ask for pages that do not exist and allocate from any
file: p3's `allocBuf` has cleared its victim, so an `allocatePage` that throws
(`buffer.cpp:222`) does no more than a failed read.

**FileHandles.** `open_counts` and `open_streams` are the static maps, `object`
the `File` objects (`PageFile` and `BlobFile` add no state). Files and streams
have numbers, so that a handle of a removed file is told from one of the file
created later under the same name. `Closed` and `Opened` are `close` and
`openIfNeeded` as functions of the maps, because assignment runs one after the
other. A constructor that throws leaves everything as it was.

**RelationScan.** `scan` holds the members of each `FileScan`; `pins` and `held`
are the buffer manager's pins by scans and by others. `scanNext` has four ways:
`Ended`, `First`, `SamePage`, `NextPage`; the `while` loop over pages is
`FromPage`, with the exceptions of `readPage` and `EndOfFileException` where the
code meets them. `marked` and `dirtied` are histories. Every scan has a
`PageFile` of its own, so two scans never share a frame. The file may grow
behind the scans; pages with records do not change and are not deleted while
scanned (an iterator at a deleted page throws `InvalidPageException`).

**IndexScan.** `built` says that the index file exists, `held` that this process
has opened it. The destructor of `BTreeIndex` neither deletes nor closes its `File`,
so within one process the constructor never finds that the file exists
(`file.cpp:79` of p3): it rewrites the header and builds the index again
(`Build`). Only a process that has not opened the file reopens it (`Reopen`);
`Restart` ends a process, between two calls. A read beyond the end of the file leaves the
stream, which all handles share, `failed` for the rest of the process; what would be
built over it is not modelled. An exception that leaves the destructor is taken for
its end. `relation` is what the constructor finds; the leaf holds its
entries in the order of the file scan, because `copyToLeaf` appends. `pins` are
those of the index's own `File` object, a new one for each `BTreeIndex`. The
scan members keep their names; `nextEntry` and `currentPageNum` are members that
the constructor does not set, so a new index has any `nextEntry`. `FirstEntry`
is the loop of `startScan`, which leaves `nextEntry` alone when every key is above the
low one. `ScanBeyondLeaf` is `scanNext` after the last entry: it follows
`rightSibPageNo`, which is 0, to a page that is not in the file and answers
record ids of zeros. `answers` and `completed` are histories.

**SearchBox.** `box` is the object with the DOM elements it works on; its
handlers are functions of it, as each runs to its end before the next event.
`MoveFocus` is what the browser does when a handler calls `focus()` or `blur()`:
`OnSearchFieldFocus` runs inside that handler. A value of the field is what the
comparisons tell of it: `Squeezed` is `replace(/ +/g, "")`, `Trimmed`
`replace(/^ +/, "")`, `Letter` the character that chooses the results page.
`keyTimeout` says whether a number is kept, `keyTimers` how many searches are
really due: they differ when `Search` runs for another reason and drops the
number of a timer that goes on. `Search` throws if the selected section does
not exist (`Throws`), after it has forgotten the timer. `Edit` changes the value
at once, and the page hears of it when the key is released.

**SearchResults.** `rows` is a page of `SearchIndex`; `opened` are the rows
whose children are folded out. `FindChildElement` finds an element by its id,
and so the first of the rows with that id. `Displayed` and `Focused` are the
browser: an element inside one that is not displayed does not take the focus.
`KeyDown`, `KeyPress` and `KeyUp` are the events of one key; a held key repeats
`keydown`, `keypress` or both, and an event goes to whatever has the focus when
it comes. `Nav` and `NavChild` look at `lastKey`, which `ProcessKeys` sets.

**SearchIndex.** Each operator is one generated table or file; a row is its
identifier and number of results. TLC checks that there is a results page of
the section "all" for exactly the letters the tables announce.

## 3. What is checked

| Run | Properties | Bounds | Shows |
|---|---|---|---|
| `clock_sweep` | `LoopMatchesRule` `GivingUpNeedsAMajority` `SecondChance`, liveness `SweepEnds` | 4 frames, pin count 1 | the loop, turn by turn, is the relation; it ends |
| `bufmgr_any_client` | `FramesWellFormed` `HashSound` `NoCorruptionThrown`, action property `PinnedFramesStay` | 2 frames, 2 files of 2 pages, 1 content, pin count 2 | what holds whatever the client does |
| `bufmgr_careful_client` | `PoolIsHashed` `CleanFramesMatchDisk` `IdlePoolAlwaysServes` `ImplementsStore` | the same with 2 contents, pin count 1 | for a careful client the manager is a `PageStore`: no update is lost |
| `paged_file` | `UsedListExact` `FreeListExact` `AllocationSucceeds` `LivePagesCanBeDeleted` `ImplementsContents` | 4 pages, 2 contents | both lists, and contents even with a broken list |
| `slotted_page` | `RecordsTile` `SlotsCounted` `ImplementsMap` | 12 bytes, slots of 2, records of 1 to 3 bytes | moving records loses nothing; the counts are off in one case only |
| `badger_bufmgr` | `PoolIndexed` `ExceededMeansAllPinned` `ImplementsStore` | 2 frames, 3 pages of one file, 3 chains, 4-bit integers, pin count 1 | p3's manager over colliding and wrapping chains loses no update |
| `file_handles` | `CountsExact` `StreamsShared` | 2 names, 3 handles | counts and streams agree with the handles |
| `relation_scan` | `PinsExact` `DirtyExact` `ImplementsCursor` | 2 scans, 2 frames, 3 pages of 2 slots | every record once, in order; a scan under way does not fail |
| `index_scan` | `AnswersTheRange` `ScanPageStaysPinned` | 3 keys, relations of up to 3 records, 3 pins of a page | a range that the index can answer is answered, whatever scans came before; the page of the last answer stays pinned until `endScan` |
| `search_box` | `InactivePanelIsReset` `InactiveShowsLabelOnly` `ShownIsLastSearch` `KnownTimerRuns`, action property `KeepsUp`, liveness `Settles` | 6 values, p1's empty tables and two sections of p3, 2 searches due | the panel agrees with its field, through late and lost timers, but for the cases of section 4 |
| `search_results` | `FocusOnScreen` `MatchesTogether` `KeyInHand`, action property `ArrowsWalk` | six generated pages, every search that finds a row of them, and one that finds none | the focus walks what is on the screen |
| `bufmgr_failed_read` | `PoolIsHashed`, violated | 2 frames, 1 file of 2 pages | section 4 |

Why the bounds are enough for the interesting cases. Two frames and two files of
two pages give evictions of clean and dirty victims, a flush that meets a second
frame of the same file pinned (the call throws half way), a flush of both
frames, a hit after an eviction, a page number reused after `disposePage`, and a
file emptied of two pages, from which the next two allocations make the used
list lead to a free page and then fail. A pin count of two lets one holder give
a page back while the other goes on (`PinnedFramesStay`). In the other two runs
of a manager a page is held once at a time; there too it is unpinned dirty first
and clean after, by a second `readPage` that hits. Four frames let the clock
count one frame twice and still go on. Four pages are the least with an
insertion between two used pages while others are free. Twelve bytes hold three
records with their slots, so that a record in the middle is deleted with records
on both sides, and slots go in runs of more than one. In p3's run two of the
three pages share a chain, and two have sums that wrap. Three handles on two
names let a file be closed by its last handle while another file stays open, and
be assigned to itself. Three pages allow an empty page at the start, in the
middle and at the end; two scans and other clients on two frames can fill the
pool before a scan, or during it.

A relation of three records lets the low key be there twice, in the middle or
not at all, and the range end before the last key or after it; keys may be out
of order. Three pins let a scan answer two records and still be refused a third.
The values of the field are the empty one, the label, a letter, the same after a
space, and two words with and without a space, which tell the two ways of
removing spaces apart; of p3's sections one has a page for the letter and one
has not, and there is the index past the last. Two searches due at once are one
that is known and one that was forgotten. The results pages are those with rows
of several results next to rows of one, with rows that share an identifier, and
with an identifier that is the beginning of others.

Symmetry is used for files and page numbers, which `BufMgr` only compares.
The `View` of the runs of the managers leaves out `thrown` and the `Page` of invalid
frames: no action reads either. Properties of the careful run that mention `thrown`
are action properties, evaluated on every step; `ViewOfCorruption`, of the run with
any client, keeps apart the states in which `NoCorruptionThrown` fails.

`CHECK_DEADLOCK FALSE` is set for `PagedFile` and `SlottedPage` only, where a call
that goes round for ever, or that takes other bytes for a slot, ends the
behaviour.

Types. Each module with a state machine of the code has a `TypeOK` (`FileTypeOK`,
`ResultsTypeOK`), which is proved; no run lists it among its properties, which are
kept for what a type does not say.

Fairness. `ClockSweep` has weak fairness of the loop body: the thread that
called `allocBuf` keeps running. `SearchBox` has weak fairness of its two timers
and of the loading of the frame, which the browser sees to whatever the reader
does: a timer that was set and not cleared fires, and a location that was set is
loaded. No call and no key is assumed to come.

Every property has a mutant in `PROJECT.json`: a variant of one definition
(named `<definition>_<what is wrong>`, next to the original) with a plausible
bug that the property catches.

## 4. Where the code and its comments disagree

`bufmgr_failed_read`: `readPage` of a page that does not exist throws after
`allocBuf` unhashed a clean victim. The victim's page stays in a valid frame
that the hash table no longer knows, and is loaded a second time when asked
for (`buffer.h:228` promises the frame it is in). `allocPage` does the same when
`file->allocatePage` throws (`buffer.cpp:247`), and that a client reaches without
asking for anything that is not there: allocate pages 1 and 2, give them back,
dispose of 2, then of 1, and allocate twice. The second of these walks along the
used list onto the free page 2 and throws `InvalidPageException` (the entry on
`PagedFile` below says why); a clean page in the frame it was to have is unhashed
by then. For a client that reads only existing pages *and*
allocates from no file it has emptied of several, `PoolIsHashed` holds; a client of
`CarefulSpec` is one.

Seen while modelling, and part of the models, but without a run of their own:

* `BufMgr`: `clock_count` counts visits, not frames, so with three frames the
  exception that should mean "all frames pinned" (`buffer.h:206`, comment
  `buffer.cpp:95`) is thrown with a frame unpinned. What remains true is
  `GivingUpNeedsAMajority`; p3's manager, which goes round twice, keeps
  `ExceededMeansAllPinned`.
* `SlottedPage`: bytes left behind by a moved record are taken for the used flag
  of a new slot, and `insertRecord` throws `SlotInUseException` (outcome
  `SlotInUse`; `page.h:286` promises an unused slot). The header then counts one
  free slot where none reads as unused; otherwise its counts are exact
  (`SlotsCounted`). And with an empty record on
  the page, deleting one record can overwrite another (`page.h:102-103`), which
  is why the run stores no empty records. Both were reproduced by compiling
  `page.cpp`.
* `PagedFile`: after all pages of a file were deleted and at least two are free,
  the page allocated next keeps its free-list pointer, so the used list leads to
  a free page (`page.h:56`) and a later walk throws `InvalidPageException`, in p2
  also through `BufMgr::allocPage`, as said above.
  `disordered` marks the case; `UsedListExact` says it is the only way the lists
  go wrong, and the other properties of `paged_file` hold in spite of it.
* `BadgerBufMgr`: `disposePage` of a page that is not in the pool throws
  `HashNotFoundException` before it reaches `deletePage`, so the page stays in
  the file; of a page that is pinned, it clears the frame its holder points to.
* `FileHandles`: `create` on a file that is open skips the check that it exists
  and writes a fresh header (`file.h:83` promises `FileExistsException`).
* `IndexScan`: `startScan` takes every operator on either side (`main.cpp:734` of
  p3 expects `BadOpcodesException`), answers the low key for `GT`, starts where
  the scan before it stopped if every key is above the low one, and returns without effect
  during a scan, which its comment says it ends (`btree.cpp:803`). `scanNext`
  past the last entry answers records that do not exist instead of completing.
  Every answer leaves one more pin on its page, of which `endScan` gives back one,
  though the comments say to unpin pages that are no longer required
  (`btree.cpp:938`) and any pinned pages (`btree.cpp:999`); `ScanPageStaysPinned`
  claims one pin only and leaves the others open.
  `endScan` throws if nothing was answered, and the scan goes on. The destructor
  neither deletes nor closes the file (`btree.cpp:196` says it does), so an index
  made again by the same process is built anew instead of reopened, and a stream that
  was read past its end fails for every handle of its name. The destructor
  throws unless exactly one page is pinned, once; a reopened index never gives
  back its pin on the meta page (`btree.cpp:142` is not reached).
  `AnswersTheRange` names the ranges that are answered right (`Answerable`).
* `SearchBox`: a panel that was removed with a search due opens again half a
  second later and shows the results for its own label, "Search" (the comment at
  `search.js:423` says the panel is directly removed). Shift+Down in the field kills
  the search that is due and does not set it again. Down on the last section
  selects one that does not exist, and the next search throws. A search with a
  space inside is made again with each key, because it is compared without its
  spaces; and for the same reason one that should be made is not: with "fi" searched
  for and the field edited to "f i", the released key finds the value unchanged
  (`search.js:230`) and the panel goes on showing the results for "fi". `KeepsUp`
  names these steps (Shift+Down, a search that throws, `DiffersInSpaces`) and holds
  for all others.
* `SearchResults`: of rows with the same identifier, only the first can be
  folded out, and the keys and links of the others fold that one.

## 5. What is proved

`ClockSweep_proofs` proves, for every number of frames and every bound on pins:

* `TypeCorrect`: `Spec => []TypeOK`
* `LoopComputesRule`: `Spec => []LoopMatchesRule`
* `MajorityPinned`: `Spec => []GivingUpNeedsAMajority`
* `SecondChancesAreGiven`: `Spec => []SecondChance`
* `TurnsAreBounded`: while the loop runs, `TurnsLeft` is between 1 and
  `2 * NumBufs + 1`, and a turn that does not end the loop takes one off

so that the relation of `ClockRule`, which the theorems about `BufMgr` use for
the sweep, is what the loop computes. The invariant: while the loop runs, it has
made some number `n` of visits, none of which ends the sweep by the rule, and
the table is the one at the start of the call swept by those `n` (`Visited(n)`).
`n` is not in the state, and is at most two rounds: a third round is never
begun, because two rounds that take no frame leave every valid frame
unreferenced, and the second then counts each of them (`NoThirdRound`). The
arithmetic of the hand is in `FrameOfVisit`, `HandAdvances` and `OneRound` (a
round comes to every frame once). A sweep that gives up has counted more visits
than there are frames; each round's counted visits lead to different pinned
frames, so these are more than half (`MajorityIsPinned`). `TurnsLeft` is the
number of reference bits that are set plus the visits that may yet be counted:
each turn clears a bit or counts a visit. It is what `SweepEnds` needs besides
fairness.

`BadgerBufMgr_proofs` proves, for any number of frames and of pages, any table
of buckets and any width of the sums that choose one:

* `ChainsAreAFunction`: on sound tables `EmptyTable`, `insert`, `remove` and
  `Has` are the function that is nowhere defined, its assignments and its domain
* `ChainsStaySound`: `Spec => []SoundTable(ht)`
* `TypeCorrect`: `Spec => []TypeOK`
* `PoolIsIndexed`: `Spec => []PoolIndexed`
* `TwoRoundsAreEnough`: `Spec => []ExceededMeansAllPinned`
* `BadgerImplementsStore`: `CarefulSpec => ImplementsStore`

Assumptions: `NumBufsAssumption`, `ManagerAssumption` and `TableAssumption` (at least
one frame and one chain; addresses and page numbers are numbers; special values are
not ordinary ones). The inductive
invariant `IInv` says that the clock's hand is a frame and that table,
descriptors, pool and disk `Agree`: the table is sound (every entry lies in the
chain of its key, and no key is twice in a chain), an entry leads to the valid
frame of its page, a valid frame has an entry and holds a page of the file, and a
frame that is not valid is clear. Unlike p2's, it holds for any client: p3's
`allocBuf` clears the descriptor of its victim together with the entry, so a
read that then fails leaves the two in step.

The chains are dealt with once: `ChainInsert`, `ChainRemove` and `LookupAt` say
what the three loops do to a sequence, and `InsertSound`, `RemoveSound` that a
sound table stays sound and gains or loses the one key. `ChainsAreAFunction`
puts them together: it is the reason why `BufMgr` may have a function in place
of the same class. Every call is then one
of three kinds of step, or two in a row: frames are changed but stay what they
are (`AgreeStill`), some frames are given up with their entries
(`AgreeWithout`), or a frame that has no entry gets a page (`AgreeWith`). For the
refinement each kind has a counterpart that says what the client sees
(`StoreStill`, `StoreWithout`, `StoreWith`), under the further invariant of
careful clients that a valid frame that is not dirty holds what is on disk
(`CleanAll`). `flushFile` and the destructor give up a set of frames in one call:
their removals are a fold over that set, of which `FoldIsDefined` and
`FoldRemoves` show, by induction on the number of frames, that it takes out
exactly their keys.

A sweep of p3 gives up after two rounds; the first clears every reference bit
that it finds, so the second takes the first frame that is not pinned
(`EveryFrameIsVisited`, `GivingUpIsLate`).

`BufMgr_proofs` proves, for every number of frames, files, pages and contents
and for any client (`Spec`):

* `TypeCorrect`: `Spec => []TypeOK`
* `DescriptorsCorrect`: `Spec => []FramesWellFormed`
* `HashTableSound`: `Spec => []HashSound`
* `NoCorruption`: `Spec => []NoCorruptionThrown`
* `PinnedPagesStay`: `Spec => PinnedFramesStay`

Assumptions: `NumBufsAssumption` (at least one frame; `BufMgr(0)` divides by
zero) and `ConstantsAssumption` (the special values are not ordinary ones).

The inductive invariant is `IInv == TypeOK /\ FramesWellFormed /\ HashSound`.
`HashSound` alone is not inductive: `allocBuf` hands out a frame after removing
the entry of *the page its descriptor names*, so one must know that an entry
leading to a frame is the entry of that page, and that a frame without a valid
descriptor has no name left to be found under (`FramesWellFormed`). The
argument: `FlushFacts` and `AllocFacts` say what a flush and a sweep leave,
thrown or not; `PutPage` says that putting a page into a frame no entry leads
to preserves `IInv`; `KeepPool` covers calls that leave the pool alone. Then
one lemma per operation (`ReadPageSafe`, ..., `RestartSafe`) gives the
invariant, the stability of pinned frames and the absence of the two corruption
exceptions together (`Safe`), because the last two need the invariant before
the step. The minimum and maximum of a set of frames, which `flushFile`'s order
needs, come from the well-foundedness of `<` on the naturals.

For the same constants and the careful client (`CarefulSpec`) the module proves:

* `CarefulInvariant`: `CarefulSpec => []CarefulInv`, of which
  `PoolAlwaysHashed`: `CarefulSpec => []PoolIsHashed` and
  `CleanFramesAreOnDisk`: `CarefulSpec => []CleanFramesMatchDisk`
* `IdlePoolIsServed`: `CarefulSpec => IdlePoolAlwaysServes`
* `BufMgrImplementsStore`: `CarefulSpec => ImplementsStore`

The careful client is that of section 2; without its restriction on `allocPage`,
`PoolIsHashed` fails by the calls of section 4, and the argument with it. The
invariant is `IInv` with `PoolIsHashed` and `CleanFramesMatchDisk`, which need each
other, and
`lists.disordered = {}`: no list of used pages leads to a free one, so
`allocatePage` does not throw once `allocBuf` has given up its victim
(`ListsStayOrdered`). That a page is in one frame only is what makes
`flushFile` refuse a frame for its pins alone (`CarefulRefusal`), so that a
flush of unpinned frames does not throw and what it clears has been written;
and that what is clean is on disk is what lets `allocBuf` drop a victim
unwritten. The two properties are restated of any tables and of one frame
(`TightAt`, `CleanAt`), as are the content and pins of a page (`Current`,
`PinsOf`), because a call goes through tables that are never a state:
`CarefulFlush` and `CarefulAlloc` say that what the client sees of the tables is
the same after a flush or an eviction, thrown or not, and `PutCareful` what
happens when a page is put into the frame. Each operation then has one lemma
(`ReadKept`, ..., `RestartKept`) that gives the invariant, the step of
`PageStore` and the absence of exceptions together (`Kept`).

`RelationScan_proofs` proves, for every number of scans, frames, pages and slots,
whatever the pages hold and however the relation grows:

* `TypeCorrect`: `Spec => []TypeOK`
* `PinsAreExact`: `Spec => []PinsExact`
* `DirtyMarksAreExact`: `Spec => []DirtyExact`
* `ScansImplementCursor`: `Spec => ImplementsCursor`

Assumption: `ScanAssumption` (finitely many scans, positive sizes, `NULL` not an
ordinary value). The inductive invariant
is `IInv == TypeOK /\ Positioned /\ PinsExact /\ DirtyExact /\ FramesBounded`.
`Positioned` says that the page a scan holds is the one its iterators stand in,
and that its record exists; without it `scanNext` need not go on where it left
off. `FramesBounded` says that the pinned pages fit the pool: it is what makes a
scan under way safe, because `scanNext` unpins its page before it reads the
next, and so always frees the frame it needs. The argument: `LeastElement`,
`PageFound` and `SlotFound` name the next page and record; `AfterUnpin` and
`AfterPin` count frames; `LoopLands` and `ScanNextLands` say where the loop over
pages leaves the scan, which is the only place its guards are expanded. Then
`ScanNextRefines` and `OtherCallsRefine` give the step simulation.

`IndexScan_proofs` proves, for every set of keys, every relation that fits in a
leaf and every bound on the pins:

* `TypeCorrect`: `Spec => []TypeOK`
* `ScansAnswerTheRange`: `Spec => []AnswersTheRange`
* `ScanPagesStayPinned`: `Spec => []ScanPageStaysPinned`

Assumptions: those of `IndexScan`. Of a scan under way in an answerable range
the invariant `OnTheLeaf` says that it is on the root, that what it has answered
are the entries from the first one with the low key up to `nextEntry`, none of
them beyond the range, and that a completed one stands at an entry beyond it.
`AnswersTheRange` says nothing of a scan that has not completed, and so is not
inductive. `ScanPageStaysPinned` is, with the types of the pins (`PInv`): an
answer pins the page that becomes the current one, a scan that completes gives
back only the pin its last call took, and a scan has no answers when it starts.
That the entry `startScan` ends at is the first with the low key, and that an
answerable range has an entry beyond it, use the least and the greatest element
of a set of numbers (`LeastNatural`, `GreatestNatural`).

`SlottedPage_proofs` proves, for pages, slots and records of any size:

* `TypeCorrect`: `NoEmptyRecord => (Spec => []TypeOK)`
* `RecordsAlwaysTile`: `NoEmptyRecord => (Spec => []RecordsTile)`
* `SlotsAreCounted`: `NoEmptyRecord => (Spec => []SlotsCounted)`
* `PageImplementsMap`: `NoEmptyRecord => (Spec => ImplementsMap)`

Assumption: `SizesAssumption`. `NoEmptyRecord` says that the clients store no
record of length 0. It cannot be dropped: an empty record has the offset of its
neighbour, by which `page.cpp` tells what to move, and deleting one record can
overwrite another (section 4). The code accepts empty records; the programs
store none. The inductive invariant is `Inv == IInv \/ AfterStale`. `AfterStale`
is the state in which the behaviour ends, with a stale slot that reads as used:
the records fill the page as before, the slot that was found stale is not one of
them (`Recorded`), and it is the one slot that is counted as free. Before that
`IInv` holds, of which the parts are `Typed`, `Tiled(slot, upper)`, `Stored` and
`Counted`. `Tiled` states `RecordsTile` by the ends of the records: each lies
between `upper` and the end of the page, no two overlap, and every byte is in
one. `Stored` says that what a used slot points to is a record that was put
there. The hard step is `deleteRecord`, which moves the bytes of all lower
records up by the length of the one that goes. That a record is lower is read
off its offset, which is right because records that do not overlap and are not
empty have different offsets (`LowerAndHigher`); `SlotsMove` and `BytesMove` say
where slots and bytes go, `MovedRecordsTile` that no gap and no overlap arises,
`RecordsUnchanged` that every other record reads as before. The code adds up the
lengths of the lower records and moves that many bytes from `upper` on; that
these are their bytes needs the sum to be the number of bytes they cover
(`TotalIsCover`). Slots given back at the end of the array, as many as are free
there, keep the counts (`FreeAfterDelete`).

`File_proofs` proves, for files of any number of pages and any contents, whatever
old copies of a page clients write back:

* `FileTypeCorrect`: `FileSpec => []FileTypeOK`
* `UsedListIsExact`: `FileSpec => []UsedListExact`
* `FreeListIsExact`: `FileSpec => []FreeListExact`
* `AllocationAlwaysSucceeds`: `FileSpec => AllocationSucceeds`
* `LivePagesDeletable`: `FileSpec => LivePagesCanBeDeleted`
* `FileImplementsContents`: `FileSpec => ImplementsContents`

Assumption: `FileAssumption` (at least one page; the content of a fresh page is a
content, that of no page is not). The inductive invariant `FileInv` is
`Sound(header, page, ~disordered)`: the free pages can be numbered in the order
of their list, which ends after `num_free_pages` of them (`Linked`), and the next
pointer of each used page, like the header's, leads to the next used page in the
order of page numbers (`Listed`). `UsedListExact` says so only while the file is not
`disordered`, and that is not inductive with the properties that hold in spite
of it. What a disordered list keeps had to be found: every used page is still
reached in order, and only the pointer of the *last* one may be wrong. Hence
`deletePage` of a live page finds its predecessor (`PredecessorIsFound`) before it
gets that far. The walks are recursive functions of the number of turns;
`WalkSteps` and `WalkOfList` show what they visit, by induction on the turns, and
`LoopEnds` that a loop of `allocatePage` or `deletePage` stops where the model
says. Each way of changing the lists has a lemma: a page put in front or after
another, or taken out from there (`UsedFirst`, `UsedInside`, `UsedFirstGone`,
`UsedInsideGone`), pushed on the free list or popped (`ListPush`, `ListPop`).

It also proves, for every set of names and of `File` objects:

* `HandlesTypeCorrect`: `Spec => []TypeOK`
* `CountsAreExact`: `Spec => []CountsExact`
* `StreamsAreShared`: `Spec => []StreamsShared`

Assumption: `HandlesAssumption` (finite sets, `None` neither a number nor a
handle). Assignment closes the object and opens it again, and in between it has
a name and is not counted; so soundness of the maps (`SoundTable`) is an
operator on the maps and the set of objects that are counted, and `close` and
`openIfNeeded` take one sound table to another with an object less or more.
Numbers for new streams and files never run out, by counting: at most as many
are in use as there are names or objects.

`Search_proofs` proves of the panel, for every set of values, every table of sections
and every bound on timers:

* `TypeCorrect`: `Spec => []TypeOK`
* `InactivePanelsAreReset`: `Spec => []InactivePanelIsReset`
* `RemovedPanelsShowTheLabel`: `Spec => []InactiveShowsLabelOnly`
* `ResultsAreOfLastSearch`: `Spec => []ShownIsLastSearch`
* `KnownTimersRun`: `Spec => []KnownTimerRuns`
* `PanelKeepsUp`: `Spec => KeepsUp`
* `WorkRunsOut`: every timer that fires and every load makes `Work(box)`, a
  natural number, smaller, and when it is 0 the panel has settled

Assumptions: `ValuesAssumption` (the label and the empty value are values, and
the label does not begin with a space) and, for `PanelKeepsUp`,
`SpacesAssumption` (the empty value has no spaces to remove). The inductive
invariant `IInv` is `TypeOK` with the four properties, as `Sound`, an operator
on the box: the parts of a handler are functions of the box, so each has a lemma
that it keeps `Sound` whatever box it is given (`MoveFocusIsSound`,
`SearchIsSound`, `SelectingIsSound`, ...), and a handler is proved by composing
them. The four need each other: that a removed panel shows its label only rests
on its field holding the label when a late search runs. `KeepsUp` is proved the
same way, part by part, for the steps it does not exempt (section 4): a box is
`Up` if the panel knows what is in its field or selects a section that does not
exist, and each part of a handler leads from a box that is `Up` to one that is.
It needs that results which are not shown are not compared with (`Forgotten`),
or a panel that opens again could take an earlier search for the one that is
due. `WorkRunsOut` is the part of `Settles` that is not about fairness: `Work`
counts two for each search that is due, which leaves the frame to load, and one
each for the frame and the selection that wait. That nothing left to do means
that the frame shows its location (`Loaded`) needs that no handler sets a
location without a load, part by part again (`Loads`).

It proves of the results, for every set of results pages:

* `ResultsTypeCorrect`: `ResultsSpec => []ResultsTypeOK`
* `FocusStaysOnScreen`: `ResultsSpec => []FocusOnScreen`
* `KeyIsInHand`: `ResultsSpec => []KeyInHand`
* `RowsMatchTogether`: `ResultsSpec => []MatchesTogether`
* `ArrowsWalkTheScreen`: `ResultsSpec => ArrowsWalk`

Assumptions: `PagesAssumption` (a page is a sequence of rows, each with at least
one result) and, for the last two, `OrderAssumption` (the rows of a page are in
the order of their identifiers, compared character by character in any one order
of the characters). The generator writes them so: TLC evaluates
`GeneratedPagesInOrder` for all 38 generated pages of p2 and p3, whether a run
searches them or not. `FocusOnScreen` is inductive once it is known where an
event can take the focus (`EventLands`): what folds does so below a row that has
the focus, never around a child that has it. For the arrows the invariant
`FoldInv` says that only the first of the rows with an identifier is ever open;
so a row whose children are visible is the one it looks at, and a row that looks
at another's children finds its own not displayed and leaves the focus where it
is. `NavNext` and `NavPrev` find the nearest matching rows (`NextRowIs`,
`PrevRowIs`), and one lemma for each key and place (`RowUp`, `RowDown`,
`ChildUp`, `ChildDown`) shows that nothing on the screen lies between. The way
up needs `MatchesTogether`: it looks for the last child of the row *before* this
one, matching or not, and would miss those of the row above if a row between did
not match. That the rows that match lie together follows from their order: an
identifier between two with the same beginning has that beginning, for where it
first differed from one it would be out of order with the other
(`BetweenBeginsAlike`).

Only model-checked: the liveness properties `SweepEnds` and `Settles`. Liveness
under fairness is out of the provers' reach; what is left to TLC of the two is
the step from a measure that decreases (`TurnsAreBounded`, `WorkRunsOut`) to a
loop that ends and a panel that settles. Where a proof needs induction
over data (the length of a walk, the number of frames in a flush), it is done
with a set of natural numbers that holds 0 and is closed under successor
(`AllNaturals`), as the induction theorems of the library take an operator. A
function that is defined by recursion, or by a fold, is first shown to exist,
by exhibiting one that satisfies the equation.

## 6. What is not modelled, and why

* What happens to the frames of a `File` that is deleted: `FileScan`'s destructor
  unpins its last page and deletes its `File` (`filescan.cpp:32`), which the frame of
  that page, perhaps dirty, still names. `RelationScan` ends at the `unPinPage`, and
  `DirtyExact` says what that call is told, not that the page is ever written.
* `IndexScan`: an index built over a stream that has failed, and a process that ends in
  the middle of a call.
* Crashes between the writes of `allocatePage` or `deletePage`: no code
  recovers from one and no comment promises anything.
* Two `File` objects of one file under one buffer manager, whose frames have
  different keys: `BufMgr` and `BadgerBufMgr` have one object for each file.
* p3's `BlobFile`: its handles are those of `FileHandles`; its pages have no
  lists.
* `BufStats`, printing, the exception classes, the tests. Of `PageIterator`,
  `RelationScan` has the way to the next used slot.
* p3's B+ tree beyond a root leaf: splits and non-leaf nodes. A full leaf takes
  further entries past the end of its arrays, because its capacity is compared
  with a size in bytes (`btree.cpp:374`), before a split is ever tried. Keys
  other than integers: their scans answer nothing (`btree.cpp:989`).
* p1 and p4: sequential programs without a state worth exploring; p4 is straight-line code.
* p5: PHP pages whose behaviour under several tabs depends on session locking
  and a database that the repository does not configure. (`inspect.php:38`
  commits what another tab may have put into the session; `load.php:68` forgets
  the failure of a row when the next one succeeds.)
* Of the search panel: positions and sizes, and leaving the page by a link.
  Mouse clicks are not made while a key is held down, and of the keys one at a time is
  down. `ArrowsWalk` says which steps of the focus there may be; it does not tie
  their direction to the arrow that was pressed.
* Vendored and generated material: jquery.js, the results pages of sections
  other than "all" (parts of that one), HTML, data sets, object files.

## 7. Plan

Order of work, most important first:

1. (done) `ClockRule`, `ClockSweep`, `PageStore`, `BufMgr`, `BufMgr_proofs`.
2. (done) `PagedFile`, `SlottedPage` with their abstract specifications.
3. (done) `BufHashTbl`, `BadgerBufMgr`, `FileHandles`.
4. (done) `RecordCursor`, `RelationScan`, `RelationScan_proofs`.
5. (done) `SearchIndex`, `SearchResults`, `SearchBox`, `Search_proofs`.
6. (done) `IndexScan`.
7. p5's pages, if their session settings become known.
8. (done) The careful client of `BufMgr_proofs`, `FileHandles` in `File_proofs`,
   `IndexScan_proofs`.
9. (done) `ClockSweep_proofs`, `KeepsUp` of `SearchBox`.
10. (done) `SlottedPage_proofs`, `PagedFile` in `File_proofs`, the chains and the
    refinement in `BadgerBufMgr_proofs`, `SearchResults` in `Search_proofs`.
11. (done) `PageLists`: page lists that fail under the buffer managers; the page that
    a scan of `IndexScan` keeps pinned; the order
    of the generated rows and what follows from it; the measures behind the
    liveness properties; the chains as the function that `BufMgr` has.
12. An abstract cursor that `IndexScan` implements in the ranges it answers.

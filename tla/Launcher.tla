------------------------------ MODULE Launcher -------------------------------
(***************************************************************************)
(* The application launcher on top of Catalog: its list, which is the       *)
(* catalog seen through a category and a search, the keys and the finger    *)
(* that work on it, and the start of a program with fork, exec and a pipe.  *)
(*                                                                          *)
(* The main thread hears of a new catalog, handles input and starts         *)
(* programs; while it waits for the answer of a child it does nothing else. *)
(* Scrolling, icons and drawing are left out, and so is which area has the  *)
(* keyboard focus: Tab reaches each, and an arrow may go to any.            *)
(***************************************************************************)
EXTENDS Catalog, FiniteSetsExt

CONSTANTS
  MaxQuery,  \* bound: letters typed, of the word that MatchOf is about
  Rank,      \* the ids by name, and by id where the names are equal
  Columns    \* of the grid

ASSUME LauncherAssumption ==
  /\ MaxQuery \in Nat /\ Columns \in Nat \ {0}
  /\ Rank \in [Ids -> Nat] /\ \A a, b \in Ids : Rank[a] = Rank[b] => a = b

VARIABLES
  l,      \* the launcher: state, filter, items, selection, press and finger
  pipe,   \* the launch the main thread is in: who can write to the pipe, what is in it
  child   \* the child of the last launch

vars == <<cvars, l, pipe, child>>

NoItem == 0  \* items count from 1

-----------------------------------------------------------------------------
(* LauncherModel                                                             *)

\* What the user can be shown: of each application the categories it is in and
\* its score for what was typed.
Shelf ==
  LET Row(m) == [in    |-> {k \in Range(StandardCategories) : MatchesCategory(m, k)},
                 score |-> [n \in 0 .. MaxQuery |-> IF n = 0 THEN 0 ELSE ScoreMatch(m, n)]]
  IN  [c \in {c \in Applications : VisibleToUser(Meta[c])} |-> Row(Meta[c])]

\* compute_categories: all, and those that have a visible application.
Chips(cat) ==
  LET Of(shelf) == {k \in Range(StandardCategories) :
                      k = All \/ \E id \in Ids : cat[id] \in DOMAIN shelf /\ k \in shelf[cat[id]].in}
      shown == Of(Shelf)
  IN  SelectSeq(StandardCategories, LAMBDA k : k \in shown)

\* The elements of S in the strict order R: each where as many are before it.
Sorted(S, R) ==
  [i \in 1 .. Cardinality(S) |-> CHOOSE x \in S : Cardinality({y \in S : <<y, x>> \in R}) = i - 1]

\* LauncherSearch::search: what the category and the search leave of a catalog,
\* the best score first, and by name where they are equal.
Search(cat, shelf, k, n) ==
  LET Listed == {id \in Ids : /\ cat[id] \in DOMAIN shelf
                              /\ k \in shelf[cat[id]].in
                              /\ n = 0 \/ shelf[cat[id]].score[n] > 0}
      Score(id) == shelf[cat[id]].score[n]
  IN  Sorted(Listed, {p \in Listed \X Listed :
                        \/ Score(p[1]) > Score(p[2])
                        \/ Score(p[1]) = Score(p[2]) /\ Rank[p[1]] < Rank[p[2]]})

Listing(cat, u) == [u EXCEPT !.items = Search(cat, Shelf, u.cat, u.query)]

\* Seeded fault: the list is built anew and the selection left as it was.
RefilterOnly(cat, u) == Listing(cat, u)

\* LauncherModel::refilter.  The selection is an index: it stays, or moves to the
\* last item.
Refilter(cat, u) ==
  LET v == Listing(cat, u) IN [v EXCEPT !.sel = IF @ > Len(v.items) THEN Len(v.items) ELSE @]

Count == Len(l.items)

\* LauncherModel::select_index
SelectIndex(u, i) == [u EXCEPT !.sel = IF i \in DOMAIN u.items THEN i ELSE NoItem]

\* select_next and select_previous go round; select_up and select_down stop at
\* the ends, to which select_first and select_last go.
Around(i, n, step) == ((i - 1 + step) % n) + 1
Jumps(u) ==
  LET n == Len(u.items)
  IN  (IF u.sel = NoItem THEN {1, n} ELSE {u.sel - Columns, u.sel + Columns, 1, n}) \cap 1 .. n

\* set_search_query, set_category and clear_search
Query(u, n) == Refilter(catalog, [u EXCEPT !.query = n])
Category(u, k) == Refilter(catalog, [u EXCEPT !.cat = k])

-----------------------------------------------------------------------------
(* LauncherStateMachine.  Opening, Closing and Launching do not outlive the  *)
(* handler, but for a launch that waits for its child.                       *)

IsOpen(u) == u.st \in {"Open", "Searching", "Launching", "LaunchFailed"}

StartSearching(u) == [u EXCEPT !.st = IF @ \in {"Open", "LaunchFailed"} THEN "Searching" ELSE @]
StopSearching(u) == [u EXCEPT !.st = IF @ = "Searching" THEN "Open" ELSE @]

\* LauncherController::close
Closed(u) == [u EXCEPT !.st = "Closed", !.press = NoItem, !.touch = "None"]

\* open() is refused while searching or after a failed launch.
Opened(u) ==
  LET v == [u EXCEPT !.st = "Open"]
  IN  IF u.st \notin {"Closed", "Open"} THEN u
      ELSE IF u.sel = NoItem THEN SelectIndex(v, 1) ELSE v

-----------------------------------------------------------------------------
(* LinuxSessionApplicationLauncher::launch                                   *)

NoLaunch == [at |-> "None", writers |-> {}, err |-> FALSE]

\* No binary or terminal may be found, or no pipe or process be had; or there
\* is a child, with both ends of the pipe.
Start(u) ==
  \/ /\ l' = [u EXCEPT !.st = "LaunchFailed"]
     /\ child' = "None"
     /\ UNCHANGED pipe
  \/ /\ l' = [u EXCEPT !.st = "Launching"]
     /\ pipe' = [at |-> "Close", writers |-> {"parent", "child"}, err |-> FALSE]
     /\ child' = "Forked"

\* LauncherController::launch_item.  The Settings window is opened by a handler
\* in the process, which closes the launcher.
LaunchItem(u, i) ==
  IF i \notin DOMAIN u.items THEN l' = u /\ UNCHANGED <<pipe, child>>
  ELSE IF u.items[i] = Builtin THEN l' = Closed(u) /\ UNCHANGED <<pipe, child>>
  ELSE Start(u)

\* Seeded fault: the parent reads with its own end for writing still open.
ParentKeepsPipe ==
  /\ pipe.at = "Close"
  /\ pipe' = [pipe EXCEPT !.at = "Read"]
  /\ UNCHANGED <<l, child>>

ParentCloses ==
  /\ pipe.at = "Close"
  /\ pipe' = [pipe EXCEPT !.at = "Read", !.writers = @ \ {"parent"}]
  /\ UNCHANGED <<l, child>>

\* read() returns the error, or nothing once nobody can write any more, which
\* is taken for a program that runs.
ParentReads ==
  /\ pipe.at = "Read"
  /\ pipe.err \/ pipe.writers = {}
  /\ IF pipe.err THEN /\ pipe' = [pipe EXCEPT !.at = "Wait"]
                      /\ UNCHANGED l
                 ELSE /\ pipe' = NoLaunch
                      /\ l' = Closed(l)
  /\ UNCHANGED child

\* Seeded fault: a child that has reported an error is not waited for.
ParentForgets ==
  /\ pipe.at = "Wait"
  /\ pipe' = NoLaunch
  /\ l' = [l EXCEPT !.st = "LaunchFailed"]
  /\ UNCHANGED child

ParentReaps ==
  /\ pipe.at = "Wait" /\ child = "Zombie"
  /\ pipe' = NoLaunch
  /\ l' = [l EXCEPT !.st = "LaunchFailed"]
  /\ child' = "Reaped"

Parent == ParentCloses \/ ParentReads \/ ParentReaps

\* execvp closes the child's end; if it fails, the child says so and exits.
\* The child may be killed before it has done either.
ChildExecs ==
  /\ child = "Forked"
  /\ child' = "Running" /\ pipe' = [pipe EXCEPT !.writers = @ \ {"child"}]

ChildReports ==
  /\ child = "Forked"
  /\ child' = "Failing" /\ pipe' = [pipe EXCEPT !.err = TRUE]

ChildExits ==
  /\ child \in {"Forked", "Failing"}
  /\ child' = "Zombie" /\ pipe' = [pipe EXCEPT !.writers = @ \ {"child"}]

Child == (ChildExecs \/ ChildReports \/ ChildExits) /\ UNCHANGED l

-----------------------------------------------------------------------------
(* LauncherController: keys.                                                 *)

\* The main thread takes input.
Takes == Idle /\ pipe = NoLaunch
Quiet == UNCHANGED <<pipe, child>>

\* Escape clears the search first.
Escape == l' = (IF l.query # 0 THEN StopSearching(Query(l, 0)) ELSE Closed(l)) /\ Quiet

\* Enter, without a selection, takes the first item.
Enter == LaunchItem(l, IF l.sel = NoItem THEN 1 ELSE l.sel)

\* On its way to the grid Tab selects the first item.
Tab == Quiet /\ l.sel = NoItem /\ l' = SelectIndex(l, 1)

Backspace ==
  /\ l.query # 0 /\ Quiet
  /\ LET v == Query(l, l.query - 1) IN l' = IF v.query = 0 THEN StopSearching(v) ELSE v

Type ==
  /\ l.query < MaxQuery /\ Quiet
  /\ l' = StartSearching(Query(l, l.query + 1))

\* Left and right go round, through the chips if the category has one, or
\* through the items.
ArrowChip(step) ==
  LET chips == Chips(catalog)
  IN  /\ Quiet
      /\ \E i \in DOMAIN chips :
           chips[i] = l.cat /\ l' = Category(l, chips[Around(i, Len(chips), step)])

ArrowItem(step) ==
  /\ Count > 0 /\ Quiet
  /\ l' = IF l.sel # NoItem THEN SelectIndex(l, Around(l.sel, Count, step))
          ELSE SelectIndex(l, IF step = 1 THEN 1 ELSE Count)

\* Up, Down, Home and End.
Jump == Quiet /\ \E i \in Jumps(l) : l' = SelectIndex(l, i)

Key ==
  /\ IsOpen(l)
  /\ \/ Escape \/ Enter \/ Tab \/ Backspace \/ Type \/ Jump
     \/ \E step \in {1, -1} : ArrowChip(step) \/ ArrowItem(step)

-----------------------------------------------------------------------------
(* LauncherController: the finger.                                           *)

Down(u) == [u EXCEPT !.touch = "Down"]

\* What a touch hits is up to the layout, which knows as many chips as there
\* were when the screen was last laid out.
TouchDown ==
  /\ IsOpen(l) /\ Quiet
  /\ \/ l' = Closed(l)                                             \* beside the launcher
     \/ l' = StopSearching(Query(Down(l), 0))                      \* the clear button
     \/ l' = StartSearching(Down(l))   \* the search bar
     \/ \E i \in 1 .. l.chips :
          /\ i <= Len(Chips(catalog))
          /\ l' = Category(Down(l), Chips(catalog)[i])
     \/ \E i \in 1 .. Count : l' = [Down(l) EXCEPT !.press = i]
     \/ l' = Down(l)                                               \* between the items

\* A finger that moves far scrolls and lets go of the item.
TouchMotion == l.touch # "None" /\ Quiet /\ l' = [l EXCEPT !.touch = "Scroll", !.press = NoItem]

Lifted(u) == [u EXCEPT !.touch = "None", !.press = NoItem]

\* The item that has the index now is launched.
TouchUp ==
  /\ l.touch # "None"
  /\ IF l.touch = "Down" /\ l.press # NoItem
     THEN LaunchItem(Lifted(SelectIndex(l, l.press)), l.press)
     ELSE l' = Lifted(l) /\ Quiet

TouchCancel == l' = Lifted(l) /\ Quiet

Touch == TouchDown \/ TouchMotion \/ TouchUp \/ TouchCancel

-----------------------------------------------------------------------------
(* The composition.                                                          *)

Open == l' = Opened(l) /\ Quiet
Close == l' = Closed(l) /\ Quiet

\* A display change lays the launcher out anew.
Layout == l' = [l EXCEPT !.chips = Len(Chips(catalog))] /\ Quiet

Input == Takes /\ UNCHANGED cvars /\ (Open \/ Close \/ Key \/ Touch \/ Layout)

\* A step of discovery: a new catalog reaches the launcher by its callbacks,
\* and Launcher::initialize comes after the monitor was started.
Discovers ==
  /\ pipe = NoLaunch
  /\ Main
  /\ l' = CASE phase = "Scanned" -> [l EXCEPT !.chips = Len(Chips(catalog))]
            [] phase \in {"Watching", "Rescan"} -> Refilter(catalog', l)
            [] OTHER -> l
  /\ Quiet

Launches == UNCHANGED cvars /\ (Parent \/ Child)

Init ==
  /\ CInit
  /\ l = [st |-> "Closed", query |-> 0, cat |-> All, items |-> <<>>, sel |-> NoItem,
          press |-> NoItem, touch |-> "None", chips |-> 0]
  /\ pipe = NoLaunch /\ child = "None"

Next == Discovers \/ (Disk /\ UNCHANGED <<l, pipe, child>>) \/ Input \/ Launches

\* The system runs the main thread and the child.
Fairness ==
  /\ WF_vars(Discovers)
  /\ WF_vars(UNCHANGED cvars /\ Parent)
  /\ WF_vars(UNCHANGED cvars /\ Child)

Spec == Init /\ [][Next]_vars /\ Fairness

-----------------------------------------------------------------------------
(* Properties.                                                               *)

TypeOK ==
  /\ CatalogTypeOK
  /\ l \in [st : {"Closed", "Open", "Searching", "Launching", "LaunchFailed"},
            query : 0 .. MaxQuery, cat : Range(StandardCategories),
            items : Seq(Ids), sel : Nat, press : Nat,
            touch : {"None", "Down", "Scroll"}, chips : Nat]
  /\ pipe \in [at : {"None", "Close", "Read", "Wait"}, writers : SUBSET {"parent", "child"}, err : BOOLEAN]
  /\ child \in {"None", "Forked", "Running", "Failing", "Zombie", "Reaped"}

\* The selection is one of the listed applications, or none, and the list is that
\* of the catalog, however the catalog, the search and the category change under it:
\* what is launched is what the user sees and the catalog still has.
SelectionListed ==
  /\ l.sel <= Count
  /\ Idle => \A i \in DOMAIN l.items : catalog[l.items[i]] \in Applications

\* A launch reported as failed has left no process, not even a zombie, and
\* none that runs the program after all.
FailureLeavesNothing == l.st = "LaunchFailed" => child \in {"None", "Reaped"}

\* The main thread does not stay in a launch: it reads the child's answer.
LaunchReturns == pipe # NoLaunch ~> pipe = NoLaunch
=============================================================================

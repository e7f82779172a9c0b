------------------------------- MODULE Taskbar -------------------------------
(***************************************************************************)
(* The parts of the shell that show which windows there are - the dock, the *)
(* application switcher with its most-recently-used list, and the desktop - *)
(* and the events of the WindowRegistry by which they learn of it.          *)
(*                                                                          *)
(* WindowSystem takes a handler as one step.  Here what a handler dispatches *)
(* in its middle matters, so that a handler is a composition of functions   *)
(* on the state s, in the order of the code, each event being seen in the   *)
(* state in which it is dispatched.  The registry keeps its listeners in a   *)
(* hash table: whether the WindowManager hears an event before or after the  *)
(* others is up to the build, and is fixed in Init.                         *)
(*                                                                          *)
(* Windows are numbered in the order of their registration.  The stack and  *)
(* visibility are left out: any window that is not minimized, or none, may  *)
(* be what is on top.                                                       *)
(***************************************************************************)
EXTENDS Integers, Sequences, SequencesExt, FiniteSets

CONSTANTS
  MaxWindows,  \* bound: windows that are created
  Apps,        \* the app_ids that clients give
  Pins,        \* the dock's pinned applications
  Matched,     \* the app_ids that each of them matches
  IdOf         \* the id of the desktop file found for an app_id, or else itself

VARIABLE s

NoWindow == 0
Windows == 1 .. MaxWindows
AllWindows == [w \in Windows |-> w]  \* in the order of their registration

\* app_id is empty until the client sets it.
NoApp == "none"

\* An app_id is matched by its equality with the id of the desktop file, with or
\* without ".desktop", with its StartupWMClass or with its Exec, so that several pins
\* may match one.  The empty app_id is matched by none; its own item has an id, too.
\* The desktop file that was found for an app_id is found for its own id.
ASSUME TaskbarAssumption ==
  /\ MaxWindows \in Nat
  /\ Matched \in [Pins -> SUBSET (Apps \ {NoApp})]
  /\ DOMAIN IdOf = Apps \cup {NoApp}
  /\ \A app \in DOMAIN IdOf : IdOf[app] # NoApp /\ (IdOf[app] \in Apps => IdOf[IdOf[app]] = IdOf[app])
Fresh == [life |-> "Unborn", app |-> NoApp, parent |-> NoWindow, minimized |-> FALSE]

Known(u, w) == w \in Windows /\ u.win[w].life \notin {"Unborn", "Gone"}
Open(u, w) == Known(u, w) /\ u.win[w].life # "Destroyed"
Live(u, w) == Known(u, w) /\ u.win[w].life \notin {"Destroyed", "Closing"}

-----------------------------------------------------------------------------
(* The dock.  What it keeps is a function of the windows and the focus that  *)
(* it saw at its last rebuild, so that v is what it saw.                     *)

DockItem(v, id, pinned, ws) ==
  [id |-> id, pinned |-> pinned, windows |-> ws,
   active |-> v.focus \in ws, minimized |-> ws # {} /\ \A w \in ws : v.win[w].minimized]

\* DockModel::window_matches_app
Matches(v, w, pin) == v.win[w].app \in Matched[pin]

\* A pinned item takes every window that matches, whether an earlier one took it or not.
Claimed(v, pin) == {w \in Windows : Open(v, w) /\ Matches(v, w, pin)}

PinnedItems(v) == {DockItem(v, pin, TRUE, Claimed(v, pin)) : pin \in Pins}

\* Seeded fault: windows of pinned applications are not left out of the rest.
UnpinnedAll(v) == {w \in Windows : Open(v, w)}

Unpinned(v) == {w \in Windows : Open(v, w) /\ \A pin \in Pins : ~Matches(v, w, pin)}

\* A window joins the first item whose id is its app_id, or else starts one: those of
\* an application whose desktop file has another id each have their own.
Host(v, w) ==
  LET before == {x \in Unpinned(v) : x < w /\ IdOf[v.win[x].app] = v.win[w].app}
  IN  IF before = {} THEN w ELSE CHOOSE x \in before : \A y \in before : x <= y

Hosted(v, h) == {w \in Unpinned(v) : Host(v, w) = h}

\* DockModel::rebuild_items; the order of the items, which is layout, is left out.
DockItems(v) ==
  PinnedItems(v) \cup
    {DockItem(v, IdOf[v.win[h].app], FALSE, Hosted(v, h)) : h \in {Host(v, w) : w \in Unpinned(v)}}

-----------------------------------------------------------------------------
(* The switcher, in its Application mode.  Here v has the list, too.         *)

\* Windows by their rank in the list, those that are not in it last, and by their
\* number among these.
Rank(v, w) ==
  IF w \in Range(v.mru) THEN CHOOSE i \in DOMAIN v.mru : v.mru[i] = w ELSE Len(v.mru) + 1
Before(v, x, w) == Rank(v, x) < Rank(v, w) \/ (Rank(v, x) = Rank(v, w) /\ x < w)

Switchable(v, w) == Live(v, w) /\ v.win[w].parent = NoWindow

\* Windows of one application form a group; one without app_id is alone.
Group(v, w) == {x \in Windows : /\ Switchable(v, x)
                                /\ x = w \/ (v.win[x].app = v.win[w].app /\ v.win[x].app # NoApp)}

\* A dialog joins the group that its parent has joined before it.
WithDialogs(v, g) ==
  FoldLeft(LAMBDA ws, w : IF Open(v, w) /\ v.win[w].parent \in ws THEN ws \cup {w} ELSE ws, g, AllWindows)

SwitcherItem(v, w) ==
  [primary |-> w, windows |-> WithDialogs(v, Group(v, w)), current |-> v.current \in Group(v, w),
   minimized |-> \A x \in Group(v, w) : v.win[x].minimized]

\* The primary window of a group is the one with the best rank, and the items
\* are in the order of their primary windows.
Primaries(v) == {w \in Windows : Switchable(v, w) /\ \A x \in Group(v, w) : x = w \/ Before(v, w, x)}
Place(v, w) == Cardinality({x \in Primaries(v) : Before(v, x, w)})

\* What the models would see now; a window that is not open is nothing to them.
Current(u) == IF u.focus # NoWindow THEN u.focus ELSE u.reg
Sight(u) == [w \in Windows |-> IF Open(u, w) THEN u.win[w] ELSE Fresh]
DockSight(u) == [win |-> Sight(u), focus |-> IF Open(u, u.focus) THEN u.focus ELSE NoWindow]
SwitcherSight(u) == [win |-> Sight(u), current |-> IF Open(u, Current(u)) THEN Current(u) ELSE NoWindow,
                     mru |-> u.mru]

\* The controller's callback brings the selection back into the list.
Clamped(sel, n) == IF sel < n THEN sel ELSE IF n = 0 THEN 0 ELSE n - 1

\* Seeded fault: the controller does not look at the new list.
SwitcherRebuiltOnly(u) == [u EXCEPT !.switcher = SwitcherSight(u)]

\* SwitcherModel::rebuild_items with the callback
SwitcherRebuilt(u) ==
  LET v == SwitcherSight(u)
  IN  [u EXCEPT !.switcher = v, !.sel = IF u.open THEN Clamped(@, Cardinality(Primaries(v))) ELSE @]

\* record_focus and record_window_destroyed
Recorded(u, w) == [u EXCEPT !.mru = <<w>> \o RemoveFirst(u.mru, w)]
Unrecorded(u, w) == [u EXCEPT !.mru = RemoveFirst(u.mru, w)]

Dock == DockItems(s.dock)

-----------------------------------------------------------------------------
(* The listeners of the registry.                                            *)

DesktopFocused(u) == (\A w \in Windows : ~Live(u, w)) \/ u.reg = NoWindow \/ ~Live(u, u.reg)

SwitcherHears(u, ev, w) ==
  IF ev = "ParentChanged" THEN u
  ELSE SwitcherRebuilt(CASE ev = "FocusChanged" /\ u.reg = w  -> Recorded(u, w)
                         [] ev \in {"Closed", "Destroyed"}    -> Unrecorded(u, w)
                         [] OTHER                             -> u)

DesktopHears(u, ev) ==
  IF ev \in {"ParentChanged", "AppIdChanged"} THEN u ELSE [u EXCEPT !.desktop = DesktopFocused(u)]

DockHears(u) == [u EXCEPT !.dock = DockSight(u)]

\* All but the WindowManager; they do not disturb one another.
Observed(u, ev, w) == DockHears(DesktopHears(SwitcherHears(u, ev, w), ev))

\* The manager has nothing to do when the focus changes.
Told(u, w) == Observed(u, "FocusChanged", w)

\* WindowRegistry::set_active_window: the window that was active hears of it
\* while it still is the active one.
ActiveTold(u) == IF u.reg # NoWindow THEN Told(u, u.reg) ELSE u

SetActive(u, w) == IF u.reg = w THEN u ELSE ActiveTold([ActiveTold(u) EXCEPT !.reg = w])

\* The default backend's deactivate
Deactivated(u, w) ==
  IF ~Known(u, w) THEN u ELSE Told(IF u.reg = w THEN SetActive(u, NoWindow) ELSE u, w)

\* Seeded fault: the focus moves when everybody has been told.
ActivatedLate(u, w) ==
  IF u.focus = w \/ ~Known(u, w) \/ u.win[w].minimized THEN u
  ELSE [Told(SetActive(Deactivated(u, u.focus), w), w) EXCEPT !.focus = w]

\* WindowFocus::activate
Activated(u, w) ==
  IF u.focus = w \/ ~Known(u, w) \/ u.win[w].minimized THEN u
  ELSE Told(SetActive([Deactivated(u, u.focus) EXCEPT !.focus = w], w), w)

\* What may be the topmost window that is shown, other than w
Fallbacks(u, w) == {NoWindow} \cup {v \in Windows : v # w /\ Open(u, v) /\ ~u.win[v].minimized}

\* WindowFocus::handle_window_removed_or_hidden, t being what is on top; nothing
\* happens to a t that is not known.
Hidden(u, w, t) == IF u.focus # w THEN u ELSE Activated([u EXCEPT !.focus = NoWindow], t)

\* WindowManager::on_window_event
ManagerHears(u, ev, w, t) ==
  LET hides == \/ ev \in {"Closed", "Destroyed"}
               \/ ev \in {"StateChanged", "VisibilityChanged"} /\ u.win[w].minimized
  IN  IF ev = "Created" THEN Activated(u, w) ELSE IF hides THEN Hidden(u, w, t) ELSE u

\* WindowRegistry::dispatch_event
Dispatched(u, ev, w, t) ==
  LET ObservedIf(turn, v) == IF turn THEN Observed(v, ev, w) ELSE v
  IN  ObservedIf(~u.managerLast, ManagerHears(ObservedIf(u.managerLast, u), ev, w, t))

-----------------------------------------------------------------------------
(* The requests of the clients, as WindowTracker handles them.               *)

TaskbarInit ==
  \E last \in BOOLEAN :
    LET none == [w \in Windows |-> Fresh]
    IN  s = [win |-> none, focus |-> NoWindow, reg |-> NoWindow, mru |-> <<>>, desktop |-> TRUE,
             dock |-> [win |-> none, focus |-> NoWindow],
             switcher |-> [win |-> none, current |-> NoWindow, mru |-> <<>>],
             open |-> FALSE, sel |-> 0, initial |-> NoWindow, managerLast |-> last]

GetToplevel(w) ==
  /\ s.win[w].life = "Unborn"
  /\ \A v \in Windows : v < w => s.win[v].life # "Unborn"
  /\ s' = Dispatched([s EXCEPT !.win[w].life = "Initializing"], "Created", w, NoWindow)

\* Clients name their windows, and say whose dialogs they are, at any time.
SetAppId(w, app) ==
  /\ Open(s, w)
  /\ s' = Dispatched([s EXCEPT !.win[w].app = app], "AppIdChanged", w, NoWindow)

\* Only a window that is older becomes the parent of one: no cycles.
SetParent(w, p) ==
  /\ Open(s, w)
  /\ p = NoWindow \/ (p < w /\ Open(s, p))
  /\ s' = Dispatched([s EXCEPT !.win[w].parent = p], "ParentChanged", w, NoWindow)

Commit(w) ==
  /\ s.win[w].life = "Initializing"
  /\ LET u == [s EXCEPT !.win[w].life = "Visible"]
     IN  \E t \in Fallbacks(u, w) : s' = Dispatched(u, "VisibilityChanged", w, t)

\* set_minimized, and the four requests that end in another state
ClientSetMinimized(w, m) ==
  /\ Open(s, w)
  /\ s.win[w].minimized # m
  /\ LET u == [s EXCEPT !.win[w].minimized = m]
     IN  \E t \in Fallbacks(u, w) : s' = Dispatched(u, "StateChanged", w, t)

\* The end of remove_window: the newest window succeeds an active one.
Erased(u, w) ==
  LET gone == [u EXCEPT !.win[w] = [Fresh EXCEPT !.life = "Gone"]]
      left == {v \in Windows : Known(gone, v)}
      none == [gone EXCEPT !.reg = NoWindow]
  IN  IF u.reg # w THEN gone
      ELSE IF left = {} THEN none
      ELSE SetActive(none, CHOOSE v \in left : \A x \in left : x <= v)

DestroyToplevel(w) ==
  /\ Open(s, w)
  /\ LET u == [s EXCEPT !.win[w].life = "Destroyed"]
     IN  \E t \in Fallbacks(u, w) : s' = Erased(Dispatched(u, "Destroyed", w, t), w)

-----------------------------------------------------------------------------
(* The WindowManager as the dock, the switcher and a click use it.           *)

\* WindowManager::close with send_close_to_client
Close(w) ==
  /\ Open(s, w)
  /\ LET u == IF s.win[w].life = "Visible" THEN [s EXCEPT !.win[w].life = "Closing"] ELSE s
     IN  \E t \in Fallbacks(u, w) : s' = Dispatched(u, "Closed", w, t)

\* set_minimized of the backend, up to its two events.  is_active is the flag of
\* the registry's active window (WindowSystem's OneActiveFlag).
Toggled(u, w, m, t) ==
  LET set == [u EXCEPT !.win[w].minimized = m]
      quiet == IF m /\ u.reg = w THEN SetActive(set, NoWindow) ELSE set
  IN  Dispatched(Dispatched(quiet, "StateChanged", w, t), "VisibilityChanged", w, t)

Minimized(u, w, t) == Hidden(IF u.win[w].minimized THEN u ELSE Toggled(u, w, TRUE, t), w, t)
Restored(u, w) == IF u.win[w].minimized THEN Toggled(u, w, FALSE, NoWindow) ELSE u

Activate(w) == /\ Open(s, w)
               /\ s' = Activated(s, w)

Minimize(w) == /\ Open(s, w)
               /\ \E t \in Fallbacks(s, w) : s' = Minimized(s, w, t)

\* DockController::activate_item of an item with windows: the active one is
\* minimized, another is brought back and activated.
DockActivate(item) ==
  /\ item.windows # {}
  /\ LET front == CHOOSE w \in item.windows : \A v \in item.windows : w <= v
         target == IF s.focus # NoWindow THEN s.focus ELSE front
     IN  IF item.active
         THEN \E t \in Fallbacks(s, target) : s' = Minimized(s, target, t)
         ELSE s' = Activated(Restored(s, front), front)

-----------------------------------------------------------------------------
(* SwitcherController.                                                       *)

\* The selection and the window that was active matter while it is open only:
\* opening sets them, so that they are forgotten here.
Shut(u) == [u EXCEPT !.open = FALSE, !.initial = NoWindow, !.sel = 0]

ShowSwitcher ==
  /\ ~s.open
  /\ LET u == SwitcherRebuilt(s)
     IN  s' = [u EXCEPT !.initial = Current(u), !.sel = IF Cardinality(Primaries(u.switcher)) >= 2 THEN 1 ELSE 0,
                        !.open = TRUE]

\* select_next, select_prev and select_index
Select(i) ==
  /\ s.open
  /\ i < Cardinality(Primaries(s.switcher))
  /\ s' = [s EXCEPT !.sel = i]

ActivateSelected ==
  /\ s.open
  /\ LET ws == Primaries(s.switcher)
     IN  IF ws = {} THEN s' = Shut(s)
         ELSE \E w \in ws :
                LET item == SwitcherItem(s.switcher, w)
                    back == IF item.minimized THEN Restored(s, w) ELSE s
                IN  /\ Place(s.switcher, w) = Clamped(s.sel, Cardinality(ws))
                    /\ s' = Shut(Activated(back, w))

CancelSwitcher ==
  /\ s.open
  /\ s' = Shut(IF Open(s, s.initial) THEN Activated(s, s.initial) ELSE s)

HideSwitcher == /\ s.open
                 /\ s' = Shut(s)

SwitcherStep == \/ ShowSwitcher \/ ActivateSelected \/ CancelSwitcher \/ HideSwitcher
                \/ \E i \in 0 .. MaxWindows : Select(i)

ClientStep(w) ==
  \/ GetToplevel(w) \/ Commit(w) \/ DestroyToplevel(w)
  \/ \E app \in Apps : SetAppId(w, app)
  \/ \E p \in Windows \cup {NoWindow} : SetParent(w, p)
  \/ \E m \in BOOLEAN : ClientSetMinimized(w, m)

DockStep == \E item \in Dock : DockActivate(item)

ManagerStep(w) == Close(w) \/ Activate(w) \/ Minimize(w)

TaskbarNext == \/ \E w \in Windows : ClientStep(w) \/ ManagerStep(w)
        \/ DockStep
        \/ SwitcherStep

TaskbarSpec == TaskbarInit /\ [][TaskbarNext]_s

-----------------------------------------------------------------------------
(* Properties.                                                               *)

\* The dock shows every registered window, and no window that is gone, after every
\* handler and every nesting of its events.  A window is in two of its items only when
\* two pinned applications match its app_id.
DockHoldsWindows ==
  LET items == Dock
  IN  /\ \A w \in Windows : Open(s, w) => \E item \in items : w \in item.windows
      /\ \A item \in items : \A w \in item.windows :
           /\ Open(s, w)
           /\ \A other \in items : w \in other.windows => other = item \/ (item.pinned /\ other.pinned)

\* docs/dock_architecture.md:10: the windows of an application are grouped "under a
\* single unified dock item".  Refuted (TaskbarItem.cfg): the loop over the pinned
\* applications does not look at what it has matched, and a window joins an item by the
\* id alone, which is not its app_id when a desktop file was found for that.
SingleItem ==
  \A a, b \in Dock : \A v \in a.windows, w \in b.windows :
    s.win[v].app = s.win[w].app /\ s.win[v].app # NoApp => a = b

\* docs/dock_architecture.md:77: the dock's active marks follow the focus.
DockMarksFocus == \A item \in Dock : item.active <=> s.focus \in item.windows

\* Whoever gets the focus, along whatever chain of nested events, and whether the
\* manager hears events first or last: it heads the list of the switcher, the
\* dock marks the items that hold it and no others, and the desktop knows it is
\* not in front.
FocusKnown ==
  s.focus # NoWindow =>
    /\ Len(s.mru) > 0 /\ Head(s.mru) = s.focus
    /\ s.desktop = DesktopFocused(s)
    /\ DockMarksFocus

\* The selection is one of the items, and every item stands for a window that is
\* neither gone nor closing, however the windows come and go meanwhile.
SwitcherOffersLive ==
  LET ws == Primaries(s.switcher)
  IN  /\ s.sel < Cardinality(ws) \/ s.sel = 0
      /\ \A w \in ws : Live(s, w)

=============================================================================

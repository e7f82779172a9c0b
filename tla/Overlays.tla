------------------------------- MODULE Overlays -------------------------------
(***************************************************************************)
(* The surfaces that open over the desktop - launcher, switcher, system     *)
(* panel, notification center, Settings window, popups - with the state     *)
(* machines that open and close them, the callbacks by which opening one    *)
(* closes others (Application::initialize_components), and the routing of a  *)
(* touch to the one that should have it.                                    *)
(*                                                                          *)
(* A handler runs to completion with every callback it causes, so an action *)
(* is one touch event or one call of the public interface, and the states   *)
(* Opening, Closing, Launching, Selecting and Activating occur inside an    *)
(* action only.  Nothing distinguishes fingers here: the handlers share one *)
(* set of flags, so that fingers are counted.  Pixels are left out: a       *)
(* finger is on one of the things that the component which gets it offers.  *)
(* A finger is lifted at (0, 0), as Application reports it.                 *)
(***************************************************************************)
EXTENDS Integers

CONSTANT MaxFingers   \* bound: fingers on the screen
ASSUME FingersAssumption == MaxFingers \in Nat \ {0}

VARIABLES
  ui,       \* states of the components, popups, overlay and the touch flags
  fingers   \* how many fingers are on the screen

vars == <<ui, fingers>>

\* What each component remembers of a finger: where it went down.
Untouched == "none"
Parts == {"note", "status", "switcher", "panel", "launcher", "settings", "dock", "window", "desktop"}
Free == [c \in Parts |-> Untouched]

Init ==
  /\ ui = [launcher |-> "Closed", switcher |-> "Closed", panel |-> "Closed", center |-> "Closed",
           settings |-> "Closed", popups |-> FALSE, overlay |-> FALSE, press |-> Free]
  /\ fingers = 0

-----------------------------------------------------------------------------
(* What is open, what is drawn, and the overlay surface.                    *)

LauncherOpen(u) == u.launcher \in {"Open", "Searching", "Launching", "LaunchFailed"}
SwitcherOpen(u) == u.switcher \in {"Opening", "Open", "Selecting", "Activating"}
PanelOpen(u) == u.panel = "Open"
CenterOpen(u) == u.center = "Open"
SettingsOpen(u) == u.settings \in {"Normal", "Maximized"}

Shown(u) == \/ LauncherOpen(u) \/ SwitcherOpen(u) \/ PanelOpen(u) \/ CenterOpen(u)
            \/ SettingsOpen(u) \/ u.popups

\* update_overlay_state
Drawn(u) == [u EXCEPT !.overlay = Shown(u)]

-----------------------------------------------------------------------------
(* Closing.  The callbacks of a state machine that closes only redraw.      *)

\* LauncherStateMachine::transition_to
LauncherNext == [
  Closed       |-> {"Opening", "Open"},
  Opening      |-> {"Open", "Closing", "Closed"},
  Open         |-> {"Searching", "Launching", "Closing", "Closed"},
  Searching    |-> {"Open", "Launching", "Closing", "Closed"},
  Launching    |-> {"Open", "LaunchFailed", "Closing", "Closed"},
  LaunchFailed |-> {"Open", "Searching", "Launching", "Closing", "Closed"},
  Closing      |-> {"Closed", "Opening", "Open"}]

CloseCenter(u) == IF CenterOpen(u) THEN Drawn([u EXCEPT !.center = "Closed"]) ELSE u
ClosePanel(u) == IF u.panel # "Closed" THEN Drawn([u EXCEPT !.panel = "Closed"]) ELSE u

\* request_close goes through Closing to Closed.
CloseSwitcher(u) == IF u.switcher # "Closed" THEN Drawn([u EXCEPT !.switcher = "Closed"]) ELSE u

\* Seeded fault: the callback opens the launcher without looking at the center.
LauncherToQuietly(u, s) ==
  IF s \in LauncherNext[u.launcher] THEN Drawn([u EXCEPT !.launcher = s]) ELSE u

\* A transition of the launcher with its callback: the center is closed.
LauncherTo(u, s) ==
  LET moved == [u EXCEPT !.launcher = s]
  IN  IF s \notin LauncherNext[u.launcher] THEN u
      ELSE Drawn(IF s \in {"Opening", "Open"} THEN CloseCenter(moved) ELSE moved)

\* LauncherController::close forgets the finger, whatever the state.
CloseLauncher(u) ==
  LauncherTo(LauncherTo([u EXCEPT !.press["launcher"] = Untouched], "Closing"), "Closed")

\* Closed through the is_open of the callbacks
LauncherShut(u) == IF LauncherOpen(u) THEN CloseLauncher(u) ELSE u

-----------------------------------------------------------------------------
(* Opening.                                                                  *)

\* request_open is refused where the launcher cannot be Opening; open ends there.
OpenLauncher(u) ==
  IF "Opening" \in LauncherNext[u.launcher] THEN LauncherTo(LauncherTo(u, "Opening"), "Open") ELSE u

LauncherToggled(u) == IF LauncherOpen(u) THEN CloseLauncher(u) ELSE OpenLauncher(u)

\* start_searching and stop_searching
SearchStarts(u) == IF u.launcher \in {"Open", "LaunchFailed"} THEN LauncherTo(u, "Searching") ELSE u
SearchStops(u) == IF u.launcher = "Searching" THEN LauncherTo(u, "Open") ELSE u

OpenSwitcher(u) ==
  IF SwitcherOpen(u) THEN u
  ELSE Drawn(CloseCenter(ClosePanel(LauncherShut([u EXCEPT !.switcher = "Open"]))))

OpenPanel(u) ==
  IF PanelOpen(u) THEN u
  ELSE Drawn(CloseCenter(CloseSwitcher(LauncherShut([u EXCEPT !.panel = "Open"]))))

TogglePanel(u) == IF PanelOpen(u) THEN ClosePanel(u) ELSE OpenPanel(u)

OpenCenter(u) ==
  IF CenterOpen(u) THEN u
  ELSE Drawn(ClosePanel(CloseSwitcher(LauncherShut([u EXCEPT !.center = "Open"]))))

\* Seeded fault: the mode is set and nobody is called.
SettingsToUntold(u, mode) == [u EXCEPT !.settings = mode]

\* SettingsManager::set_mode with the two callbacks
SettingsTo(u, mode) ==
  LET moved == [u EXCEPT !.settings = mode]
  IN  IF u.settings = mode THEN u
      ELSE Drawn(IF SettingsOpen(moved)
                 THEN CloseCenter(ClosePanel(CloseSwitcher(LauncherShut(moved)))) ELSE moved)

OpenSettings(u) == IF SettingsOpen(u) THEN u ELSE SettingsTo(u, "Normal")

-----------------------------------------------------------------------------
(* A finger goes down.                                                      *)

\* Places that are treated alike are one place: the outside of the center, its
\* close button and its entries are left, its other parts are not.
NotePlaces == {"leave", "stay"}
PanelPlaces == {"notifications", "settings", "other", "outside"}
LauncherPlaces == {"scrim", "search", "clear", "app", "broken app", "settings", "other"}

Pressed(u, part, at) == [u EXCEPT !.press[part] = at]

\* LauncherController::handle_touch_down
LauncherDown(u, at) ==
  LET held == Pressed(u, "launcher", at)
  IN  CASE at = "scrim" -> CloseLauncher(held)
        [] at = "clear" -> SearchStops(held)
        [] at = "search" -> SearchStarts(held)
        [] OTHER -> held

\* The desktop gets what no other component takes, and TouchInteractionManager
\* with it: it may drag the window that is there.  The left edge is where the
\* lift at (0, 0) will look like a swipe up.
DesktopDown(u) ==
  {Pressed(u, "status", "bar"), Pressed(u, "dock", "item")}
    \cup {Pressed(Pressed(u, "desktop", d), "window", w) : d \in {"edge", "middle"}, w \in {"window", Untouched}}


OverlayDown(u) ==
  IF SwitcherOpen(u) THEN {Pressed(u, "switcher", "held")}
  ELSE IF PanelOpen(u) THEN {Pressed(u, "panel", p) : p \in PanelPlaces}
  ELSE IF LauncherOpen(u) THEN {LauncherDown(u, p) : p \in LauncherPlaces}
  ELSE IF SettingsOpen(u) THEN {Pressed(u, "settings", "window")} \cup DesktopDown(u)
  ELSE DesktopDown(u)

Downs(u) ==
  {Pressed(u, "note", p) : p \in IF u.popups THEN {"popup", "dismiss"} ELSE {}}
    \cup IF CenterOpen(u) THEN {Pressed(u, "note", p) : p \in NotePlaces}
         ELSE OverlayDown(Pressed(u, "note", "nothing"))

FingerDown == /\ fingers < MaxFingers
              /\ fingers' = fingers + 1
              /\ ui' \in Downs(ui)

-----------------------------------------------------------------------------
(* It moves.                                                                 *)

Moves(u, part, to) == {IF u.press[part] = Untouched THEN u ELSE Pressed(u, part, p) : p \in to}

OnPopup(u) == u.press["note"] \in {"popup", "dismiss", "gone"}

\* A popup that is moved far enough will be dismissed; a panel that is swiped
\* up will close; a list that is scrolled lets go of what was pressed.
Motions(u) ==
  IF u.press["note"] # Untouched /\ (OnPopup(u) \/ CenterOpen(u))
  THEN {u} \cup IF OnPopup(u) THEN {Pressed(u, "note", "dismiss")} ELSE {}
  ELSE IF SwitcherOpen(u) THEN Moves(u, "switcher", {"held", "dragged"})
  ELSE IF PanelOpen(u) THEN Moves(u, "panel", {"swiped"} \cup PanelPlaces)
  ELSE IF LauncherOpen(u) THEN Moves(u, "launcher", {"scrolled"})
  ELSE {u} \cup Moves(u, "dock", {"scrolled"})

FingerMoves == /\ fingers > 0
               /\ ui' \in Motions(ui) \ {ui}
               /\ UNCHANGED fingers

-----------------------------------------------------------------------------
(* It is lifted.                                                             *)

\* NotificationController::handle_touch_up: a popup goes, and another may take
\* its place; the center closes unless the finger was on a harmless place.
NoteTakes(u) == /\ u.press["note"] # Untouched
                /\ u.press["note"] \in {"popup", "dismiss"} \/ CenterOpen(u)
NoteUp(u) ==
  LET at == u.press["note"]
      free == Pressed(u, "note", Untouched)
  IN  IF at \in {"popup", "dismiss"}
      THEN {Drawn([free EXCEPT !.popups = left]) : left \in {u.popups, FALSE}}
      ELSE {Drawn(IF at = "leave" THEN CloseCenter(free) ELSE free)}

\* The lift is taken for one in the corner: never an item, so that the switcher
\* is cancelled, unless it was scrolled.
SwitcherUp(u) ==
  LET free == Pressed(u, "switcher", Untouched)
  IN  IF u.press["switcher"] = "held" THEN CloseSwitcher(free) ELSE free

\* SystemUIController::handle_panel_touch_up with the tiles' actions
PanelUp(u) ==
  LET free == Pressed(u, "panel", Untouched)
  IN  CASE u.press["panel"] \in {"swiped", "outside"} -> ClosePanel(free)
        [] u.press["panel"] = "notifications" -> OpenCenter(ClosePanel(free))
        [] u.press["panel"] = "settings" -> OpenSettings(ClosePanel(free))
        [] OTHER -> free

\* A tap, whose place is the last one the controller was told of, must end
\* within 30 pixels of where it began: it is the same place, since a motion is
\* told to an open panel only, and no panel opens while the bar is pressed.
StatusUp(u) ==
  IF u.press["status"] = Untouched THEN u ELSE TogglePanel(Pressed(u, "status", Untouched))

\* LauncherController::launch_item: the built-in handler of the Settings entry
\* closes the launcher and opens the window while the launch is under way.
Launched(u, at) ==
  LET going == LauncherTo(u, "Launching")
  IN  CASE at = "app" -> CloseLauncher(LauncherTo(going, "Closing"))
        [] at = "settings" -> CloseLauncher(OpenSettings(CloseLauncher(going)))
        [] at = "broken app" -> LauncherTo(going, "LaunchFailed")
        [] OTHER -> u

LauncherUp(u) == Pressed(Launched(u, u.press["launcher"]), "launcher", Untouched)

DesktopLetsGo(u) ==
  [u EXCEPT !.press["dock"] = Untouched, !.press["window"] = Untouched, !.press["desktop"] = Untouched]

\* DockController finds its background under the corner and does nothing; the
\* desktop takes a touch of the left edge for a swipe up.
DesktopUp(u) ==
  LET free == DesktopLetsGo(u)
  IN  IF u.press["desktop"] = "edge" THEN OpenLauncher(free) ELSE free

BelowUp(u) ==
  IF LauncherOpen(u) THEN LauncherUp(u)
  ELSE IF SettingsOpen(u) /\ u.press["settings"] # Untouched THEN Pressed(u, "settings", Untouched)
  ELSE DesktopUp(u)

Ups(u) ==
  LET noted == Pressed(u, "note", Untouched)
  IN  IF NoteTakes(u) THEN NoteUp(u)
      ELSE {IF SwitcherOpen(u) THEN SwitcherUp(noted)
            ELSE IF PanelOpen(u) THEN PanelUp(noted)
            ELSE BelowUp(StatusUp(noted))}

FingerUp == /\ fingers > 0
            /\ fingers' = fingers - 1
            /\ ui' \in Ups(ui)

\* The compositor takes all touches away: the notifications forget theirs, and
\* then the first component that is open, or the desktop, forgets its own.
TouchCancel ==
  LET noted == Pressed(ui, "note", Untouched)
  IN  /\ fingers > 0
      /\ fingers' = 0
      /\ ui' = IF SwitcherOpen(noted) THEN CloseSwitcher(Pressed(noted, "switcher", Untouched))
               ELSE IF PanelOpen(noted) THEN [noted EXCEPT !.press["panel"] = Untouched, !.press["status"] = Untouched]
               ELSE IF LauncherOpen(noted) THEN Pressed(noted, "launcher", Untouched)
               ELSE IF SettingsOpen(noted) THEN Pressed(noted, "settings", Untouched)
               ELSE DesktopLetsGo(noted)

-----------------------------------------------------------------------------
(* Calls of the public interface, and popups that come and go.              *)

\* Another program's notification appears, or the last popup expires.  A popup
\* that is gone when the finger leaves it is not acted upon.
PopupAppears == /\ ~ui.popups
                /\ ui' = Drawn([ui EXCEPT !.popups = TRUE])
                /\ UNCHANGED fingers
PopupGoes == /\ ui.popups
             /\ ui' \in {Drawn([u EXCEPT !.popups = FALSE]) :
                           u \in {ui} \cup IF ui.press["note"] = "popup" THEN {Pressed(ui, "note", "gone")} ELSE {}}
             /\ UNCHANGED fingers

SwitcherToggle == /\ ui' = IF SwitcherOpen(ui) THEN CloseSwitcher(ui) ELSE OpenSwitcher(ui)
                  /\ UNCHANGED fingers

LauncherToggle == /\ ui' = LauncherToggled(ui)
                  /\ UNCHANGED fingers

CenterToggle == /\ ui' = IF CenterOpen(ui) THEN CloseCenter(ui) ELSE OpenCenter(ui)
                /\ UNCHANGED fingers

SettingsCall(mode) ==
  /\ ui' = IF mode = "Normal" THEN OpenSettings(ui)
           ELSE IF ui.settings = "Closed" THEN ui ELSE SettingsTo(ui, mode)
  /\ UNCHANGED fingers

\* SettingsManager::restore
SettingsRestore == /\ ui.settings # "Closed"
                   /\ ui' = SettingsTo(ui, "Normal")
                   /\ UNCHANGED fingers

SettingsModes == {"Closed", "Normal", "Minimized", "Maximized"}

TouchStep == FingerDown \/ FingerMoves \/ FingerUp \/ TouchCancel
CallStep == \/ PopupAppears \/ PopupGoes \/ SwitcherToggle \/ LauncherToggle \/ CenterToggle
            \/ (\E mode \in SettingsModes : SettingsCall(mode)) \/ SettingsRestore

Next == TouchStep \/ CallStep

Spec == Init /\ [][Next]_vars

-----------------------------------------------------------------------------
(* Properties.                                                              *)

\* Of launcher, switcher, panel and center, the center is open alone, and the
\* switcher and the panel never are open together, whatever callbacks nest and
\* whichever of several fingers' events opens or closes what.  Two pairs are
\* not excluded: a launcher that opens closes neither the switcher nor the
\* panel, so that it is open together with one of them.
ModalsExclude ==
  /\ CenterOpen(ui) => ~(LauncherOpen(ui) \/ SwitcherOpen(ui) \/ PanelOpen(ui))
  /\ ~(SwitcherOpen(ui) /\ PanelOpen(ui))

\* What docs/system_ui_architecture.md:130 says: only one of them is visible at a
\* time.  The code does not do this: see Overlays.LauncherTo.
OneAtATime ==
  LET open == <<LauncherOpen(ui), SwitcherOpen(ui), PanelOpen(ui), CenterOpen(ui)>>
  IN  \A i, j \in DOMAIN open : open[i] /\ open[j] => i = j

\* The overlay surface is mapped exactly while something is to be seen on it:
\* it neither hides an open surface nor covers the desktop with nothing, after
\* any nesting of state callbacks.
OverlayFollows == ui.overlay = Shown(ui)

=============================================================================

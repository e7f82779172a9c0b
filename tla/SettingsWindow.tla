--------------------------- MODULE SettingsWindow ---------------------------
(***************************************************************************)
(* The Settings window: its mode (SettingsManager), the place the user has *)
(* navigated to (SettingsNavigation), what the last drawn layout offers to *)
(* a finger (SettingsLayout), and the handlers of touch and keys           *)
(* (SettingsController).  The store is taken at its interface: a value is  *)
(* read, and a value that validates is stored; SettingsStore models the    *)
(* rest of it.  Pixels are left out: a finger is on one of the targets the *)
(* layout offers, or outside of the window.                                *)
(***************************************************************************)
EXTENDS SettingsSchema, FiniteSets

CONSTANTS Tabs,       \* the categories the user visits
          Finds,      \* what a query of n characters finds, n counted from 1
          FromFile,   \* pairs <<key, value>> that a file edited by hand may hold
          Fractions,  \* where on a slider a finger may be, in percent
          Lifts       \* "real": a finger's end is reported where it is;
                      \* "origin": at (0, 0), as application.cpp:321 does

ASSUME WindowAssumption ==
  /\ Tabs \subseteq ToSet(Categories)
  /\ Finds \in Seq(Seq(Keys))
  /\ \A p \in FromFile : /\ p[1] \in Keys
                        /\ (Find(p[1]).type = "Int" => p[2] \in [int : Int])
                        /\ (Find(p[1]).type = "Double" => p[2] \in [dbl : Int])
  /\ Fractions \subseteq 0 .. 100
  /\ Lifts \in {"real", "origin"}

VARIABLES mode,    \* SettingsManager::mode_
          nav,     \* SettingsNavigation: category, detail, length of the query, index
          view,    \* the place and the mode of the last SettingsLayout::update
          portrait,
          touch,   \* SettingsController: active, what it drags, where it began
          current  \* what SettingsStore::get returns

windowVars == <<mode, nav, view, portrait, touch, current>>

Modes == {"Closed", "Normal", "Minimized", "Maximized"}
IsOpen == mode \in {"Normal", "Maximized"}

Home == [category |-> "Appearance", detail |-> FALSE, query |-> 0, index |-> 0]
Searching(n) == n.query > 0

\* SettingsController::current_visible_settings, on Keys.
Visible(n) ==
  IF Searching(n) THEN Finds[n.query]
  ELSE LET all == InCategory(n.category)
           ours == {i \in DOMAIN all : all[i].key \in Keys}
       IN  [p \in 1 .. Cardinality(ours) |->
              all[CHOOSE i \in ours : Cardinality({j \in ours : j <= i}) = p].key]

-----------------------------------------------------------------------------
(* The layout. *)

Snapshot(n, maximized, upright) ==
  [place |-> [n EXCEPT !.index = 0], maximized |-> maximized, portrait |-> upright]

\* The overlay is drawn at once unless no buffer can be had; drawing lays
\* the window out again.
Rendered(m, n) ==
  view' \in {view} \cup IF m \in {"Normal", "Maximized"}
                        THEN {Snapshot(n, m = "Maximized", portrait)} ELSE {}

\* SettingsLayout::update: the list of categories or the rows of settings.
ShowsTabs(v) == ~v.portrait \/ ~(v.place.detail \/ Searching(v.place))
ShowsRows(v) == ~v.portrait \/ v.place.detail \/ Searching(v.place)
ShowsBack(v) == v.portrait /\ (v.place.detail \/ Searching(v.place))

\* SettingsLayout::hit_test tells a control by the words of its key.
Widget(key) ==
  CASE ToSet(key) \cap {"enabled", "show"} # {} -> "Toggle"
    [] {"tap", "click"} \subseteq ToSet(key) -> "Toggle"
    [] {"ambient", "glow"} \subseteq ToSet(key) -> "Toggle"
    [] ToSet(key) \cap {"scale", "timeout", "threshold", "duration", "size", "margin", "step"} # {}
         -> "Slider"
    [] OTHER -> "Action"

\* What a finger is on: a button, <<category>>, or the control of a key.
Option(key, nth) == [kind |-> "Option", on |-> key, nth |-> nth]
Target(kind, on) == [kind |-> kind, on |-> on, nth |-> 0]
Outside == Target("None", <<>>)
RowTargets(key) ==
  {Target("Action", key), Target(Widget(key), key)}
    \cup {Option(key, i) : i \in DOMAIN Find(key).options}

Targets(v) ==
  UNION {
    {Target(b, <<>>) : b \in {"Close", "Maximize", "Minimize", "Titlebar", "Clear", "SearchBar", "Content"}},
    IF ShowsBack(v) THEN {Target("Back", <<>>)} ELSE {},
    IF ShowsTabs(v) THEN {Target("Category", <<c>>) : c \in Tabs} ELSE {},
    IF ShowsRows(v) THEN UNION {RowTargets(k) : k \in ToSet(Visible(v.place))} ELSE {}}

-----------------------------------------------------------------------------
(* The store's interface. *)

Stored(key, value) ==
  current' = IF Validates(Find(key), value) THEN [current EXCEPT ![key] = value] ELSE current

Flipped(key) == [bool |-> ~(\E b \in AsBool(current[key]) : b)]

NextOption(key) ==
  LET options == Find(key).options
      at == {i \in DOMAIN options : current[key] = [str |-> options[i]]}
  IN  [str |-> IF at = {} THEN options[1]
               ELSE options[((CHOOSE i \in at : TRUE) % Len(options)) + 1]]

Numeric(key, n) == IF Find(key).type = "Int" THEN [int |-> n] ELSE [dbl |-> n]
NumberOf(value) == IF Has(value, "int") THEN value.int ELSE value.dbl
Clamped(key, n) == LET def == Find(key) IN
  IF n < def.lo THEN def.lo ELSE IF n > def.hi THEN def.hi ELSE n

\* Seeded fault: the value is not rounded to the step.
SliderValueRaw(key, percent) ==
  LET def == Find(key)
  IN  Numeric(key, Clamped(key, def.lo + (percent * (def.hi - def.lo)) \div 100))

\* apply_slider_value: the nearest multiple of the step, within the bounds.
SliderValue(key, percent) ==
  LET def == Find(key)
      raw == def.lo + (percent * (def.hi - def.lo)) \div 100
  IN  Numeric(key, Clamped(key, ((2 * raw + def.step) \div (2 * def.step)) * def.step))

(* A number has a slider or none, never a switch; its bounds and its       *)
(* default are multiples of its step.                                      *)
ASSUME NumbersAreSound ==
  \A i \in DOMAIN AllSettings :
    LET def == AllSettings[i]
    IN  def.type \in {"Int", "Double"} =>
          /\ {def.lo, def.hi} \subseteq Int /\ def.lo <= def.hi
          /\ def.step \in Int /\ def.step > 0
          /\ \E n \in def.lo .. def.hi :
               /\ def.default = IF def.type = "Int" THEN [int |-> n] ELSE [dbl |-> n]
               /\ \A m \in {def.lo, n, def.hi} : m = (m \div def.step) * def.step
          /\ Widget(def.key) # "Toggle"

-----------------------------------------------------------------------------
(* The manager. *)

NoTouch == [active |-> FALSE, drags |-> "nothing", from |-> Outside]

\* SettingsStore::get returns what a file says of a key when it parses, valid
\* or not, and else the default.
WindowInit ==
  /\ mode = "Closed" /\ nav = Home /\ touch = NoTouch
  /\ portrait \in BOOLEAN
  /\ view = Snapshot(Home, FALSE, portrait)
  /\ \E edited \in SUBSET FromFile :
       /\ \A p, q \in edited : p[1] = q[1] => p = q
       /\ current = [k \in Keys |-> IF \E p \in edited : p[1] = k
                                    THEN (CHOOSE p \in edited : p[1] = k)[2] ELSE Find(k).default]

\* Seeded fault: a minimized window comes back without being laid out.
OpenAsItWas ==
  /\ mode \in {"Closed", "Minimized"}
  /\ mode' = "Normal"
  /\ UNCHANGED <<nav, view, portrait, touch, current>>

\* An open window is only raised.
Open ==
  /\ mode \in {"Closed", "Minimized"}
  /\ mode' = "Normal" /\ view' = Snapshot(nav, FALSE, portrait)
  /\ UNCHANGED <<nav, portrait, touch, current>>

CloseWindow == mode' = "Closed" /\ UNCHANGED view
Minimize == mode' = "Minimized" /\ UNCHANGED view
Maximize == mode' = "Maximized" /\ view' = Snapshot(nav, TRUE, portrait)
Restore == mode' = "Normal" /\ view' = Snapshot(nav, FALSE, portrait)

\* update_display_policy.
DisplayChanges ==
  /\ portrait' \in BOOLEAN
  /\ view' = Snapshot(nav, mode = "Maximized", portrait')
  /\ UNCHANGED <<mode, nav, touch, current>>

-----------------------------------------------------------------------------
(* Touch. *)

TouchDown(t) ==
  /\ IsOpen
  /\ IF t = Outside THEN UNCHANGED windowVars
     ELSE IF t.kind = "Slider"
     THEN /\ touch' = [active |-> TRUE, drags |-> "slider", from |-> t]
          /\ \E f \in Fractions : Stored(t.on, SliderValue(t.on, f))
          /\ Rendered(mode, nav)
          /\ UNCHANGED <<mode, nav, portrait>>
     ELSE /\ touch' = [active |-> TRUE, drags |-> "nothing", from |-> t]
          /\ UNCHANGED <<mode, nav, view, portrait, current>>

\* The rows of the last layout: a slider that is gone from them scrolls.
DragSlider ==
  /\ touch.drags = "slider"
  /\ ShowsRows(view) /\ touch.from.on \in ToSet(Visible(view.place))
  /\ \E f \in Fractions : Stored(touch.from.on, SliderValue(touch.from.on, f))
  /\ Rendered(mode, nav)
  /\ UNCHANGED <<mode, nav, portrait, touch>>

\* A finger that moved more than ten pixels up or down scrolls.
Scroll ==
  /\ touch.drags = "nothing" \/ ~(ShowsRows(view) /\ touch.from.on \in ToSet(Visible(view.place)))
  /\ touch' = [touch EXCEPT !.drags = IF touch.drags = "slider" THEN "slider" ELSE "scroll"]
  /\ Rendered(mode, nav)
  /\ UNCHANGED <<mode, nav, portrait, current>>

TouchMotion == IsOpen /\ touch.active /\ (DragSlider \/ Scroll)

SelectCategory(c) == nav' = [nav EXCEPT !.category = c, !.index = 0]
DrillDown(c) == nav' = [nav EXCEPT !.category = c, !.detail = TRUE, !.index = 0]
\* Seeded fault: the selection is kept.
NavClearOnly == [nav EXCEPT !.query = 0]

NavClear == [nav EXCEPT !.query = 0, !.index = 0]
NavBack == IF Searching(nav) THEN NavClear
           ELSE IF nav.detail THEN [nav EXCEPT !.detail = FALSE, !.index = 0] ELSE nav

\* The switch of handle_touch_up.
Tap(t) ==
  \/ /\ t.kind \in {"Close", "Minimize", "Maximize"}
     /\ CASE t.kind = "Close" -> CloseWindow
          [] t.kind = "Minimize" -> Minimize
          [] t.kind = "Maximize" -> IF mode = "Maximized" THEN Restore ELSE Maximize
     /\ UNCHANGED <<nav, current>>
  \/ /\ t.kind \in {"Back", "Clear", "Category"}
     /\ CASE t.kind = "Back" -> nav' = NavBack
          [] t.kind = "Clear" -> nav' = NavClear
          [] t.kind = "Category" ->
               IF view.portrait THEN DrillDown(t.on[1]) ELSE SelectCategory(t.on[1])
     /\ Rendered(mode, nav') /\ UNCHANGED <<mode, current>>
  \/ /\ t.kind \in {"Toggle", "Option"} \/ (t.kind = "Action" /\ nav.category = "About")
     /\ CASE t.kind = "Toggle" -> Stored(t.on, Flipped(t.on))
          [] t.kind = "Option" -> Stored(t.on, [str |-> Find(t.on).options[t.nth]])
          [] t.kind = "Action" -> current' = [k \in Keys |-> Find(k).default]
     /\ Rendered(mode, nav) /\ UNCHANGED <<mode, nav>>
  \/ /\ \/ t.kind \in {"None", "Titlebar", "SearchBar", "Content", "Slider"}
        \/ t.kind = "Action" /\ nav.category # "About"
     /\ UNCHANGED <<mode, nav, view, current>>

\* Where handle_touch_up is told that the finger is.
LiftTargets ==
  IF Lifts = "origin" THEN {Outside}
  ELSE IF touch.from \in Targets(view) THEN {touch.from} ELSE Targets(view) \cup {Outside}

TouchUp ==
  /\ IsOpen /\ touch.active
  /\ touch' = NoTouch
  /\ IF touch.drags = "nothing" THEN \E t \in LiftTargets : Tap(t)
     ELSE UNCHANGED <<mode, nav, view, current>>
  /\ UNCHANGED portrait

TouchCancel == IsOpen /\ touch' = NoTouch /\ UNCHANGED <<mode, nav, view, portrait, current>>

-----------------------------------------------------------------------------
(* Keys. *)

Selected == IF nav.index < Len(Visible(nav)) THEN {Visible(nav)[nav.index + 1]} ELSE {}
OfType(types) == {k \in Selected : Find(k).type \in types}

Escape ==
  IF Searching(nav) THEN nav' = NavClear /\ Rendered(mode, nav') /\ UNCHANGED <<mode, current>>
  ELSE IF nav.detail THEN nav' = NavBack /\ Rendered(mode, nav') /\ UNCHANGED <<mode, current>>
  ELSE CloseWindow /\ UNCHANGED <<nav, current>>

Type(n) == /\ n \in DOMAIN Finds \cup {0}
           /\ nav' = [nav EXCEPT !.query = n, !.index = 0]
           /\ Rendered(mode, nav') /\ UNCHANGED <<mode, current>>

Activate ==
  /\ \E k \in OfType({"Bool", "Enum"}) :
       Stored(k, IF Find(k).type = "Bool" THEN Flipped(k) ELSE NextOption(k))
  /\ Rendered(mode, nav) /\ UNCHANGED <<mode, nav>>

Backspace == Searching(nav) /\ Type(nav.query - 1)
Space == IF ~Searching(nav) /\ OfType({"Bool", "Enum"}) # {} THEN Activate ELSE Type(nav.query + 1)

Arrow(up) ==
  /\ Len(Visible(nav)) > 0
  /\ nav' = [nav EXCEPT !.index = (@ + IF up THEN Len(Visible(nav)) - 1 ELSE 1) % Len(Visible(nav))]
  /\ Rendered(mode, nav') /\ UNCHANGED <<mode, current>>

\* One step, held to the bound it goes towards: the other one is left to
\* validation, which refuses a number beyond it.
Stepped(k, sign) ==
  LET n == NumberOf(current[k]) + sign * Find(k).step
  IN  IF sign = 1 THEN (IF n > Find(k).hi THEN Find(k).hi ELSE n)
      ELSE IF n < Find(k).lo THEN Find(k).lo ELSE n

Step(sign) ==
  /\ \E k \in OfType({"Int", "Double"}) : Stored(k, Numeric(k, Stepped(k, sign)))
  /\ Rendered(mode, nav) /\ UNCHANGED <<mode, nav>>

Key ==
  /\ IsOpen
  /\ Escape \/ Backspace \/ Activate \/ Space \/ Type(nav.query + 1)
       \/ Arrow(TRUE) \/ Arrow(FALSE) \/ Step(1) \/ Step(-1)
  /\ UNCHANGED <<portrait, touch>>

-----------------------------------------------------------------------------
FingerStep == (\E t \in Targets(view) \cup {Outside} : TouchDown(t))
                \/ TouchMotion \/ TouchUp \/ TouchCancel
WindowNext == Open \/ DisplayChanges \/ FingerStep \/ Key

WindowSpec == WindowInit /\ [][WindowNext]_windowVars

-----------------------------------------------------------------------------
WindowTypeOK ==
  /\ mode \in Modes /\ portrait \in BOOLEAN
  /\ nav \in [category : ToSet(Categories), detail : BOOLEAN,
               query : DOMAIN Finds \cup {0}, index : Nat]
  /\ touch.drags \in {"nothing", "slider", "scroll"}
  /\ DOMAIN current = Keys

(* The selected row exists, whatever was typed, cleared, opened or left    *)
(* since it was selected: the keys act on a setting that is on the screen. *)
SelectionInRange == nav.index = 0 \/ nav.index < Len(Visible(nav))

(* Sliders and arrow keys agree on the values a number can take, whatever *)
(* a file edited by hand gave it: no control leaves a number outside of    *)
(* its bounds, a finger puts it on a whole number of steps, and a key      *)
(* keeps what it is off them, or puts it on them at a bound.               *)
NumbersKeepSteps ==
  [][\A k \in Keys :
       current'[k] # current[k] /\ Find(k).type \in {"Int", "Double"} =>
         /\ NumberOf(current'[k]) \in Find(k).lo .. Find(k).hi
         /\ \/ NumberOf(current'[k]) % Find(k).step = 0
            \/ /\ Key
               /\ NumberOf(current'[k]) % Find(k).step = NumberOf(current[k]) % Find(k).step
    ]_windowVars

(* The hit tests of an open window use the geometry of its mode: a window  *)
(* that was maximized, minimized, closed and opened again, or turned with  *)
(* the display, is not hit where it used to be.                            *)
LayoutFollowsMode ==
  /\ view.portrait = portrait
  /\ IsOpen => view.maximized = (mode = "Maximized")

=============================================================================

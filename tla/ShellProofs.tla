----------------------------- MODULE ShellProofs -----------------------------
(***************************************************************************)
(* Proofs about the parts of the shell that call each other back: Overlays,  *)
(* and then Taskbar.                                                        *)
(*                                                                          *)
(* In Overlays the callbacks of the components call each other, and between  *)
(* two calls of one handler the invariant need not hold: a component is open *)
(* before its callback closes the others.  So there are two sorts of lemmas:  *)
(* what closing a component does to any state, and that each whole operation *)
(* leads from a good state to a good one.                                    *)
(*                                                                          *)
(* In Taskbar it is the events of the registry that nest.  There, too, some  *)
(* lemmas say what an event does to a state in which not everything fits     *)
(* (Heard, UpToDate), the others that a whole handler leads from a settled   *)
(* state to a settled one.                                                   *)
(***************************************************************************)
EXTENDS Overlays, Taskbar, FiniteSetTheorems, SequenceTheorems, TLAPS

LauncherStates == {"Closed", "Opening", "Open", "Searching", "Launching", "LaunchFailed", "Closing"}

\* What a component may remember of a finger.
Places ==
  {Untouched, "nothing", "popup", "dismiss", "gone", "leave", "stay", "bar", "item", "window", "edge",
   "middle", "held", "dragged", "swiped", "scrolled", "notifications", "settings", "other", "outside",
   "scrim", "search", "clear", "app", "broken app"}

\* The states a handler passes through.
Uis == [launcher : LauncherStates, switcher : {"Closed", "Open"}, panel : {"Closed", "Open"},
        center : {"Closed", "Open"}, settings : SettingsModes, popups : BOOLEAN, overlay : BOOLEAN,
        press : [Parts -> Places]]

Modal(u) ==
  /\ CenterOpen(u) => ~(LauncherOpen(u) \/ SwitcherOpen(u) \/ PanelOpen(u))
  /\ ~(SwitcherOpen(u) /\ PanelOpen(u))
Follows(u) == u.overlay = Shown(u)

\* The states between two handlers.
Good(u) == u \in Uis /\ Modal(u) /\ Follows(u)

IInv == Good(ui) /\ fingers \in 0 .. MaxFingers

-----------------------------------------------------------------------------
(* What the operations that close do to any state.                          *)

\* The four components that exclude each other are in these states.
Four(u, launcher, switcher, panel, center) ==
  u.launcher = launcher /\ u.switcher = switcher /\ u.panel = panel /\ u.center = center

LEMMA DrawnIs ==
  ASSUME NEW u \in Uis
  PROVE  /\ Drawn(u) \in Uis /\ Follows(Drawn(u))
         /\ Four(Drawn(u), u.launcher, u.switcher, u.panel, u.center)
<1>1. Shown(u) \in BOOLEAN
  BY DEF Shown, LauncherOpen, SwitcherOpen, PanelOpen, CenterOpen, SettingsOpen, Uis
<1>2. Drawn(u) \in Uis /\ Drawn(u).overlay = Shown(u)
  BY <1>1 DEF Drawn, Uis
<1>3. Shown(Drawn(u)) = Shown(u)
  BY DEF Drawn, Uis, Shown, LauncherOpen, SwitcherOpen, PanelOpen, CenterOpen, SettingsOpen
<1>4. Four(Drawn(u), u.launcher, u.switcher, u.panel, u.center)
  BY DEF Drawn, Uis, Four
<1>5. QED
  BY <1>2, <1>3, <1>4 DEF Follows

LEMMA CloseCenterIs ==
  ASSUME NEW u \in Uis
  PROVE  /\ CloseCenter(u) \in Uis /\ (Follows(u) => Follows(CloseCenter(u)))
         /\ Four(CloseCenter(u), u.launcher, u.switcher, u.panel, "Closed")
<1> DEFINE v == [u EXCEPT !.center = "Closed"]
<1>1. v \in Uis /\ Four(v, u.launcher, u.switcher, u.panel, "Closed")
  BY DEF Uis, Four
<1>2. CASE CenterOpen(u)
  <2>1. CloseCenter(u) = Drawn(v)
    BY <1>2 DEF CloseCenter
  <2> HIDE DEF v
  <2>2. QED
    BY <1>1, <2>1, DrawnIs DEF Four
<1>3. CASE ~CenterOpen(u)
  BY <1>3 DEF CloseCenter, CenterOpen, Uis, Four
<1>4. QED
  BY <1>2, <1>3

LEMMA ClosePanelIs ==
  ASSUME NEW u \in Uis
  PROVE  /\ ClosePanel(u) \in Uis /\ (Follows(u) => Follows(ClosePanel(u)))
         /\ Four(ClosePanel(u), u.launcher, u.switcher, "Closed", u.center)
<1> DEFINE v == [u EXCEPT !.panel = "Closed"]
<1>1. v \in Uis /\ Four(v, u.launcher, u.switcher, "Closed", u.center)
  BY DEF Uis, Four
<1>2. CASE u.panel # "Closed"
  <2>1. ClosePanel(u) = Drawn(v)
    BY <1>2 DEF ClosePanel
  <2> HIDE DEF v
  <2>2. QED
    BY <1>1, <2>1, DrawnIs DEF Four
<1>3. CASE u.panel = "Closed"
  BY <1>3 DEF ClosePanel, Uis, Four
<1>4. QED
  BY <1>2, <1>3

LEMMA CloseSwitcherIs ==
  ASSUME NEW u \in Uis
  PROVE  /\ CloseSwitcher(u) \in Uis /\ (Follows(u) => Follows(CloseSwitcher(u)))
         /\ Four(CloseSwitcher(u), u.launcher, "Closed", u.panel, u.center)
<1> DEFINE v == [u EXCEPT !.switcher = "Closed"]
<1>1. v \in Uis /\ Four(v, u.launcher, "Closed", u.panel, u.center)
  BY DEF Uis, Four
<1>2. CASE u.switcher # "Closed"
  <2>1. CloseSwitcher(u) = Drawn(v)
    BY <1>2 DEF CloseSwitcher
  <2> HIDE DEF v
  <2>2. QED
    BY <1>1, <2>1, DrawnIs DEF Four
<1>3. CASE u.switcher = "Closed"
  BY <1>3 DEF CloseSwitcher, Uis, Four
<1>4. QED
  BY <1>2, <1>3

\* What is pressed neither opens nor shows anything.
LEMMA PressedIs ==
  ASSUME NEW u \in Uis, NEW part \in Parts, NEW at \in Places
  PROVE  LET v == Pressed(u, part, at) IN
         /\ v \in Uis /\ (Follows(u) => Follows(v)) /\ (Modal(u) => Modal(v))
         /\ Four(v, u.launcher, u.switcher, u.panel, u.center)
<1> DEFINE v == Pressed(u, part, at)
<1>1. v \in Uis
  BY DEF Pressed, Uis
<1>2. /\ Four(v, u.launcher, u.switcher, u.panel, u.center)
      /\ v.settings = u.settings /\ v.popups = u.popups /\ v.overlay = u.overlay
  BY DEF Pressed, Uis, Four
<1> HIDE DEF v
<1>3. Follows(u) => Follows(v)
  BY <1>2 DEF Four, Follows, Shown, LauncherOpen, SwitcherOpen, PanelOpen, CenterOpen, SettingsOpen
<1>4. Modal(u) => Modal(v)
  BY <1>2 DEF Four, Modal, LauncherOpen, SwitcherOpen, PanelOpen, CenterOpen
<1>5. QED
  BY <1>1, <1>2, <1>3, <1>4 DEF v

\* Where the launcher may go.
LEMMA NextOf ==
  /\ \A l \in LauncherStates \ {"Closed", "Closing"} : "Closing" \in LauncherNext[l]
  /\ \A l \in LauncherStates \ {"Closed"} : "Closed" \in LauncherNext[l]
  /\ LauncherNext["Closed"] = {"Opening", "Open"}
  /\ LauncherNext["Closing"] = {"Closed", "Opening", "Open"}
  /\ \A l \in LauncherStates : LauncherNext[l] \subseteq LauncherStates
  /\ \A l \in {"Closed", "Closing", "Opening"} :
       LauncherNext[l] \cap {"Searching", "Launching", "LaunchFailed"} = {}
BY DEF LauncherNext, LauncherStates

\* A transition of the launcher to a state in which it does not open.
LEMMA LauncherLeaves ==
  ASSUME NEW u \in Uis, NEW l \in LauncherStates \ {"Opening", "Open"}, l \in LauncherNext[u.launcher]
  PROVE  LET v == LauncherTo(u, l) IN
         v \in Uis /\ Follows(v) /\ Four(v, l, u.switcher, u.panel, u.center)
<1> DEFINE moved == [u EXCEPT !.launcher = l]
<1>1. moved \in Uis /\ Four(moved, l, u.switcher, u.panel, u.center)
  BY DEF Uis, Four
<1>2. LauncherTo(u, l) = Drawn(moved)
  BY DEF LauncherTo
<1> HIDE DEF moved
<1>3. QED
  BY <1>1, <1>2, DrawnIs DEF Four

\* A transition that opens it: the center is closed.
LEMMA LauncherOpens ==
  ASSUME NEW u \in Uis, NEW l \in {"Opening", "Open"}, l \in LauncherNext[u.launcher]
  PROVE  LET v == LauncherTo(u, l) IN
         v \in Uis /\ Follows(v) /\ Four(v, l, u.switcher, u.panel, "Closed")
<1> DEFINE moved == [u EXCEPT !.launcher = l]
           shut == CloseCenter(moved)
<1>1. moved \in Uis /\ Four(moved, l, u.switcher, u.panel, u.center)
  BY DEF Uis, Four, LauncherStates
<1>2. LauncherTo(u, l) = Drawn(shut)
  BY DEF LauncherTo
<1> HIDE DEF moved
<1>3. shut \in Uis /\ Four(shut, l, u.switcher, u.panel, "Closed")
  BY <1>1, CloseCenterIs DEF Four
<1> HIDE DEF shut
<1>4. QED
  BY <1>2, <1>3, DrawnIs DEF Four

\* The launcher reaches Closed from everywhere.
LEMMA CloseLauncherIs ==
  ASSUME NEW u \in Uis
  PROVE  LET v == CloseLauncher(u) IN
         /\ v \in Uis /\ (Follows(u) => Follows(v))
         /\ Four(v, "Closed", u.switcher, u.panel, u.center)
<1> DEFINE w == Pressed(u, "launcher", Untouched)
           c == LauncherTo(w, "Closing")
           v == LauncherTo(c, "Closed")
<1>1. CloseLauncher(u) = v
  BY DEF CloseLauncher, Pressed
<1>2. w \in Uis /\ (Follows(u) => Follows(w)) /\ Four(w, u.launcher, u.switcher, u.panel, u.center)
  <2>1. "launcher" \in Parts /\ Untouched \in Places
    BY DEF Parts, Places
  <2>2. QED
    BY <2>1, PressedIs
<1> HIDE DEF w
<1>3. CASE w.launcher = "Closed"
  <2>1. "Closing" \notin LauncherNext[w.launcher] /\ "Closed" \notin LauncherNext[w.launcher]
    BY <1>3, NextOf
  <2>2. c = w
    BY <2>1 DEF LauncherTo
  <2>3. v = w
    BY <2>1, <2>2 DEF LauncherTo
  <2> HIDE DEF v
  <2>4. QED
    BY <1>1, <1>2, <1>3, <2>3 DEF Four
<1>4. CASE w.launcher # "Closed"
  <2>1. w.launcher \in LauncherStates
    BY <1>2 DEF Uis
  <2>2. c \in Uis /\ Four(c, "Closing", u.switcher, u.panel, u.center)
    <3>1. CASE w.launcher = "Closing"
      <4>1. c = w
        BY <3>1, NextOf DEF LauncherTo
      <4>2. QED
        BY <1>2, <3>1, <4>1 DEF Four
    <3>2. CASE w.launcher # "Closing"
      <4>1. "Closing" \in LauncherNext[w.launcher] /\ "Closing" \in LauncherStates \ {"Opening", "Open"}
        BY <1>4, <2>1, <3>2, NextOf DEF LauncherStates
      <4>2. c \in Uis /\ Four(c, "Closing", w.switcher, w.panel, w.center)
        BY <1>2, <4>1, LauncherLeaves
      <4> HIDE DEF c
      <4>3. QED
        BY <1>2, <4>2 DEF Four
    <3>3. QED
      BY <3>1, <3>2
  <2> HIDE DEF c
  <2>3. "Closed" \in LauncherNext[c.launcher] /\ "Closed" \in LauncherStates \ {"Opening", "Open"}
    BY <2>2, NextOf DEF Four, LauncherStates
  <2>4. v \in Uis /\ Four(v, "Closed", c.switcher, c.panel, c.center) /\ Follows(v)
    BY <2>2, <2>3, LauncherLeaves
  <2> HIDE DEF v
  <2>5. QED
    BY <1>1, <2>2, <2>4 DEF Four
<1>5. QED
  BY <1>3, <1>4

-----------------------------------------------------------------------------
(* Each operation leads from a good state to a good one.                    *)

LEMMA GoodFrom ==
  ASSUME NEW u \in Uis, Follows(u),
         \/ u.center = "Closed" /\ ("Closed" \in {u.switcher, u.panel})
         \/ /\ u.center = "Open" /\ u.switcher = "Closed" /\ u.panel = "Closed"
            /\ u.launcher \in {"Closed", "Closing", "Opening"}
  PROVE  Good(u)
BY DEF Good, Modal, CenterOpen, LauncherOpen, SwitcherOpen, PanelOpen

\* What the prover needs to know of a good state.
LEMMA GoodIs ==
  ASSUME NEW u, Good(u)
  PROVE  /\ u \in Uis /\ Follows(u)
         /\ u.launcher \in LauncherStates /\ u.switcher \in {"Closed", "Open"}
         /\ u.panel \in {"Closed", "Open"} /\ u.center \in {"Closed", "Open"}
         /\ "Closed" \in {u.switcher, u.panel}
         /\ u.center = "Open" => /\ u.switcher = "Closed" /\ u.panel = "Closed"
                                 /\ u.launcher \in {"Closed", "Closing", "Opening"}
<1>1. u \in Uis /\ Follows(u) /\ Modal(u)
  BY DEF Good
<1>2. /\ u.launcher \in LauncherStates /\ u.switcher \in {"Closed", "Open"}
      /\ u.panel \in {"Closed", "Open"} /\ u.center \in {"Closed", "Open"}
  BY <1>1 DEF Uis
<1>3. QED
  BY <1>1, <1>2 DEF Modal, CenterOpen, LauncherOpen, SwitcherOpen, PanelOpen, LauncherStates

LEMMA PressedGood ==
  ASSUME NEW u, Good(u), NEW part \in Parts, NEW at \in Places
  PROVE  Good(Pressed(u, part, at))
BY PressedIs DEF Good

LEMMA CloseCenterGood == \A u : Good(u) => Good(CloseCenter(u))
<1> SUFFICES ASSUME NEW u, Good(u) PROVE Good(CloseCenter(u))
  OBVIOUS
<1>1. QED
  BY GoodIs, CloseCenterIs, GoodFrom DEF Four

LEMMA ClosePanelGood == \A u : Good(u) => Good(ClosePanel(u))
<1> SUFFICES ASSUME NEW u, Good(u) PROVE Good(ClosePanel(u))
  OBVIOUS
<1>1. QED
  BY GoodIs, ClosePanelIs, GoodFrom DEF Four

LEMMA CloseSwitcherGood == \A u : Good(u) => Good(CloseSwitcher(u))
<1> SUFFICES ASSUME NEW u, Good(u) PROVE Good(CloseSwitcher(u))
  OBVIOUS
<1>1. QED
  BY GoodIs, CloseSwitcherIs, GoodFrom DEF Four

LEMMA CloseLauncherGood == \A u : Good(u) => Good(CloseLauncher(u))
<1> SUFFICES ASSUME NEW u, Good(u) PROVE Good(CloseLauncher(u))
  OBVIOUS
<1>1. QED
  BY GoodIs, CloseLauncherIs, GoodFrom DEF Four

\* A launcher that is open cannot be anywhere else but where the center is closed.
LEMMA LauncherToGood ==
  ASSUME NEW u, Good(u), NEW l \in LauncherStates
  PROVE  Good(LauncherTo(u, l))
<1> DEFINE v == LauncherTo(u, l)
<1>1. CASE l \notin LauncherNext[u.launcher]
  BY <1>1 DEF LauncherTo
<1>2. CASE l \in LauncherNext[u.launcher] /\ l \in {"Opening", "Open"}
  <2>1. v \in Uis /\ Follows(v) /\ Four(v, l, u.switcher, u.panel, "Closed")
    BY <1>2, GoodIs, LauncherOpens
  <2> HIDE DEF v
  <2>2. QED
    BY <2>1, GoodIs, GoodFrom DEF Four, v
<1>3. CASE l \in LauncherNext[u.launcher] /\ l \notin {"Opening", "Open"}
  <2>1. v \in Uis /\ Follows(v) /\ Four(v, l, u.switcher, u.panel, u.center)
    BY <1>3, GoodIs, LauncherLeaves
  <2>2. u.launcher \in {"Closed", "Closing", "Opening"} => l \in {"Closed", "Closing", "Opening"}
    <3>1. ASSUME u.launcher \in {"Closed", "Closing", "Opening"}
          PROVE  l \notin {"Searching", "Launching", "LaunchFailed"}
      BY <1>3, <3>1, NextOf
    <3>2. QED
      BY <1>3, <3>1 DEF LauncherStates
  <2> HIDE DEF v
  <2>3. QED
    BY <2>1, <2>2, GoodIs, GoodFrom DEF Four, v
<1>4. QED
  BY <1>1, <1>2, <1>3

LEMMA OpenLauncherGood == \A u : Good(u) => Good(OpenLauncher(u))
BY LauncherToGood DEF OpenLauncher, LauncherStates

LEMMA SearchGood == \A u : Good(u) => Good(SearchStarts(u)) /\ Good(SearchStops(u))
BY LauncherToGood DEF SearchStarts, SearchStops, LauncherStates

\* The callbacks close the launcher if it is open; else it stays where it is not.
LEMMA LauncherShutIs ==
  ASSUME NEW u \in Uis
  PROVE  LET v == LauncherShut(u) IN
         /\ v \in Uis /\ v.launcher \in {"Closed", "Closing", "Opening"}
         /\ Four(v, v.launcher, u.switcher, u.panel, u.center)
<1>1. CASE LauncherOpen(u)
  BY <1>1, CloseLauncherIs DEF LauncherShut, Four
<1>2. CASE ~LauncherOpen(u)
  BY <1>2 DEF LauncherShut, LauncherOpen, Four, Uis, LauncherStates
<1>3. QED
  BY <1>1, <1>2

LEMMA OpenSwitcherGood ==
  ASSUME NEW u, Good(u)
  PROVE  Good(OpenSwitcher(u))
<1> DEFINE a == [u EXCEPT !.switcher = "Open"]
           b == LauncherShut(a)
           c == ClosePanel(b)
           d == CloseCenter(c)
           e == Drawn(d)
<1>1. CASE SwitcherOpen(u)
  BY <1>1 DEF OpenSwitcher
<1>2. CASE ~SwitcherOpen(u)
  <2>1. a \in Uis /\ OpenSwitcher(u) = e
    BY <1>2, GoodIs DEF Uis, OpenSwitcher
  <2> HIDE DEF a
  <2>2. b \in Uis
    BY <2>1, LauncherShutIs
  <2> HIDE DEF b
  <2>3. c \in Uis /\ c.panel = "Closed"
    BY <2>2, ClosePanelIs DEF Four
  <2> HIDE DEF c
  <2>4. d \in Uis /\ d.panel = "Closed" /\ d.center = "Closed"
    BY <2>3, CloseCenterIs DEF Four
  <2> HIDE DEF d
  <2>5. e \in Uis /\ Follows(e) /\ e.panel = "Closed" /\ e.center = "Closed"
    BY <2>4, DrawnIs DEF Four
  <2> HIDE DEF e
  <2>6. Good(e)
    BY <2>5, GoodFrom
  <2>7. QED
    BY <2>1, <2>6
<1>3. QED
  BY <1>1, <1>2

LEMMA OpenPanelGood ==
  ASSUME NEW u, Good(u)
  PROVE  Good(OpenPanel(u))
<1> DEFINE a == [u EXCEPT !.panel = "Open"]
           b == LauncherShut(a)
           c == CloseSwitcher(b)
           d == CloseCenter(c)
           e == Drawn(d)
<1>1. CASE PanelOpen(u)
  BY <1>1 DEF OpenPanel
<1>2. CASE ~PanelOpen(u)
  <2>1. a \in Uis /\ OpenPanel(u) = e
    BY <1>2, GoodIs DEF Uis, OpenPanel
  <2> HIDE DEF a
  <2>2. b \in Uis
    BY <2>1, LauncherShutIs
  <2> HIDE DEF b
  <2>3. c \in Uis /\ c.switcher = "Closed"
    BY <2>2, CloseSwitcherIs DEF Four
  <2> HIDE DEF c
  <2>4. d \in Uis /\ d.switcher = "Closed" /\ d.center = "Closed"
    BY <2>3, CloseCenterIs DEF Four
  <2> HIDE DEF d
  <2>5. e \in Uis /\ Follows(e) /\ e.switcher = "Closed" /\ e.center = "Closed"
    BY <2>4, DrawnIs DEF Four
  <2> HIDE DEF e
  <2>6. Good(e)
    BY <2>5, GoodFrom
  <2>7. QED
    BY <2>1, <2>6
<1>3. QED
  BY <1>1, <1>2

LEMMA OpenCenterGood ==
  ASSUME NEW u, Good(u)
  PROVE  Good(OpenCenter(u))
<1> DEFINE a == [u EXCEPT !.center = "Open"]
           b == LauncherShut(a)
           c == CloseSwitcher(b)
           d == ClosePanel(c)
           e == Drawn(d)
           L == {"Closed", "Closing", "Opening"}
<1>1. CASE CenterOpen(u)
  BY <1>1 DEF OpenCenter
<1>2. CASE ~CenterOpen(u)
  <2>1. a \in Uis /\ a.center = "Open" /\ OpenCenter(u) = e
    BY <1>2, GoodIs DEF Uis, OpenCenter
  <2> HIDE DEF a
  <2>2. b \in Uis /\ b.center = "Open" /\ b.launcher \in L
    BY <2>1, LauncherShutIs DEF Four
  <2> HIDE DEF b
  <2>3. c \in Uis /\ c.center = "Open" /\ c.launcher \in L /\ c.switcher = "Closed"
    BY <2>2, CloseSwitcherIs DEF Four
  <2> HIDE DEF c
  <2>4. d \in Uis /\ d.center = "Open" /\ d.launcher \in L /\ d.switcher = "Closed" /\ d.panel = "Closed"
    BY <2>3, ClosePanelIs DEF Four
  <2> HIDE DEF d
  <2>5. /\ e \in Uis /\ Follows(e) /\ e.center = "Open" /\ e.launcher \in L
        /\ e.switcher = "Closed" /\ e.panel = "Closed"
    BY <2>4, DrawnIs DEF Four
  <2> HIDE DEF e
  <2>6. Good(e)
    BY <2>5, GoodFrom
  <2>7. QED
    BY <2>1, <2>6
<1>3. QED
  BY <1>1, <1>2

\* The Settings window closes all four when it opens, and none when it closes.
LEMMA SettingsToGood ==
  ASSUME NEW u, Good(u), NEW mode \in SettingsModes
  PROVE  Good(SettingsTo(u, mode))
<1> DEFINE a == [u EXCEPT !.settings = mode]
           b == LauncherShut(a)
           c == CloseSwitcher(b)
           d == ClosePanel(c)
           e == CloseCenter(d)
<1>1. CASE u.settings = mode
  BY <1>1 DEF SettingsTo
<1>2. a \in Uis /\ Four(a, u.launcher, u.switcher, u.panel, u.center)
  BY GoodIs DEF Uis, Four
<1>3. CASE u.settings # mode /\ ~SettingsOpen(a)
  <2>1. SettingsTo(u, mode) = Drawn(a)
    BY <1>3 DEF SettingsTo
  <2> HIDE DEF a
  <2>2. QED
    BY <1>2, <2>1, DrawnIs, GoodIs, GoodFrom DEF Four
<1>4. CASE u.settings # mode /\ SettingsOpen(a)
  <2>1. SettingsTo(u, mode) = Drawn(e)
    BY <1>4 DEF SettingsTo
  <2> HIDE DEF a
  <2>2. b \in Uis
    BY <1>2, LauncherShutIs
  <2> HIDE DEF b
  <2>3. c \in Uis /\ c.switcher = "Closed"
    BY <2>2, CloseSwitcherIs DEF Four
  <2> HIDE DEF c
  <2>4. d \in Uis /\ d.switcher = "Closed"
    BY <2>3, ClosePanelIs DEF Four
  <2> HIDE DEF d
  <2>5. e \in Uis /\ e.switcher = "Closed" /\ e.center = "Closed"
    BY <2>4, CloseCenterIs DEF Four
  <2> HIDE DEF e
  <2>6. Drawn(e) \in Uis /\ Follows(Drawn(e)) /\ Drawn(e).switcher = "Closed" /\ Drawn(e).center = "Closed"
    BY <2>5, DrawnIs DEF Four
  <2>7. Good(Drawn(e))
    BY <2>6, GoodFrom
  <2>8. QED
    BY <2>1, <2>7
<1>5. QED
  BY <1>1, <1>3, <1>4

LEMMA OpenSettingsGood == \A u : Good(u) => Good(OpenSettings(u))
BY SettingsToGood DEF OpenSettings, SettingsModes

-----------------------------------------------------------------------------
(* The touches.                                                             *)

LEMMA LauncherDownGood ==
  ASSUME NEW u, Good(u), NEW at \in LauncherPlaces
  PROVE  Good(LauncherDown(u, at))
<1> DEFINE held == Pressed(u, "launcher", at)
<1>1. Good(held)
  <2>1. at \in Places /\ "launcher" \in Parts
    BY DEF LauncherPlaces, Places, Parts
  <2>2. QED
    BY <2>1, PressedGood
<1> HIDE DEF held
<1>2. LauncherDown(u, at) \in {held, CloseLauncher(held), SearchStops(held), SearchStarts(held)}
  BY DEF LauncherDown, held
<1>3. QED
  BY <1>1, <1>2, CloseLauncherGood, SearchGood

LEMMA DesktopDownGood ==
  ASSUME NEW u, Good(u), NEW v \in DesktopDown(u)
  PROVE  Good(v)
<1>1. {"status", "dock", "desktop", "window"} \subseteq Parts
  BY DEF Parts
<1>2. {"bar", "item", "edge", "middle", "window", Untouched} \subseteq Places
  BY DEF Places
<1>3. Good(Pressed(u, "status", "bar")) /\ Good(Pressed(u, "dock", "item"))
  BY <1>1, <1>2, PressedGood
<1>4. ASSUME NEW d \in {"edge", "middle"}, NEW w \in {"window", Untouched}
      PROVE  Good(Pressed(Pressed(u, "desktop", d), "window", w))
  <2>1. Good(Pressed(u, "desktop", d))
    BY <1>1, <1>2, PressedGood
  <2>2. QED
    BY <1>1, <1>2, <2>1, PressedGood
<1>5. QED
  BY <1>3, <1>4 DEF DesktopDown

LEMMA OverlayDownGood ==
  ASSUME NEW u, Good(u), NEW v \in OverlayDown(u)
  PROVE  Good(v)
<1>1. /\ {"switcher", "panel", "launcher", "settings"} \subseteq Parts
      /\ {"held", "window"} \subseteq Places /\ PanelPlaces \subseteq Places
  BY DEF Parts, Places, PanelPlaces
<1>2. CASE v = Pressed(u, "switcher", "held") \/ v = Pressed(u, "settings", "window")
  BY <1>1, <1>2, PressedGood
<1>3. CASE \E p \in PanelPlaces : v = Pressed(u, "panel", p)
  BY <1>1, <1>3, PressedGood
<1>4. CASE \E p \in LauncherPlaces : v = LauncherDown(u, p)
  BY <1>4, LauncherDownGood
<1>5. CASE v \in DesktopDown(u)
  BY <1>5, DesktopDownGood
<1>6. QED
  BY <1>2, <1>3, <1>4, <1>5 DEF OverlayDown

LEMMA DownsGood ==
  ASSUME NEW u, Good(u), NEW v \in Downs(u)
  PROVE  Good(v)
<1>1. "note" \in Parts /\ {"popup", "dismiss", "nothing"} \subseteq Places /\ NotePlaces \subseteq Places
  BY DEF Parts, Places, NotePlaces
<1>2. CASE \E p \in {"popup", "dismiss"} \cup NotePlaces : v = Pressed(u, "note", p)
  BY <1>1, <1>2, PressedGood
<1>3. CASE v \in OverlayDown(Pressed(u, "note", "nothing"))
  <2>1. Good(Pressed(u, "note", "nothing"))
    BY <1>1, PressedGood
  <2>2. QED
    BY <1>3, <2>1, OverlayDownGood
<1>4. QED
  BY <1>2, <1>3 DEF Downs

LEMMA MotionsGood ==
  ASSUME NEW u, Good(u), NEW v \in Motions(u)
  PROVE  Good(v)
<1>1. {"note", "switcher", "panel", "launcher", "dock"} \subseteq Parts
  BY DEF Parts
<1>2. {"dismiss", "held", "dragged", "swiped", "scrolled"} \subseteq Places /\ PanelPlaces \subseteq Places
  BY DEF Places, PanelPlaces
<1>3. CASE v = u \/ v = Pressed(u, "note", "dismiss")
  BY <1>1, <1>2, <1>3, PressedGood
<1>4. ASSUME NEW part \in Parts, NEW to \in SUBSET Places, v \in Moves(u, part, to)
      PROVE  Good(v)
  BY <1>4, PressedGood DEF Moves
<1>5. \/ v = u \/ v = Pressed(u, "note", "dismiss")
      \/ v \in Moves(u, "switcher", {"held", "dragged"})
      \/ v \in Moves(u, "panel", {"swiped"} \cup PanelPlaces)
      \/ v \in Moves(u, "launcher", {"scrolled"}) \/ v \in Moves(u, "dock", {"scrolled"})
  BY DEF Motions
<1>6. QED
  BY <1>1, <1>2, <1>3, <1>4, <1>5

\* A popup comes or goes, or what is shown is drawn again.
LEMMA PopupsGood ==
  ASSUME NEW u, Good(u), NEW left \in BOOLEAN
  PROVE  Good(Drawn([u EXCEPT !.popups = left]))
<1>1. [u EXCEPT !.popups = left] \in Uis
  BY GoodIs DEF Uis
<1>2. Four([u EXCEPT !.popups = left], u.launcher, u.switcher, u.panel, u.center)
  BY GoodIs DEF Uis, Four
<1>3. QED
  BY <1>1, <1>2, DrawnIs, GoodIs, GoodFrom DEF Four

LEMMA DrawnGood == \A u : Good(u) => Good(Drawn(u))
<1> SUFFICES ASSUME NEW u, Good(u) PROVE Good(Drawn(u))
  OBVIOUS
<1>1. QED
  BY DrawnIs, GoodIs, GoodFrom DEF Four

LEMMA NoteUpGood ==
  ASSUME NEW u, Good(u), NEW v \in NoteUp(u)
  PROVE  Good(v)
<1> DEFINE free == Pressed(u, "note", Untouched)
<1>1. Good(free)
  BY PressedGood DEF Parts, Places
<1>2. \/ \E left \in {u.popups, FALSE} : v = Drawn([free EXCEPT !.popups = left])
      \/ v = Drawn(CloseCenter(free)) \/ v = Drawn(free)
  BY DEF NoteUp
<1> HIDE DEF free
<1>3. u.popups \in BOOLEAN
  BY GoodIs DEF Uis
<1>4. ASSUME NEW left \in {u.popups, FALSE}
      PROVE  Good(Drawn([free EXCEPT !.popups = left]))
  <2>1. left \in BOOLEAN
    BY <1>3
  <2>2. QED
    BY <1>1, <2>1, PopupsGood
<1>5. QED
  BY <1>1, <1>2, <1>4, CloseCenterGood, DrawnGood

LEMMA SwitcherUpGood ==
  ASSUME NEW u, Good(u)
  PROVE  Good(SwitcherUp(u))
<1>1. Good(Pressed(u, "switcher", Untouched))
  BY PressedGood DEF Parts, Places
<1>2. QED
  BY <1>1, CloseSwitcherGood DEF SwitcherUp

LEMMA PanelUpGood ==
  ASSUME NEW u, Good(u)
  PROVE  Good(PanelUp(u))
<1> DEFINE free == Pressed(u, "panel", Untouched)
<1>1. Good(free)
  BY PressedGood DEF Parts, Places
<1>2. PanelUp(u) \in {ClosePanel(free), OpenCenter(ClosePanel(free)), OpenSettings(ClosePanel(free)), free}
  BY DEF PanelUp
<1> HIDE DEF free
<1>3. Good(ClosePanel(free))
  BY <1>1, ClosePanelGood
<1>4. QED
  BY <1>1, <1>2, <1>3, OpenCenterGood, OpenSettingsGood

LEMMA StatusUpGood ==
  ASSUME NEW u, Good(u)
  PROVE  Good(StatusUp(u))
<1>1. Good(Pressed(u, "status", Untouched))
  BY PressedGood DEF Parts, Places
<1>2. QED
  BY <1>1, ClosePanelGood, OpenPanelGood DEF StatusUp, TogglePanel

LEMMA LaunchedGood ==
  ASSUME NEW u, Good(u), NEW at
  PROVE  Good(Launched(u, at))
<1> DEFINE going == LauncherTo(u, "Launching")
<1>1. Launched(u, at) \in {CloseLauncher(LauncherTo(going, "Closing")),
                           CloseLauncher(OpenSettings(CloseLauncher(going))),
                           LauncherTo(going, "LaunchFailed"), u}
  BY DEF Launched
<1>2. Good(going)
  BY LauncherToGood DEF LauncherStates
<1> HIDE DEF going
<1>3. Good(LauncherTo(going, "Closing")) /\ Good(LauncherTo(going, "LaunchFailed"))
  BY <1>2, LauncherToGood DEF LauncherStates
<1>4. Good(CloseLauncher(LauncherTo(going, "Closing")))
  BY <1>3, CloseLauncherGood
<1>5. Good(CloseLauncher(OpenSettings(CloseLauncher(going))))
  BY <1>2, CloseLauncherGood, OpenSettingsGood
<1>6. QED
  BY <1>1, <1>3, <1>4, <1>5

LEMMA LauncherUpGood ==
  ASSUME NEW u, Good(u)
  PROVE  Good(LauncherUp(u))
<1>1. "launcher" \in Parts /\ Untouched \in Places
  BY DEF Parts, Places
<1>2. QED
  BY <1>1, LaunchedGood, PressedGood DEF LauncherUp

\* What is pressed elsewhere may be forgotten too.
LEMMA LetsGo ==
  ASSUME NEW u, Good(u), NEW p \in [Parts -> Places]
  PROVE  Good([u EXCEPT !.press = p])
<1> DEFINE v == [u EXCEPT !.press = p]
<1>1. v \in Uis
  BY GoodIs DEF Uis
<1>2. /\ Four(v, u.launcher, u.switcher, u.panel, u.center)
      /\ v.settings = u.settings /\ v.popups = u.popups /\ v.overlay = u.overlay
  BY GoodIs DEF Uis, Four
<1> HIDE DEF v
<1>3. Follows(v)
  BY <1>2, GoodIs DEF Four, Follows, Shown, LauncherOpen, SwitcherOpen, PanelOpen, CenterOpen, SettingsOpen
<1>4. Good(v)
  BY <1>1, <1>2, <1>3, GoodIs, GoodFrom DEF Four
<1>5. QED
  BY <1>4 DEF v

LEMMA DesktopLetsGoGood ==
  ASSUME NEW u, Good(u)
  PROVE  Good(DesktopLetsGo(u))
<1> DEFINE p == [u.press EXCEPT !["dock"] = Untouched, !["window"] = Untouched, !["desktop"] = Untouched]
<1>1. p \in [Parts -> Places]
  <2>1. u.press \in [Parts -> Places]
    BY GoodIs DEF Uis
  <2>2. Untouched \in Places
    BY DEF Places
  <2>3. QED
    BY <2>1, <2>2
<1>2. DesktopLetsGo(u) = [u EXCEPT !.press = p]
  BY GoodIs DEF DesktopLetsGo, Uis
<1> HIDE DEF p
<1>3. QED
  BY <1>1, <1>2, LetsGo

LEMMA BelowUpGood ==
  ASSUME NEW u, Good(u)
  PROVE  Good(BelowUp(u))
<1>1. Good(Pressed(u, "settings", Untouched))
  BY PressedGood DEF Parts, Places
<1>2. Good(DesktopUp(u))
  BY DesktopLetsGoGood, OpenLauncherGood DEF DesktopUp
<1>3. QED
  BY <1>1, <1>2, LauncherUpGood DEF BelowUp

LEMMA UpsGood ==
  ASSUME NEW u, Good(u), NEW v \in Ups(u)
  PROVE  Good(v)
<1> DEFINE noted == Pressed(u, "note", Untouched)
<1>1. Good(noted)
  BY PressedGood DEF Parts, Places
<1>2. v \in NoteUp(u) \cup {SwitcherUp(noted), PanelUp(noted), BelowUp(StatusUp(noted))}
  BY DEF Ups
<1> HIDE DEF noted
<1>3. QED
  BY <1>1, <1>2, NoteUpGood, SwitcherUpGood, PanelUpGood, StatusUpGood, BelowUpGood

-----------------------------------------------------------------------------
(* The invariant.                                                           *)

LEMMA InitInv == Init => IInv
<1> SUFFICES ASSUME Init PROVE IInv
  OBVIOUS
<1>1. Free \in [Parts -> Places]
  BY DEF Free, Places
<1>2. ui \in Uis
  BY <1>1 DEF Init, Uis, LauncherStates, SettingsModes
<1>3. Follows(ui)
  BY DEF Init, Follows, Shown, LauncherOpen, SwitcherOpen, PanelOpen, CenterOpen, SettingsOpen
<1>4. Good(ui)
  BY <1>2, <1>3, GoodFrom DEF Init
<1>5. fingers \in 0 .. MaxFingers
  BY FingersAssumption DEF Init
<1>6. QED
  BY <1>4, <1>5 DEF IInv

LEMMA TouchPreserves ==
  ASSUME IInv, TouchStep
  PROVE  IInv'
<1>1. Good(ui) /\ fingers \in 0 .. MaxFingers /\ MaxFingers \in Nat
  BY FingersAssumption DEF IInv
<1>2. CASE FingerDown
  BY <1>1, <1>2, DownsGood DEF FingerDown, IInv
<1>3. CASE FingerMoves
  BY <1>1, <1>3, MotionsGood DEF FingerMoves, IInv
<1>4. CASE FingerUp
  BY <1>1, <1>4, UpsGood DEF FingerUp, IInv
<1>5. CASE TouchCancel
  <2> DEFINE noted == Pressed(ui, "note", Untouched)
             p == [noted.press EXCEPT !["panel"] = Untouched, !["status"] = Untouched]
  <2>1. Untouched \in Places /\ {"note", "switcher", "launcher", "settings"} \subseteq Parts
    BY DEF Parts, Places
  <2>2. Good(noted)
    BY <1>1, <2>1, PressedGood
  <2>3. ui' \in {CloseSwitcher(Pressed(noted, "switcher", Untouched)),
                 [noted EXCEPT !.press["panel"] = Untouched, !.press["status"] = Untouched],
                 Pressed(noted, "launcher", Untouched), Pressed(noted, "settings", Untouched),
                 DesktopLetsGo(noted)}
    BY <1>5 DEF TouchCancel
  <2> HIDE DEF noted
  <2>4. Good([noted EXCEPT !.press["panel"] = Untouched, !.press["status"] = Untouched])
    <3>1. noted.press \in [Parts -> Places]
      BY <2>2, GoodIs DEF Uis
    <3>2. p \in [Parts -> Places]
      BY <2>1, <3>1
    <3>3. [noted EXCEPT !.press["panel"] = Untouched, !.press["status"] = Untouched] = [noted EXCEPT !.press = p]
      BY <2>2, GoodIs DEF Uis
    <3> HIDE DEF p
    <3>4. QED
      BY <2>2, <3>2, <3>3, LetsGo
  <2>5. Good(ui')
    BY <2>1, <2>2, <2>3, <2>4, PressedGood, CloseSwitcherGood, DesktopLetsGoGood
  <2>6. QED
    BY <1>1, <1>5, <2>5 DEF TouchCancel, IInv
<1>6. QED
  BY <1>2, <1>3, <1>4, <1>5 DEF TouchStep

LEMMA CallPreserves ==
  ASSUME IInv, CallStep
  PROVE  IInv'
<1>1. Good(ui)
  BY DEF IInv
<1>2. SUFFICES Good(ui') /\ UNCHANGED fingers
  BY <1>2 DEF IInv
<1>3. CASE PopupAppears
  BY <1>1, <1>3, PopupsGood DEF PopupAppears
<1>4. CASE PopupGoes
  <2>1. Good(Pressed(ui, "note", "gone"))
    BY <1>1, PressedGood DEF Parts, Places
  <2>2. PICK u \in {ui, Pressed(ui, "note", "gone")} : ui' = Drawn([u EXCEPT !.popups = FALSE])
    BY <1>4 DEF PopupGoes
  <2>3. QED
    BY <1>1, <1>4, <2>1, <2>2, PopupsGood DEF PopupGoes
<1>5. CASE SwitcherToggle
  BY <1>1, <1>5, CloseSwitcherGood, OpenSwitcherGood DEF SwitcherToggle
<1>6. CASE LauncherToggle
  BY <1>1, <1>6, CloseLauncherGood, OpenLauncherGood DEF LauncherToggle, LauncherToggled
<1>7. CASE CenterToggle
  BY <1>1, <1>7, CloseCenterGood, OpenCenterGood DEF CenterToggle
<1>8. ASSUME NEW mode \in SettingsModes, SettingsCall(mode)
      PROVE  Good(ui') /\ UNCHANGED fingers
  BY <1>1, <1>8, OpenSettingsGood, SettingsToGood DEF SettingsCall
<1>9. CASE SettingsRestore
  BY <1>1, <1>9, SettingsToGood DEF SettingsRestore, SettingsModes
<1>10. QED
  BY <1>3, <1>4, <1>5, <1>6, <1>7, <1>8, <1>9 DEF CallStep

\* The inductive invariant: types, which components exclude each other, and the
\* overlay.  The types are what makes it inductive: the launcher is never in a
\* state from which it would open without its callback.
THEOREM Invariance == Spec => []IInv
<1>1. IInv /\ [Next]_vars => IInv'
  <2>1. IInv /\ UNCHANGED vars => IInv'
    BY DEF IInv, vars
  <2>2. QED
    BY <2>1, TouchPreserves, CallPreserves DEF Next
<1>2. QED
  BY InitInv, <1>1, PTL DEF Spec

\* Whatever callbacks nest, the center is open alone and the switcher never with
\* the panel (the callbacks set up in Application::initialize_components).
THEOREM OneModal == Spec => []ModalsExclude
<1>1. IInv => ModalsExclude
  BY DEF IInv, Good, Modal, ModalsExclude
<1>2. QED
  BY <1>1, Invariance, PTL

\* The overlay is mapped exactly while something is to be seen on it
\* (Application::update_overlay_state).
THEOREM OverlayExact == Spec => []OverlayFollows
<1>1. IInv => OverlayFollows
  BY DEF IInv, Good, Follows, OverlayFollows
<1>2. QED
  BY <1>1, Invariance, PTL

-----------------------------------------------------------------------------
(* Taskbar: what holds between two handlers.                                 *)

Lives == {"Unborn", "Initializing", "Visible", "Closing", "Destroyed", "Gone"}
WindowRecords == [life : Lives, app : Apps \cup {NoApp}, parent : Windows \cup {NoWindow}, minimized : BOOLEAN]
Wins == [Windows -> WindowRecords]
Somewhere == Windows \cup {NoWindow}

\* The states a handler passes through.
Bars ==
  [win : Wins, focus : Somewhere, reg : Somewhere, mru : Seq(Windows),
   desktop : BOOLEAN, dock : [win : Wins, focus : Somewhere],
   switcher : [win : Wins, current : Somewhere, mru : Seq(Windows)],
   open : BOOLEAN, sel : Nat, initial : Somewhere, managerLast : BOOLEAN]

\* Dock and switcher know which windows there are.
Saw(u) == \A w \in Windows : (Open(u.dock, w) <=> Open(u, w)) /\ (Live(u.switcher, w) <=> Live(u, w))

\* The selection is in the list.
InList(u) == u.sel = 0 \/ (u.open /\ u.sel < Cardinality(Primaries(u.switcher)))

\* The window that has the focus is the registry's, and the one used last.
Heads(u) ==
  u.focus # NoWindow =>
    Open(u, u.focus) /\ u.reg = u.focus /\ Len(u.mru) > 0 /\ Head(u.mru) = u.focus

\* Dock and desktop know what has the focus.
Marked(u) == u.focus # NoWindow => u.dock.focus = u.focus /\ u.desktop = DesktopFocused(u)

Settled(u) == u \in Bars /\ Saw(u) /\ InList(u) /\ Heads(u) /\ Marked(u)

TInv == Settled(s)

-----------------------------------------------------------------------------
(* Numbers and lists.                                                        *)

Smaller == OpToRel(<, Nat)

\* The order of the numbers as a relation, as the theorems on well-foundedness take it.
LEMMA SmallerIs == ASSUME NEW m \in Nat, NEW n \in Nat, m < n PROVE <<m, n>> \in Smaller
<1>1. <<m, n>> \in Nat \X Nat
  OBVIOUS
<1> QED BY <1>1 DEF Smaller, OpToRel

\* A set of numbers has a least one (so that CHOOSE finds the first window of an
\* item, remove_window its successor and RemoveFirst its place).
LEMMA HasLeast == ASSUME NEW T, T \subseteq Nat, T # {} PROVE \E x \in T : \A y \in T : x <= y
<1>1. PICK x \in T : \A y \in T : ~(<<y, x>> \in Smaller)
  BY NatLessThanWellFounded, WFMin DEF Smaller
<1>2. ASSUME NEW y \in T PROVE x <= y
  <2>1. y \in Nat /\ x \in Nat
    OBVIOUS
  <2>2. ~(y < x)
    <3>1. ~(<<y, x>> \in Smaller)
      BY <1>1
    <3> QED BY <2>1, <3>1, SmallerIs
  <2> QED BY <2>1, <2>2
<1> QED BY <1>2

\* What the windows are: some of the numbers that are not 0.
LEMMA WindowsAre == /\ Windows \subseteq Nat /\ NoWindow \notin Windows /\ IsFiniteSet(Windows)
                    /\ MaxWindows \in Nat
<1>1. MaxWindows \in Nat
  BY TaskbarAssumption
<1>2. IsFiniteSet(1 .. MaxWindows)
  BY <1>1, FS_Interval
<1> QED BY <1>1, <1>2 DEF Windows, NoWindow

\* The newest of some windows (remove_window).
LEMMA HasGreatest ==
  ASSUME NEW T, T \subseteq Windows, T # {}
  PROVE  (CHOOSE v \in T : \A x \in T : x <= v) \in T
<1> DEFINE M == {MaxWindows - v : v \in T}
<1>1. M \subseteq Nat /\ M # {} /\ \A v \in T : v \in Nat
  <2>1. MaxWindows \in Nat /\ \A v \in T : v \in 1 .. MaxWindows
    BY WindowsAre DEF Windows
  <2>2. \A v \in T : MaxWindows - v \in Nat /\ v \in Nat
    BY <2>1
  <2> QED BY <2>2
<1>2. PICK m \in M : \A n \in M : m <= n
  BY <1>1, HasLeast
<1>3. PICK v \in T : m = MaxWindows - v
  OBVIOUS
<1>4. \A x \in T : x <= v
  <2>1. ASSUME NEW x \in T PROVE x <= v
    <3>1. MaxWindows - v <= MaxWindows - x
      BY <1>2, <1>3
    <3>2. x \in Nat /\ v \in Nat /\ MaxWindows \in Nat
      BY <1>1, WindowsAre
    <3> HIDE DEF M
    <3> QED BY <3>1, <3>2
  <2> QED BY <2>1
<1> QED BY <1>4

\* The first window of an item (activate_item).
LEMMA HasFirst ==
  ASSUME NEW T, T \subseteq Windows, T # {}
  PROVE  (CHOOSE v \in T : \A x \in T : v <= x) \in T
<1>1. T \subseteq Nat
  BY WindowsAre
<1>2. \E v \in T : \A x \in T : v <= x
  BY <1>1, HasLeast
<1> QED BY <1>2

\* The list without a window.
LEMMA RemoveFirstIs ==
  ASSUME NEW q \in Seq(Windows), NEW w
  PROVE  /\ RemoveFirst(q, w) \in Seq(Windows)
         /\ Len(q) > 0 /\ Head(q) # w => /\ Len(RemoveFirst(q, w)) > 0
                                          /\ Head(RemoveFirst(q, w)) = Head(q)
<1>1. Len(q) \in Nat /\ DOMAIN q = 1 .. Len(q) /\ \A i \in 1 .. Len(q) : q[i] \in Windows
  OBVIOUS
<1>2. CASE ~ \E i \in 1 .. Len(q) : q[i] = w
  BY <1>2 DEF RemoveFirst
<1>3. CASE \E i \in 1 .. Len(q) : q[i] = w
  <2> DEFINE I == {i \in 1 .. Len(q) : q[i] = w}
             p == Min(I)
             a == SubSeq(q, 1, p - 1)
             b == SubSeq(q, p + 1, Len(q))
  <2>1. I \subseteq Nat /\ I # {}
    BY <1>1, <1>3
  <2>2. \E x \in I : \A y \in I : x <= y
    BY <2>1, HasLeast
  <2>3. p \in I
    BY <2>2 DEF Min
  <2>4. SelectInSeq(q, LAMBDA v : v = w) = p
    BY <2>1 DEF SelectInSeq
  <2>5. RemoveFirst(q, w) = a \o b
    BY <1>3, <2>4 DEF RemoveFirst, RemoveAt
  <2>6. p \in 1 .. Len(q) /\ q[p] = w
    BY <1>1, <2>3
  <2> HIDE DEF p, I
  <2>7. a \in Seq(Windows) /\ Len(a) = p - 1 /\ \A k \in 1 .. p - 1 : a[k] = q[k]
    BY <1>1, <2>6
  <2>8. b \in Seq(Windows)
    <3>1. p + 1 \in Int /\ Len(q) \in Int /\ \A i \in p + 1 .. Len(q) : q[i] \in Windows
      BY <1>1, <2>6
    <3> QED BY <3>1, SubSeqProperties
  <2> HIDE DEF a, b
  <2>9. /\ a \o b \in Seq(Windows) /\ Len(a \o b) = Len(a) + Len(b)
        /\ \A i \in 1 .. Len(a) + Len(b) : (a \o b)[i] = IF i <= Len(a) THEN a[i] ELSE b[i - Len(a)]
    BY <2>7, <2>8, ConcatProperties
  <2>10. ASSUME Len(q) > 0, Head(q) # w PROVE Len(a \o b) > 0 /\ Head(a \o b) = Head(q)
    <3>1. Head(q) = q[1] /\ p # 1
      BY <1>1, <2>6, <2>10
    <3>2. Len(a) >= 1 /\ Len(b) \in Nat
      BY <1>1, <2>6, <2>7, <2>8, <3>1
    <3>3. Len(a \o b) > 0 /\ (a \o b)[1] = a[1]
      BY <2>9, <3>2
    <3>4. Head(a \o b) = (a \o b)[1] /\ a[1] = q[1]
      BY <2>7, <2>9, <3>2, <3>3
    <3> QED BY <3>1, <3>3, <3>4
  <2> QED BY <2>5, <2>9, <2>10
<1> QED BY <1>2, <1>3

\* A window at the head of the list.
LEMMA PutFirst ==
  ASSUME NEW q \in Seq(Windows), NEW w \in Windows
  PROVE  /\ <<w>> \o q \in Seq(Windows) /\ Len(<<w>> \o q) > 0 /\ Head(<<w>> \o q) = w
<1>1. <<w>> \in Seq(Windows) /\ Len(<<w>>) = 1 /\ <<w>>[1] = w
  OBVIOUS
<1> DEFINE a == <<w>>
<1> HIDE DEF a
<1>2. /\ a \o q \in Seq(Windows) /\ Len(a \o q) = Len(a) + Len(q)
      /\ \A i \in 1 .. Len(a) + Len(q) : (a \o q)[i] = IF i <= Len(a) THEN a[i] ELSE q[i - Len(a)]
  BY <1>1, ConcatProperties DEF a
<1>3. Len(a) = 1 /\ a[1] = w /\ Len(q) \in Nat
  BY <1>1 DEF a
<1>4. Len(a \o q) > 0 /\ (a \o q)[1] = w
  BY <1>2, <1>3
<1>5. Head(a \o q) = (a \o q)[1]
  BY <1>2, <1>4
<1> QED BY <1>2, <1>4, <1>5 DEF a

-----------------------------------------------------------------------------
(* The items of the dock.                                                    *)

\* Whatever the dock saw, its items hold each open window, and one that is not pinned
\* holds no window that another holds.
LEMMA DockPartition ==
  ASSUME NEW v
  PROVE  /\ \A w \in Windows : Open(v, w) => \E item \in DockItems(v) : w \in item.windows
         /\ \A item \in DockItems(v) :
              /\ item.windows \subseteq Windows
              /\ item.active <=> v.focus \in item.windows
              /\ \A w \in item.windows :
                   /\ Open(v, w)
                   /\ \A other \in DockItems(v) :
                        w \in other.windows => other = item \/ (item.pinned /\ other.pinned)
<1> DEFINE P(pin) == DockItem(v, pin, TRUE, Claimed(v, pin))
           U(h) == DockItem(v, IdOf[v.win[h].app], FALSE, Hosted(v, h))
           Hosts == {Host(v, w) : w \in Unpinned(v)}
<1>1. /\ \A pin : P(pin).windows = Claimed(v, pin) /\ (P(pin).active <=> v.focus \in Claimed(v, pin)) /\ P(pin).pinned
      /\ \A h : U(h).windows = Hosted(v, h) /\ (U(h).active <=> v.focus \in Hosted(v, h)) /\ ~U(h).pinned
  BY DEF DockItem
<1>2. \A item : item \in DockItems(v) <=> (\E pin \in Pins : item = P(pin)) \/ (\E h \in Hosts : item = U(h))
  BY DEF DockItems, PinnedItems
<1>3. /\ \A pin \in Pins : \A w \in Claimed(v, pin) : w \in Windows /\ Open(v, w) /\ w \notin Unpinned(v)
      /\ \A w \in Unpinned(v) : w \in Windows /\ Open(v, w)
      /\ \A w \in Windows : Open(v, w) => w \in Unpinned(v) \/ \E pin \in Pins : w \in Claimed(v, pin)
  BY DEF Claimed, Unpinned, Matches
<1>4. \A h, w : w \in Hosted(v, h) <=> w \in Unpinned(v) /\ Host(v, w) = h
  BY DEF Hosted
<1> HIDE DEF P, U
<1>5. ASSUME NEW w \in Windows, Open(v, w) PROVE \E item \in DockItems(v) : w \in item.windows
  <2>1. CASE \E pin \in Pins : w \in Claimed(v, pin)
    BY <1>1, <1>2, <2>1
  <2>2. CASE w \in Unpinned(v)
    <3>1. Host(v, w) \in Hosts /\ w \in Hosted(v, Host(v, w))
      BY <1>4, <2>2
    <3> HIDE DEF Hosts
    <3>2. U(Host(v, w)) \in DockItems(v) /\ w \in U(Host(v, w)).windows
      BY <1>1, <1>2, <3>1
    <3> QED BY <3>2
  <2> QED BY <1>3, <1>5, <2>1, <2>2
<1> HIDE DEF Hosts
<1>6. ASSUME NEW item \in DockItems(v)
      PROVE  /\ item.windows \subseteq Windows
             /\ item.active <=> v.focus \in item.windows
             /\ \A w \in item.windows :
                  /\ Open(v, w)
                  /\ \A other \in DockItems(v) :
                       w \in other.windows => other = item \/ (item.pinned /\ other.pinned)
  <2>1. CASE \E pin \in Pins : item = P(pin)
    <3>1. PICK pin \in Pins : item = P(pin)
      BY <2>1
    <3>2. ASSUME NEW w \in item.windows, NEW other \in DockItems(v), w \in other.windows
          PROVE  other = item \/ (item.pinned /\ other.pinned)
      <4>1. w \notin Unpinned(v) /\ item.pinned
        BY <1>1, <1>3, <3>1, <3>2
      <4>2. CASE \E b \in Pins : other = P(b)
        BY <1>1, <4>1, <4>2
      <4>3. CASE \E h \in Hosts : other = U(h)
        BY <1>1, <1>4, <3>2, <4>1, <4>3
      <4> QED BY <1>2, <4>2, <4>3
    <3> QED BY <1>1, <1>3, <3>1, <3>2
  <2>2. CASE \E h \in Hosts : item = U(h)
    <3>1. PICK h \in Hosts : item = U(h)
      BY <2>2
    <3>2. \A w \in item.windows : w \in Unpinned(v) /\ Host(v, w) = h
      BY <1>1, <1>4, <3>1
    <3>3. ASSUME NEW w \in item.windows, NEW other \in DockItems(v), w \in other.windows PROVE other = item
      <4>1. CASE \E b \in Pins : other = P(b)
        BY <1>1, <1>3, <3>2, <3>3, <4>1
      <4>2. CASE \E g \in Hosts : other = U(g)
        BY <1>1, <1>4, <3>1, <3>2, <3>3, <4>2
      <4> QED BY <1>2, <4>1, <4>2
    <3> QED BY <1>1, <1>3, <3>1, <3>2, <3>3
  <2> QED BY <1>2, <2>1, <2>2
<1> QED BY <1>5, <1>6

-----------------------------------------------------------------------------
(* What the listeners of the registry do to any state.                       *)

\* What they leave alone.
Kept(u, v) ==
  /\ v.win = u.win /\ v.focus = u.focus /\ v.reg = u.reg
  /\ v.open = u.open /\ v.managerLast = u.managerLast

\* Dock and desktop know the state, and the switcher the windows.
UpToDate(u) ==
  /\ Saw(u)
  /\ Open(u, u.focus) => u.dock.focus = u.focus
  /\ u.desktop = DesktopFocused(u)

\* What the models of dock and switcher read in a state is of its type, and holds the
\* windows that are open in it.
LEMMA SightIs ==
  ASSUME NEW u \in Bars
  PROVE  /\ DockSight(u) \in [win : Wins, focus : Somewhere]
         /\ SwitcherSight(u) \in [win : Wins, current : Somewhere, mru : Seq(Windows)]
         /\ \A x \in Windows : /\ Open(DockSight(u), x) <=> Open(u, x)
                               /\ Live(SwitcherSight(u), x) <=> Live(u, x)
         /\ Open(u, u.focus) => DockSight(u).focus = u.focus
<1> DEFINE g == Sight(u)
<1>1. Fresh \in WindowRecords /\ Fresh.life = "Unborn"
  BY DEF Fresh, WindowRecords, Lives
<1>2. u.win \in Wins
  BY DEF Bars
<1>3. g \in Wins /\ \A x \in Windows : g[x] = IF Open(u, x) THEN u.win[x] ELSE Fresh
  BY <1>1, <1>2 DEF Sight, Wins
<1>4. \A x \in Windows : g[x].life = IF Open(u, x) THEN u.win[x].life ELSE "Unborn"
  BY <1>1, <1>3
<1>5. Open(u, u.focus) => u.focus \in Windows
  BY DEF Open, Known
<1>6. Open(u, Current(u)) => Current(u) \in Windows
  BY DEF Open, Known
<1> HIDE DEF g
<1> DEFINE f == IF Open(u, u.focus) THEN u.focus ELSE NoWindow
           c == IF Open(u, Current(u)) THEN Current(u) ELSE NoWindow
<1>7. f \in Somewhere /\ c \in Somewhere /\ u.mru \in Seq(Windows)
  BY <1>5, <1>6 DEF Somewhere, Bars
<1>8. DockSight(u) = [win |-> g, focus |-> f] /\ SwitcherSight(u) = [win |-> g, current |-> c, mru |-> u.mru]
  BY DEF DockSight, SwitcherSight, g
<1> HIDE DEF f, c
<1>9. DockSight(u).win = g /\ DockSight(u).focus = f /\ SwitcherSight(u).win = g
  BY <1>8
<1>10. \A x \in Windows : /\ Open(DockSight(u), x) <=> Open(u, x)
                          /\ Live(SwitcherSight(u), x) <=> Live(u, x)
  BY <1>4, <1>9 DEF Open, Live, Known
<1> QED BY <1>3, <1>7, <1>8, <1>9, <1>10 DEF f

\* The items of the switcher can be counted.
LEMMA PrimariesCounted == ASSUME NEW v PROVE Cardinality(Primaries(v)) \in Nat
<1>1. Primaries(v) \subseteq Windows
  BY DEF Primaries
<1> QED BY <1>1, WindowsAre, FS_Subset, FS_CardinalityType

\* sync_selected_item ends inside the list, or at 0.
LEMMA ClampedIn == ASSUME NEW sel \in Nat, NEW n \in Nat PROVE Clamped(sel, n) \in Nat /\ (Clamped(sel, n) = 0 \/ Clamped(sel, n) < n)
BY DEF Clamped

\* The model of the switcher takes another look, and its controller at the selection.
LEMMA RebuiltIs ==
  ASSUME NEW u \in Bars, InList(u)
  PROVE  LET v == SwitcherRebuilt(u)
         IN  /\ v \in Bars /\ InList(v) /\ Kept(u, v)
             /\ v.dock = u.dock /\ v.desktop = u.desktop /\ v.mru = u.mru /\ v.initial = u.initial
             /\ \A x \in Windows : Live(v.switcher, x) <=> Live(u, x)
             /\ ~u.open => v.sel = u.sel
<1> DEFINE g == SwitcherSight(u)
           N == Cardinality(Primaries(g))
           i == IF u.open THEN Clamped(u.sel, N) ELSE u.sel
           v == SwitcherRebuilt(u)
<1>1. g \in [win : Wins, current : Somewhere, mru : Seq(Windows)] /\ \A x \in Windows : Live(g, x) <=> Live(u, x)
  BY SightIs
<1>2. u.sel \in Nat /\ u.open \in BOOLEAN
  BY DEF Bars
<1>3. i \in Nat /\ (i = 0 \/ (u.open /\ i < N)) /\ (~u.open => i = u.sel)
  <2>1. N \in Nat
    BY PrimariesCounted
  <2> HIDE DEF N
  <2> QED BY <1>2, <2>1, ClampedIn DEF InList
<1>4. v = [u EXCEPT !.switcher = g, !.sel = i]
  BY DEF SwitcherRebuilt
<1> HIDE DEF g, i, v
<1>5. v \in Bars /\ v.switcher = g /\ v.sel = i /\ Kept(u, v)
      /\ v.dock = u.dock /\ v.desktop = u.desktop /\ v.mru = u.mru /\ v.initial = u.initial
  BY <1>1, <1>3, <1>4 DEF Bars, Kept
<1>6. InList(v)
  BY <1>3, <1>5 DEF InList, Kept, N
<1> QED BY <1>1, <1>3, <1>5, <1>6 DEF v

\* What comes of an event that every listener but the manager has heard of.
Heard(u, ev, w, v) ==
  /\ v \in Bars /\ InList(v) /\ Kept(u, v)
  /\ \A x \in Windows : Open(v.dock, x) <=> Open(u, x)
  /\ Open(u, u.focus) => v.dock.focus = u.focus
  /\ ev # "ParentChanged" => \A x \in Windows : Live(v.switcher, x) <=> Live(u, x)
  /\ ev = "ParentChanged" => v.switcher = u.switcher
  /\ ev \in {"ParentChanged", "AppIdChanged"} => v.desktop = u.desktop
  /\ ev \notin {"ParentChanged", "AppIdChanged"} => v.desktop = DesktopFocused(u)
  /\ v.mru = IF ev = "FocusChanged" /\ u.reg = w THEN <<w>> \o RemoveFirst(u.mru, w)
             ELSE IF ev \in {"Closed", "Destroyed"} THEN RemoveFirst(u.mru, w) ELSE u.mru

\* Each listener but the manager, for any event.
LEMMA ObservedIs ==
  ASSUME NEW u \in Bars, InList(u), NEW ev, NEW w \in Windows
  PROVE  Heard(u, ev, w, Observed(u, ev, w))
<1> DEFINE q == IF ev = "FocusChanged" /\ u.reg = w THEN <<w>> \o RemoveFirst(u.mru, w)
                ELSE IF ev \in {"Closed", "Destroyed"} THEN RemoveFirst(u.mru, w) ELSE u.mru
           a == [u EXCEPT !.mru = q]
           b == SwitcherHears(u, ev, w)
           c == DesktopHears(b, ev)
           v == Observed(u, ev, w)
<1>1. q \in Seq(Windows)
  <2>1. u.mru \in Seq(Windows)
    BY DEF Bars
  <2>2. RemoveFirst(u.mru, w) \in Seq(Windows)
    BY <2>1, RemoveFirstIs
  <2>3. <<w>> \o RemoveFirst(u.mru, w) \in Seq(Windows)
    BY <2>2, PutFirst
  <2> QED BY <2>1, <2>2, <2>3
<1> HIDE DEF q
<1>2. a \in Bars /\ a.mru = q /\ Kept(u, a) /\ a.dock = u.dock /\ a.desktop = u.desktop /\ a.initial = u.initial
      /\ a.switcher = u.switcher /\ a.sel = u.sel
  BY <1>1 DEF Bars, Kept
<1>3. InList(a)
  BY <1>2 DEF InList, Kept
<1>4. /\ b \in Bars /\ InList(b) /\ Kept(u, b) /\ b.desktop = u.desktop /\ b.mru = q /\ b.initial = u.initial
      /\ ev # "ParentChanged" => \A x \in Windows : Live(b.switcher, x) <=> Live(u, x)
      /\ ev = "ParentChanged" => b.switcher = u.switcher
  <2>1. CASE ev = "ParentChanged"
    <3>1. b = u /\ q = u.mru
      BY <2>1 DEF SwitcherHears, q
    <3> QED BY <2>1, <3>1 DEF Kept
  <2>2. CASE ev # "ParentChanged"
    <3>1. b = SwitcherRebuilt(a)
      <4>1. u = [u EXCEPT !.mru = u.mru]
        BY DEF Bars
      <4> QED BY <2>2, <4>1 DEF SwitcherHears, q, Recorded, Unrecorded
    <3> HIDE DEF a
    <3>2. \A x \in Windows : Live(a, x) <=> Live(u, x)
      BY <1>2 DEF Kept, Live, Known
    <3>3. /\ b \in Bars /\ InList(b) /\ Kept(a, b) /\ b.desktop = a.desktop /\ b.mru = a.mru /\ b.initial = a.initial
          /\ \A x \in Windows : Live(b.switcher, x) <=> Live(a, x)
      BY <1>2, <1>3, <3>1, RebuiltIs
    <3> HIDE DEF b
    <3> QED BY <1>2, <2>2, <3>2, <3>3 DEF Kept
  <2> QED BY <2>1, <2>2
<1> HIDE DEF a, b
<1> DEFINE d == IF ev \in {"ParentChanged", "AppIdChanged"} THEN u.desktop ELSE DesktopFocused(u)
<1>5. DesktopFocused(b) = DesktopFocused(u) /\ DesktopFocused(b) \in BOOLEAN
  BY <1>4 DEF DesktopFocused, Kept, Live, Known
<1>6. c = [b EXCEPT !.desktop = d]
  <2>1. b = [b EXCEPT !.desktop = b.desktop]
    BY <1>4 DEF Bars
  <2> QED BY <1>4, <1>5, <2>1 DEF DesktopHears
<1>7. d \in BOOLEAN
  BY <1>5 DEF Bars
<1> HIDE DEF d
<1>8. /\ c \in Bars /\ Kept(u, c) /\ c.desktop = d /\ c.mru = q /\ c.switcher = b.switcher /\ c.sel = b.sel
      /\ c.initial = u.initial
  BY <1>4, <1>6, <1>7 DEF Bars, Kept
<1> HIDE DEF c
<1>9. v = [c EXCEPT !.dock = DockSight(c)]
  BY DEF Observed, DockHears, c, b
<1>10. /\ DockSight(c) \in [win : Wins, focus : Somewhere]
       /\ \A x \in Windows : Open(DockSight(c), x) <=> Open(c, x)
       /\ Open(c, c.focus) => DockSight(c).focus = c.focus
  BY <1>8, SightIs
<1> HIDE DEF v
<1>11. /\ v \in Bars /\ Kept(u, v) /\ v.dock = DockSight(c) /\ v.desktop = d /\ v.mru = q
       /\ v.switcher = b.switcher /\ v.sel = b.sel /\ v.initial = u.initial
  BY <1>8, <1>9, <1>10 DEF Bars, Kept
<1>12. \A x : Open(c, x) <=> Open(u, x)
  BY <1>8 DEF Kept, Open, Known
<1>13. InList(v)
  BY <1>4, <1>11 DEF InList, Kept
<1>14. c.focus = u.focus
  BY <1>8 DEF Kept
<1>15. (\A x \in Windows : Open(v.dock, x) <=> Open(u, x)) /\ (Open(u, u.focus) => v.dock.focus = u.focus)
  BY <1>10, <1>11, <1>12, <1>14
<1>16. ev \in {"ParentChanged", "AppIdChanged"} => d = u.desktop
  BY DEF d
<1>17. ev \notin {"ParentChanged", "AppIdChanged"} => d = DesktopFocused(u)
  BY DEF d
<1>18. Heard(u, ev, w, v)
  BY <1>4, <1>11, <1>13, <1>15, <1>16, <1>17 DEF Heard, q
<1> QED BY <1>18 DEF v

-----------------------------------------------------------------------------
(* Who gets the focus, and who hears of it.                                  *)

\* Predicates of the windows only.
LEMMA SameWindows ==
  ASSUME NEW u, NEW v, u.win = v.win
  PROVE  /\ \A x : (Open(u, x) <=> Open(v, x)) /\ (Live(u, x) <=> Live(v, x)) /\ (Known(u, x) <=> Known(v, x))
         /\ u.reg = v.reg => DesktopFocused(u) = DesktopFocused(v)
BY DEF Open, Live, Known, DesktopFocused

\* After an event that all listeners heed, they know how things are.
LEMMA LoudIs ==
  ASSUME NEW u \in Bars, InList(u), NEW ev, ev \notin {"ParentChanged", "AppIdChanged"}, NEW w \in Windows
  PROVE  UpToDate(Observed(u, ev, w))
<1> DEFINE v == Observed(u, ev, w)
<1>1. Heard(u, ev, w, v)
  BY ObservedIs
<1> HIDE DEF v
<1>2. u.win = v.win /\ u.focus = v.focus /\ u.reg = v.reg
  BY <1>1 DEF Heard, Kept
<1>3. /\ Open(u, u.focus) => v.dock.focus = u.focus
      /\ v.desktop = DesktopFocused(u)
      /\ \A x \in Windows : (Open(v.dock, x) <=> Open(u, x)) /\ (Live(v.switcher, x) <=> Live(u, x))
  BY <1>1 DEF Heard
<1> QED BY <1>2, <1>3, SameWindows DEF UpToDate, Saw, v

\* Who is told of the focus is put at the head of the list, if it is the active one.
LEMMA ToldIs ==
  ASSUME NEW u \in Bars, InList(u), NEW w \in Windows
  PROVE  LET v == Told(u, w)
         IN  /\ v \in Bars /\ InList(v) /\ Kept(u, v) /\ UpToDate(v)
             /\ u.reg = w => Len(v.mru) > 0 /\ Head(v.mru) = w
<1> DEFINE ev == "FocusChanged"
           v == Observed(u, ev, w)
           q == IF ev = "FocusChanged" /\ u.reg = w THEN <<w>> \o RemoveFirst(u.mru, w)
                ELSE IF ev \in {"Closed", "Destroyed"} THEN RemoveFirst(u.mru, w) ELSE u.mru
<1>0. ev \notin {"ParentChanged", "AppIdChanged"} /\ (u.reg = w => q = <<w>> \o RemoveFirst(u.mru, w))
  OBVIOUS
<1> HIDE DEF ev
<1>a. Heard(u, ev, w, v)
  BY ObservedIs
<1>2. UpToDate(v)
  BY <1>0, LoudIs
<1> HIDE DEF v
<1>b. v \in Bars /\ InList(v) /\ Kept(u, v) /\ v.mru = q
  BY <1>a DEF Heard
<1> HIDE DEF q
<1>1. v \in Bars /\ InList(v) /\ Kept(u, v) /\ (u.reg = w => v.mru = <<w>> \o RemoveFirst(u.mru, w))
  BY <1>0, <1>b
<1>3. u.mru \in Seq(Windows)
  BY DEF Bars
<1>4. RemoveFirst(u.mru, w) \in Seq(Windows)
  BY <1>3, RemoveFirstIs
<1>5. Len(<<w>> \o RemoveFirst(u.mru, w)) > 0 /\ Head(<<w>> \o RemoveFirst(u.mru, w)) = w
  BY <1>4, PutFirst
<1>6. u.reg = w => Len(v.mru) > 0 /\ Head(v.mru) = w
  BY <1>1, <1>5
<1> QED BY <1>1, <1>2, <1>6 DEF Told, v, ev

\* The registry's active window changes, both windows being announced.
LEMMA SetActiveIs ==
  ASSUME NEW u \in Bars, InList(u), NEW w \in Somewhere
  PROVE  LET v == SetActive(u, w)
         IN  /\ v \in Bars /\ InList(v) /\ v.reg = w
             /\ v.win = u.win /\ v.focus = u.focus /\ v.open = u.open /\ v.managerLast = u.managerLast
             /\ w # NoWindow /\ u.reg # w => UpToDate(v)
<1> DEFINE a == ActiveTold(u)
           b == [a EXCEPT !.reg = w]
           c == ActiveTold(b)
           v == SetActive(u, w)
<1>1. a \in Bars /\ InList(a) /\ Kept(u, a)
  <2>1. CASE u.reg = NoWindow
    BY <2>1 DEF ActiveTold, Kept
  <2>2. CASE u.reg # NoWindow
    <3>1. u.reg \in Windows
      BY <2>2 DEF Bars, Somewhere
    <3> QED BY <2>2, <3>1, ToldIs DEF ActiveTold
  <2> QED BY <2>1, <2>2
<1> HIDE DEF a
<1>2. /\ b \in Bars /\ b.reg = w /\ b.sel = a.sel /\ b.switcher = a.switcher
      /\ b.win = u.win /\ b.focus = u.focus /\ b.open = u.open /\ b.managerLast = u.managerLast
  BY <1>1 DEF Bars, Kept
<1>3. InList(b)
  BY <1>1, <1>2 DEF InList, Kept
<1> HIDE DEF b
<1>4. c \in Bars /\ InList(c) /\ Kept(b, c) /\ (w # NoWindow => UpToDate(c))
  <2>1. CASE w = NoWindow
    BY <1>2, <1>3, <2>1 DEF ActiveTold, Kept
  <2>2. CASE w # NoWindow
    <3>1. w \in Windows
      BY <2>2 DEF Somewhere
    <3>2. c = Told(b, w)
      BY <1>2, <2>2 DEF ActiveTold
    <3> HIDE DEF c
    <3> QED BY <1>2, <1>3, <3>1, <3>2, ToldIs
  <2> QED BY <2>1, <2>2
<1>5. v = IF u.reg = w THEN u ELSE c
  BY DEF SetActive, c, b, a
<1> HIDE DEF v, c
<1> QED BY <1>2, <1>4, <1>5 DEF Kept, v

\* Taking the active mark from a window leaves the focus where it is.
LEMMA DeactivatedIs ==
  ASSUME NEW u \in Bars, InList(u), NEW w
  PROVE  LET v == Deactivated(u, w)
         IN  /\ v \in Bars /\ InList(v)
             /\ v.win = u.win /\ v.focus = u.focus /\ v.open = u.open /\ v.managerLast = u.managerLast
<1> DEFINE a == IF u.reg = w THEN SetActive(u, NoWindow) ELSE u
           v == Deactivated(u, w)
<1>1. NoWindow \in Somewhere
  BY DEF Somewhere
<1>2. /\ a \in Bars /\ InList(a)
      /\ a.win = u.win /\ a.focus = u.focus /\ a.open = u.open /\ a.managerLast = u.managerLast
  BY <1>1, SetActiveIs
<1> HIDE DEF a
<1>3. CASE ~Known(u, w)
  BY <1>3 DEF Deactivated
<1>4. CASE Known(u, w)
  <2>1. w \in Windows
    BY <1>4 DEF Known
  <2>2. v = Told(a, w)
    BY <1>4 DEF Deactivated, a
  <2> HIDE DEF v
  <2>3. v \in Bars /\ InList(v) /\ Kept(a, v)
    BY <1>2, <2>1, <2>2, ToldIs
  <2> QED BY <1>2, <2>3 DEF Kept, v
<1> QED BY <1>3, <1>4

\* Whoever is activated has the focus and everybody knows it, or nothing happens.
LEMMA ActivatedIs ==
  ASSUME NEW u \in Bars, InList(u), NEW w, Known(u, w) => Open(u, w)
  PROVE  LET v == Activated(u, w)
         IN  /\ v \in Bars /\ InList(v)
             /\ v.win = u.win /\ v.open = u.open /\ v.managerLast = u.managerLast
             /\ v = u \/ (v.focus = w /\ Settled(v))
<1> DEFINE a == Deactivated(u, u.focus)
           b == [a EXCEPT !.focus = w]
           c == SetActive(b, w)
           v == Activated(u, w)
<1>1. CASE v = u
  BY <1>1
<1>2. CASE v # u
  <2>1. v = Told(c, w) /\ Known(u, w)
    BY <1>2 DEF Activated
  <2>2. w \in Windows /\ w # NoWindow /\ w \in Somewhere
    BY <2>1, WindowsAre DEF Known, Somewhere
  <2>3. a \in Bars /\ InList(a) /\ a.win = u.win /\ a.open = u.open /\ a.managerLast = u.managerLast
    BY DeactivatedIs
  <2> HIDE DEF a
  <2>4. /\ b \in Bars /\ b.focus = w /\ b.sel = a.sel /\ b.switcher = a.switcher
        /\ b.win = u.win /\ b.open = u.open /\ b.managerLast = u.managerLast
    BY <2>2, <2>3 DEF Bars
  <2>5. InList(b)
    BY <2>3, <2>4 DEF InList
  <2> HIDE DEF b
  <2>6. /\ c \in Bars /\ InList(c) /\ c.reg = w
        /\ c.win = b.win /\ c.focus = b.focus /\ c.open = b.open /\ c.managerLast = b.managerLast
    BY <2>2, <2>4, <2>5, SetActiveIs
  <2> HIDE DEF c, v
  <2>7. v \in Bars /\ InList(v) /\ Kept(c, v) /\ UpToDate(v) /\ Len(v.mru) > 0 /\ Head(v.mru) = w
    BY <2>1, <2>2, <2>6, ToldIs
  <2>8. v.win = u.win /\ v.focus = w /\ v.reg = w /\ v.open = u.open /\ v.managerLast = u.managerLast
    BY <2>4, <2>6, <2>7 DEF Kept
  <2>9. Open(v, w)
    BY <2>1, <2>8, SameWindows
  <2>10. Settled(v)
    BY <2>7, <2>8, <2>9 DEF Settled, UpToDate, Heads, Marked
  <2> QED BY <2>7, <2>8, <2>10 DEF v
<1> QED BY <1>1, <1>2

\* The window that is hidden gives the focus to the next, or to none.
LEMMA HiddenIs ==
  ASSUME NEW u \in Bars, InList(u), NEW w \in Windows, NEW t \in Fallbacks(u, w)
  PROVE  LET v == Hidden(u, w, t)
         IN  /\ v \in Bars /\ InList(v)
             /\ v.win = u.win /\ v.open = u.open /\ v.managerLast = u.managerLast
             /\ v.focus # w
             /\ u.focus # w => v = u
             /\ u.focus = w => Heads(v) /\ Marked(v)
             /\ Saw(u) => Saw(v)
<1> DEFINE a == [u EXCEPT !.focus = NoWindow]
           v == Hidden(u, w, t)
<1>1. CASE u.focus # w
  BY <1>1 DEF Hidden
<1>2. CASE u.focus = w
  <2>1. v = Activated(a, t)
    BY <1>2 DEF Hidden
  <2>2. /\ a \in Bars /\ a.focus = NoWindow /\ a.sel = u.sel /\ a.switcher = u.switcher /\ a.dock = u.dock
        /\ a.win = u.win /\ a.open = u.open /\ a.managerLast = u.managerLast
    BY DEF Bars, Somewhere
  <2>3. InList(a)
    BY <2>2 DEF InList
  <2> HIDE DEF a
  <2>4. t # w /\ (Known(a, t) => Open(a, t))
    <3>1. t = NoWindow \/ (t # w /\ Open(u, t))
      BY DEF Fallbacks
    <3>2. ~Known(a, NoWindow) /\ NoWindow # w
      BY WindowsAre DEF Known
    <3> QED BY <2>2, <3>1, <3>2, SameWindows
  <2> HIDE DEF v
  <2>5. /\ v \in Bars /\ InList(v)
        /\ v.win = a.win /\ v.open = a.open /\ v.managerLast = a.managerLast
        /\ v = a \/ (v.focus = t /\ Settled(v))
    BY <2>1, <2>2, <2>3, <2>4, ActivatedIs
  <2>6. CASE v = a
    <3>1. Heads(v) /\ Marked(v) /\ v.focus # w
      BY <2>2, <2>6, WindowsAre DEF Heads, Marked
    <3>2. Saw(u) => Saw(v)
      BY <2>2, <2>6, SameWindows DEF Saw
    <3> QED BY <1>2, <2>2, <2>5, <3>1, <3>2 DEF v
  <2>7. CASE v.focus = t /\ Settled(v)
    BY <1>2, <2>2, <2>4, <2>5, <2>7 DEF Settled, v
  <2> QED BY <2>5, <2>6, <2>7
<1> QED BY <1>1, <1>2

-----------------------------------------------------------------------------
(* Whole events, the manager's part included.                                *)

\* After a loud event everything fits, provided that the list was not about to lose
\* its head.
LEMMA ObservedSettles ==
  ASSUME NEW u \in Bars, InList(u), Heads(u), NEW w \in Windows, NEW ev,
         ev \notin {"ParentChanged", "AppIdChanged", "FocusChanged"},
         ev \in {"Closed", "Destroyed"} => u.focus # w
  PROVE  Settled(Observed(u, ev, w))
<1> DEFINE v == Observed(u, ev, w)
<1>1. Heard(u, ev, w, v) /\ UpToDate(v)
  BY ObservedIs, LoudIs
<1> HIDE DEF v
<1>2. v.win = u.win /\ v.focus = u.focus /\ v.reg = u.reg
  BY <1>1 DEF Heard, Kept
<1>3. u.mru \in Seq(Windows) /\ (v.mru = u.mru \/ (u.focus # w /\ v.mru = RemoveFirst(u.mru, w)))
  BY <1>1 DEF Heard, Bars
<1>4. ASSUME u.focus # NoWindow PROVE Len(v.mru) > 0 /\ Head(v.mru) = u.focus
  <2>1. Len(u.mru) > 0 /\ Head(u.mru) = u.focus
    BY <1>4 DEF Heads
  <2> QED BY <1>3, <2>1, RemoveFirstIs
<1>5. Heads(v)
  BY <1>2, <1>4, SameWindows DEF Heads
<1> QED BY <1>1, <1>5 DEF Settled, UpToDate, Heard, Heads, Marked, v

\* WindowFocus::handle_window_removed_or_hidden in a settled state.
LEMMA HiddenSettles ==
  ASSUME NEW u, Settled(u), NEW w \in Windows, NEW t \in Fallbacks(u, w)
  PROVE  LET v == Hidden(u, w, t)
         IN  Settled(v) /\ v.focus # w /\ v.win = u.win /\ v.open = u.open
<1> DEFINE v == Hidden(u, w, t)
<1>1. u \in Bars /\ InList(u) /\ Saw(u) /\ Heads(u) /\ Marked(u)
  BY DEF Settled
<1>2. /\ v \in Bars /\ InList(v) /\ v.win = u.win /\ v.open = u.open /\ v.focus # w
      /\ u.focus # w => v = u
      /\ u.focus = w => Heads(v) /\ Marked(v)
      /\ Saw(u) => Saw(v)
  BY <1>1, HiddenIs
<1> HIDE DEF v
<1>3. Heads(v) /\ Marked(v)
  BY <1>1, <1>2
<1> QED BY <1>1, <1>2, <1>3 DEF Settled, v

\* WindowFocus::activate in a settled state.
LEMMA ActivatedSettles ==
  ASSUME NEW u, Settled(u), NEW w, Known(u, w) => Open(u, w)
  PROVE  Settled(Activated(u, w)) /\ Activated(u, w).open = u.open /\ Activated(u, w).win = u.win
<1> DEFINE v == Activated(u, w)
<1>1. u \in Bars /\ InList(u)
  BY DEF Settled
<1>2. v.win = u.win /\ v.open = u.open /\ (v = u \/ Settled(v))
  BY <1>1, ActivatedIs
<1> HIDE DEF v
<1> QED BY <1>2 DEF v

\* The events by which the manager takes the focus away.
Hides(u, ev, w) ==
  ev \in {"Closed", "Destroyed"} \/ (ev \in {"StateChanged", "VisibilityChanged"} /\ u.win[w].minimized)

\* The windows that may be on top depend on the windows only.
LEMMA SameFallbacks == ASSUME NEW u, NEW v, u.win = v.win, NEW w PROVE Fallbacks(u, w) = Fallbacks(v, w)
BY SameWindows DEF Fallbacks

\* An event by which the focus goes away settles even a state in which the window
\* that has it is gone, whether the manager hears it first or last.
LEMMA HidingSettles ==
  ASSUME NEW u \in Bars, InList(u), NEW ev, NEW w \in Windows, NEW t \in Fallbacks(u, w),
         Hides(u, ev, w), u.focus # w => Heads(u)
  PROVE  LET v == Dispatched(u, ev, w, t)
         IN  Settled(v) /\ v.focus # w /\ v.win = u.win /\ v.open = u.open
<1> DEFINE v == Dispatched(u, ev, w, t)
<1>1. \A x : x.win = u.win => ManagerHears(x, ev, w, t) = Hidden(x, w, t)
  BY DEF ManagerHears, Hides
<1>2. ev \notin {"ParentChanged", "AppIdChanged", "FocusChanged"}
  BY DEF Hides
<1>3. CASE u.managerLast
  <2> DEFINE o == Observed(u, ev, w)
  <2>1. Heard(u, ev, w, o) /\ UpToDate(o)
    BY <1>2, ObservedIs, LoudIs
  <2>2. (u.focus # w) => Settled(o)
    BY <1>2, ObservedSettles
  <2>3. v = ManagerHears(o, ev, w, t)
    BY <1>3 DEF Dispatched
  <2> HIDE DEF o, v
  <2>4. o \in Bars /\ InList(o) /\ Saw(o) /\ o.win = u.win /\ o.focus = u.focus /\ o.open = u.open
    BY <2>1 DEF Heard, Kept, UpToDate
  <2>5. t \in Fallbacks(o, w) /\ v = Hidden(o, w, t)
    BY <1>1, <2>3, <2>4, SameFallbacks
  <2>6. CASE u.focus # w
    BY <2>2, <2>4, <2>5, <2>6, HiddenSettles DEF v
  <2>7. CASE u.focus = w
    <3>1. /\ v \in Bars /\ InList(v) /\ v.win = o.win /\ v.open = o.open /\ v.focus # w
          /\ Heads(v) /\ Marked(v) /\ Saw(v)
      BY <2>4, <2>5, <2>7, HiddenIs
    <3> QED BY <2>4, <3>1 DEF Settled, v
  <2> QED BY <2>6, <2>7
<1>4. CASE ~u.managerLast
  <2> DEFINE h == Hidden(u, w, t)
  <2>1. /\ h \in Bars /\ InList(h) /\ h.win = u.win /\ h.open = u.open /\ h.focus # w
        /\ u.focus # w => h = u
        /\ u.focus = w => Heads(h)
    BY HiddenIs
  <2>2. v = Observed(h, ev, w)
    BY <1>1, <1>4 DEF Dispatched
  <2> HIDE DEF h, v
  <2>3. Heads(h)
    BY <2>1
  <2>4. Settled(v)
    BY <1>2, <2>1, <2>2, <2>3, ObservedSettles
  <2>5. Heard(h, ev, w, v)
    BY <2>1, <2>2, ObservedIs
  <2>6. v.win = h.win /\ v.open = h.open /\ v.focus = h.focus
    BY <2>5 DEF Heard, Kept
  <2> QED BY <2>1, <2>4, <2>6 DEF v
<1> QED BY <1>3, <1>4

\* The state of a window that is shown is announced.
LEMMA QuietSettles ==
  ASSUME NEW u \in Bars, InList(u), Heads(u), NEW ev \in {"StateChanged", "VisibilityChanged"},
         NEW w \in Windows, NEW t, ~u.win[w].minimized
  PROVE  LET v == Dispatched(u, ev, w, t)
         IN  Settled(v) /\ v.win = u.win /\ v.open = u.open
<1> DEFINE o == Observed(u, ev, w)
<1>1. Heard(u, ev, w, o) /\ Settled(o)
  BY ObservedIs, ObservedSettles
<1>2. \A x : x.win = u.win => ManagerHears(x, ev, w, t) = x
  BY DEF ManagerHears
<1>3. o.win = u.win /\ o.open = u.open
  BY <1>1 DEF Heard, Kept
<1>4. Dispatched(u, ev, w, t) = o
  <2>1. CASE u.managerLast
    <3>1. Dispatched(u, ev, w, t) = ManagerHears(o, ev, w, t)
      BY <2>1 DEF Dispatched
    <3> HIDE DEF o
    <3> QED BY <1>2, <1>3, <3>1
  <2>2. CASE ~u.managerLast
    <3>1. Dispatched(u, ev, w, t) = Observed(ManagerHears(u, ev, w, t), ev, w)
      BY <2>2 DEF Dispatched
    <3> QED BY <1>2, <3>1
  <2> QED BY <2>1, <2>2
<1> HIDE DEF o
<1> QED BY <1>1, <1>3, <1>4

\* A new window is announced, and gets the focus.
LEMMA CreatedSettles ==
  ASSUME NEW u \in Bars, InList(u), Heads(u), NEW w \in Windows, Open(u, w), NEW t
  PROVE  Settled(Dispatched(u, "Created", w, t))
<1> DEFINE ev == "Created"
<1>1. \A x : ManagerHears(x, ev, w, t) = Activated(x, w)
  BY DEF ManagerHears
<1>2. ev \notin {"ParentChanged", "AppIdChanged", "FocusChanged", "Closed", "Destroyed"}
  OBVIOUS
<1> HIDE DEF ev
<1> DEFINE v == Dispatched(u, ev, w, t)
<1>3. CASE u.managerLast
  <2> DEFINE o == Observed(u, ev, w)
  <2>1. Heard(u, ev, w, o) /\ Settled(o)
    BY <1>2, ObservedIs, ObservedSettles
  <2>2. v = Activated(o, w)
    BY <1>1, <1>3 DEF Dispatched
  <2> HIDE DEF o, v
  <2>3. Open(o, w)
    BY <2>1, SameWindows DEF Heard, Kept
  <2> QED BY <2>1, <2>2, <2>3, ActivatedSettles DEF v, ev
<1>4. CASE ~u.managerLast
  <2> DEFINE h == Activated(u, w)
  <2>1. h \in Bars /\ InList(h) /\ (h = u \/ Settled(h))
    BY ActivatedIs
  <2>2. v = Observed(h, ev, w)
    BY <1>1, <1>4 DEF Dispatched
  <2> HIDE DEF h, v
  <2>3. Heads(h)
    BY <2>1 DEF Settled
  <2>4. Settled(v)
    BY <1>2, <2>1, <2>2, <2>3, ObservedSettles
  <2> QED BY <2>4 DEF v, ev
<1> QED BY <1>3, <1>4

\* The events of an application's name and of a parent: the manager does not heed
\* them, and the desktop or the switcher neither.
LEMMA NamedSettles ==
  ASSUME NEW u, Settled(u), NEW ev \in {"ParentChanged", "AppIdChanged"}, NEW w \in Windows, NEW t
  PROVE  Settled(Dispatched(u, ev, w, t))
<1> DEFINE v == Observed(u, ev, w)
<1>0. u \in Bars /\ InList(u) /\ Saw(u) /\ Heads(u) /\ Marked(u)
  BY DEF Settled
<1>1. Heard(u, ev, w, v)
  BY <1>0, ObservedIs
<1>2. \A x : ManagerHears(x, ev, w, t) = x
  BY DEF ManagerHears
<1>3. Dispatched(u, ev, w, t) = v
  BY <1>2 DEF Dispatched
<1> HIDE DEF v
<1>4. v \in Bars /\ InList(v) /\ v.win = u.win /\ v.focus = u.focus /\ v.reg = u.reg /\ v.mru = u.mru /\ v.desktop = u.desktop
  BY <1>1 DEF Heard, Kept
<1>5. Saw(v)
  <2>1. \A x \in Windows : Open(v.dock, x) <=> Open(v, x)
    BY <1>1, <1>4, SameWindows DEF Heard
  <2>2. \A x \in Windows : Live(v.switcher, x) <=> Live(v, x)
    <3>1. \A x \in Windows : Live(v.switcher, x) <=> Live(u, x)
      BY <1>0, <1>1 DEF Heard, Saw
    <3> QED BY <1>4, <3>1, SameWindows
  <2> QED BY <2>1, <2>2 DEF Saw
<1>6. Heads(v) /\ Marked(v)
  <2>1. CASE u.focus = NoWindow
    BY <1>4, <2>1 DEF Heads, Marked
  <2>2. CASE u.focus # NoWindow
    <3>1. Open(u, u.focus) /\ u.reg = u.focus /\ Len(u.mru) > 0 /\ Head(u.mru) = u.focus
          /\ u.desktop = DesktopFocused(u)
      BY <1>0, <2>2 DEF Heads, Marked
    <3>2. v.dock.focus = v.focus
      BY <1>1, <1>4, <3>1 DEF Heard
    <3> QED BY <1>4, <3>1, <3>2, SameWindows DEF Heads, Marked
  <2> QED BY <2>1, <2>2
<1> QED BY <1>3, <1>4, <1>5, <1>6 DEF Settled

-----------------------------------------------------------------------------
(* The requests of the clients.                                              *)

\* A window changes, and nobody has heard of it yet.
LEMMA WindowPut ==
  ASSUME NEW u, Settled(u), NEW w \in Windows, NEW r \in WindowRecords
  PROVE  LET v == [u EXCEPT !.win[w] = r]
         IN  /\ v \in Bars /\ InList(v) /\ v.win = [u.win EXCEPT ![w] = r] /\ v.win[w] = r
             /\ v.focus = u.focus /\ v.reg = u.reg /\ v.open = u.open
             /\ u.focus # w \/ r.life \notin {"Unborn", "Gone", "Destroyed"} => Heads(v)
             /\ (Open(v, w) <=> Open(u, w)) /\ (Live(v, w) <=> Live(u, w)) => Settled(v)
<1> DEFINE v == [u EXCEPT !.win[w] = r]
<1>1. u \in Bars /\ InList(u) /\ Saw(u) /\ Heads(u) /\ Marked(u) /\ u.win \in [Windows -> WindowRecords]
  BY DEF Settled, Bars, Wins
<1>2. /\ v \in Bars /\ v.win = [u.win EXCEPT ![w] = r] /\ v.win[w] = r
      /\ v.focus = u.focus /\ v.reg = u.reg /\ v.open = u.open /\ v.mru = u.mru /\ v.sel = u.sel
      /\ v.dock = u.dock /\ v.switcher = u.switcher /\ v.desktop = u.desktop
  BY <1>1 DEF Bars, Wins
<1> HIDE DEF v
<1>3. InList(v)
  BY <1>1, <1>2 DEF InList
<1>4. \A x \in Windows : x # w => v.win[x] = u.win[x]
  BY <1>1, <1>2
<1>5. \A x : x # w => (Open(v, x) <=> Open(u, x)) /\ (Live(v, x) <=> Live(u, x))
  BY <1>4 DEF Open, Live, Known
<1>6. ASSUME u.focus # w \/ r.life \notin {"Unborn", "Gone", "Destroyed"} PROVE Heads(v)
  <2>1. u.focus # w => (Open(u, u.focus) => Open(v, u.focus))
    BY <1>5
  <2>2. u.focus = w => (Open(u, u.focus) => Open(v, u.focus))
    BY <1>2, <1>6 DEF Open, Known
  <2> QED BY <1>1, <1>2, <2>1, <2>2 DEF Heads
<1>7. ASSUME (Open(v, w) <=> Open(u, w)) /\ (Live(v, w) <=> Live(u, w)) PROVE Settled(v)
  <2>1. \A x : (Open(v, x) <=> Open(u, x)) /\ (Live(v, x) <=> Live(u, x))
    BY <1>5, <1>7
  <2>2. DesktopFocused(v) = DesktopFocused(u)
    BY <1>2, <2>1 DEF DesktopFocused
  <2>3. Saw(v)
    BY <1>1, <1>2, <2>1 DEF Saw
  <2>4. Heads(v) /\ Marked(v)
    BY <1>1, <1>2, <2>1, <2>2 DEF Heads, Marked
  <2> QED BY <1>2, <1>3, <2>3, <2>4 DEF Settled
<1> QED BY <1>2, <1>3, <1>6, <1>7 DEF v

\* The fields of a window that change.
LEMMA WindowFields ==
  ASSUME NEW u, Settled(u), NEW w \in Windows
  PROVE  /\ u.win[w] \in WindowRecords
         /\ \A x \in Lives : /\ [u.win[w] EXCEPT !.life = x] \in WindowRecords
                             /\ [u.win[w] EXCEPT !.life = x].life = x
                             /\ [u.win[w] EXCEPT !.life = x].minimized = u.win[w].minimized
                             /\ [u EXCEPT !.win[w].life = x] = [u EXCEPT !.win[w] = [u.win[w] EXCEPT !.life = x]]
         /\ \A x \in Apps : /\ [u.win[w] EXCEPT !.app = x] \in WindowRecords
                            /\ [u.win[w] EXCEPT !.app = x].life = u.win[w].life
                            /\ [u EXCEPT !.win[w].app = x] = [u EXCEPT !.win[w] = [u.win[w] EXCEPT !.app = x]]
         /\ \A x \in Somewhere :
              /\ [u.win[w] EXCEPT !.parent = x] \in WindowRecords
              /\ [u.win[w] EXCEPT !.parent = x].life = u.win[w].life
              /\ [u EXCEPT !.win[w].parent = x] = [u EXCEPT !.win[w] = [u.win[w] EXCEPT !.parent = x]]
         /\ \A x \in BOOLEAN :
              /\ [u.win[w] EXCEPT !.minimized = x] \in WindowRecords
              /\ [u.win[w] EXCEPT !.minimized = x].life = u.win[w].life
              /\ [u.win[w] EXCEPT !.minimized = x].minimized = x
              /\ [u EXCEPT !.win[w].minimized = x] = [u EXCEPT !.win[w] = [u.win[w] EXCEPT !.minimized = x]]
<1>1. u.win[w] \in WindowRecords
  BY DEF Settled, Bars, Wins
<1> QED BY <1>1 DEF WindowRecords, Somewhere

\* A window whose life goes on as it was.
LEMMA SameLife ==
  ASSUME NEW u, NEW v, NEW w \in Windows, v.win[w].life = u.win[w].life
  PROVE  (Open(v, w) <=> Open(u, w)) /\ (Live(v, w) <=> Live(u, w))
BY DEF Open, Live, Known

\* The state of a window is announced, whatever it is.
LEMMA StateSettles ==
  ASSUME NEW u \in Bars, InList(u), Heads(u), NEW ev \in {"StateChanged", "VisibilityChanged"},
         NEW w \in Windows, NEW t \in Fallbacks(u, w)
  PROVE  LET v == Dispatched(u, ev, w, t)
         IN  Settled(v) /\ v.win = u.win /\ v.open = u.open
<1>1. CASE u.win[w].minimized
  <2>1. Hides(u, ev, w)
    BY <1>1 DEF Hides
  <2> QED BY <2>1, HidingSettles
<1>2. CASE ~u.win[w].minimized
  BY <1>2, QuietSettles
<1> QED BY <1>1, <1>2

\* get_toplevel creates a window that nobody knew.
LEMMA GetToplevelSettles == ASSUME TInv, NEW w \in Windows, GetToplevel(w) PROVE TInv'
<1> DEFINE u == [s EXCEPT !.win[w].life = "Initializing"]
           r == [s.win[w] EXCEPT !.life = "Initializing"]
<1>0. Settled(s) /\ "Initializing" \in Lives
  BY DEF TInv, Lives
<1>1. u = [s EXCEPT !.win[w] = r] /\ r \in WindowRecords /\ r.life = "Initializing"
  BY <1>0, WindowFields
<1>2. s.focus # w
  <2>1. ~Open(s, w)
    BY DEF GetToplevel, Open, Known
  <2> QED BY <1>0, <2>1, WindowsAre DEF Settled, Heads
<1>3. s' = Dispatched(u, "Created", w, NoWindow)
  BY DEF GetToplevel
<1> HIDE DEF u, r
<1>4. u \in Bars /\ InList(u) /\ Heads(u) /\ u.win[w] = r
  BY <1>0, <1>1, <1>2, WindowPut
<1>5. Open(u, w)
  BY <1>1, <1>4 DEF Open, Known
<1> QED BY <1>3, <1>4, <1>5, CreatedSettles DEF TInv

\* set_app_id is announced to all.
LEMMA SetAppIdSettles == ASSUME TInv, NEW w \in Windows, NEW app \in Apps, SetAppId(w, app) PROVE TInv'
<1> DEFINE u == [s EXCEPT !.win[w].app = app]
           r == [s.win[w] EXCEPT !.app = app]
<1>0. Settled(s)
  BY DEF TInv
<1>1. u = [s EXCEPT !.win[w] = r] /\ r \in WindowRecords /\ r.life = s.win[w].life
  BY <1>0, WindowFields
<1>2. s' = Dispatched(u, "AppIdChanged", w, NoWindow)
  BY DEF SetAppId
<1> HIDE DEF u, r
<1>3. u.win[w] = r
  BY <1>0, <1>1, WindowPut
<1>4. (Open(u, w) <=> Open(s, w)) /\ (Live(u, w) <=> Live(s, w))
  <2>1. u.win[w].life = s.win[w].life
    BY <1>1, <1>3
  <2> QED BY <2>1, SameLife
<1>5. Settled(u)
  BY <1>0, <1>1, <1>4, WindowPut
<1> QED BY <1>2, <1>5, NamedSettles DEF TInv

\* set_parent is kept from the switcher.
LEMMA SetParentSettles ==
  ASSUME TInv, NEW w \in Windows, NEW p \in Windows \cup {NoWindow}, SetParent(w, p) PROVE TInv'
<1> DEFINE u == [s EXCEPT !.win[w].parent = p]
           r == [s.win[w] EXCEPT !.parent = p]
<1>0. Settled(s) /\ p \in Somewhere
  BY DEF TInv, Somewhere
<1>1. u = [s EXCEPT !.win[w] = r] /\ r \in WindowRecords /\ r.life = s.win[w].life
  BY <1>0, WindowFields
<1>2. s' = Dispatched(u, "ParentChanged", w, NoWindow)
  BY DEF SetParent
<1> HIDE DEF u, r
<1>3. u.win[w] = r
  BY <1>0, <1>1, WindowPut
<1>4. (Open(u, w) <=> Open(s, w)) /\ (Live(u, w) <=> Live(s, w))
  <2>1. u.win[w].life = s.win[w].life
    BY <1>1, <1>3
  <2> QED BY <2>1, SameLife
<1>5. Settled(u)
  BY <1>0, <1>1, <1>4, WindowPut
<1> QED BY <1>2, <1>5, NamedSettles DEF TInv

\* The first commit makes a window visible.
LEMMA CommitSettles == ASSUME TInv, NEW w \in Windows, Commit(w) PROVE TInv'
<1> DEFINE u == [s EXCEPT !.win[w].life = "Visible"]
           r == [s.win[w] EXCEPT !.life = "Visible"]
<1>0. Settled(s) /\ "Visible" \in Lives
  BY DEF TInv, Lives
<1>1. u = [s EXCEPT !.win[w] = r] /\ r \in WindowRecords /\ r.life = "Visible"
  BY <1>0, WindowFields
<1>2. PICK t \in Fallbacks(u, w) : s' = Dispatched(u, "VisibilityChanged", w, t)
  BY DEF Commit
<1> HIDE DEF u, r
<1>3. u \in Bars /\ InList(u) /\ Heads(u)
  BY <1>0, <1>1, WindowPut
<1> QED BY <1>2, <1>3, StateSettles DEF TInv

\* A client changes its state.
LEMMA ClientSetMinimizedSettles ==
  ASSUME TInv, NEW w \in Windows, NEW m \in BOOLEAN, ClientSetMinimized(w, m) PROVE TInv'
<1> DEFINE u == [s EXCEPT !.win[w].minimized = m]
           r == [s.win[w] EXCEPT !.minimized = m]
<1>0. Settled(s)
  BY DEF TInv
<1>1. u = [s EXCEPT !.win[w] = r] /\ r \in WindowRecords /\ r.life = s.win[w].life
  BY <1>0, WindowFields
<1>2. PICK t \in Fallbacks(u, w) : s' = Dispatched(u, "StateChanged", w, t)
  BY DEF ClientSetMinimized
<1> HIDE DEF u, r
<1>3. u.win[w] = r
  BY <1>0, <1>1, WindowPut
<1>4. (Open(u, w) <=> Open(s, w)) /\ (Live(u, w) <=> Live(s, w))
  <2>1. u.win[w].life = s.win[w].life
    BY <1>1, <1>3
  <2> QED BY <2>1, SameLife
<1>5. Settled(u)
  BY <1>0, <1>1, <1>4, WindowPut
<1> QED BY <1>2, <1>5, StateSettles DEF TInv, Settled

\* The end of a window: a successor may be announced, but none has the focus.
LEMMA ErasedSettles ==
  ASSUME NEW u, Settled(u), NEW w \in Windows, u.focus # w, u.win[w].life = "Destroyed"
  PROVE  Settled(Erased(u, w))
<1> DEFINE r == [Fresh EXCEPT !.life = "Gone"]
           gone == [u EXCEPT !.win[w] = r]
           left == {v \in Windows : Known(gone, v)}
           none == [gone EXCEPT !.reg = NoWindow]
           heir == CHOOSE v \in left : \A x \in left : x <= v
<1>1. r \in WindowRecords /\ r.life = "Gone"
  BY DEF Fresh, WindowRecords, Lives
<1> HIDE DEF r
<1>2. gone \in Bars /\ InList(gone) /\ gone.win[w] = r /\ gone.focus = u.focus /\ gone.reg = u.reg
  BY <1>1, WindowPut
<1>3. Settled(gone)
  <2>1. ~Open(gone, w) /\ ~Open(u, w) /\ ~Live(gone, w) /\ ~Live(u, w)
    BY <1>1, <1>2 DEF Open, Live, Known
  <2> QED BY <1>1, <2>1, WindowPut
<1>4. Erased(u, w) = IF u.reg # w THEN gone ELSE IF left = {} THEN none ELSE SetActive(none, heir)
  BY DEF Erased, r
<1> HIDE DEF gone
<1>5. CASE u.reg # w
  BY <1>3, <1>4, <1>5
<1>6. CASE u.reg = w
  <2>1. gone.focus = NoWindow
    BY <1>2, <1>3, <1>6 DEF Settled, Heads
  <2>2. /\ none \in Bars /\ none.win = gone.win /\ none.focus = NoWindow /\ none.reg = NoWindow
        /\ none.dock = gone.dock /\ none.switcher = gone.switcher /\ none.sel = gone.sel /\ none.open = gone.open
    BY <1>2, <2>1 DEF Bars, Somewhere
  <2> HIDE DEF none
  <2>3. InList(none) /\ Saw(none) /\ Heads(none) /\ Marked(none)
    BY <1>3, <2>2, SameWindows DEF Settled, InList, Saw, Heads, Marked
  <2>4. CASE left = {}
    BY <1>4, <1>6, <2>2, <2>3, <2>4 DEF Settled
  <2>5. CASE left # {}
    <3>1. heir \in Windows
      <4>1. left \subseteq Windows
        OBVIOUS
      <4> QED BY <2>5, <4>1, HasGreatest
    <3> HIDE DEF heir
    <3> DEFINE v == SetActive(none, heir)
    <3>2. heir \in Somewhere /\ heir # NoWindow
      BY <3>1, WindowsAre DEF Somewhere
    <3>3. v \in Bars /\ InList(v) /\ v.focus = none.focus /\ UpToDate(v)
      BY <2>2, <2>3, <3>2, SetActiveIs
    <3> HIDE DEF v
    <3>4. Settled(v)
      BY <2>2, <3>3 DEF Settled, UpToDate, Heads, Marked
    <3> QED BY <1>4, <1>6, <2>5, <3>4 DEF v
  <2> QED BY <2>4, <2>5
<1> QED BY <1>5, <1>6

\* A client destroys a window; what remains is announced before it is erased.
LEMMA DestroySettles == ASSUME TInv, NEW w \in Windows, DestroyToplevel(w) PROVE TInv'
<1> DEFINE u == [s EXCEPT !.win[w].life = "Destroyed"]
           r == [s.win[w] EXCEPT !.life = "Destroyed"]
<1>0. Settled(s) /\ "Destroyed" \in Lives
  BY DEF TInv, Lives
<1>1. u = [s EXCEPT !.win[w] = r] /\ r \in WindowRecords /\ r.life = "Destroyed"
  BY <1>0, WindowFields
<1>2. PICK t \in Fallbacks(u, w) : s' = Erased(Dispatched(u, "Destroyed", w, t), w)
  BY DEF DestroyToplevel
<1> HIDE DEF u, r
<1>3. u \in Bars /\ InList(u) /\ (u.focus # w => Heads(u)) /\ u.win[w] = r
  BY <1>0, <1>1, WindowPut
<1> DEFINE d == Dispatched(u, "Destroyed", w, t)
<1>4. Hides(u, "Destroyed", w)
  BY DEF Hides
<1>5. Settled(d) /\ d.focus # w /\ d.win = u.win
  BY <1>3, <1>4, HidingSettles
<1> HIDE DEF d
<1>6. d.win[w].life = "Destroyed"
  BY <1>1, <1>3, <1>5
<1> QED BY <1>2, <1>5, <1>6, ErasedSettles DEF TInv, d
-----------------------------------------------------------------------------
(* The WindowManager, the dock and the switcher.                             *)

\* The close of a window is announced before the client answers it.
LEMMA CloseSettles == ASSUME TInv, NEW w \in Windows, Close(w) PROVE TInv'
<1> DEFINE a == [s EXCEPT !.win[w].life = "Closing"]
           r == [s.win[w] EXCEPT !.life = "Closing"]
           u == IF s.win[w].life = "Visible" THEN a ELSE s
<1>0. Settled(s) /\ "Closing" \in Lives
  BY DEF TInv, Lives
<1>1. a = [s EXCEPT !.win[w] = r] /\ r \in WindowRecords /\ r.life = "Closing"
  BY <1>0, WindowFields
<1>2. PICK t \in Fallbacks(u, w) : s' = Dispatched(u, "Closed", w, t)
  BY DEF Close
<1> HIDE DEF a, r
<1>3. a \in Bars /\ InList(a) /\ Heads(a)
  BY <1>0, <1>1, WindowPut
<1>4. u \in Bars /\ InList(u) /\ Heads(u)
  BY <1>0, <1>3 DEF Settled
<1>5. Hides(u, "Closed", w)
  BY DEF Hides
<1> HIDE DEF u
<1> QED BY <1>2, <1>4, <1>5, HidingSettles DEF TInv

\* A click on a window.
LEMMA ActivateSettles == ASSUME TInv, NEW w \in Windows, Activate(w) PROVE TInv'
BY ActivatedSettles DEF TInv, Activate

\* A window may have become minimized or not; all else about windows is as before.
OnlyState(u, w, v) ==
  /\ Settled(v)
  /\ \A x : Open(v, x) <=> Open(u, x)
  /\ \A x : x # w => v.win[x] = u.win[x]

\* The window to fall back on is another one than the one that changes.
LEMMA FallbackStays ==
  ASSUME NEW u, NEW v, NEW w, OnlyState(u, w, v), NEW t \in Fallbacks(u, w)
  PROVE  t \in Fallbacks(v, w)
BY DEF OnlyState, Fallbacks

\* The two events of a window that is minimized or restored: the first one already
\* moves the focus.
LEMMA ToggledSettles ==
  ASSUME NEW u, Settled(u), NEW w \in Windows, NEW m \in BOOLEAN, NEW t \in Fallbacks(u, w)
  PROVE  OnlyState(u, w, Toggled(u, w, m, t))
<1> DEFINE set == [u EXCEPT !.win[w].minimized = m]
           r == [u.win[w] EXCEPT !.minimized = m]
           still == SetActive(set, NoWindow)
           quiet == IF m /\ u.reg = w THEN still ELSE set
           c == Dispatched(quiet, "StateChanged", w, t)
           v == Dispatched(c, "VisibilityChanged", w, t)
<1>1. set = [u EXCEPT !.win[w] = r] /\ r \in WindowRecords /\ r.life = u.win[w].life /\ r.minimized = m
  BY WindowFields
<1> HIDE DEF set, r
<1>2. /\ set \in Bars /\ InList(set) /\ set.win = [u.win EXCEPT ![w] = r] /\ set.win[w] = r
      /\ set.focus = u.focus /\ set.reg = u.reg
  BY <1>1, WindowPut
<1>3. (Open(set, w) <=> Open(u, w)) /\ (Live(set, w) <=> Live(u, w))
  <2>1. set.win[w].life = u.win[w].life
    BY <1>1, <1>2
  <2> QED BY <2>1, SameLife
<1>4. Settled(set)
  BY <1>1, <1>3, WindowPut
<1>5. (\A x : x # w => set.win[x] = u.win[x]) /\ set.win[w].minimized = m
  <2>1. u.win \in [Windows -> WindowRecords]
    BY DEF Settled, Bars, Wins
  <2> QED BY <1>1, <1>2, <2>1
<1>6. \A x : Open(set, x) <=> Open(u, x)
  BY <1>3, <1>5 DEF Open, Known
<1>7. OnlyState(u, w, set)
  BY <1>4, <1>5, <1>6 DEF OnlyState
<1>8. t \in Fallbacks(set, w)
  BY <1>7, FallbackStays
<1>9. still \in Bars /\ InList(still) /\ still.win = set.win /\ still.focus = set.focus
  <2>1. NoWindow \in Somewhere
    BY DEF Somewhere
  <2> QED BY <1>2, <2>1, SetActiveIs
<1> HIDE DEF still
<1>10. /\ quiet \in Bars /\ InList(quiet) /\ quiet.win = set.win
       /\ ~m => quiet = set
       /\ quiet.focus # w => Heads(quiet)
  <2>1. CASE m /\ u.reg = w
    <3>1. quiet = still
      BY <2>1
    <3>2. set.focus # w => set.focus = NoWindow
      BY <1>2, <1>4, <2>1 DEF Settled, Heads
    <3> HIDE DEF quiet
    <3> QED BY <1>9, <2>1, <3>1, <3>2 DEF Heads
  <2>2. CASE ~(m /\ u.reg = w)
    <3>1. quiet = set
      BY <2>2
    <3> HIDE DEF quiet
    <3> QED BY <1>4, <3>1 DEF Settled
  <2> QED BY <2>1, <2>2
<1>11. Toggled(u, w, m, t) = v
  BY DEF Toggled, still, set
<1> HIDE DEF quiet
<1>12. t \in Fallbacks(quiet, w) /\ quiet.win[w].minimized = m
  BY <1>5, <1>8, <1>10, SameFallbacks
<1>13. Settled(c) /\ c.win = quiet.win
  <2>1. CASE m
    <3>1. Hides(quiet, "StateChanged", w)
      BY <1>12, <2>1 DEF Hides
    <3> QED BY <1>10, <1>12, <3>1, HidingSettles
  <2>2. CASE ~m
    <3>1. Heads(quiet)
      BY <1>4, <1>10, <2>2 DEF Settled
    <3> QED BY <1>10, <1>12, <3>1, StateSettles
  <2> QED BY <2>1, <2>2
<1> HIDE DEF c
<1>14. t \in Fallbacks(c, w)
  BY <1>12, <1>13, SameFallbacks
<1>15. Settled(v) /\ v.win = c.win
  <2>1. c \in Bars /\ InList(c) /\ Heads(c)
    BY <1>13 DEF Settled
  <2> QED BY <1>14, <2>1, StateSettles
<1> HIDE DEF v
<1>16. v.win = set.win
  BY <1>10, <1>13, <1>15
<1> QED BY <1>5, <1>6, <1>11, <1>15, <1>16, SameWindows DEF OnlyState

\* WindowManager::minimize.
LEMMA MinimizedSettles ==
  ASSUME NEW u, Settled(u), NEW w \in Windows, NEW t \in Fallbacks(u, w)
  PROVE  Settled(Minimized(u, w, t))
<1> DEFINE a == IF u.win[w].minimized THEN u ELSE Toggled(u, w, TRUE, t)
<1>1. OnlyState(u, w, u)
  BY DEF OnlyState
<1>2. OnlyState(u, w, Toggled(u, w, TRUE, t))
  BY ToggledSettles
<1>3. OnlyState(u, w, a)
  BY <1>1, <1>2
<1>4. Minimized(u, w, t) = Hidden(a, w, t)
  BY DEF Minimized
<1> HIDE DEF a
<1>5. Settled(a) /\ t \in Fallbacks(a, w)
  BY <1>3, FallbackStays DEF OnlyState
<1> QED BY <1>4, <1>5, HiddenSettles

\* WindowStateController::restore_minimized.
LEMMA RestoredSettles ==
  ASSUME NEW u, Settled(u), NEW w \in Windows
  PROVE  OnlyState(u, w, Restored(u, w))
<1>1. OnlyState(u, w, u)
  BY DEF OnlyState
<1>2. NoWindow \in Fallbacks(u, w)
  BY DEF Fallbacks
<1>3. OnlyState(u, w, Toggled(u, w, FALSE, NoWindow))
  BY <1>2, ToggledSettles
<1> QED BY <1>1, <1>3 DEF Restored

\* Minimizing from outside.
LEMMA MinimizeSettles == ASSUME TInv, NEW w \in Windows, Minimize(w) PROVE TInv'
BY MinimizedSettles DEF TInv, Minimize

\* A click on an item of the dock, whose windows are all still there.
LEMMA DockActivateSettles == ASSUME TInv, NEW item \in Dock, DockActivate(item) PROVE TInv'
<1> DEFINE front == CHOOSE w \in item.windows : \A v \in item.windows : w <= v
           target == IF s.focus # NoWindow THEN s.focus ELSE front
           back == Restored(s, front)
<1>0. Settled(s)
  BY DEF TInv
<1>1. item.windows \subseteq Windows /\ \A w \in item.windows : Open(s, w)
  <2>1. item.windows \subseteq Windows /\ \A w \in item.windows : Open(s.dock, w)
    BY DockPartition DEF Dock
  <2> QED BY <1>0, <2>1 DEF Settled, Saw
<1>2. front \in item.windows
  BY <1>1, HasFirst DEF DockActivate
<1>3. IF item.active THEN \E t \in Fallbacks(s, target) : s' = Minimized(s, target, t)
      ELSE s' = Activated(back, front)
  BY DEF DockActivate
<1> HIDE DEF front
<1>4. CASE item.active
  <2>1. target \in Windows
    BY <1>0, <1>1, <1>2 DEF Settled, Heads, Open, Known
  <2> HIDE DEF target
  <2> QED BY <1>0, <1>3, <1>4, <2>1, MinimizedSettles DEF TInv
<1>5. CASE ~item.active
  <2>1. OnlyState(s, front, back)
    BY <1>0, <1>1, <1>2, RestoredSettles
  <2> HIDE DEF back
  <2>2. Settled(back) /\ Open(back, front)
    BY <1>1, <1>2, <2>1 DEF OnlyState
  <2> QED BY <1>3, <1>5, <2>2, ActivatedSettles DEF TInv
<1> QED BY <1>4, <1>5

\* The switcher closes.
LEMMA ShutSettles == ASSUME NEW u, Settled(u) PROVE Settled(Shut(u))
<1> DEFINE v == Shut(u)
<1>1. u \in Bars /\ Saw(u) /\ Heads(u) /\ Marked(u)
  BY DEF Settled
<1>2. /\ v \in Bars /\ v.win = u.win /\ v.focus = u.focus /\ v.reg = u.reg /\ v.mru = u.mru /\ v.sel = 0
      /\ v.dock = u.dock /\ v.desktop = u.desktop /\ v.switcher = u.switcher
  BY <1>1 DEF Bars, Shut, Somewhere
<1> HIDE DEF v
<1>3. InList(v)
  BY <1>2 DEF InList
<1>4. Saw(v) /\ Heads(v) /\ Marked(v)
  BY <1>1, <1>2, SameWindows DEF Saw, Heads, Marked
<1> QED BY <1>2, <1>3, <1>4 DEF Settled, v

\* The switcher takes another look and opens, at the second item if there is one.
LEMMA ShowSwitcherSettles == ASSUME TInv, ShowSwitcher PROVE TInv'
<1> DEFINE u == SwitcherRebuilt(s)
           N == Cardinality(Primaries(u.switcher))
           n == IF N >= 2 THEN 1 ELSE 0
           i == Current(u)
           v == [u EXCEPT !.initial = i, !.sel = n, !.open = TRUE]
<1>1. s \in Bars /\ InList(s) /\ Saw(s) /\ Heads(s) /\ Marked(s)
  BY DEF TInv, Settled
<1>2. s' = v
  BY DEF ShowSwitcher
<1>3. /\ u \in Bars /\ Kept(s, u)
      /\ u.dock = s.dock /\ u.desktop = s.desktop /\ u.mru = s.mru
      /\ \A x \in Windows : Live(u.switcher, x) <=> Live(s, x)
  BY <1>1, RebuiltIs
<1> HIDE DEF u
<1>4. N \in Nat
  BY PrimariesCounted
<1>5. n \in Nat /\ (n = 0 \/ n < N)
  BY <1>4
<1>6. i \in Somewhere
  BY <1>3 DEF Current, Bars, Somewhere
<1> HIDE DEF n, i
<1>7. /\ v \in Bars /\ v.win = s.win /\ v.focus = s.focus /\ v.reg = s.reg /\ v.mru = s.mru /\ v.sel = n
      /\ v.dock = s.dock /\ v.desktop = s.desktop /\ v.switcher = u.switcher /\ v.open = TRUE
  BY <1>3, <1>5, <1>6 DEF Bars, Kept
<1> HIDE DEF v
<1>8. InList(v)
  BY <1>5, <1>7 DEF InList
<1>9. Saw(v)
  BY <1>1, <1>3, <1>7, SameWindows DEF Saw
<1>10. Heads(v) /\ Marked(v)
  BY <1>1, <1>7, SameWindows DEF Heads, Marked
<1> QED BY <1>2, <1>7, <1>8, <1>9, <1>10 DEF TInv, Settled

\* The selection moves inside the list.
LEMMA SelectSettles == ASSUME TInv, NEW i \in 0 .. MaxWindows, Select(i) PROVE TInv'
<1> DEFINE v == [s EXCEPT !.sel = i]
<1>1. s \in Bars /\ Saw(s) /\ Heads(s) /\ Marked(s)
  BY DEF TInv, Settled
<1>2. s' = v /\ s.open /\ i < Cardinality(Primaries(s.switcher)) /\ i \in Nat
  BY WindowsAre DEF Select
<1>3. /\ v \in Bars /\ v.win = s.win /\ v.focus = s.focus /\ v.reg = s.reg /\ v.mru = s.mru /\ v.sel = i
      /\ v.dock = s.dock /\ v.desktop = s.desktop /\ v.switcher = s.switcher /\ v.open = s.open
  BY <1>1, <1>2 DEF Bars
<1> HIDE DEF v
<1>4. InList(v)
  BY <1>2, <1>3 DEF InList
<1>5. Saw(v) /\ Heads(v) /\ Marked(v)
  BY <1>1, <1>3, SameWindows DEF Saw, Heads, Marked
<1> QED BY <1>2, <1>3, <1>4, <1>5 DEF TInv, Settled

\* What the switcher shows is alive, so that it can be activated.
LEMMA ShownIsOpen == ASSUME NEW u, Settled(u), NEW w \in Primaries(u.switcher) PROVE Live(u, w) /\ Open(u, w)
<1>1. w \in Windows /\ Live(u.switcher, w)
  BY DEF Primaries, Switchable
<1>2. Live(u, w)
  BY <1>1 DEF Settled, Saw
<1> QED BY <1>2 DEF Live, Open

\* The selected window, restored if its group is minimized, gets the focus.
LEMMA ActivateSelectedSettles == ASSUME TInv, ActivateSelected PROVE TInv'
<1> DEFINE ws == Primaries(s.switcher)
<1>0. Settled(s)
  BY DEF TInv
<1>1. CASE ws = {}
  BY <1>0, <1>1, ShutSettles DEF ActivateSelected, TInv
<1>2. CASE ws # {}
  <2>1. PICK w \in ws :
          s' = Shut(Activated(IF SwitcherItem(s.switcher, w).minimized THEN Restored(s, w) ELSE s, w))
    BY <1>2 DEF ActivateSelected
  <2> DEFINE back == IF SwitcherItem(s.switcher, w).minimized THEN Restored(s, w) ELSE s
  <2>2. Open(s, w) /\ w \in Windows
    BY <1>0, ShownIsOpen DEF Primaries
  <2>3. OnlyState(s, w, Restored(s, w))
    BY <1>0, <2>2, RestoredSettles
  <2>4. Settled(back) /\ Open(back, w)
    BY <1>0, <2>2, <2>3 DEF OnlyState
  <2>5. s' = Shut(Activated(back, w))
    BY <2>1
  <2> HIDE DEF back
  <2>6. Settled(Activated(back, w))
    BY <2>4, ActivatedSettles
  <2> QED BY <2>5, <2>6, ShutSettles DEF TInv
<1> QED BY <1>1, <1>2

\* Cancelling gives the focus back to the window that was active, if it is still there.
LEMMA CancelSwitcherSettles == ASSUME TInv, CancelSwitcher PROVE TInv'
<1> DEFINE u == IF Open(s, s.initial) THEN Activated(s, s.initial) ELSE s
<1>1. Settled(s)
  BY DEF TInv
<1>2. Settled(u)
  BY <1>1, ActivatedSettles
<1>3. s' = Shut(u)
  BY DEF CancelSwitcher
<1> HIDE DEF u
<1> QED BY <1>2, <1>3, ShutSettles DEF TInv

\* Closing changes no focus.
LEMMA HideSwitcherSettles == ASSUME TInv, HideSwitcher PROVE TInv'
BY ShutSettles DEF TInv, HideSwitcher
-----------------------------------------------------------------------------
(* The theorems.                                                             *)

\* Nothing is shown and nothing is known: the start.
LEMMA TaskbarStarts == TaskbarInit => TInv
<1> SUFFICES ASSUME TaskbarInit PROVE TInv
  OBVIOUS
<1> DEFINE none == [w \in Windows |-> Fresh]
<1>1. PICK last \in BOOLEAN :
        s = [win |-> none, focus |-> NoWindow, reg |-> NoWindow, mru |-> <<>>, desktop |-> TRUE,
             dock |-> [win |-> none, focus |-> NoWindow],
             switcher |-> [win |-> none, current |-> NoWindow, mru |-> <<>>],
             open |-> FALSE, sel |-> 0, initial |-> NoWindow, managerLast |-> last]
  BY DEF TaskbarInit
<1>2. none \in Wins /\ \A w \in Windows : none[w].life = "Unborn"
  BY DEF Fresh, Wins, WindowRecords, Lives
<1> HIDE DEF none
<1>3. NoWindow \in Somewhere /\ <<>> \in Seq(Windows)
  BY DEF Somewhere
<1>4. s \in Bars
  BY <1>1, <1>2, <1>3 DEF Bars
<1>5. Saw(s)
  BY <1>1, <1>2 DEF Saw, Open, Live, Known
<1>6. InList(s) /\ Heads(s) /\ Marked(s)
  BY <1>1 DEF InList, Heads, Marked
<1> QED BY <1>4, <1>5, <1>6 DEF TInv, Settled

\* Every operation leads from a settled state to a settled one.
LEMMA TaskbarStepKeeps == TInv /\ [TaskbarNext]_s => TInv'
<1> SUFFICES ASSUME TInv, [TaskbarNext]_s PROVE TInv'
  OBVIOUS
<1>1. ASSUME NEW w \in Windows, ClientStep(w) PROVE TInv'
  BY <1>1, GetToplevelSettles, CommitSettles, DestroySettles, SetAppIdSettles, SetParentSettles,
     ClientSetMinimizedSettles DEF ClientStep
<1>2. ASSUME NEW w \in Windows, ManagerStep(w) PROVE TInv'
  BY <1>2, CloseSettles, ActivateSettles, MinimizeSettles DEF ManagerStep
<1>3. CASE DockStep
  BY <1>3, DockActivateSettles DEF DockStep
<1>4. CASE SwitcherStep
  BY <1>4, ShowSwitcherSettles, ActivateSelectedSettles, CancelSwitcherSettles, HideSwitcherSettles,
     SelectSettles DEF SwitcherStep
<1>5. CASE UNCHANGED s
  BY <1>5 DEF TInv
<1> QED BY <1>1, <1>2, <1>3, <1>4, <1>5 DEF TaskbarNext

\* The inductive invariant of dock, switcher and desktop holds after every handler,
\* whatever events it has nested.
THEOREM TaskbarInvariance == TaskbarSpec => []TInv
<1> QED BY TaskbarStarts, TaskbarStepKeeps, PTL DEF TaskbarSpec

\* The dock holds every open window and no other, because it has seen the windows that
\* are open, and each in one item unless pinned applications share its app_id, whichever
\* app_ids these match (DockModel::rebuild_items).
THEOREM DockHolds == TaskbarSpec => []DockHoldsWindows
<1>1. TInv => DockHoldsWindows
  <2> SUFFICES ASSUME TInv PROVE DockHoldsWindows
    OBVIOUS
  <2>1. \A w \in Windows : Open(s.dock, w) <=> Open(s, w)
    BY DEF TInv, Settled, Saw
  <2>2. /\ \A w \in Windows : Open(s.dock, w) => \E item \in Dock : w \in item.windows
        /\ \A item \in Dock :
             /\ item.windows \subseteq Windows
             /\ \A w \in item.windows :
                  /\ Open(s.dock, w)
                  /\ \A other \in Dock : w \in other.windows => other = item \/ (item.pinned /\ other.pinned)
    BY DockPartition DEF Dock
  <2> QED BY <2>1, <2>2 DEF DockHoldsWindows
<1> QED BY <1>1, TaskbarInvariance, PTL

\* The window that has the focus heads the list, the items that hold it and no others are
\* marked, and
\* the desktop knows (WindowFocus::activate and the listeners of the registry).
THEOREM FocusIsKnown == TaskbarSpec => []FocusKnown
<1>1. TInv => FocusKnown
  <2> SUFFICES ASSUME TInv, s.focus # NoWindow PROVE FocusKnown
    BY DEF FocusKnown
  <2>1. Len(s.mru) > 0 /\ Head(s.mru) = s.focus /\ s.dock.focus = s.focus /\ s.desktop = DesktopFocused(s)
    BY DEF TInv, Settled, Heads, Marked
  <2>2. \A item \in Dock : item.active <=> s.dock.focus \in item.windows
    BY DockPartition DEF Dock
  <2> QED BY <2>1, <2>2 DEF FocusKnown, DockMarksFocus
<1> QED BY <1>1, TaskbarInvariance, PTL

\* The switcher's selection is in its list and the list is of windows that live
\* (SwitcherModel::rebuild_items, SwitcherController::sync_selected_item).
THEOREM SwitcherOffers == TaskbarSpec => []SwitcherOffersLive
<1>1. TInv => SwitcherOffersLive
  BY ShownIsOpen DEF TInv, Settled, InList, SwitcherOffersLive
<1> QED BY <1>1, TaskbarInvariance, PTL

=============================================================================

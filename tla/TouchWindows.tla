------------------------------ MODULE TouchWindows ------------------------------
(***************************************************************************)
(* Where windows are, and how a finger moves them: the geometry side of     *)
(* WindowManager (WindowStateController, WindowInteraction, placement), the *)
(* touch layer on top of it (TouchInteractionManager with its hit testing   *)
(* and its drag, resize and control helpers), the touch device of the seat, *)
(* and the outputs under both (Displays), as Application wires them.        *)
(*                                                                          *)
(* Each action is one handler run to its end on the main thread.  Focus,    *)
(* z-order and transients are the subject of WindowSystem; here any window  *)
(* under a finger may be the topmost one.                                   *)
(***************************************************************************)
EXTENDS Displays, FiniteSets

CONSTANTS
  Windows, NoWindow,
  Fingers, NoFinger,
  Points,       \* where a finger may go, besides the handles of windows
  Grips,        \* the handles of a window a finger may go down on
  ClientSizes,  \* the minimum and maximum sizes a client may ask for
  ClientRects,  \* the window geometries a client may declare
  Inputs,       \* the kinds of input, besides fingers and new windows, a run explores
  MaxInputs     \* how many inputs a behaviour has, contacts of fingers among them

InputKinds ==
  {"turn",    \* an output changes its transform, mode or scale
   "hotplug", \* outputs come and go
   "state",   \* clients change the state of their windows
   "client",  \* clients declare their window geometry and sizes
   "desktop", \* the dock minimizes, restores and closes; fullscreen is toggled
   "close",   \* windows are destroyed
   "seat"}    \* the seat loses its touch screen and finds it again

GripNames ==
  {"title", "close", "maximize", "minimize", "content", "top", "left", "right", "bottom", "corner"}

\* xdg-shell asks clients for lengths greater than zero; that they keep to it is
\* assumed, the server does not check.
ASSUME TouchAssumption ==
  /\ Inputs \subseteq InputKinds /\ MaxInputs \in Nat
  /\ IsFiniteSet(Windows) /\ NoWindow \notin Windows /\ NoFinger \notin Fingers
  /\ Points \subseteq [x : Int, y : Int] /\ Grips \subseteq GripNames
  /\ ClientSizes \subseteq [w : Int, h : Int]
  /\ ClientRects \subseteq [x : Int, y : Int, w : Nat, h : Nat]

VARIABLES
  win,      \* the Window objects: registration, place in the stacking, state and rectangles
  inter,    \* WindowManager::interaction_
  touch,    \* TouchInteractionManager, with its controllers and its last tap
  recall,   \* what touch handling keeps of the output: policy_'s metrics, the shell's bars
  seat,     \* the touch device: "wired" to Application, "lost", or "deaf"
  inputs    \* how many contacts and other inputs there have been

vars == <<outs, primary, win, inter, touch, recall, seat, inputs>>

WindowStates == {"Normal", "Minimized", "Maximized", "Fullscreen"}

Absent == [open |-> FALSE, stacked |-> FALSE, visible |-> FALSE, state |-> "Normal",
           geom |-> NoRect, saved |-> NoRect, min |-> NoSize, max |-> NoSize]

Open == {w \in Windows : win[w].open}

Origin == [x |-> 0, y |-> 0]

NoInteraction == [type |-> "None", id |-> NoWindow, edge |-> "None", start |-> Origin, initial |-> NoRect,
                  current |-> NoRect, usable |-> NoRect, min |-> NoSize, max |-> NoSize]

NoHit == [id |-> NoWindow, target |-> "None", edge |-> "None", rect |-> NoRect]

\* No contact: active_touch_id_ unset, controllers inactive, state machine idle.
Idle(tap) == [state |-> "Idle", finger |-> NoFinger, hit |-> NoHit, start |-> Origin, at |-> Origin,
              held |-> "none", pressed |-> FALSE, tap |-> tap]

-------------------------------------------------------------------------------
(* WindowStateController and the backend, on one window x in an area a.      *)

Saving(x) == IF x.state = "Normal" THEN x.geom ELSE x.saved

Maximized(x, a) ==
  IF x.state = "Maximized" THEN x
  ELSE [x EXCEPT !.saved = Saving(x), !.geom = a.usable, !.state = "Maximized"]

Fullscreened(x, a) ==
  IF x.state = "Fullscreen" THEN x
  ELSE [x EXCEPT !.saved = Saving(x), !.geom = a.full, !.state = "Fullscreen"]

Minimized(x) == [x EXCEPT !.state = "Minimized", !.visible = FALSE]

\* restore, restore_fullscreen and restore_minimized; the last leaves the geometry.
RestoredWindow(x, a) ==
  CASE x.state \in {"Maximized", "Fullscreen"} ->
         [x EXCEPT !.geom = Restored(a, x.saved, x.min, x.max), !.state = "Normal", !.saved = NoRect]
    [] x.state = "Minimized" -> [x EXCEPT !.state = "Normal", !.visible = TRUE]
    [] x.state = "Normal"    -> x

MaximizeToggled(x, a) == IF x.state = "Maximized" THEN RestoredWindow(x, a) ELSE Maximized(x, a)

FullscreenToggled(x, a) == IF x.state = "Fullscreen" THEN RestoredWindow(x, a) ELSE Fullscreened(x, a)

\* adapt_to_display_change; a minimized window keeps its geometry.
Adapted(x, a) ==
  [x EXCEPT !.geom  = CASE x.state = "Maximized"  -> a.usable
                        [] x.state = "Fullscreen" -> a.full
                        [] x.state = "Normal"     -> Constrain(a, @, x.min)
                        [] x.state = "Minimized"  -> @,
            !.saved = IF @ = NoRect THEN @ ELSE Constrain(a, @, x.min)]

AllAdapted(a) == [w \in Windows |-> IF win[w].open THEN Adapted(win[w], a) ELSE win[w]]

-------------------------------------------------------------------------------
(* WindowInteraction.                                                        *)

\* Seeded fault: a moved window is kept inside by its left edge only.
MoveLeftEdge(i, p) ==
  Rect(Smaller(i.initial.x + p.x - i.start.x, i.usable.x + i.usable.w - 48),
       Between(i.initial.y + p.y - i.start.y, i.usable.y, i.usable.y + i.usable.h - 36), i.initial.w, i.initial.h)

\* update_move with the clamp: 36 pixels of title bar and 48 of width stay inside.
Moved(i, p) ==
  LET g == i.initial
  IN  Rect(Between(g.x + p.x - i.start.x, i.usable.x - g.w + 48, i.usable.x + i.usable.w - 48),
           Between(g.y + p.y - i.start.y, i.usable.y, i.usable.y + i.usable.h - 36), g.w, g.h)

LeftEdges == {"Left", "TopLeft", "BottomLeft"}

RightEdges == {"Right", "TopRight", "BottomRight"}

TopEdges == {"Top", "TopLeft", "TopRight"}

BottomEdges == {"Bottom", "BottomLeft", "BottomRight"}

\* apply_resize_delta: lengths stay between the client's minimum (at least 100) and
\* maximum and the area's; the far edge stays put, the top edge below the status bar.
Resized(i, p) ==
  LET g  == i.initial
      dx == p.x - i.start.x
      dy == p.y - i.start.y
      Length(v, min, max, room) ==
        Smaller(IF max > 0 THEN Smaller(Larger(v, Larger(100, min)), max) ELSE Larger(v, Larger(100, min)), room)
      w  == CASE i.edge \in LeftEdges  -> Length(g.w - dx, i.min.w, i.max.w, i.usable.w)
              [] i.edge \in RightEdges -> Length(g.w + dx, i.min.w, i.max.w, i.usable.w)
              [] OTHER -> g.w
      h  == CASE i.edge \in TopEdges    -> Length(g.h - dy, i.min.h, i.max.h, i.usable.h)
              [] i.edge \in BottomEdges -> Length(g.h + dy, i.min.h, i.max.h, i.usable.h)
              [] OTHER -> g.h
      x  == IF i.edge \in LeftEdges THEN g.x + g.w - w ELSE g.x
      y  == IF i.edge \in TopEdges THEN g.y + g.h - h ELSE g.y
  IN  IF y >= i.usable.y THEN Rect(x, y, w, h)
      ELSE Rect(x, i.usable.y, w, Larger(h - (i.usable.y - y), Larger(100, i.min.h)))

\* WindowInteraction after start_move or start_resize of a window and one update.
Started(id, edge, from, to) ==
  LET i == [type    |-> IF edge = "None" THEN "Moving" ELSE "Resizing",
            id      |-> id, edge |-> edge, start |-> from,
            initial |-> win[id].geom, current |-> win[id].geom,
            usable  |-> PrimaryArea(outs, primary).usable,
            min     |-> IF edge = "None" THEN NoSize ELSE win[id].min,
            max     |-> IF edge = "None" THEN NoSize ELSE win[id].max]
  IN  [i EXCEPT !.current = IF edge = "None" THEN Moved(i, to) ELSE Resized(i, to)]

Updated(i, p) ==
  CASE i.type = "None"     -> i
    [] i.type = "Moving"   -> [i EXCEPT !.current = Moved(i, p)]
    [] i.type = "Resizing" -> [i EXCEPT !.current = Resized(i, p)]

\* end_move, end_resize (g the current rectangle) and cancel_move, cancel_resize (g
\* the initial one), in windows W: nothing when the interaction was reset meanwhile.
Placed(W, g) ==
  IF inter.id = NoWindow THEN W
  ELSE [W EXCEPT ![inter.id].geom = IF W[inter.id].open THEN g ELSE @]

\* WindowManager::on_window_event for a window that is closed or destroyed.
InteractionWithout(id) == IF inter.id = id THEN NoInteraction ELSE inter

-------------------------------------------------------------------------------
(* Hit testing and the shell's bars.                                         *)

\* What touch handling takes from an output: the metrics of its layout class, and
\* (once the shell has laid itself out on it) where its bars are.
Recalled(a, s) ==
  LET ratio == IF a.portrait THEN 90 ELSE 60
      dw    == Smaller(a.safe.w, (a.safe.w * ratio) \div 100)
  IN  [class  |-> a.class,
       status |-> Rect(a.safe.x, a.safe.y, a.safe.w, 40 * s),
       dock   |-> Rect(a.safe.x + (a.safe.w - dw) \div 2, a.safe.y + a.safe.h - 84 * s, dw, 68 * s)]

InBars(p) == Contains(recall.status, p) \/ Contains(recall.dock, p)

\* TouchHitTesting::detect_resize_edge, margin m: corners first, then the sides; the
\* top edge is only six pixels deep.
EdgeAt(g, p, m) ==
  LET near   == /\ g.x - m <= p.x /\ p.x <= g.x + g.w + m
                /\ g.y - m <= p.y /\ p.y <= g.y + g.h + m
      left   == p.x <= g.x + m
      right  == p.x >= g.x + g.w - m
      bottom == p.y >= g.y + g.h - m
      top    == p.y <= g.y + m
  IN  CASE ~near            -> "None"
        [] top /\ left      -> "TopLeft"
        [] top /\ right     -> "TopRight"
        [] bottom /\ left   -> "BottomLeft"
        [] bottom /\ right  -> "BottomRight"
        [] p.y <= g.y + 6   -> "Top"
        [] bottom           -> "Bottom"
        [] left             -> "Left"
        [] right            -> "Right"
        [] OTHER            -> "None"

Controls == <<"Close", "Maximize", "Minimize">>

\* hit_test_window: the three controls from the right end of the header, then the
\* edges (of a window that is not maximized), the header, the content.
HitWindow(id, p) ==
  LET g      == win[id].geom
      m      == Metrics(recall.class, TRUE)
      Button(k) == Rect(g.x + g.w - k * m.control, g.y, m.control, m.title)
      header == Rect(g.x, g.y, g.w, m.title)
      under  == {k \in 1 .. 3 : Contains(Button(k), p)}
      edge   == IF win[id].state = "Maximized" THEN "None" ELSE EdgeAt(g, p, m.resize)
      Hit(target, e, r) == [id |-> id, target |-> target, edge |-> e, rect |-> r]
  IN  CASE win[id].state = "Fullscreen" -> IF Contains(g, p) THEN Hit("Content", "None", g) ELSE NoHit
        [] under # {} -> LET k == CHOOSE k \in under : TRUE IN Hit(Controls[k], "None", Button(k))
        [] edge # "None"       -> Hit("Edge", edge, NoRect)
        [] Contains(header, p) -> Hit("TitleBar", "None", header)
        [] Contains(g, p)      -> Hit("Content", "None", g)
        [] OTHER               -> NoHit

\* Windows in the visible stack.
Touchable == {w \in Open : win[w].stacked /\ win[w].visible /\ win[w].state # "Minimized"}

OnScreen(p) == Contains(PrimaryArea(outs, primary).full, p)

\* The handles of a window: points inside its title bar, controls, edges, content.
GripOf(g, name) ==
  LET At(x, y) == [x |-> x, y |-> y]
  IN  CASE name = "title"    -> At(g.x + 50, g.y + 20)
        [] name = "close"    -> At(g.x + g.w - 30, g.y + 20)
        [] name = "maximize" -> At(g.x + g.w - 70, g.y + 20)
        [] name = "minimize" -> At(g.x + g.w - 110, g.y + 20)
        [] name = "content"  -> At(g.x + g.w \div 2, g.y + 100)
        [] name = "top"      -> At(g.x + 50, g.y + 4)
        [] name = "left"     -> At(g.x + 4, g.y + 100)
        [] name = "right"    -> At(g.x + g.w - 4, g.y + 100)
        [] name = "bottom"   -> At(g.x + g.w \div 2, g.y + g.h - 4)
        [] name = "corner"   -> At(g.x + g.w - 4, g.y + g.h - 4)

Handles == {GripOf(win[w].geom, name) : w \in Touchable, name \in Grips}

-------------------------------------------------------------------------------
Init ==
  /\ DisplaysInit
  /\ win = [w \in Windows |-> Absent]
  /\ inter = NoInteraction
  /\ touch = Idle(NoWindow)
  /\ recall = IF primary = NoOutput
                THEN [class |-> Classified(Size(720, 1280), NoSize), status |-> NoRect, dock |-> NoRect]
                ELSE Recalled(AreaOf(primary, outs[primary]), outs[primary].reserved)
  /\ seat = "wired"
  /\ inputs = 0

(* The touch screen.  Application hands on what is not over one of its bars.  *)

\* A finger goes down on a window while no other contact is active.
TouchDown(f, p) ==
  /\ seat = "wired" /\ touch.finger = NoFinger
  /\ OnScreen(p) /\ ~InBars(p)
  /\ \E w \in Touchable :
       LET hit == HitWindow(w, p)
       IN  /\ hit.target # "None"
           /\ touch' = [touch EXCEPT !.finger = f, !.start = p, !.at = p, !.hit = hit,
                          !.state = CASE hit.target \in {"Close", "Maximize", "Minimize"} -> "ControlPress"
                                      [] hit.target = "Content" -> "WindowFocus"
                                      [] OTHER -> "ContactPending",
                          !.pressed = hit.target \in {"Close", "Maximize", "Minimize"}]
  /\ UNCHANGED <<outs, primary, win, inter, recall, seat>>

Far(p) == LET dx == p.x - touch.start.x  dy == p.y - touch.start.y IN dx * dx + dy * dy >= 100

\* A pending contact that has gone far enough takes hold of the window, if its state
\* allows; a maximized window can be moved, not resized.
TakesHold(p) ==
  LET id == touch.hit.id
  IN  /\ touch.state = "ContactPending" /\ Far(p) /\ win[id].open
      /\ \/ touch.hit.target = "TitleBar" /\ win[id].state \notin {"Minimized", "Fullscreen"}
         \/ touch.hit.target = "Edge" /\ win[id].state = "Normal"

TouchMotion(f, p) ==
  /\ seat = "wired" /\ touch.finger = f
  /\ OnScreen(p) /\ ~Contains(recall.dock, p) /\ p # touch.at
  /\ IF TakesHold(p)
       THEN LET edge == IF touch.hit.target = "Edge" THEN touch.hit.edge ELSE "None"
            IN  /\ inter' = Started(touch.hit.id, edge, touch.start, p)
                /\ touch' = [touch EXCEPT !.at = p, !.state = inter'.type,
                                          !.held = IF edge = "None" THEN "drag" ELSE "resize"]
       ELSE /\ inter' = IF touch.held # "none" THEN Updated(inter, p) ELSE inter
            /\ touch' = [touch EXCEPT !.at = p,
                            !.pressed = touch.state = "ControlPress" /\ Contains(touch.hit.rect, p)]
  /\ UNCHANGED <<outs, primary, win, recall, seat>>

\* The end of any contact: the state machine goes through Completed to Idle.
Lift(tap) == touch' = Idle(tap)

\* A finger lifted from a control it is still on.
ReleaseControl ==
  LET id == touch.hit.id
      a  == PrimaryArea(outs, primary)
  IN  /\ touch.state = "ControlPress"
      /\ IF ~(touch.pressed /\ Contains(touch.hit.rect, touch.at)) THEN UNCHANGED <<win, inter>>
         ELSE CASE touch.hit.target = "Close" ->
                     /\ win' = [win EXCEPT ![id].stacked = FALSE]
                     /\ inter' = InteractionWithout(id)
                [] touch.hit.target = "Maximize" ->
                     win' = [win EXCEPT ![id] = MaximizeToggled(@, a)] /\ UNCHANGED inter
                [] touch.hit.target = "Minimize" ->
                     win' = [win EXCEPT ![id] = Minimized(@)] /\ UNCHANGED inter
      /\ Lift(touch.tap)

\* A drag or resize ends where it is.
FinishHold ==
  /\ touch.state \in {"Moving", "Resizing"}
  /\ win' = IF touch.held = "none" THEN win ELSE Placed(win, inter.current)
  /\ inter' = IF touch.held = "none" THEN inter ELSE NoInteraction
  /\ Lift(touch.tap)

\* A tap; the second one on a title bar, soon enough and near enough, toggles
\* the maximized state.
Tap(soon) ==
  LET id    == touch.hit.id
      title == touch.hit.target = "TitleBar"
  IN  /\ touch.state = "ContactPending"
      /\ win' = IF title /\ soon /\ touch.tap = id
                  THEN [win EXCEPT ![id] = MaximizeToggled(@, PrimaryArea(outs, primary))] ELSE win
      /\ Lift(IF ~title THEN touch.tap ELSE IF soon /\ touch.tap = id THEN NoWindow ELSE id)
      /\ UNCHANGED inter

TouchUp(f) ==
  /\ seat = "wired" /\ touch.finger = f
  /\ \/ ReleaseControl
     \/ FinishHold
     \/ \E soon \in BOOLEAN : Tap(soon)
     \/ touch.state = "WindowFocus" /\ Lift(touch.tap) /\ UNCHANGED <<win, inter>>
  /\ UNCHANGED <<outs, primary, recall, seat>>

\* cancel_active_interaction in windows W: what was held goes back where it was.
CancelIn(W) ==
  /\ win' = IF touch.held = "none" THEN W ELSE Placed(W, inter.initial)
  /\ inter' = IF touch.held = "none" THEN inter ELSE NoInteraction
  /\ Lift(touch.tap)

TouchCancel ==
  /\ seat = "wired" /\ touch.finger # NoFinger
  /\ CancelIn(win)
  /\ UNCHANGED <<outs, primary, recall, seat>>

\* Seat::handle_capabilities: without the touch capability the device is destroyed;
\* with it a new one is made, which Application never connects.
Capabilities(hasTouch) ==
  /\ hasTouch = (seat = "lost")
  /\ seat' = IF hasTouch THEN "deaf" ELSE "lost"
  /\ UNCHANGED <<outs, primary, win, inter, touch, recall>>

-------------------------------------------------------------------------------
(* The clients and the dock.                                                 *)

\* get_toplevel: the window joins the stacking and is placed, its own number
\* counted; it has said nothing yet of the size it wants.
OpenWindow(w) ==
  LET n == Cardinality({v \in Open : win[v].stacked}) + 1
      g == Initial(PrimaryArea(outs, primary), n, NoSize, NoSize, NoSize)
  IN  /\ ~win[w].open
      /\ win' = [win EXCEPT ![w] = [Absent EXCEPT !.open = TRUE, !.stacked = TRUE, !.geom = g]]
      /\ UNCHANGED <<outs, primary, inter, touch, recall, seat>>

\* The first commit.
Show(w) ==
  /\ win[w].open /\ ~win[w].visible /\ win[w].state # "Minimized"
  /\ win' = [win EXCEPT ![w].visible = TRUE]
  /\ UNCHANGED <<outs, primary, inter, touch, recall, seat>>

\* xdg_toplevel.set_maximized and its like: only the state moves.
ClientSetState(w, s) ==
  /\ win[w].open /\ win[w].state # s
  /\ win' = [win EXCEPT ![w].state = s]
  /\ UNCHANGED <<outs, primary, inter, touch, recall, seat>>

\* set_min_size and set_max_size
ClientSetSizes(w) ==
  \E min, max \in ClientSizes :
    /\ win[w].open /\ (max = NoSize \/ (min.w <= max.w /\ min.h <= max.h))
    /\ win' = [win EXCEPT ![w].min = min, ![w].max = max]
    /\ UNCHANGED <<outs, primary, inter, touch, recall, seat>>

\* set_window_geometry: the rectangle, which the protocol counts from the client's
\* own surface, is taken for the window's place on the screen.
ClientSetGeometry(w) ==
  \E r \in ClientRects :
    /\ win[w].open
    /\ win' = [win EXCEPT ![w].geom = r]
    /\ UNCHANGED <<outs, primary, inter, touch, recall, seat>>

\* Seeded fault: the touch manager is not told of destroyed windows.
TouchUntold(w) == touch

\* The touch manager forgets a contact on a window that is destroyed, and its tap.
TouchWithout(w) ==
  LET tap == IF touch.tap = w THEN NoWindow ELSE touch.tap
  IN  IF touch.hit.id = w THEN Idle(tap) ELSE [touch EXCEPT !.tap = tap]

\* The toplevel is destroyed: the window manager drops the interaction, then the
\* touch manager is told.
Destroy(w) ==
  /\ win[w].open
  /\ win' = [win EXCEPT ![w] = Absent]
  /\ inter' = InteractionWithout(w)
  /\ touch' = TouchWithout(w)
  /\ UNCHANGED <<outs, primary, recall, seat>>

\* WindowManager::close from the dock or the switcher: the window leaves the
\* stacking, and a drag of it is dropped behind the touch manager's back.
Close(w) ==
  /\ win[w].open
  /\ win' = [win EXCEPT ![w].stacked = FALSE]
  /\ inter' = InteractionWithout(w)
  /\ UNCHANGED <<outs, primary, touch, recall, seat>>

\* minimize, restore and toggle_fullscreen of the WindowManager's interface.
Put(w, x) ==
  /\ win[w].open /\ x # win[w]
  /\ win' = [win EXCEPT ![w] = x]
  /\ UNCHANGED <<outs, primary, inter, touch, recall, seat>>

DesktopStep(w) ==
  LET a == PrimaryArea(outs, primary)
  IN  \/ win[w].state # "Minimized" /\ Put(w, Minimized(win[w]))
      \/ Put(w, RestoredWindow(win[w], a))
      \/ Put(w, FullscreenToggled(win[w], a))
      \/ Close(w)

-------------------------------------------------------------------------------
(* The outputs, as Application passes their changes on.                      *)

\* handle_display_change of the touch manager, with windows already brought to W:
\* it takes the new metrics and cancels the contact it has.
TouchFollows(W) ==
  IF touch.state = "Idle" THEN win' = W /\ UNCHANGED <<inter, touch>> ELSE CancelIn(W)

\* Seeded fault: windows are adapted before the shell has moved its bars.
AdaptedEarly(d, h) == AllAdapted(AreaOf(d, [h EXCEPT !.reserved = outs[d].reserved]))

\* The windows after a change of output d to h: shell first, then windows.
AdaptedTo(d, h) == AllAdapted(AreaOf(d, h))

\* "done": a new output is announced to the shell alone, which takes no notice; the
\* change of a known one, primary or not, goes to shell, windows and touch.
DisplayDone(d) ==
  LET h == Reserved(DoneOuts(d)[d])
  IN  /\ CanBeDone(d)
      /\ primary' \in Primaries(DoneOuts(d), primary)
      /\ IF ~Announced(outs[d])
           THEN outs' = DoneOuts(d) /\ UNCHANGED <<win, inter, touch, recall>>
           ELSE /\ outs' = [DoneOuts(d) EXCEPT ![d] = h]
                /\ TouchFollows(AdaptedTo(d, h))
                /\ recall' = Recalled(AreaOf(d, h), h.reserved)
      /\ UNCHANGED seat

\* An output goes: windows move to the primary one that is left, and only then
\* does the shell reserve its bars there.
DisplayRemoved(d) ==
  /\ outs[d].bound
  /\ primary' \in Primaries(RemovedOuts(d), primary)
  /\ IF primary' = NoOutput
       THEN outs' = RemovedOuts(d) /\ UNCHANGED <<win, inter, touch, recall>>
       ELSE LET p == primary'
                h == Reserved(outs[p])
            IN  /\ outs' = [RemovedOuts(d) EXCEPT ![p] = h]
                /\ TouchFollows(AllAdapted(AreaOf(p, outs[p])))
                /\ recall' = IF Announced(h) THEN Recalled(AreaOf(p, h), h.reserved)
                             ELSE [recall EXCEPT !.class = LayoutClass(p, h)]
  /\ UNCHANGED seat

Announcing(d) ==
  /\ HandleGeometry(d) \/ HandleMode(d) \/ HandleScale(d) \/ HandleName(d)
  /\ UNCHANGED <<win, inter, touch, recall, seat>>

Appears(d) == Appear(d) /\ UNCHANGED <<win, inter, touch, recall, seat>>

-------------------------------------------------------------------------------
\* Where a finger goes from where it is: far away, or so little that it is still a tap.
Reachable ==
  IF touch.held = "none" THEN Points \cup {[x |-> touch.start.x + 3, y |-> touch.start.y + 3]} ELSE Points

TouchStep(f) ==
  \/ \E p \in Reachable : TouchMotion(f, p)
  \/ TouchUp(f)

WindowStep(w) ==
  \/ "close"   \in Inputs /\ Destroy(w)
  \/ "state"   \in Inputs /\ \E s \in WindowStates : ClientSetState(w, s)
  \/ "client"  \in Inputs /\ (ClientSetSizes(w) \/ ClientSetGeometry(w))
  \/ "desktop" \in Inputs /\ DesktopStep(w)

OutputStep(d) ==
  \/ "turn" \in Inputs /\ (Announcing(d) \/ DisplayDone(d))
  \/ "hotplug" \in Inputs /\ (Appears(d) \/ DisplayRemoved(d))

Input ==
  \/ \E f \in Fingers : \E p \in Handles : TouchDown(f, p)
  \/ \E w \in Windows : WindowStep(w)
  \/ \E d \in Outputs : OutputStep(d)
  \/ "seat" \in Inputs /\ \E b \in BOOLEAN : Capabilities(b)

Next ==
  \/ UNCHANGED inputs /\ \E w \in Windows : OpenWindow(w) \/ Show(w)
  \/ UNCHANGED inputs /\ \E f \in Fingers : TouchStep(f)
  \/ UNCHANGED inputs /\ TouchCancel
  \/ inputs < MaxInputs /\ inputs' = inputs + 1 /\ Input

Spec == Init /\ [][Next]_vars

-------------------------------------------------------------------------------
(* Properties.                                                               *)

Rects == [x : Int, y : Int, w : Int, h : Int]

\* The values of the state.
TypeOK ==
  /\ primary \in Outputs \cup {NoOutput}
  /\ \A d \in Outputs : outs[d].info.transform \in Transforms /\ outs[d].pending.transform \in Transforms
  /\ \A w \in Windows : win[w].state \in WindowStates /\ win[w].geom \in Rects /\ win[w].saved \in Rects
  /\ inter.type \in {"None", "Moving", "Resizing"} /\ inter.id \in Windows \cup {NoWindow}
  /\ touch.state \in {"Idle", "ContactPending", "WindowFocus", "ControlPress", "Moving", "Resizing"}
  /\ touch.finger \in Fingers \cup {NoFinger} /\ touch.held \in {"none", "drag", "resize"}
  /\ touch.tap \in Windows \cup {NoWindow} /\ touch.hit.id \in Windows \cup {NoWindow}
  /\ recall.class \in LayoutClasses
  /\ seat \in {"wired", "lost", "deaf"}

\* The window manager's interaction never outlives the contact that drives it: it is of
\* the kind and on the window the contact holds, and that window is registered,
\* however windows close, are destroyed, outputs turn and contacts are cancelled.
NoOrphanDrag ==
  /\ inter.id # NoWindow =>
       /\ inter.id = touch.hit.id /\ win[inter.id].open
       /\ touch.finger # NoFinger /\ touch.state = inter.type
       /\ touch.held = IF inter.type = "Moving" THEN "drag" ELSE "resize"
  /\ inter.type = "None" <=> inter.id = NoWindow
  /\ touch.held # "none" => touch.hit.id \in Open

\* What docs/window_management_architecture.md:73 promises whatever the screen and the
\* finger do: the title bar of a window shows on the screen, 36 pixels of it.
TitleBarReachable ==
  \A w \in Open : win[w].state = "Normal" /\ win[w].visible =>
    LET a == PrimaryArea(outs, primary)
        g == win[w].geom
    IN  /\ a.full.y < g.y + a.title /\ g.y < a.full.y + a.full.h
        /\ a.full.x + LeastTitle <= g.x + g.w /\ g.x + LeastTitle <= a.full.x + a.full.w

\* Where a title bar may be in reach: on an output as it is or as the step found it,
\* on the screen that stands in while there is none, or where the drag began.
Areas(O, p) == {PrimaryArea(O, p).usable} \cup {AreaOf(d, O[d]).usable : d \in Bound(O)}

\* Every rectangle the desktop computes for a window that is not fullscreen, be it
\* placed, restored, dragged or adapted to a changed screen, shows enough of the
\* title bar to take hold of.  Four things do lose title bars and are excepted:
\* resizing, giving a cancelled drag its first rectangle back, what a client
\* declares to be its geometry, and a change of the screen while a window is
\* minimized, which keeps its rectangle, then and when it is restored.
TitleBarsStayInReach ==
  [][ \A w \in Windows :
        LET new == win'[w].geom
        IN  /\ win'[w].open /\ win'[w].state # "Fullscreen"
            /\ new \notin {win[w].geom, inter.initial} \cup ClientRects /\ touch.state # "Resizing"
            => \E u \in Areas(outs, primary) \cup Areas(outs', primary') \cup {inter.usable} : InReach(u, new)
    ]_vars

\* When the primary output changes, a maximized window fills exactly what the shell
\* leaves of the new screen, bars at the new scale included, unless a finger was
\* moving it.  (A change of another output pulls it over there.)
MaximizedFollowsScreen ==
  [][ primary' = primary /\ primary # NoOutput /\ Announced(outs[primary]) /\ outs'[primary].info # outs[primary].info =>
        \A w \in Open : win[w].state = "Maximized" /\ w # inter.id =>
          win'[w].geom = PrimaryArea(outs', primary').usable
    ]_vars

===============================================================================

----------------------------- MODULE DisplayPolicy -----------------------------
(***************************************************************************)
(* The arithmetic of LDDE's screen: from what an output reports to the area *)
(* windows may use (DisplayPolicy, LayoutMetrics, classify_layout), and     *)
(* from that area to the rectangles windows get (initial placement,         *)
(* maximized, fullscreen, restored, constrained), with the older            *)
(* WindowPlacement that stands in while there is no output at all.          *)
(*                                                                          *)
(* Both give the same rules with other numbers, so both are values of one   *)
(* record, an Area; all lengths are logical pixels.                         *)
(***************************************************************************)
EXTENDS Integers

Larger(a, b) == IF a >= b THEN a ELSE b

Smaller(a, b) == IF a <= b THEN a ELSE b

\* Raised to lo, then lowered to hi: where they contradict, hi wins.
Between(v, lo, hi) == Smaller(Larger(v, lo), hi)

Rect(x, y, w, h) == [x |-> x, y |-> y, w |-> w, h |-> h]

Size(w, h) == [w |-> w, h |-> h]

NoSize == Size(0, 0)    \* not said

NoRect == Rect(0, 0, 0, 0)

Contains(r, p) == r.x <= p.x /\ p.x < r.x + r.w /\ r.y <= p.y /\ p.y < r.y + r.h

-------------------------------------------------------------------------------
(* Outputs.                                                                  *)

Transforms == {"Normal", "Rotate90", "Rotate180", "Rotate270", "Flipped", "Flipped90", "Flipped180", "Flipped270"}

\* apply_transform_to_dimensions, then physical_to_logical
Logical(px, transform, scale) ==
  LET s == IF scale > 0 THEN scale ELSE 1
  IN  IF transform \in {"Rotate90", "Rotate270", "Flipped90", "Flipped270"} THEN Size(px.h \div s, px.w \div s)
      ELSE Size(px.w \div s, px.h \div s)

NoInsets == [left |-> 0, top |-> 0, right |-> 0, bottom |-> 0]

\* SafeInsets::rotated_for: the cutout stays where it is on the device, if the
\* transform does not flip.
RotatedFor(i, transform) ==
  CASE transform = "Rotate90"  -> [left |-> i.bottom, top |-> i.left, right |-> i.top, bottom |-> i.right]
    [] transform = "Rotate180" -> [left |-> i.right, top |-> i.bottom, right |-> i.left, bottom |-> i.top]
    [] transform = "Rotate270" -> [left |-> i.top, top |-> i.right, right |-> i.bottom, bottom |-> i.left]
    [] OTHER -> i

LayoutClasses == {"Compact", "Standard", "Expanded"}

\* classify_layout, without an override; mm is the physical size, NoSize when unknown.
Classified(log, mm) ==
  LET portrait == log.h > log.w
  IN  CASE mm.w > 0 /\ mm.h > 0 /\ mm.w * mm.w + mm.h * mm.h >= 62500 /\ log.w >= 900 -> "Expanded"
        [] log.w >= 1200                                -> "Expanded"
        [] portrait /\ log.w < 600                      -> "Compact"
        [] portrait /\ log.w >= 1000                    -> "Expanded"
        [] ~portrait /\ log.w < 720 /\ log.h < 480      -> "Compact"
        [] OTHER                                        -> "Standard"

\* LayoutMetrics::compute
Metrics(class, portrait) ==
  CASE class = "Compact" ->
         [control |-> 48, resize |-> 24, title |-> 44, margin |-> 8, spacing |-> 8, cascade |-> 24,
          status |-> IF portrait THEN 40 ELSE 32, dock |-> IF portrait THEN 68 ELSE 56, least |-> Size(200, 150)]
    [] class = "Standard" ->
         [control |-> 44, resize |-> 20, title |-> 40, margin |-> 8, spacing |-> 8, cascade |-> 32,
          status |-> 36, dock |-> 64, least |-> Size(260, 180)]
    [] class = "Expanded" ->
         [control |-> 36, resize |-> 16, title |-> 36, margin |-> 12, spacing |-> 12, cascade |-> 36,
          status |-> 32, dock |-> 56, least |-> Size(320, 240)]

\* The share of the usable area, in percent, and the least size a window opens with.
Shares(class, portrait) ==
  CASE class = "Expanded"              -> [w |-> 55, h |-> 65, atLeast |-> Size(640, 480)]
    [] class = "Compact" /\ portrait   -> [w |-> 88, h |-> 60, atLeast |-> NoSize]
    [] class = "Compact" /\ ~portrait  -> [w |-> 75, h |-> 75, atLeast |-> NoSize]
    [] class = "Standard" /\ portrait  -> [w |-> 80, h |-> 65, atLeast |-> NoSize]
    [] class = "Standard" /\ ~portrait -> [w |-> 65, h |-> 70, atLeast |-> Size(600, 400)]

\* The heights the shell reserves for its bars, in tokens scaled by s; before the
\* shell has seen the output (s = 0) the metrics stand in.
StatusHeight(m, s) == IF s > 0 THEN 40 * s ELSE m.status

DockHeight(m, s) == IF s > 0 THEN 68 * s ELSE m.dock

\* DisplayPolicy::recalculate for an output of logical size log at x with these
\* insets, the shell having reserved its bars at scale s.  The window area is never
\* smaller than a window, even when the screen is.
Area(x, log, insets, class, s) ==
  LET portrait == log.h > log.w
      m    == Metrics(class, portrait)
      safe == Rect(x + insets.left, insets.top,
                   Larger(0, log.w - insets.left - insets.right), Larger(0, log.h - insets.top - insets.bottom))
      top  == StatusHeight(m, s) + m.spacing
  IN  [full   |-> Rect(x, 0, log.w, log.h),
       safe   |-> safe,
       usable |-> Rect(safe.x + m.margin, safe.y + top,
                       Larger(m.least.w, safe.w - 2 * m.margin),
                       Larger(m.least.h, safe.h - top - DockHeight(m, s) - m.spacing)),
       class  |-> class, portrait |-> portrait, share |-> Shares(class, portrait), cascade |-> m.cascade,
       title  |-> m.title, control |-> m.control, opens |-> m.least, least |-> m.least, heeds |-> TRUE]

\* WindowPlacement::get_usable_area and its other rules for get_active_display's
\* stand-in of 1080 x 2400, while no output is known: no safe area, a title bar of
\* 36, and the client's minimum size is heeded at the opening only.
NoOutputArea ==
  [full   |-> Rect(0, 0, 1080, 2400),
   safe   |-> Rect(0, 0, 1080, 2400),
   usable |-> Rect(8, 48, 1064, 2276),
   class  |-> "Standard", portrait |-> TRUE, share |-> Shares("Compact", TRUE), cascade |-> 24,
   title  |-> 36, control |-> 48, opens |-> NoSize, least |-> Size(100, 100), heeds |-> FALSE]

-------------------------------------------------------------------------------
(* Rectangles of windows in an area a.                                       *)

\* constrain_window_geometry and clamp_to_usable: at least the least size, at most the
\* usable one, the whole title bar between top and bottom, and a control's width
\* of the window between left and right.
Constrain(a, r, min) ==
  LET u  == a.usable
      lw == IF a.heeds THEN Larger(min.w, a.least.w) ELSE a.least.w
      lh == IF a.heeds THEN Larger(min.h, a.least.h) ELSE a.least.h
      w  == Smaller(Larger(r.w, lw), u.w)
      h  == Smaller(Larger(r.h, lh), u.h)
  IN  Rect(Between(r.x, u.x - w + a.control, u.x + u.w - a.control),
           Between(r.y, u.y, u.y + u.h - a.title), w, h)

\* default_window_size: what was requested or the share of the area, at least the
\* minimum, at most the client's maximum, at most the area.
DefaultSize(a, requested, min, max) ==
  LET Share(whole, percent, least) ==
        LET s == (whole * percent) \div 100 IN IF s < least /\ whole >= least THEN least ELSE s
      Capped(v, cap) == IF cap > 0 THEN Smaller(v, cap) ELSE v
      want == IF requested.w > 0 /\ requested.h > 0 THEN requested
              ELSE Size(Share(a.usable.w, a.share.w, a.share.atLeast.w),
                        Share(a.usable.h, a.share.h, a.share.atLeast.h))
  IN  Size(Smaller(Capped(Larger(want.w, Larger(min.w, a.opens.w)), max.w), a.usable.w),
           Smaller(Capped(Larger(want.h, Larger(min.h, a.opens.h)), max.h), a.usable.h))

\* calculate_initial_window_geometry for a window that finds n others open: a
\* cascade of five steps down a portrait screen, along the diagonal of a landscape one.
Initial(a, n, requested, min, max) ==
  LET u    == a.usable
      s    == DefaultSize(a, requested, min, max)
      down == (n % 5) * a.cascade
      along(room) == IF room > 0 THEN (n * a.cascade) % (room + 1) ELSE 0
  IN  Constrain(a,
        IF a.portrait
          THEN Rect(u.x + (u.w - s.w) \div 2, IF down + s.h <= u.h THEN u.y + down ELSE u.y, s.w, s.h)
          ELSE Rect(u.x + along(u.w - s.w), u.y + along(u.h - s.h), s.w, s.h),
        min)

\* restore_window_geometry: the saved rectangle, or a new placement.
Restored(a, saved, min, max) ==
  IF saved # NoRect THEN Constrain(a, saved, min)
  ELSE Initial(a, 0, NoSize, min, IF a.heeds THEN NoSize ELSE max)

-------------------------------------------------------------------------------
(* What the user can still take hold of.                                     *)

\* The least of a title bar that must show, in either direction.
LeastTitle == 36

\* The top of the title bar is inside the usable area u and a finger's width of the
\* window is, so that the user can move it back.
InReach(u, g) ==
  /\ u.y <= g.y /\ g.y + LeastTitle <= u.y + u.h
  /\ u.x + LeastTitle <= g.x + g.w /\ g.x + LeastTitle <= u.x + u.w

===============================================================================

-------------------------- MODULE TouchWindowsProofs --------------------------
(***************************************************************************)
(* That windows stay within the user's reach, for every output and every    *)
(* number of outputs, windows, fingers and inputs.                          *)
(*                                                                          *)
(* First the arithmetic of DisplayPolicy: whatever the size, orientation,   *)
(* scale and cutouts of the screen are, and wherever a window was, the      *)
(* rectangle that Constrain makes of it keeps its title bar in reach, and   *)
(* so does every rectangle that is made with it.  The argument is that the  *)
(* usable area is never smaller than the least window, which is larger than *)
(* a title bar and two controls - without that the two bounds of Between    *)
(* would contradict each other.  Then the state machines of outputs,        *)
(* windows and touch, whose every step goes through one of those rules.     *)
(***************************************************************************)
EXTENDS TouchWindows, FiniteSetTheorems, TLAPS

-------------------------------------------------------------------------------
(* The arithmetic of areas.                                                  *)

Insets == [left : Int, top : Int, right : Int, bottom : Int]

Sizes == [w : Int, h : Int]

\* Rectangles that windows and areas have.
Boxes == [x : Int, y : Int, w : Nat, h : Nat]

\* What Constrain takes of an area, with the relations between its numbers, and
\* the width that a window needs to be moved by the finger's two rules of 48.
Roomy(a) ==
  /\ a.usable \in Boxes /\ 96 <= a.usable.w
  /\ a.least \in Sizes /\ a.opens \in Sizes
  /\ a.title \in Int /\ a.control \in Int /\ a.heeds \in BOOLEAN
  /\ LeastTitle <= a.title /\ LeastTitle <= a.control
  /\ a.title <= a.usable.h /\ 2 * a.control <= a.usable.w
  /\ 0 <= a.least.w /\ a.least.w <= a.usable.w
  /\ 0 <= a.least.h /\ a.least.h <= a.usable.h
  /\ a.share.w \in Int /\ a.share.h \in Int /\ a.share.atLeast \in Sizes
  /\ a.cascade \in Int

\* Between stays between where its bounds do not contradict each other.
LEMMA BetweenBounds ==
  ASSUME NEW v \in Int, NEW lo \in Int, NEW hi \in Int
  PROVE  /\ Between(v, lo, hi) \in Int
         /\ Between(v, lo, hi) <= hi
         /\ lo <= hi => lo <= Between(v, lo, hi)
BY DEF Between, Smaller, Larger

\* The metrics of any class: bars and least sizes leave room for a title bar.
LEMMA MetricsRoomy ==
  ASSUME NEW class \in LayoutClasses, NEW portrait \in BOOLEAN, NEW m, m = Metrics(class, portrait)
  PROVE  /\ m.title \in Int /\ 36 <= m.title /\ m.title <= 44
         /\ m.control \in Int /\ 36 <= m.control /\ m.control <= 48
         /\ m.least \in Sizes /\ 200 <= m.least.w /\ 150 <= m.least.h
         /\ m.margin \in Int /\ m.spacing \in Int /\ m.status \in Int /\ m.dock \in Int
         /\ m.cascade \in Int
<1>1. CASE class = "Compact"
  BY <1>1 DEF Metrics, Size, Sizes
<1>2. CASE class = "Standard"
  BY <1>2 DEF Metrics, Size, Sizes
<1>3. CASE class = "Expanded"
  BY <1>3 DEF Metrics, Size, Sizes
<1>4. QED
  BY <1>1, <1>2, <1>3 DEF LayoutClasses

\* The shares of any class are percentages and a size.
LEMMA SharesSized ==
  ASSUME NEW class \in LayoutClasses, NEW portrait \in BOOLEAN, NEW p, p = Shares(class, portrait)
  PROVE  p.w \in Int /\ p.h \in Int /\ p.atLeast \in Sizes
<1>1. CASE class = "Compact"
  BY <1>1 DEF Shares, NoSize, Size, Sizes
<1>2. CASE class = "Standard"
  BY <1>2 DEF Shares, NoSize, Size, Sizes
<1>3. CASE class = "Expanded"
  BY <1>3 DEF Shares, NoSize, Size, Sizes
<1>4. QED
  BY <1>1, <1>2, <1>3 DEF LayoutClasses

\* Whatever an output is, its area has room for a title bar and two controls
\* (DisplayPolicy::recalculate, which never lets the usable area be smaller than
\* the least window).
THEOREM AreaRoomy ==
  ASSUME NEW x \in Int, NEW log \in Sizes, NEW insets \in Insets, NEW class \in LayoutClasses, NEW s \in Nat
  PROVE  Roomy(Area(x, log, insets, class, s))
<1> DEFINE portrait == log.h > log.w
           m        == Metrics(class, portrait)
           safe     == Rect(x + insets.left, insets.top,
                            Larger(0, log.w - insets.left - insets.right),
                            Larger(0, log.h - insets.top - insets.bottom))
           top      == StatusHeight(m, s) + m.spacing
           usable   == Rect(safe.x + m.margin, safe.y + top,
                            Larger(m.least.w, safe.w - 2 * m.margin),
                            Larger(m.least.h, safe.h - top - DockHeight(m, s) - m.spacing))
           a        == Area(x, log, insets, class, s)
<1>1. portrait \in BOOLEAN /\ log.w \in Int /\ log.h \in Int
  BY DEF Sizes
<1>2. /\ m.title \in Int /\ 36 <= m.title /\ m.title <= 44
      /\ m.control \in Int /\ 36 <= m.control /\ m.control <= 48
      /\ m.least \in Sizes /\ 200 <= m.least.w /\ 150 <= m.least.h
      /\ m.margin \in Int /\ m.spacing \in Int /\ m.status \in Int /\ m.dock \in Int
      /\ m.cascade \in Int
  <2> HIDE DEF portrait
  <2>1. QED
    BY <1>1, MetricsRoomy
<1> HIDE DEF m
<1>3. m.least.w \in Int /\ m.least.h \in Int
  BY <1>2 DEF Sizes
<1>4. safe.x \in Int /\ safe.y \in Int /\ safe.w \in Int /\ safe.h \in Int
  BY <1>1 DEF Rect, Larger, Insets
<1> HIDE DEF safe
<1>5. top \in Int /\ DockHeight(m, s) \in Int
  BY <1>2 DEF StatusHeight, DockHeight
<1> HIDE DEF top
<1>6. /\ usable \in Boxes
      /\ m.least.w <= usable.w /\ m.least.h <= usable.h
  BY <1>2, <1>3, <1>4, <1>5 DEF Rect, Boxes, Larger
<1>7. /\ a.usable = usable /\ a.least = m.least /\ a.opens = m.least
      /\ a.title = m.title /\ a.control = m.control /\ a.heeds = TRUE
      /\ a.cascade = m.cascade /\ a.share = Shares(class, portrait)
  BY DEF Area, m, safe, top
<1> HIDE DEF usable, a
<1>8. usable.w \in Int /\ usable.h \in Int
  BY <1>6 DEF Boxes
<1>9. Roomy(a)
  <2>1. /\ a.usable \in Boxes /\ a.least \in Sizes /\ a.opens \in Sizes
        /\ a.title \in Int /\ a.control \in Int
    BY <1>2, <1>6, <1>7
  <2>2. a.heeds \in BOOLEAN
    BY <1>7, Zenon
  <2>3. /\ 36 <= a.title /\ 36 <= a.control
        /\ a.title <= a.usable.h /\ 2 * a.control <= a.usable.w /\ 96 <= a.usable.w
        /\ 0 <= a.least.w /\ a.least.w <= a.usable.w
        /\ 0 <= a.least.h /\ a.least.h <= a.usable.h
    BY <1>2, <1>3, <1>6, <1>7, <1>8
  <2>4. a.share.w \in Int /\ a.share.h \in Int /\ a.share.atLeast \in Sizes
    <3> HIDE DEF portrait
    <3>1. QED
      BY <1>1, <1>7, SharesSized
  <2>5. a.cascade \in Int
    BY <1>2, <1>7
  <2>6. QED
    BY <2>1, <2>2, <2>3, <2>4, <2>5 DEF Roomy, LeastTitle
<1>10. QED
  BY <1>9 DEF a

\* The stand-in area of a desktop without any output has that room too.
THEOREM NoOutputRoomy == Roomy(NoOutputArea)
BY DEF Shares, Roomy, NoOutputArea, Rect, Boxes, Size, NoSize, Sizes, LeastTitle

\* Wherever a window was and whatever sizes its client asked for, constraining it to
\* an area (constrain_window_geometry, clamp_to_usable) leaves its title bar in reach
\* and makes it no larger than the area.
THEOREM ConstrainReaches ==
  ASSUME NEW a, Roomy(a), NEW r \in Rects, NEW min \in Sizes
  PROVE  /\ Constrain(a, r, min) \in Boxes
         /\ InReach(a.usable, Constrain(a, r, min))
         /\ Constrain(a, r, min).w <= a.usable.w /\ Constrain(a, r, min).h <= a.usable.h
<1> DEFINE u  == a.usable
           lw == IF a.heeds THEN Larger(min.w, a.least.w) ELSE a.least.w
           lh == IF a.heeds THEN Larger(min.h, a.least.h) ELSE a.least.h
           w  == Smaller(Larger(r.w, lw), u.w)
           h  == Smaller(Larger(r.h, lh), u.h)
           x  == Between(r.x, u.x - w + a.control, u.x + u.w - a.control)
           y  == Between(r.y, u.y, u.y + u.h - a.title)
           c  == Constrain(a, r, min)
<1>1. /\ u.x \in Int /\ u.y \in Int /\ u.w \in Int /\ u.h \in Int
      /\ r.x \in Int /\ r.y \in Int /\ r.w \in Int /\ r.h \in Int
      /\ min.w \in Int /\ min.h \in Int /\ a.least.w \in Int /\ a.least.h \in Int
      /\ a.title \in Int /\ a.control \in Int
  BY DEF Roomy, Rects, Boxes, Sizes
<1>2. /\ LeastTitle \in Int /\ LeastTitle <= a.title /\ LeastTitle <= a.control
      /\ a.title <= u.h /\ 2 * a.control <= u.w
      /\ 0 <= a.least.w /\ a.least.w <= u.w /\ 0 <= a.least.h /\ a.least.h <= u.h
  BY DEF Roomy, LeastTitle
<1>3. c = Rect(x, y, w, h)
  BY DEF Constrain
<1> HIDE DEF u, c
<1>4. lw \in Int /\ a.least.w <= lw /\ lh \in Int /\ a.least.h <= lh
  BY <1>1 DEF Larger
<1> HIDE DEF lw, lh
<1>5. w \in Int /\ 0 <= w /\ w <= u.w /\ h \in Int /\ 0 <= h /\ h <= u.h
  BY <1>1, <1>2, <1>4 DEF Larger, Smaller
<1> HIDE DEF w, h
<1>6. x \in Int /\ u.x - w + a.control <= x /\ x <= u.x + u.w - a.control
  <2>1. u.x - w + a.control \in Int /\ u.x + u.w - a.control \in Int
    BY <1>1, <1>5
  <2>2. u.x - w + a.control <= u.x + u.w - a.control
    BY <1>1, <1>2, <1>5
  <2>3. QED
    BY <1>1, <2>1, <2>2, BetweenBounds
<1>7. y \in Int /\ u.y <= y /\ y <= u.y + u.h - a.title
  <2>1. u.y + u.h - a.title \in Int /\ u.y <= u.y + u.h - a.title
    BY <1>1, <1>2
  <2>2. QED
    BY <1>1, <2>1, BetweenBounds
<1> HIDE DEF x, y
<1>8. c.x = x /\ c.y = y /\ c.w = w /\ c.h = h /\ c \in Boxes
  BY <1>3, <1>5, <1>6, <1>7 DEF Rect, Boxes
<1>9. /\ u.y <= y /\ y + LeastTitle <= u.y + u.h
      /\ u.x + LeastTitle <= x + w /\ x + LeastTitle <= u.x + u.w
  BY <1>1, <1>2, <1>5, <1>6, <1>7
<1>10. QED
  BY <1>5, <1>8, <1>9 DEF InReach, u, c

\* A window that is maximized fills the usable area, title bar and all.
THEOREM UsableReaches ==
  ASSUME NEW a, Roomy(a)
  PROVE  InReach(a.usable, a.usable)
<1>1. /\ a.usable.x \in Int /\ a.usable.y \in Int /\ a.usable.w \in Int /\ a.usable.h \in Int
      /\ a.title \in Int /\ a.control \in Int
  BY DEF Roomy, Boxes
<1>2. QED
  BY <1>1 DEF Roomy, InReach, LeastTitle

\* A whole number of an area's cascade steps, taken round the room, is a length.
LEMMA RoundTheRoom ==
  ASSUME NEW v \in Int, NEW room \in Int, room > 0
  PROVE  v % (room + 1) \in Int
OBVIOUS

\* The size a window opens with is a size, whatever was requested.
LEMMA DefaultSizes ==
  ASSUME NEW a, Roomy(a), NEW requested \in Sizes, NEW min \in Sizes, NEW max \in Sizes
  PROVE  DefaultSize(a, requested, min, max) \in Sizes
<1> DEFINE Share(whole, percent, least) ==
             LET s == (whole * percent) \div 100 IN IF s < least /\ whole >= least THEN least ELSE s
           Capped(v, cap) == IF cap > 0 THEN Smaller(v, cap) ELSE v
           want == IF requested.w > 0 /\ requested.h > 0 THEN requested
                   ELSE Size(Share(a.usable.w, a.share.w, a.share.atLeast.w),
                             Share(a.usable.h, a.share.h, a.share.atLeast.h))
<1>1. /\ a.usable.w \in Int /\ a.usable.h \in Int /\ a.opens.w \in Int /\ a.opens.h \in Int
      /\ min.w \in Int /\ min.h \in Int /\ max.w \in Int /\ max.h \in Int
      /\ requested.w \in Int /\ requested.h \in Int
      /\ a.share.atLeast.w \in Int /\ a.share.atLeast.h \in Int
  BY DEF Roomy, Boxes, Sizes
<1>2. ASSUME NEW whole \in Int, NEW percent \in Int, NEW least \in Int
      PROVE  Share(whole, percent, least) \in Int
  <2>1. whole * percent \in Int
    OBVIOUS
  <2>2. (whole * percent) \div 100 \in Int
    BY <2>1
  <2>3. QED
    BY <2>2
<1>3. ASSUME NEW v \in Int, NEW cap \in Int
      PROVE  Capped(v, cap) \in Int
  BY DEF Smaller
<1>4. want.w \in Int /\ want.h \in Int
  <2>1. /\ Share(a.usable.w, a.share.w, a.share.atLeast.w) \in Int
        /\ Share(a.usable.h, a.share.h, a.share.atLeast.h) \in Int
    <3>1. a.share.w \in Int /\ a.share.h \in Int
      BY DEF Roomy
    <3> HIDE DEF Share
    <3>2. QED
      BY <1>1, <1>2, <3>1
  <2> HIDE DEF Share
  <2>2. QED
    BY <1>1, <2>1 DEF Size
<1> HIDE DEF Share, want
<1>5. ASSUME NEW v \in Int, NEW least \in Int, NEW opens \in Int, NEW cap \in Int, NEW whole \in Int
      PROVE  Smaller(Capped(Larger(v, Larger(least, opens)), cap), whole) \in Int
  <2>1. Larger(v, Larger(least, opens)) \in Int
    BY DEF Larger
  <2>2. Capped(Larger(v, Larger(least, opens)), cap) \in Int
    BY <2>1, <1>3
  <2> HIDE DEF Capped
  <2>3. QED
    BY <2>2 DEF Smaller
<1>6. DefaultSize(a, requested, min, max) =
        Size(Smaller(Capped(Larger(want.w, Larger(min.w, a.opens.w)), max.w), a.usable.w),
             Smaller(Capped(Larger(want.h, Larger(min.h, a.opens.h)), max.h), a.usable.h))
  BY DEF DefaultSize, Share, want
<1> DEFINE Fit(v, least, opens, cap, whole) == Smaller(Capped(Larger(v, Larger(least, opens)), cap), whole)
<1>7. /\ Fit(want.w, min.w, a.opens.w, max.w, a.usable.w) \in Int
      /\ Fit(want.h, min.h, a.opens.h, max.h, a.usable.h) \in Int
  <2> HIDE DEF Capped
  <2>1. QED
    BY <1>1, <1>4, <1>5
<1>8. DefaultSize(a, requested, min, max) =
        Size(Fit(want.w, min.w, a.opens.w, max.w, a.usable.w),
             Fit(want.h, min.h, a.opens.h, max.h, a.usable.h))
  BY <1>6
<1> HIDE DEF Fit
<1>9. QED
  BY <1>7, <1>8 DEF Size, Sizes

\* A new window is placed by the same rule: however many windows are open, whatever
\* size it asks for and whatever its client allows, the user can reach it
\* (calculate_initial_window_geometry).
THEOREM InitialReaches ==
  ASSUME NEW a, Roomy(a), NEW n \in Nat,
         NEW requested \in Sizes, NEW min \in Sizes, NEW max \in Sizes
  PROVE  /\ Initial(a, n, requested, min, max) \in Boxes
         /\ InReach(a.usable, Initial(a, n, requested, min, max))
<1> DEFINE u    == a.usable
           s    == DefaultSize(a, requested, min, max)
           down == (n % 5) * a.cascade
           Along(room) == IF room > 0 THEN (n * a.cascade) % (room + 1) ELSE 0
           r    == IF a.portrait
                   THEN Rect(u.x + (u.w - s.w) \div 2, IF down + s.h <= u.h THEN u.y + down ELSE u.y, s.w, s.h)
                   ELSE Rect(u.x + Along(u.w - s.w), u.y + Along(u.h - s.h), s.w, s.h)
<1>1. s \in Sizes
  BY DefaultSizes
<1>2. Initial(a, n, requested, min, max) = Constrain(a, r, min)
  BY DEF Initial
<1> HIDE DEF s
<1>3. /\ s.w \in Int /\ s.h \in Int
      /\ u.x \in Int /\ u.y \in Int /\ u.w \in Int /\ u.h \in Int
      /\ a.cascade \in Int
  BY <1>1 DEF Sizes, Roomy, Boxes
<1>4. down \in Int
  <2>1. n % 5 \in Int /\ a.cascade \in Int
    BY <1>3
  <2>2. QED
    BY <2>1
<1>5. ASSUME NEW room \in Int
      PROVE  Along(room) \in Int
  <2>1. n * a.cascade \in Int
    BY <1>3
  <2>2. room > 0 => (n * a.cascade) % (room + 1) \in Int
    BY <2>1, RoundTheRoom
  <2>3. QED
    BY <2>2
<1> HIDE DEF u, down, Along
<1>6. Along(u.w - s.w) \in Int /\ Along(u.h - s.h) \in Int
  BY <1>3, <1>5
<1>7. r \in Rects
  BY <1>3, <1>4, <1>6 DEF Rect, Rects
<1> HIDE DEF r
<1>8. QED
  BY <1>2, <1>7, ConstrainReaches

\* So is a window that leaves the maximized or fullscreen state, on whatever output
\* it was when its rectangle was saved (restore_window_geometry).
THEOREM RestoredReaches ==
  ASSUME NEW a, Roomy(a), NEW saved \in Rects, NEW min \in Sizes, NEW max \in Sizes
  PROVE  /\ Restored(a, saved, min, max) \in Boxes
         /\ InReach(a.usable, Restored(a, saved, min, max))
<1>1. CASE saved # NoRect
  BY <1>1, ConstrainReaches DEF Restored
<1>2. CASE saved = NoRect
  <2> DEFINE cap == IF a.heeds THEN NoSize ELSE max
  <2>1. cap \in Sizes /\ NoSize \in Sizes
    BY DEF NoSize, Size, Sizes
  <2>2. Restored(a, saved, min, max) = Initial(a, 0, NoSize, min, cap)
    BY <1>2 DEF Restored
  <2> HIDE DEF cap
  <2>3. QED
    BY <2>1, <2>2, InitialReaches
<1>3. QED
  BY <1>1, <1>2

-------------------------------------------------------------------------------
(* The outputs.                                                              *)

Pixels == [w : Nat, h : Nat]

Infos == [px : Pixels, transform : Transforms, scale : Nat \ {0}, named : BOOLEAN, insets : Insets]

OutputHandles == [bound : BOOLEAN, info : Infos, pending : Infos, reserved : Nat]

\* The primary output is one that is there, and nothing is kept of one that is not.
DisplaysInv ==
  /\ outs \in [Outputs -> OutputHandles]
  /\ primary \in Bound(outs) \cup {NoOutput}
  /\ \A d \in Outputs : ~outs[d].bound => outs[d].info = Blank

LEMMA BlankIs == Blank \in Infos /\ Unbound \in OutputHandles
BY DEF Blank, Unbound, Infos, OutputHandles, NoSize, Size, Pixels, NoInsets, Insets, Transforms

LEMMA ClassifiedIs == \A log, mm : Classified(log, mm) \in LayoutClasses
<1> SUFFICES ASSUME NEW log, NEW mm PROVE Classified(log, mm) \in LayoutClasses
  OBVIOUS
<1> DEFINE A == mm.w > 0 /\ mm.h > 0 /\ mm.w * mm.w + mm.h * mm.h >= 62500 /\ log.w >= 900
           B == log.w >= 1200
           C == log.h > log.w /\ log.w < 600
           D == log.h > log.w /\ log.w >= 1000
           E == ~(log.h > log.w) /\ log.w < 720 /\ log.h < 480
<1>1. Classified(log, mm) = CASE A -> "Expanded" [] B -> "Expanded" [] C -> "Compact"
                              [] D -> "Expanded" [] E -> "Compact" [] OTHER -> "Standard"
  BY DEF Classified
<1> HIDE DEF A, B, C, D, E
<1>2. QED
  BY <1>1 DEF LayoutClasses

LEMMA LayoutClassIs ==
  ASSUME NEW d, NEW h
  PROVE  LayoutClass(d, h) \in LayoutClasses
BY ClassifiedIs, OutputsAssumption DEF LayoutClass

LEMMA LogicalIs ==
  ASSUME NEW i \in Infos
  PROVE  LogicalSize(i) \in Pixels
<1>1. i.px.w \in Nat /\ i.px.h \in Nat /\ i.scale \in Nat /\ i.scale > 0
  BY DEF Infos, Pixels
<1>2. i.px.w \div i.scale \in Nat /\ i.px.h \div i.scale \in Nat
  BY <1>1
<1>3. LogicalSize(i) \in {Size(i.px.w \div i.scale, i.px.h \div i.scale),
                          Size(i.px.h \div i.scale, i.px.w \div i.scale)}
  BY <1>1 DEF LogicalSize, Logical
<1> DEFINE v == i.px.w \div i.scale
           w == i.px.h \div i.scale
<1> HIDE DEF v, w
<1>4. QED
  BY <1>2, <1>3 DEF Size, Pixels, v, w

\* Of any output the usable area has room, and the whole of it is a rectangle.
LEMMA AreaOfRoomy ==
  ASSUME NEW d \in Outputs, NEW h \in OutputHandles
  PROVE  Roomy(AreaOf(d, h)) /\ AreaOf(d, h).full \in Boxes
<1> DEFINE class == LayoutClass(d, h)
<1>1. class \in LayoutClasses
  BY LayoutClassIs
<1> HIDE DEF class
<1>2. PICK x \in Nat, log \in Pixels, insets \in Insets : AreaOf(d, h) = Area(x, log, insets, class, h.reserved)
  <2>1. CASE Announced(h)
    <3>1. Left[d] \in Nat /\ LogicalSize(h.info) \in Pixels /\ h.info.insets \in Insets
      BY OutputsAssumption, LogicalIs DEF OutputHandles, Infos
    <3>2. QED
      BY <2>1, <3>1 DEF AreaOf, class
  <2>2. CASE ~Announced(h)
    <3>1. 0 \in Nat /\ Size(720, 1280) \in Pixels /\ NoInsets \in Insets
      BY DEF Size, Pixels, NoInsets, Insets
    <3>2. QED
      BY <2>2, <3>1 DEF AreaOf, class
  <2>3. QED
    BY <2>1, <2>2
<1>3. log \in Sizes /\ x \in Int /\ h.reserved \in Nat
  BY DEF Pixels, Sizes, OutputHandles
<1>4. Roomy(Area(x, log, insets, class, h.reserved))
  BY <1>1, <1>3, AreaRoomy
<1>5. Area(x, log, insets, class, h.reserved).full = Rect(x, 0, log.w, log.h)
  BY DEF Area
<1>6. QED
  BY <1>2, <1>4, <1>5 DEF Rect, Boxes, Pixels

LEMMA PrimaryRoomy ==
  ASSUME NEW O \in [Outputs -> OutputHandles], NEW p \in Outputs \cup {NoOutput}
  PROVE  Roomy(PrimaryArea(O, p)) /\ PrimaryArea(O, p).full \in Boxes
<1>1. CASE p = NoOutput
  <2>1. NoOutputArea.full \in Boxes
    BY DEF NoOutputArea, Rect, Boxes
  <2>2. QED
    BY <1>1, <2>1, NoOutputRoomy DEF PrimaryArea
<1>2. CASE p # NoOutput
  BY <1>2, AreaOfRoomy DEF PrimaryArea
<1>3. QED
  BY <1>1, <1>2

LEMMA PrimariesAre ==
  ASSUME NEW O, NEW p
  PROVE  Primaries(O, p) \subseteq Bound(O) \cup {NoOutput}
BY DEF Primaries

LEMMA DisplaysInitial == DisplaysInit => DisplaysInv
<1>1. CASE outs = [d \in Outputs |-> Unbound] /\ primary = NoOutput
  <2>1. Unbound.info = Blank
    BY DEF Unbound
  <2>2. QED
    BY <1>1, <2>1, BlankIs DEF DisplaysInv
<1>2. ASSUME NEW d \in Outputs, NEW m \in Modes, primary = d,
             outs = [o \in Outputs |-> IF o = d THEN InitialOutput(d, m) ELSE Unbound]
      PROVE  DisplaysInv
  <2>1. InitialOutput(d, m) \in OutputHandles /\ InitialOutput(d, m).bound
    <3> DEFINE i == [Blank EXCEPT !.px = m, !.named = TRUE, !.scale = Larger(1, ForcedScale), !.insets = SafeArea]
    <3>1. m \in Pixels /\ Larger(1, ForcedScale) \in Nat \ {0} /\ SafeArea \in Insets
      BY OutputsAssumption DEF Pixels, Larger, Insets
    <3>2. i \in Infos
      BY <3>1, BlankIs DEF Infos
    <3>3. i.scale \in Nat
      BY <3>2 DEF Infos
    <3>4. InitialOutput(d, m) = [bound |-> TRUE, info |-> i, pending |-> i, reserved |-> i.scale]
      BY DEF InitialOutput
    <3> HIDE DEF i
    <3>5. QED
      BY <3>2, <3>3, <3>4 DEF OutputHandles
  <2>2. Unbound.info = Blank
    BY DEF Unbound
  <2>3. QED
    BY <1>2, <2>1, <2>2, BlankIs DEF DisplaysInv, Bound
<1>3. QED
  BY <1>1, <1>2 DEF DisplaysInit

\* One output becomes another handle.
LEMMA OutputChanges ==
  ASSUME DisplaysInv, NEW d \in Outputs, NEW h \in OutputHandles, outs' = [outs EXCEPT ![d] = h],
         ~h.bound => h.info = Blank,
         primary' \in Bound(outs') \cup {NoOutput}
  PROVE  DisplaysInv'
BY DEF DisplaysInv

\* What is announced changes nothing that counts.
LEMMA AnnouncingPreserves ==
  ASSUME DisplaysInv, NEW d \in Outputs, HandleGeometry(d) \/ HandleMode(d) \/ HandleScale(d) \/ HandleName(d)
  PROVE  DisplaysInv' /\ \A o \in Outputs : outs'[o].info = outs[o].info
<1>1. outs[d] \in OutputHandles /\ outs[d].pending \in Infos
  BY DEF DisplaysInv, OutputHandles
<1>2. PICK i \in Infos : Announce(d, i) /\ outs[d].bound
  <2>1. CASE HandleGeometry(d)
    <3>1. PICK t \in Turns : outs[d].bound /\ Announce(d, [outs[d].pending EXCEPT !.transform = t])
      BY <2>1 DEF HandleGeometry
    <3>2. [outs[d].pending EXCEPT !.transform = t] \in Infos
      BY <1>1, OutputsAssumption DEF Infos
    <3>3. QED
      BY <3>1, <3>2
  <2>2. CASE HandleMode(d)
    <3>1. PICK m \in Modes : outs[d].bound /\ Announce(d, [outs[d].pending EXCEPT !.px = m])
      BY <2>2 DEF HandleMode
    <3>2. m \in Pixels
      BY OutputsAssumption DEF Pixels
    <3>3. [outs[d].pending EXCEPT !.px = m] \in Infos
      BY <1>1, <3>2 DEF Infos
    <3>4. QED
      BY <3>1, <3>3
  <2>3. CASE HandleScale(d)
    <3>1. PICK s \in Scales :
            outs[d].bound /\ Announce(d, [outs[d].pending EXCEPT !.scale = IF ForcedScale > 0 THEN ForcedScale ELSE s])
      BY <2>3 DEF HandleScale
    <3> DEFINE kept == IF ForcedScale > 0 THEN ForcedScale ELSE s
    <3>2. kept \in Nat \ {0}
      BY OutputsAssumption
    <3> HIDE DEF kept
    <3>3. [outs[d].pending EXCEPT !.scale = kept] \in Infos
      BY <1>1, <3>2 DEF Infos
    <3>4. QED
      BY <3>1, <3>3 DEF kept
  <2>4. CASE HandleName(d)
    <3>1. outs[d].bound /\ Announce(d, [outs[d].pending EXCEPT !.named = TRUE])
      BY <2>4 DEF HandleName
    <3>2. [outs[d].pending EXCEPT !.named = TRUE] \in Infos
      BY <1>1 DEF Infos
    <3>3. QED
      BY <3>1, <3>2
  <2>5. QED
    BY <2>1, <2>2, <2>3, <2>4
<1> DEFINE h == [outs[d] EXCEPT !.pending = i]
<1>3. h \in OutputHandles /\ h.bound /\ h.info = outs[d].info
  BY <1>1, <1>2 DEF OutputHandles
<1>4. outs' = [outs EXCEPT ![d] = h] /\ primary' = primary
  BY <1>2 DEF Announce, DisplaysInv
<1> HIDE DEF h
<1>5. primary' \in Bound(outs') \cup {NoOutput}
  BY <1>3, <1>4 DEF DisplaysInv, Bound
<1>6. QED
  BY <1>3, <1>4, <1>5, OutputChanges DEF DisplaysInv

LEMMA AppearPreserves ==
  ASSUME DisplaysInv, NEW d \in Outputs, Appear(d)
  PROVE  DisplaysInv' /\ \A o \in Outputs : outs'[o].info = outs[o].info
<1> DEFINE h == [Unbound EXCEPT !.bound = TRUE]
<1>1. h \in OutputHandles /\ h.bound /\ h.info = Blank
  BY BlankIs DEF OutputHandles, Unbound
<1>2. outs' = [outs EXCEPT ![d] = h] /\ primary' = primary /\ ~outs[d].bound
  BY DEF Appear
<1> HIDE DEF h
<1>3. primary' \in Bound(outs') \cup {NoOutput}
  BY <1>1, <1>2 DEF DisplaysInv, Bound
<1>4. QED
  BY <1>1, <1>2, <1>3, OutputChanges DEF DisplaysInv

LEMMA RotatedIs ==
  ASSUME NEW i \in Insets, NEW t
  PROVE  RotatedFor(i, t) \in Insets
BY DEF RotatedFor, Insets

LEMMA DoneIs ==
  ASSUME DisplaysInv, NEW d \in Outputs, outs[d].bound
  PROVE  /\ DoneOuts(d)[d] \in OutputHandles /\ DoneOuts(d)[d].bound
         /\ DoneOuts(d) = [outs EXCEPT ![d] = DoneOuts(d)[d]]
<1> DEFINE i == outs[d].pending
           j == Settled(i)
           h == [outs[d] EXCEPT !.info = j, !.pending = j]
<1>1. outs[d] \in OutputHandles /\ i \in Infos
  BY DEF DisplaysInv, OutputHandles
<1>2. j \in Infos
  <2> DEFINE k == IF SafeArea = NoInsets THEN i.insets ELSE RotatedFor(SafeArea, i.transform)
  <2>1. i.insets \in Insets /\ SafeArea \in Insets
    BY <1>1, OutputsAssumption DEF Infos, Insets
  <2>2. k \in Insets
    BY <2>1, RotatedIs
  <2>3. j = [i EXCEPT !.insets = k]
    BY DEF Settled
  <2> HIDE DEF k
  <2>4. QED
    BY <1>1, <2>2, <2>3 DEF Infos
<1>3. DoneOuts(d) = [outs EXCEPT ![d] = h]
  BY DEF DoneOuts, DisplaysInv
<1> HIDE DEF j
<1>4. h \in OutputHandles /\ h.bound
  BY <1>1, <1>2 DEF OutputHandles
<1> HIDE DEF h
<1>5. DoneOuts(d)[d] = h
  BY <1>3 DEF DisplaysInv
<1>6. QED
  BY <1>3, <1>4, <1>5

LEMMA ReservedIs ==
  ASSUME NEW h \in OutputHandles
  PROVE  Reserved(h) \in OutputHandles /\ Reserved(h).bound = h.bound /\ Reserved(h).info = h.info
<1> DEFINE s == IF Announced(h) THEN h.info.scale ELSE h.reserved
<1>1. s \in Nat
  BY DEF OutputHandles, Infos
<1>2. Reserved(h) = [h EXCEPT !.reserved = s]
  BY DEF Reserved
<1> HIDE DEF s
<1>3. QED
  BY <1>1, <1>2 DEF OutputHandles

-------------------------------------------------------------------------------
(* One window.                                                               *)

WindowRecs ==
  [open : BOOLEAN, stacked : BOOLEAN, visible : BOOLEAN, state : WindowStates,
   geom : Boxes, saved : Boxes, min : Sizes, max : Sizes]

\* An area windows are put in.
IsArea(a) == Roomy(a) /\ a.full \in Boxes

\* The window x has become y in the area a: it is where it was, or in reach.
Becomes(x, y, a) ==
  /\ y \in WindowRecs /\ y.open = x.open
  /\ y.state = "Fullscreen" \/ y.geom = x.geom \/ InReach(a.usable, y.geom)

LEMMA BoxesAreRects == Boxes \subseteq Rects
BY DEF Boxes, Rects

LEMMA NothingIs == NoSize \in Sizes /\ NoRect \in Boxes
BY DEF NoSize, Size, Sizes, NoRect, Rect, Boxes

LEMMA AbsentIs == Absent \in WindowRecs
BY NothingIs DEF Absent, WindowRecs, WindowStates

LEMMA WindowIs ==
  ASSUME NEW x \in WindowRecs
  PROVE  /\ x.geom \in Boxes /\ x.saved \in Boxes /\ x.geom \in Rects /\ x.saved \in Rects
         /\ x.min \in Sizes /\ x.max \in Sizes /\ x.state \in WindowStates /\ x.open \in BOOLEAN
<1>1. x.geom \in Boxes /\ x.saved \in Boxes
  BY DEF WindowRecs
<1>2. x.min \in Sizes /\ x.max \in Sizes /\ x.state \in WindowStates /\ x.open \in BOOLEAN
  BY DEF WindowRecs
<1>3. QED
  BY <1>1, <1>2, BoxesAreRects

LEMMA MinimizedIs ==
  ASSUME NEW x \in WindowRecs, NEW a
  PROVE  Becomes(x, Minimized(x), a)
BY DEF Becomes, Minimized, WindowRecs, WindowStates

\* A new rectangle and state for a window.
LEMMA PutIs ==
  ASSUME NEW x \in WindowRecs, NEW a, NEW g \in Boxes, NEW s \in Boxes, NEW st \in WindowStates,
         st = "Fullscreen" \/ g = x.geom \/ InReach(a.usable, g),
         NEW y, y = [x EXCEPT !.saved = s, !.geom = g, !.state = st]
  PROVE  Becomes(x, y, a) /\ y.geom = g
BY DEF Becomes, WindowRecs

LEMMA MaximizedIs ==
  ASSUME NEW x \in WindowRecs, NEW a, IsArea(a)
  PROVE  Becomes(x, Maximized(x, a), a)
<1>1. CASE x.state = "Maximized"
  BY <1>1 DEF Maximized, Becomes
<1>2. CASE x.state # "Maximized"
  <2>1. a.usable \in Boxes /\ InReach(a.usable, a.usable) /\ Saving(x) \in Boxes /\ "Maximized" \in WindowStates
    BY UsableReaches, WindowIs DEF IsArea, Roomy, Saving, WindowStates
  <2> DEFINE g == a.usable
             s == Saving(x)
             y == Maximized(x, a)
  <2>2. y = [x EXCEPT !.saved = s, !.geom = g, !.state = "Maximized"]
    BY <1>2 DEF Maximized
  <2>3. g \in Boxes /\ s \in Boxes /\ ("Maximized" = "Fullscreen" \/ InReach(a.usable, g))
    BY <2>1
  <2> HIDE DEF g, s, y
  <2>4. Becomes(x, y, a)
    BY <2>1, <2>2, <2>3, PutIs
  <2>5. QED
    BY <2>4 DEF y
<1>3. QED
  BY <1>1, <1>2

LEMMA FullscreenedIs ==
  ASSUME NEW x \in WindowRecs, NEW a, IsArea(a)
  PROVE  Becomes(x, Fullscreened(x, a), a)
<1>1. CASE x.state = "Fullscreen"
  BY <1>1 DEF Fullscreened, Becomes
<1>2. CASE x.state # "Fullscreen"
  <2>1. a.full \in Boxes /\ Saving(x) \in Boxes /\ "Fullscreen" \in WindowStates
    BY WindowIs DEF IsArea, Saving, WindowStates
  <2> DEFINE g == a.full
             s == Saving(x)
             y == Fullscreened(x, a)
  <2>2. y = [x EXCEPT !.saved = s, !.geom = g, !.state = "Fullscreen"]
    BY <1>2 DEF Fullscreened
  <2>3. g \in Boxes /\ s \in Boxes /\ ("Fullscreen" = "Fullscreen" \/ InReach(a.usable, g))
    BY <2>1
  <2> HIDE DEF g, s, y
  <2>4. Becomes(x, y, a)
    BY <2>1, <2>2, <2>3, PutIs
  <2>5. QED
    BY <2>4 DEF y
<1>3. QED
  BY <1>1, <1>2

LEMMA RestoredIs ==
  ASSUME NEW x \in WindowRecs, NEW a, IsArea(a)
  PROVE  Becomes(x, RestoredWindow(x, a), a)
<1>1. CASE x.state \in {"Maximized", "Fullscreen"}
  <2> DEFINE g == Restored(a, x.saved, x.min, x.max)
             y == [x EXCEPT !.geom = g, !.state = "Normal", !.saved = NoRect]
  <2>1. g \in Boxes /\ InReach(a.usable, g)
    BY WindowIs, RestoredReaches DEF IsArea
  <2>2. RestoredWindow(x, a) = y
    BY <1>1 DEF RestoredWindow
  <2> HIDE DEF g
  <2>3. y = [x EXCEPT !.saved = NoRect, !.geom = g, !.state = "Normal"]
    BY DEF WindowRecs
  <2>4. "Normal" \in WindowStates
    BY DEF WindowStates
  <2> HIDE DEF y
  <2>5. Becomes(x, y, a)
    BY <2>1, <2>3, <2>4, NothingIs, PutIs
  <2>6. QED
    BY <2>2, <2>5
<1>2. CASE x.state = "Minimized"
  <2>1. RestoredWindow(x, a) = [x EXCEPT !.state = "Normal", !.visible = TRUE]
    BY <1>2 DEF RestoredWindow
  <2>2. QED
    BY <2>1 DEF Becomes, WindowRecs, WindowStates
<1>3. CASE x.state = "Normal"
  BY <1>3 DEF RestoredWindow, Becomes
<1>4. QED
  BY <1>1, <1>2, <1>3, WindowIs DEF WindowStates

LEMMA ToggledIs ==
  ASSUME NEW x \in WindowRecs, NEW a, IsArea(a)
  PROVE  Becomes(x, MaximizeToggled(x, a), a) /\ Becomes(x, FullscreenToggled(x, a), a)
BY MaximizedIs, FullscreenedIs, RestoredIs DEF MaximizeToggled, FullscreenToggled

\* A window that follows the screen; a maximized one fills it.
LEMMA AdaptedIs ==
  ASSUME NEW x \in WindowRecs, NEW a, IsArea(a)
  PROVE  Becomes(x, Adapted(x, a), a) /\ (x.state = "Maximized" => Adapted(x, a).geom = a.usable)
<1> DEFINE g == CASE x.state = "Maximized"  -> a.usable
                  [] x.state = "Fullscreen" -> a.full
                  [] x.state = "Normal"     -> Constrain(a, x.geom, x.min)
                  [] x.state = "Minimized"  -> x.geom
           s == IF x.saved = NoRect THEN x.saved ELSE Constrain(a, x.saved, x.min)
<1>1. Constrain(a, x.geom, x.min) \in Boxes /\ InReach(a.usable, Constrain(a, x.geom, x.min))
  BY WindowIs, ConstrainReaches DEF IsArea
<1>2. Constrain(a, x.saved, x.min) \in Boxes
  BY WindowIs, ConstrainReaches DEF IsArea
<1>3. x.state \in {"Normal", "Minimized", "Maximized", "Fullscreen"}
  BY WindowIs DEF WindowStates
<1>4. a.usable \in Boxes /\ a.full \in Boxes /\ InReach(a.usable, a.usable)
  BY UsableReaches DEF IsArea, Roomy
<1>5. g \in Boxes /\ (x.state = "Fullscreen" \/ g = x.geom \/ InReach(a.usable, g))
      /\ (x.state = "Maximized" => g = a.usable)
  <2>1. CASE x.state = "Maximized"
    BY <1>4, <2>1
  <2>2. CASE x.state = "Fullscreen"
    BY <1>4, <2>2
  <2>3. CASE x.state = "Normal"
    BY <1>1, <2>3
  <2>4. CASE x.state = "Minimized"
    BY <2>4, WindowIs
  <2>5. QED
    BY <1>3, <2>1, <2>2, <2>3, <2>4
<1>6. s \in Boxes
  BY <1>2, WindowIs
<1>7. Adapted(x, a) = [x EXCEPT !.geom = g, !.saved = s]
  BY DEF Adapted
<1> HIDE DEF g, s
<1> DEFINE y == Adapted(x, a)
           st == x.state
<1>8. y = [x EXCEPT !.saved = s, !.geom = g, !.state = st]
  BY <1>7 DEF WindowRecs
<1>9. st \in WindowStates /\ (st = "Fullscreen" \/ g = x.geom \/ InReach(a.usable, g))
  BY <1>3, <1>5 DEF WindowStates
<1> HIDE DEF y, st
<1>10. g \in Boxes
  BY <1>5
<1>11. Becomes(x, y, a) /\ y.geom = g
  BY <1>6, <1>8, <1>9, <1>10 DEF Becomes, WindowRecs
<1>12. QED
  BY <1>5, <1>11 DEF y

-------------------------------------------------------------------------------
(* A move or resize.                                                         *)

Pts == [x : Int, y : Int]

EdgeNames == {"None", "Left", "Right", "Top", "Bottom", "TopLeft", "TopRight", "BottomLeft", "BottomRight"}

Interactions ==
  [type : {"None", "Moving", "Resizing"}, id : Windows \cup {NoWindow}, edge : EdgeNames, start : Pts,
   initial : Boxes, current : Boxes, usable : Boxes, min : Sizes, max : Sizes]

\* An interaction has room to move in, and what is moved is in reach.
Sound(i) ==
  /\ i \in Interactions
  /\ i.type = "None" <=> i.id = NoWindow
  /\ i.type # "None" => 96 <= i.usable.w /\ LeastTitle <= i.usable.h
  /\ i.type = "Moving" => InReach(i.usable, i.current)

LEMMA NoInteractionIs == Sound(NoInteraction) /\ NoInteraction.id = NoWindow
<1>1. Origin \in Pts
  BY DEF Origin, Pts
<1>2. QED
  BY <1>1, NothingIs DEF Sound, NoInteraction, Interactions, EdgeNames

LEMMA MovedReaches ==
  ASSUME NEW i \in Interactions, NEW p \in Pts, 96 <= i.usable.w, LeastTitle <= i.usable.h
  PROVE  Moved(i, p) \in Boxes /\ InReach(i.usable, Moved(i, p))
<1> DEFINE g == i.initial
           u == i.usable
           vx == g.x + p.x - i.start.x
           vy == g.y + p.y - i.start.y
           x == Between(vx, u.x - g.w + 48, u.x + u.w - 48)
           y == Between(vy, u.y, u.y + u.h - 36)
<1>1. g \in Boxes /\ u \in Boxes /\ i.start \in Pts
  BY DEF Interactions
<1>2. /\ g.x \in Int /\ g.y \in Int /\ g.w \in Nat /\ g.h \in Nat
      /\ u.x \in Int /\ u.y \in Int /\ u.w \in Nat /\ u.h \in Nat
      /\ p.x \in Int /\ p.y \in Int /\ i.start.x \in Int /\ i.start.y \in Int
      /\ 96 <= u.w /\ 36 <= u.h
  BY <1>1 DEF Boxes, Pts, LeastTitle
<1>3. Moved(i, p) = Rect(x, y, g.w, g.h)
  BY DEF Moved
<1> HIDE DEF g, u
<1>4. vx \in Int /\ vy \in Int
  BY <1>2
<1> HIDE DEF vx, vy
<1>5. x \in Int /\ u.x - g.w + 48 <= x /\ x <= u.x + u.w - 48
  <2>1. u.x - g.w + 48 \in Int /\ u.x + u.w - 48 \in Int /\ u.x - g.w + 48 <= u.x + u.w - 48
    BY <1>2
  <2>2. QED
    BY <1>4, <2>1, BetweenBounds
<1>6. y \in Int /\ u.y <= y /\ y <= u.y + u.h - 36
  <2>1. u.y \in Int /\ u.y + u.h - 36 \in Int /\ u.y <= u.y + u.h - 36
    BY <1>2
  <2>2. QED
    BY <1>4, <2>1, BetweenBounds
<1> HIDE DEF x, y
<1>7. Rect(x, y, g.w, g.h) \in Boxes
  BY <1>2, <1>5, <1>6 DEF Rect, Boxes
<1>8. InReach(u, Rect(x, y, g.w, g.h))
  BY <1>2, <1>5, <1>6 DEF InReach, Rect, LeastTitle
<1>9. QED
  BY <1>3, <1>7, <1>8 DEF u

LEMMA ResizedIs ==
  ASSUME NEW i \in Interactions, NEW p \in Pts
  PROVE  Resized(i, p) \in Boxes
<1> DEFINE g  == i.initial
           dx == p.x - i.start.x
           dy == p.y - i.start.y
           Length(v, min, max, room) ==
             Smaller(IF max > 0 THEN Smaller(Larger(v, Larger(100, min)), max) ELSE Larger(v, Larger(100, min)), room)
           w  == CASE i.edge \in LeftEdges  -> Length(g.w - dx, i.min.w, i.max.w, i.usable.w)
                   [] i.edge \in RightEdges -> Length(g.w + dx, i.min.w, i.max.w, i.usable.w)
                   [] OTHER -> g.w
           h  == CASE i.edge \in TopEdges    -> Length(g.h - dy, i.min.h, i.max.h, i.usable.h)
                   [] i.edge \in BottomEdges -> Length(g.h + dy, i.min.h, i.max.h, i.usable.h)
                   [] OTHER -> g.h
           x  == IF i.edge \in LeftEdges THEN g.x + g.w - w ELSE g.x
           y  == IF i.edge \in TopEdges THEN g.y + g.h - h ELSE g.y
           low == Larger(h - (i.usable.y - y), Larger(100, i.min.h))
<1>1. g \in Boxes /\ i.usable \in Boxes /\ i.start \in Pts /\ i.min \in Sizes /\ i.max \in Sizes
  BY DEF Interactions
<1>2. /\ g.x \in Int /\ g.y \in Int /\ g.w \in Nat /\ g.h \in Nat
      /\ i.usable.x \in Int /\ i.usable.y \in Int /\ i.usable.w \in Nat /\ i.usable.h \in Nat
      /\ dx \in Int /\ dy \in Int
      /\ i.min.w \in Int /\ i.min.h \in Int /\ i.max.w \in Int /\ i.max.h \in Int
  BY <1>1 DEF Boxes, Pts, Sizes
<1>3. ASSUME NEW v \in Int, NEW min \in Int, NEW max \in Int, NEW room \in Nat
      PROVE  Length(v, min, max, room) \in Nat
  BY DEF Smaller, Larger
<1>4. Resized(i, p) = IF y >= i.usable.y THEN Rect(x, y, w, h) ELSE Rect(x, i.usable.y, w, low)
  BY DEF Resized
<1> HIDE DEF g, dx, dy, Length
<1>5. w \in Nat
  <2>1. g.w - dx \in Int /\ g.w + dx \in Int
    BY <1>2
  <2>2. /\ Length(g.w - dx, i.min.w, i.max.w, i.usable.w) \in Nat
        /\ Length(g.w + dx, i.min.w, i.max.w, i.usable.w) \in Nat
    BY <1>2, <1>3, <2>1
  <2>3. QED
    BY <1>2, <2>2
<1>6. h \in Nat
  <2>1. g.h - dy \in Int /\ g.h + dy \in Int
    BY <1>2
  <2>2. /\ Length(g.h - dy, i.min.h, i.max.h, i.usable.h) \in Nat
        /\ Length(g.h + dy, i.min.h, i.max.h, i.usable.h) \in Nat
    BY <1>2, <1>3, <2>1
  <2>3. QED
    BY <1>2, <2>2
<1> HIDE DEF w, h
<1>7. x \in Int /\ y \in Int
  BY <1>2, <1>5, <1>6
<1> HIDE DEF x, y
<1>8. low \in Nat
  BY <1>2, <1>6, <1>7 DEF Larger
<1> HIDE DEF low
<1>9. QED
  BY <1>2, <1>4, <1>5, <1>6, <1>7, <1>8 DEF Rect, Boxes

LEMMA UpdatedIs ==
  ASSUME NEW i, Sound(i), NEW p \in Pts
  PROVE  Sound(Updated(i, p)) /\ Updated(i, p).type = i.type /\ Updated(i, p).id = i.id
<1>1. i \in Interactions /\ i.type \in {"None", "Moving", "Resizing"}
  BY DEF Sound, Interactions
<1>2. CASE i.type = "None"
  BY <1>2 DEF Updated
<1>3. CASE i.type = "Moving"
  <2> DEFINE g == Moved(i, p)
  <2>1. g \in Boxes /\ InReach(i.usable, g)
    BY <1>1, <1>3, MovedReaches DEF Sound
  <2>2. Updated(i, p) = [i EXCEPT !.current = g]
    BY <1>3 DEF Updated
  <2> HIDE DEF g
  <2>3. QED
    BY <2>1, <2>2 DEF Sound, Interactions
<1>4. CASE i.type = "Resizing"
  <2> DEFINE g == Resized(i, p)
  <2>1. g \in Boxes
    BY <1>1, ResizedIs
  <2>2. Updated(i, p) = [i EXCEPT !.current = g]
    BY <1>4 DEF Updated
  <2> HIDE DEF g
  <2>3. QED
    BY <1>4, <2>1, <2>2 DEF Sound, Interactions
<1>5. QED
  BY <1>1, <1>2, <1>3, <1>4

Typed == DisplaysInv /\ win \in [Windows -> WindowRecs]

LEMMA ScreenIs == DisplaysInv => IsArea(PrimaryArea(outs, primary))
BY PrimaryRoomy DEF DisplaysInv, Bound, IsArea

LEMMA StartedIs ==
  ASSUME Typed, NEW id \in Windows, NEW edge \in EdgeNames, NEW from \in Pts, NEW to \in Pts
  PROVE  LET i == Started(id, edge, from, to)
         IN  Sound(i) /\ i.id = id /\ i.type = IF edge = "None" THEN "Moving" ELSE "Resizing"
<1> DEFINE u == PrimaryArea(outs, primary).usable
           min == IF edge = "None" THEN NoSize ELSE win[id].min
           max == IF edge = "None" THEN NoSize ELSE win[id].max
           type == IF edge = "None" THEN "Moving" ELSE "Resizing"
           g == win[id].geom
           i == [type |-> type, id |-> id, edge |-> edge, start |-> from, initial |-> g, current |-> g,
                 usable |-> u, min |-> min, max |-> max]
           c == IF edge = "None" THEN Moved(i, to) ELSE Resized(i, to)
<1>1. u \in Boxes /\ 96 <= u.w /\ LeastTitle <= u.h
  <2>1. Roomy(PrimaryArea(outs, primary))
    BY ScreenIs DEF Typed, IsArea
  <2>2. QED
    BY <2>1 DEF Roomy, LeastTitle, Boxes
<1>2. g \in Boxes /\ min \in Sizes /\ max \in Sizes
  BY WindowIs, NothingIs DEF Typed
<1>3. Started(id, edge, from, to) = [i EXCEPT !.current = c]
  BY DEF Started
<1> HIDE DEF u, min, max, g
<1>4. i \in Interactions /\ i.usable = u /\ i.type = type /\ i.id = id /\ i.edge = edge
  BY <1>1, <1>2 DEF Interactions
<1> HIDE DEF i
<1>5. c \in Boxes /\ (edge = "None" => InReach(u, c))
  BY <1>1, <1>4, MovedReaches, ResizedIs
<1> HIDE DEF c
<1>6. QED
  BY <1>1, <1>3, <1>4, <1>5, TouchAssumption DEF Sound, Interactions

-------------------------------------------------------------------------------
(* A contact and the inductive invariant.                                    *)

TouchStates == {"Idle", "ContactPending", "WindowFocus", "ControlPress", "Moving", "Resizing"}

ControlNames == {"Close", "Maximize", "Minimize"}

Contacts(hit) ==
  [state : TouchStates, finger : Fingers \cup {NoFinger}, hit : {hit}, start : Pts, at : Pts,
   held : {"none", "drag", "resize"}, pressed : BOOLEAN, tap : Windows \cup {NoWindow}]

\* What touch keeps of a contact: while a finger is down it is on a window.
Contact(t) ==
  /\ t \in Contacts(t.hit)
  /\ t.hit.id \in Windows \cup {NoWindow} /\ t.hit.edge \in EdgeNames
  /\ t.finger = NoFinger <=> t.state = "Idle"
  /\ t.finger = NoFinger => t.held = "none"
  /\ t.finger # NoFinger => t.hit.id \in Windows
  /\ t.state = "ControlPress" => t.hit.target \in ControlNames

\* That window is one of those registered in W.
Holds(t, W) == t.finger # NoFinger => W[t.hit.id].open

\* An interaction i is what the contact t holds.
Drives(t, i) ==
  i.id # NoWindow =>
    /\ i.id = t.hit.id /\ t.finger # NoFinger /\ t.state = i.type
    /\ t.held = IF i.type = "Moving" THEN "drag" ELSE "resize"

Remembered(r) == r \in [class : LayoutClasses, status : {r.status}, dock : {r.dock}]

\* Touch and the interaction agree with each other and with the windows.
Touching ==
  Sound(inter) /\ Contact(touch) /\ Holds(touch, win) /\ Drives(touch, inter)

\* NoOrphanDrag is not inductive: a contact must stay with the window it went down on,
\* and an interaction with the contact that began it.  That rectangles stay in reach
\* needs besides that an interaction has room and that what is being moved is in reach.
IInv ==
  /\ Typed /\ Touching
  /\ Remembered(recall) /\ seat \in {"wired", "lost", "deaf"}

\* The bodies of TitleBarsStayInReach and MaximizedFollowsScreen.
ReachStep ==
  \A w \in Windows :
    LET new == win'[w].geom
    IN  /\ win'[w].open /\ win'[w].state # "Fullscreen"
        /\ new \notin {win[w].geom, inter.initial} \cup ClientRects /\ touch.state # "Resizing"
        => \E u \in Areas(outs, primary) \cup Areas(outs', primary') \cup {inter.usable} : InReach(u, new)

FollowStep ==
  primary' = primary /\ primary # NoOutput /\ Announced(outs[primary]) /\ outs'[primary].info # outs[primary].info =>
    \A w \in Open : win[w].state = "Maximized" /\ w # inter.id => win'[w].geom = PrimaryArea(outs', primary').usable

\* What every step of the desktop does.
GoodStep == IInv' /\ ReachStep /\ FollowStep

-------------------------------------------------------------------------------
(* Steps that leave the outputs alone.                                       *)

\* Windows with a new value y, as far as reach is concerned.
Fine(w, y) ==
  \/ ~y.open \/ y.state = "Fullscreen" \/ touch.state = "Resizing"
  \/ y.geom \in {win[w].geom, inter.initial} \cup ClientRects
  \/ InReach(PrimaryArea(outs, primary).usable, y.geom) \/ InReach(inter.usable, y.geom)

LEMMA FineSteps ==
  ASSUME UNCHANGED <<outs, primary>>, \A w \in Windows : Fine(w, win'[w])
  PROVE  ReachStep /\ FollowStep
<1>1. FollowStep
  BY DEF FollowStep
<1>2. ASSUME NEW w \in Windows, win'[w].open, win'[w].state # "Fullscreen",
             win'[w].geom \notin {win[w].geom, inter.initial} \cup ClientRects, touch.state # "Resizing"
      PROVE  \E u \in Areas(outs, primary) \cup Areas(outs', primary') \cup {inter.usable} : InReach(u, win'[w].geom)
  <2>1. InReach(PrimaryArea(outs, primary).usable, win'[w].geom) \/ InReach(inter.usable, win'[w].geom)
    BY <1>2 DEF Fine
  <2>2. PrimaryArea(outs, primary).usable \in Areas(outs, primary)
    BY DEF Areas
  <2>3. QED
    BY <2>1, <2>2
<1>3. QED
  BY <1>1, <1>2 DEF ReachStep

LEMMA WindowsStay ==
  ASSUME Typed, UNCHANGED <<outs, primary, win>>
  PROVE  Typed' /\ ReachStep /\ FollowStep
<1>1. \A w \in Windows : Fine(w, win'[w])
  BY DEF Fine
<1>2. Typed'
  BY DEF Typed, DisplaysInv, Bound
<1>3. QED
  BY <1>1, <1>2, FineSteps

LEMMA WindowChanges ==
  ASSUME Typed, UNCHANGED <<outs, primary>>, NEW w \in Windows, NEW y \in WindowRecs, Fine(w, y),
         win' = [win EXCEPT ![w] = y]
  PROVE  Typed' /\ ReachStep /\ FollowStep
<1>1. \A v \in Windows : win'[v] = IF v = w THEN y ELSE win[v]
  BY DEF Typed
<1>2. \A v \in Windows : Fine(v, win'[v])
  BY <1>1 DEF Fine
<1>3. Typed'
  BY DEF Typed, DisplaysInv, Bound
<1>4. QED
  BY <1>2, <1>3, FineSteps

\* Whatever becomes of a window on the primary output is fine.
LEMMA BecomesFine ==
  ASSUME NEW w \in Windows, NEW y, Becomes(win[w], y, PrimaryArea(outs, primary))
  PROVE  y \in WindowRecs /\ Fine(w, y) /\ y.open = win[w].open
BY DEF Becomes, Fine

\* The contact goes on, with its interaction or without it.
LEMMA ContactStays ==
  ASSUME Touching, UNCHANGED touch, inter' \in {inter, NoInteraction},
         \A w \in Windows : win[w].open => win'[w].open
  PROVE  Touching'
<1>1. Sound(inter)' /\ Drives(touch, inter)'
  BY NoInteractionIs DEF Touching, Drives
<1>2. Contact(touch)' /\ Holds(touch, win)'
  BY DEF Touching, Contact, Holds
<1>3. QED
  BY <1>1, <1>2 DEF Touching

\* The contact ends, and its interaction with it.
LEMMA ContactEnds ==
  ASSUME NEW tap \in Windows \cup {NoWindow}, touch' = Idle(tap), Sound(inter'), inter'.id = NoWindow
  PROVE  Touching'
<1>1. Contact(Idle(tap)) /\ Idle(tap).finger = NoFinger
  <2>1. Origin \in Pts /\ FALSE \in BOOLEAN /\ "Idle" \in TouchStates /\ "None" \in EdgeNames
    BY DEF Origin, Pts, TouchStates, EdgeNames
  <2>2. QED
    BY <2>1 DEF Idle, Contact, Contacts, NoHit
<1>2. QED
  BY <1>1 DEF Touching, Holds, Drives

\* Without a hold there is no interaction.
LEMMA Unheld ==
  ASSUME Touching
  PROVE  /\ inter.id # NoWindow => touch.held # "none" /\ touch.state \in {"Moving", "Resizing"}
         /\ touch.tap \in Windows \cup {NoWindow}
         /\ touch.state # "Idle" => touch.hit.id \in Windows /\ win[touch.hit.id].open
<1>1. inter.id # NoWindow => inter.type \in {"Moving", "Resizing"}
  BY DEF Touching, Sound, Interactions
<1>2. touch.tap \in Windows \cup {NoWindow}
  BY DEF Touching, Contact, Contacts
<1>3. QED
  BY <1>1, <1>2 DEF Touching, Drives, Contact, Holds

-------------------------------------------------------------------------------
(* The touch screen.                                                         *)

LEMMA EdgeIs ==
  ASSUME NEW g, NEW p, NEW m
  PROVE  EdgeAt(g, p, m) \in EdgeNames
<1> DEFINE near   == /\ g.x - m <= p.x /\ p.x <= g.x + g.w + m
                     /\ g.y - m <= p.y /\ p.y <= g.y + g.h + m
           left   == p.x <= g.x + m
           right  == p.x >= g.x + g.w - m
           bottom == p.y >= g.y + g.h - m
           top    == p.y <= g.y + m
           high   == p.y <= g.y + 6
<1>1. EdgeAt(g, p, m) =
        CASE ~near            -> "None"
          [] top /\ left      -> "TopLeft"
          [] top /\ right     -> "TopRight"
          [] bottom /\ left   -> "BottomLeft"
          [] bottom /\ right  -> "BottomRight"
          [] high             -> "Top"
          [] bottom           -> "Bottom"
          [] left             -> "Left"
          [] right            -> "Right"
          [] OTHER            -> "None"
  BY DEF EdgeAt
<1> HIDE DEF near, left, right, bottom, top, high
<1>2. QED
  BY <1>1 DEF EdgeNames

\* What is hit is a part of that window.
LEMMA HitIs ==
  ASSUME NEW id \in Windows, NEW p, HitWindow(id, p).target # "None"
  PROVE  HitWindow(id, p).id = id /\ HitWindow(id, p).edge \in EdgeNames
<1> DEFINE g      == win[id].geom
           m      == Metrics(recall.class, TRUE)
           Button(k) == Rect(g.x + g.w - k * m.control, g.y, m.control, m.title)
           header == Rect(g.x, g.y, g.w, m.title)
           under  == {k \in 1 .. 3 : Contains(Button(k), p)}
           k      == CHOOSE k \in under : TRUE
           edge   == IF win[id].state = "Maximized" THEN "None" ELSE EdgeAt(g, p, m.resize)
           Hit(target, e, r) == [id |-> id, target |-> target, edge |-> e, rect |-> r]
<1>1. edge \in EdgeNames /\ "None" \in EdgeNames
  BY EdgeIs DEF EdgeNames
<1>2. HitWindow(id, p) \in {NoHit, Hit("Content", "None", g), Hit(Controls[k], "None", Button(k)), Hit("Edge", edge, NoRect),
                            Hit("TitleBar", "None", header)}
  <2> DEFINE fullscreen == win[id].state = "Fullscreen"
             onHeader   == Contains(header, p)
             onWindow   == Contains(g, p)
  <2>1. HitWindow(id, p) =
          CASE fullscreen -> IF onWindow THEN Hit("Content", "None", g) ELSE NoHit
            [] under # {} -> Hit(Controls[k], "None", Button(k))
            [] edge # "None" -> Hit("Edge", edge, NoRect)
            [] onHeader -> Hit("TitleBar", "None", header)
            [] onWindow -> Hit("Content", "None", g)
            [] OTHER -> NoHit
    BY DEF HitWindow
  <2> HIDE DEF fullscreen, onHeader, onWindow, under, k, header, Button, edge, Hit
  <2>2. QED
    BY <2>1
<1> HIDE DEF k, header, Button, edge
<1>3. NoHit.target = "None"
  BY DEF NoHit
<1>4. QED
  BY <1>1, <1>2, <1>3

LEMMA HandlesAre ==
  ASSUME Typed
  PROVE  Handles \subseteq Pts
<1> SUFFICES ASSUME NEW w \in Windows, NEW name \in GripNames PROVE GripOf(win[w].geom, name) \in Pts
  BY TouchAssumption DEF Handles, Touchable, Open
<1> DEFINE g == win[w].geom
<1>1. g \in Boxes
  BY WindowIs DEF Typed
<1> HIDE DEF g
<1>2. g.x \in Int /\ g.y \in Int /\ g.w \in Nat /\ g.h \in Nat /\ g.w \div 2 \in Int
  BY <1>1 DEF Boxes
<1> DEFINE half == g.w \div 2
<1>3. half \in Int
  BY <1>2
<1>4. GripOf(g, name) =
        CASE name = "title"    -> [x |-> g.x + 50, y |-> g.y + 20]
          [] name = "close"    -> [x |-> g.x + g.w - 30, y |-> g.y + 20]
          [] name = "maximize" -> [x |-> g.x + g.w - 70, y |-> g.y + 20]
          [] name = "minimize" -> [x |-> g.x + g.w - 110, y |-> g.y + 20]
          [] name = "content"  -> [x |-> g.x + half, y |-> g.y + 100]
          [] name = "top"      -> [x |-> g.x + 50, y |-> g.y + 4]
          [] name = "left"     -> [x |-> g.x + 4, y |-> g.y + 100]
          [] name = "right"    -> [x |-> g.x + g.w - 4, y |-> g.y + 100]
          [] name = "bottom"   -> [x |-> g.x + half, y |-> g.y + g.h - 4]
          [] name = "corner"   -> [x |-> g.x + g.w - 4, y |-> g.y + g.h - 4]
  BY DEF GripOf
<1> HIDE DEF half
<1>5. GripOf(g, name) \in Pts
  BY <1>2, <1>3, <1>4 DEF GripNames, Pts
<1>6. QED
  BY <1>5 DEF g

LEMMA ReachableAre ==
  ASSUME Touching
  PROVE  Reachable \subseteq Pts
<1>1. touch.start \in Pts
  BY DEF Touching, Contact, Contacts
<1>2. [x |-> touch.start.x + 3, y |-> touch.start.y + 3] \in Pts
  BY <1>1 DEF Pts
<1>3. QED
  BY <1>2, TouchAssumption DEF Reachable, Pts

LEMMA DownGood ==
  ASSUME IInv, NEW f \in Fingers, NEW p \in Handles, TouchDown(f, p)
  PROVE  GoodStep
<1>1. PICK w \in Touchable :
        LET hit == HitWindow(w, p)
        IN  /\ hit.target # "None"
            /\ touch' = [touch EXCEPT !.finger = f, !.start = p, !.at = p, !.hit = hit,
                           !.state = CASE hit.target \in {"Close", "Maximize", "Minimize"} -> "ControlPress"
                                       [] hit.target = "Content" -> "WindowFocus"
                                       [] OTHER -> "ContactPending",
                           !.pressed = hit.target \in {"Close", "Maximize", "Minimize"}]
  BY DEF TouchDown
<1> DEFINE hit     == HitWindow(w, p)
           pressed == hit.target \in {"Close", "Maximize", "Minimize"}
           state   == CASE pressed -> "ControlPress"
                        [] hit.target = "Content" -> "WindowFocus"
                        [] OTHER -> "ContactPending"
<1>2. /\ w \in Windows /\ win[w].open /\ touch.finger = NoFinger
      /\ UNCHANGED <<outs, primary, win, inter, recall, seat>>
  BY DEF Touchable, Open, TouchDown
<1>3. hit.id = w /\ hit.edge \in EdgeNames
  BY <1>1, <1>2, HitIs
<1>4. /\ state \in TouchStates /\ state # "Idle" /\ pressed \in BOOLEAN
      /\ state = "ControlPress" => hit.target \in ControlNames
  <2> HIDE DEF hit
  <2>1. state \in {"ControlPress", "WindowFocus", "ContactPending"} /\ pressed \in BOOLEAN
    OBVIOUS
  <2>2. state = "ControlPress" => hit.target \in ControlNames
    BY DEF ControlNames
  <2>3. QED
    BY <2>1, <2>2 DEF TouchStates
<1>5. touch' = [touch EXCEPT !.finger = f, !.start = p, !.at = p, !.hit = hit, !.state = state, !.pressed = pressed]
  BY <1>1
<1>6. touch \in Contacts(touch.hit) /\ touch.held = "none" /\ inter.id = NoWindow
  BY <1>2 DEF IInv, Touching, Contact, Drives
<1>7. p \in Pts
  BY HandlesAre DEF IInv
<1> HIDE DEF hit, state, pressed
<1>8. /\ touch'.finger = f /\ touch'.hit = hit /\ touch'.state = state /\ touch'.held = "none"
      /\ touch' \in Contacts(hit)
  BY <1>4, <1>5, <1>6, <1>7 DEF Contacts
<1>9. f # NoFinger
  BY TouchAssumption
<1>10. Contact(touch')
  BY <1>2, <1>3, <1>4, <1>8, <1>9 DEF Contact
<1>11. Touching'
  BY <1>2, <1>3, <1>6, <1>8, <1>10 DEF Touching, Holds, Drives, IInv
<1>12. Typed' /\ ReachStep /\ FollowStep
  BY <1>2, WindowsStay DEF IInv
<1>13. QED
  BY <1>2, <1>11, <1>12 DEF GoodStep, IInv

LEMMA MotionGood ==
  ASSUME IInv, NEW f \in Fingers, NEW p \in Reachable, TouchMotion(f, p)
  PROVE  GoodStep
<1>1. p \in Pts
  BY ReachableAre DEF IInv
<1>2. touch.finger = f /\ f # NoFinger /\ UNCHANGED <<outs, primary, win, recall, seat>>
  BY TouchAssumption DEF TouchMotion
<1>3. /\ touch \in Contacts(touch.hit) /\ touch.hit.id \in Windows /\ touch.hit.edge \in EdgeNames
      /\ touch.state # "Idle" /\ win[touch.hit.id].open
      /\ touch.state = "ControlPress" => touch.hit.target \in ControlNames
  BY <1>2 DEF IInv, Touching, Contact, Holds
<1>4. ASSUME TakesHold(p) PROVE Touching'
  <2> DEFINE edge == IF touch.hit.target = "Edge" THEN touch.hit.edge ELSE "None"
             held == IF edge = "None" THEN "drag" ELSE "resize"
             state == IF edge = "None" THEN "Moving" ELSE "Resizing"
  <2>1. inter' = Started(touch.hit.id, edge, touch.start, p)
    BY <1>4 DEF TouchMotion
  <2>2. edge \in EdgeNames /\ touch.start \in Pts
    BY <1>3 DEF EdgeNames, Contacts
  <2> HIDE DEF edge
  <2>3. Sound(inter') /\ inter'.id = touch.hit.id /\ inter'.type = state
    BY <1>1, <1>3, <2>1, <2>2, StartedIs DEF IInv
  <2>4. touch' = [touch EXCEPT !.at = p, !.state = state, !.held = held]
    BY <1>4, <2>3 DEF TouchMotion, edge
  <2>5. state \in {"Moving", "Resizing"} /\ held \in {"drag", "resize"} /\ held = IF state = "Moving" THEN "drag" ELSE "resize"
    OBVIOUS
  <2> HIDE DEF held, state
  <2>6. /\ touch' \in Contacts(touch.hit) /\ touch'.hit = touch.hit /\ touch'.finger = f
        /\ touch'.state = state /\ touch'.held = held
    BY <1>1, <1>2, <1>3, <2>4, <2>5 DEF Contacts, TouchStates
  <2>7. Contact(touch')
    BY <1>2, <1>3, <2>5, <2>6 DEF Contact
  <2>8. QED
    BY <1>2, <1>3, <2>3, <2>5, <2>6, <2>7 DEF Touching, Holds, Drives
<1>5. ASSUME ~TakesHold(p) PROVE Touching'
  <2> DEFINE pressed == touch.state = "ControlPress" /\ Contains(touch.hit.rect, p)
  <2>1. /\ inter' = IF touch.held # "none" THEN Updated(inter, p) ELSE inter
        /\ touch' = [touch EXCEPT !.at = p, !.pressed = pressed]
    BY <1>5 DEF TouchMotion
  <2>2. pressed \in BOOLEAN
    BY DEF Contains
  <2> HIDE DEF pressed
  <2>3. Sound(inter') /\ inter'.type = inter.type /\ inter'.id = inter.id
    BY <1>1, <2>1, UpdatedIs DEF IInv, Touching
  <2>4. /\ touch' \in Contacts(touch.hit) /\ touch'.hit = touch.hit /\ touch'.finger = f
        /\ touch'.state = touch.state /\ touch'.held = touch.held
    BY <1>1, <1>2, <1>3, <2>1, <2>2 DEF Contacts
  <2>5. Contact(touch')
    BY <1>2, <1>3, <2>4 DEF Contact
  <2>6. QED
    BY <1>2, <1>3, <2>3, <2>4, <2>5 DEF Touching, Holds, Drives, IInv
<1>6. Touching'
  BY <1>4, <1>5
<1>7. QED
  BY <1>2, <1>6, WindowsStay DEF GoodStep, IInv

LEMMA ReleaseGood ==
  ASSUME IInv, ReleaseControl, UNCHANGED <<outs, primary, recall, seat>>
  PROVE  GoodStep
<1> DEFINE id == touch.hit.id
           a  == PrimaryArea(outs, primary)
<1>1. /\ id \in Windows /\ win[id] \in WindowRecs /\ inter.id = NoWindow
      /\ touch.tap \in Windows \cup {NoWindow} /\ Sound(inter)
  BY Unheld DEF ReleaseControl, IInv, Typed, Touching
<1>2. touch.hit.target \in {"Close", "Maximize", "Minimize"} /\ touch' = Idle(touch.tap)
  BY DEF IInv, Touching, Contact, ControlNames, ReleaseControl, Lift
<1>3. IsArea(a)
  BY ScreenIs DEF IInv, Typed
<1>4. PICK y \in WindowRecs : Fine(id, y) /\ win' = [win EXCEPT ![id] = y] /\ inter' = inter
  <2>1. CASE ~(touch.pressed /\ Contains(touch.hit.rect, touch.at))
    <3>1. win' = [win EXCEPT ![id] = win[id]] /\ inter' = inter
      BY <1>1, <2>1 DEF ReleaseControl, IInv, Typed
    <3>2. Fine(id, win[id])
      BY DEF Fine
    <3>3. QED
      BY <1>1, <3>1, <3>2
  <2>2. CASE touch.pressed /\ Contains(touch.hit.rect, touch.at)
    <3>1. CASE touch.hit.target = "Close"
      <4> DEFINE y == [win[id] EXCEPT !.stacked = FALSE]
      <4>1. y \in WindowRecs /\ y.geom = win[id].geom
        BY <1>1 DEF WindowRecs
      <4>2. win' = [win EXCEPT ![id] = y] /\ inter' = inter
        BY <1>1, <2>2, <3>1, TouchAssumption DEF ReleaseControl, InteractionWithout
      <4> HIDE DEF y
      <4>3. QED
        BY <4>1, <4>2 DEF Fine
    <3>2. CASE touch.hit.target = "Maximize"
      <4> DEFINE y == MaximizeToggled(win[id], a)
      <4>1. win' = [win EXCEPT ![id] = y] /\ inter' = inter
        BY <2>2, <3>2 DEF ReleaseControl
      <4>2. y \in WindowRecs /\ Fine(id, y)
        BY <1>1, <1>3, ToggledIs, BecomesFine
      <4> HIDE DEF y
      <4>3. QED
        BY <4>1, <4>2
    <3>3. CASE touch.hit.target = "Minimize"
      <4> DEFINE y == Minimized(win[id])
      <4>1. win' = [win EXCEPT ![id] = y] /\ inter' = inter
        BY <2>2, <3>3 DEF ReleaseControl
      <4>2. y \in WindowRecs /\ Fine(id, y)
        BY <1>1, MinimizedIs, BecomesFine
      <4> HIDE DEF y
      <4>3. QED
        BY <4>1, <4>2
    <3>4. QED
      BY <1>2, <3>1, <3>2, <3>3
  <2>3. QED
    BY <2>1, <2>2
<1>5. Typed' /\ ReachStep /\ FollowStep
  BY <1>1, <1>4, WindowChanges DEF IInv
<1>6. Touching'
  BY <1>1, <1>2, <1>4, ContactEnds
<1>7. QED
  BY <1>5, <1>6 DEF GoodStep, IInv

LEMMA FinishGood ==
  ASSUME IInv, FinishHold, UNCHANGED <<outs, primary, recall, seat>>
  PROVE  GoodStep
<1>1. /\ touch.tap \in Windows \cup {NoWindow} /\ touch' = Idle(touch.tap) /\ Sound(inter)
      /\ inter.id # NoWindow => touch.held # "none"
  BY Unheld DEF FinishHold, Lift, IInv, Touching
<1>2. Sound(inter') /\ inter'.id = NoWindow
  BY <1>1, NoInteractionIs DEF FinishHold
<1>3. Touching'
  BY <1>1, <1>2, ContactEnds
<1>4. CASE inter.id = NoWindow
  <2>1. win' = win
    BY <1>4 DEF FinishHold, Placed
  <2>2. QED
    BY <1>3, <2>1, WindowsStay DEF GoodStep, IInv
<1>5. CASE inter.id # NoWindow
  <2> DEFINE id == inter.id
             g  == IF win[id].open THEN inter.current ELSE win[id].geom
             y  == [win[id] EXCEPT !.geom = g]
  <2>1. /\ id \in Windows /\ win[id] \in WindowRecs /\ inter.current \in Boxes
        /\ inter.type = "Moving" \/ (inter.type = "Resizing" /\ touch.state = "Resizing")
        /\ inter.type = "Moving" => InReach(inter.usable, inter.current)
    BY <1>5 DEF IInv, Typed, Touching, Sound, Interactions, Drives
  <2>2. win' = [win EXCEPT ![id] = y]
    BY <1>1, <1>5 DEF FinishHold, Placed
  <2>3. g \in Boxes /\ (g = win[id].geom \/ g = inter.current)
    BY <2>1 DEF WindowRecs
  <2> HIDE DEF g
  <2>4. y \in WindowRecs /\ y.geom = g
    BY <2>1, <2>3 DEF WindowRecs
  <2> HIDE DEF y
  <2>5. Fine(id, y)
    BY <2>1, <2>3, <2>4 DEF Fine
  <2> HIDE DEF id
  <2>6. Typed' /\ ReachStep /\ FollowStep
    BY <2>1, <2>2, <2>4, <2>5, WindowChanges DEF IInv, id
  <2>7. QED
    BY <1>3, <2>6 DEF GoodStep, IInv
<1>6. QED
  BY <1>4, <1>5

LEMMA TapGood ==
  ASSUME IInv, NEW soon \in BOOLEAN, Tap(soon), UNCHANGED <<outs, primary, recall, seat>>
  PROVE  GoodStep
<1> DEFINE id  == touch.hit.id
           tap == IF touch.hit.target # "TitleBar" THEN touch.tap ELSE IF soon /\ touch.tap = id THEN NoWindow ELSE id
           y   == MaximizeToggled(win[id], PrimaryArea(outs, primary))
<1>1. /\ id \in Windows /\ win[id] \in WindowRecs /\ inter.id = NoWindow
      /\ tap \in Windows \cup {NoWindow} /\ Sound(inter)
  BY Unheld DEF Tap, IInv, Typed, Touching
<1>2. touch' = Idle(tap) /\ inter' = inter
  BY DEF Tap, Lift
<1>3. win' = win \/ win' = [win EXCEPT ![id] = y]
  BY DEF Tap
<1>4. Typed' /\ ReachStep /\ FollowStep
  <2>1. y \in WindowRecs /\ Fine(id, y)
    BY <1>1, ScreenIs, ToggledIs, BecomesFine DEF IInv, Typed
  <2> HIDE DEF y
  <2>2. QED
    BY <1>1, <1>3, <2>1, WindowsStay, WindowChanges DEF IInv
<1> HIDE DEF tap
<1>5. Touching'
  BY <1>1, <1>2, ContactEnds
<1>6. QED
  BY <1>4, <1>5 DEF GoodStep, IInv

LEMMA UpGood ==
  ASSUME IInv, NEW f \in Fingers, TouchUp(f)
  PROVE  GoodStep
<1>1. UNCHANGED <<outs, primary, recall, seat>>
  BY DEF TouchUp
<1>2. CASE touch.state = "WindowFocus" /\ Lift(touch.tap) /\ UNCHANGED <<win, inter>>
  <2>1. touch.tap \in Windows \cup {NoWindow} /\ inter.id = NoWindow /\ Sound(inter)
    BY <1>2, Unheld DEF IInv, Touching
  <2>2. Touching'
    BY <1>2, <2>1, ContactEnds DEF Lift
  <2>3. QED
    BY <1>1, <1>2, <2>2, WindowsStay DEF GoodStep, IInv
<1>3. QED
  BY <1>1, <1>2, ReleaseGood, FinishGood, TapGood DEF TouchUp

\* A contact that is cancelled while windows become W: what it held is put back.
LEMMA CancelledIs ==
  ASSUME Typed, Touching, NEW W \in [Windows -> WindowRecs], CancelIn(W)
  PROVE  /\ win' \in [Windows -> WindowRecs] /\ Touching'
         /\ \A w \in Windows : \/ win'[w] = W[w]
                               \/ w = inter.id /\ win'[w].open = W[w].open /\ win'[w].geom = inter.initial
<1>1. /\ touch.tap \in Windows \cup {NoWindow} /\ touch' = Idle(touch.tap) /\ Sound(inter)
      /\ inter.id # NoWindow => touch.held # "none"
  BY Unheld DEF CancelIn, Lift, Touching
<1>2. Sound(inter') /\ inter'.id = NoWindow
  BY <1>1, NoInteractionIs DEF CancelIn
<1>3. Touching'
  BY <1>1, <1>2, ContactEnds
<1>4. CASE inter.id = NoWindow
  <2>1. win' = W
    BY <1>4 DEF CancelIn, Placed
  <2>2. QED
    BY <1>3, <2>1
<1>5. CASE inter.id # NoWindow
  <2> DEFINE id == inter.id
             y  == IF W[id].open THEN [W[id] EXCEPT !.geom = inter.initial] ELSE W[id]
  <2>1. id \in Windows /\ W[id] \in WindowRecs /\ inter.initial \in Boxes
    BY <1>1, <1>5 DEF Sound, Interactions
  <2>2. win' = [W EXCEPT ![id] = y]
    <3>1. win' = [W EXCEPT ![id].geom = IF W[id].open THEN inter.initial ELSE W[id].geom]
      BY <1>1, <1>5 DEF CancelIn, Placed
    <3>2. CASE W[id].open
      BY <3>1, <3>2
    <3>3. CASE ~W[id].open
      <4>1. [W[id] EXCEPT !.geom = W[id].geom] = W[id]
        BY <2>1 DEF WindowRecs
      <4>2. QED
        BY <3>1, <3>3, <4>1
    <3>4. QED
      BY <3>2, <3>3
  <2>3. y \in WindowRecs /\ (y = W[id] \/ (y.open = W[id].open /\ y.geom = inter.initial))
    BY <2>1 DEF WindowRecs
  <2> HIDE DEF y, id
  <2>4. win' \in [Windows -> WindowRecs]
    BY <2>2, <2>3
  <2>5. \A w \in Windows : win'[w] = IF w = id THEN y ELSE W[w]
    BY <2>2
  <2>6. QED
    BY <1>3, <2>3, <2>4, <2>5 DEF id
<1>6. QED
  BY <1>4, <1>5

LEMMA CancelGood ==
  ASSUME IInv, TouchCancel
  PROVE  GoodStep
<1>1. CancelIn(win) /\ UNCHANGED <<outs, primary, recall, seat>>
  BY DEF TouchCancel
<1>2. /\ win' \in [Windows -> WindowRecs] /\ Touching'
      /\ \A w \in Windows : \/ win'[w] = win[w]
                            \/ w = inter.id /\ win'[w].open = win[w].open /\ win'[w].geom = inter.initial
  BY <1>1, CancelledIs DEF IInv, Typed
<1>3. \A w \in Windows : Fine(w, win'[w])
  BY <1>2 DEF Fine
<1>4. Typed'
  BY <1>1, <1>2 DEF IInv, Typed, DisplaysInv, Bound
<1>5. QED
  BY <1>1, <1>2, <1>3, <1>4, FineSteps DEF GoodStep, IInv

LEMMA CapabilitiesGood ==
  ASSUME IInv, NEW b \in BOOLEAN, Capabilities(b)
  PROVE  GoodStep
<1>1. UNCHANGED <<outs, primary, win, inter, touch, recall>> /\ seat' \in {"deaf", "lost"}
  BY DEF Capabilities
<1>2. Touching'
  BY <1>1 DEF IInv, Touching, Holds
<1>3. QED
  BY <1>1, <1>2, WindowsStay DEF GoodStep, IInv

-------------------------------------------------------------------------------
(* The clients and the dock.                                                 *)

\* A step on one window that leaves touch and the interaction as they are, or drops
\* the interaction when it is with that window.
LEMMA OneWindow ==
  ASSUME IInv, NEW w \in Windows, NEW y \in WindowRecs, Fine(w, y), win[w].open => y.open,
         win' = [win EXCEPT ![w] = y], inter' \in {inter, NoInteraction},
         UNCHANGED <<outs, primary, touch, recall, seat>>
  PROVE  GoodStep
<1>1. Typed' /\ ReachStep /\ FollowStep
  BY WindowChanges DEF IInv
<1>2. \A v \in Windows : win[v].open => win'[v].open
  BY DEF IInv, Typed
<1>3. Touching'
  BY <1>2, ContactStays DEF IInv
<1>4. QED
  BY <1>1, <1>3 DEF GoodStep, IInv

LEMMA OpenGood ==
  ASSUME IInv, NEW w \in Windows, OpenWindow(w)
  PROVE  GoodStep
<1> DEFINE n == Cardinality({v \in Open : win[v].stacked}) + 1
           a == PrimaryArea(outs, primary)
           g == Initial(a, n, NoSize, NoSize, NoSize)
           y == [Absent EXCEPT !.open = TRUE, !.stacked = TRUE, !.geom = g]
<1>1. n \in Nat
  <2>1. IsFiniteSet({v \in Open : win[v].stacked})
    BY TouchAssumption, FS_Subset DEF Open
  <2>2. QED
    BY <2>1, FS_CardinalityType
<1>2. win' = [win EXCEPT ![w] = y] /\ UNCHANGED <<outs, primary, inter, touch, recall, seat>>
  BY DEF OpenWindow
<1> HIDE DEF n
<1>3. g \in Boxes /\ InReach(a.usable, g)
  BY <1>1, ScreenIs, NothingIs, InitialReaches DEF IInv, Typed, IsArea
<1> HIDE DEF g
<1>4. y \in WindowRecs /\ y.open /\ y.geom = g
  BY <1>3, AbsentIs DEF WindowRecs, Absent
<1> HIDE DEF y
<1>5. Fine(w, y)
  BY <1>3, <1>4 DEF Fine
<1>6. QED
  BY <1>2, <1>4, <1>5, OneWindow

LEMMA ShowGood ==
  ASSUME IInv, NEW w \in Windows, Show(w)
  PROVE  GoodStep
<1> DEFINE y == [win[w] EXCEPT !.visible = TRUE]
<1>1. win' = [win EXCEPT ![w] = y] /\ UNCHANGED <<outs, primary, inter, touch, recall, seat>>
  BY DEF Show, IInv, Typed
<1>2. y \in WindowRecs /\ y.open = win[w].open /\ y.geom = win[w].geom
  BY DEF WindowRecs, IInv, Typed
<1> HIDE DEF y
<1>3. Fine(w, y)
  BY <1>2 DEF Fine
<1>4. QED
  BY <1>1, <1>2, <1>3, OneWindow

LEMMA SetStateGood ==
  ASSUME IInv, NEW w \in Windows, NEW s \in WindowStates, ClientSetState(w, s)
  PROVE  GoodStep
<1> DEFINE y == [win[w] EXCEPT !.state = s]
<1>1. win' = [win EXCEPT ![w] = y] /\ UNCHANGED <<outs, primary, inter, touch, recall, seat>>
  BY DEF ClientSetState, IInv, Typed
<1>2. y \in WindowRecs /\ y.open = win[w].open /\ y.geom = win[w].geom
  BY DEF WindowRecs, IInv, Typed
<1> HIDE DEF y
<1>3. Fine(w, y)
  BY <1>2 DEF Fine
<1>4. QED
  BY <1>1, <1>2, <1>3, OneWindow

LEMMA SetSizesGood ==
  ASSUME IInv, NEW w \in Windows, ClientSetSizes(w)
  PROVE  GoodStep
<1>1. PICK min \in ClientSizes, max \in ClientSizes : win' = [win EXCEPT ![w].min = min, ![w].max = max]
  BY DEF ClientSetSizes
<1> DEFINE y == [win[w] EXCEPT !.min = min, !.max = max]
<1>2. win' = [win EXCEPT ![w] = y] /\ UNCHANGED <<outs, primary, inter, touch, recall, seat>>
  BY <1>1 DEF ClientSetSizes, IInv, Typed
<1>3. y \in WindowRecs /\ y.open = win[w].open /\ y.geom = win[w].geom
  BY TouchAssumption DEF WindowRecs, IInv, Typed, Sizes
<1> HIDE DEF y
<1>4. Fine(w, y)
  BY <1>3 DEF Fine
<1>5. QED
  BY <1>2, <1>3, <1>4, OneWindow

LEMMA SetGeometryGood ==
  ASSUME IInv, NEW w \in Windows, ClientSetGeometry(w)
  PROVE  GoodStep
<1>1. PICK r \in ClientRects : win' = [win EXCEPT ![w].geom = r]
  BY DEF ClientSetGeometry
<1> DEFINE y == [win[w] EXCEPT !.geom = r]
<1>2. win' = [win EXCEPT ![w] = y] /\ UNCHANGED <<outs, primary, inter, touch, recall, seat>>
  BY <1>1 DEF ClientSetGeometry, IInv, Typed
<1>3. y \in WindowRecs /\ y.open = win[w].open /\ y.geom = r
  BY TouchAssumption DEF WindowRecs, IInv, Typed, Boxes
<1> HIDE DEF y
<1>4. Fine(w, y)
  BY <1>3 DEF Fine
<1>5. QED
  BY <1>2, <1>3, <1>4, OneWindow

LEMMA CloseGood ==
  ASSUME IInv, NEW w \in Windows, Close(w)
  PROVE  GoodStep
<1> DEFINE y == [win[w] EXCEPT !.stacked = FALSE]
<1>1. /\ win' = [win EXCEPT ![w] = y] /\ inter' \in {inter, NoInteraction}
      /\ UNCHANGED <<outs, primary, touch, recall, seat>>
  BY DEF Close, InteractionWithout, IInv, Typed
<1>2. y \in WindowRecs /\ y.open = win[w].open /\ y.geom = win[w].geom
  BY DEF WindowRecs, IInv, Typed
<1> HIDE DEF y
<1>3. Fine(w, y)
  BY <1>2 DEF Fine
<1>4. QED
  BY <1>1, <1>2, <1>3, OneWindow

LEMMA PutGood ==
  ASSUME IInv, NEW w \in Windows, NEW y, Put(w, y), Becomes(win[w], y, PrimaryArea(outs, primary))
  PROVE  GoodStep
<1>1. win' = [win EXCEPT ![w] = y] /\ UNCHANGED <<outs, primary, inter, touch, recall, seat>>
  BY DEF Put
<1>2. y \in WindowRecs /\ Fine(w, y) /\ y.open = win[w].open
  BY BecomesFine
<1>3. QED
  BY <1>1, <1>2, OneWindow

LEMMA DesktopGood ==
  ASSUME IInv, NEW w \in Windows, DesktopStep(w)
  PROVE  GoodStep
<1> DEFINE a == PrimaryArea(outs, primary)
<1>1. IsArea(a) /\ win[w] \in WindowRecs
  BY ScreenIs DEF IInv, Typed
<1>2. /\ Becomes(win[w], Minimized(win[w]), a)
      /\ Becomes(win[w], RestoredWindow(win[w], a), a)
      /\ Becomes(win[w], FullscreenToggled(win[w], a), a)
  BY <1>1, MinimizedIs, RestoredIs, ToggledIs
<1>3. \/ Put(w, Minimized(win[w])) \/ Put(w, RestoredWindow(win[w], a))
      \/ Put(w, FullscreenToggled(win[w], a)) \/ Close(w)
  BY DEF DesktopStep
<1>4. QED
  BY <1>2, <1>3, PutGood, CloseGood

\* A window that is destroyed takes the contact on it and the interaction with it.
LEMMA DestroyGood ==
  ASSUME IInv, NEW w \in Windows, Destroy(w)
  PROVE  GoodStep
<1>1. /\ win' = [win EXCEPT ![w] = Absent] /\ inter' = InteractionWithout(w) /\ touch' = TouchWithout(w)
      /\ UNCHANGED <<outs, primary, recall, seat>>
  BY DEF Destroy
<1>2. ~Absent.open
  BY DEF Absent
<1>3. Fine(w, Absent)
  BY <1>2 DEF Fine
<1>4. Typed' /\ ReachStep /\ FollowStep
  BY <1>1, <1>3, AbsentIs, WindowChanges DEF IInv
<1> DEFINE tap == IF touch.tap = w THEN NoWindow ELSE touch.tap
<1>5. tap \in Windows \cup {NoWindow}
  BY Unheld DEF IInv
<1>6. Sound(inter') /\ (inter'.id # NoWindow => inter' = inter /\ inter.id # w)
  BY <1>1, NoInteractionIs DEF InteractionWithout, IInv, Touching
<1> HIDE DEF tap
<1>7. CASE touch.hit.id = w
  <2>1. touch' = Idle(tap)
    BY <1>1, <1>7 DEF TouchWithout, tap
  <2>2. inter'.id = NoWindow
    BY <1>6, <1>7 DEF IInv, Touching, Drives
  <2>3. Touching'
    BY <1>5, <1>6, <2>1, <2>2, ContactEnds
  <2>4. QED
    BY <1>1, <1>4, <2>3 DEF GoodStep, IInv
<1>8. CASE touch.hit.id # w
  <2>1. touch' = [touch EXCEPT !.tap = tap]
    BY <1>1, <1>8 DEF TouchWithout, tap
  <2>2. /\ touch' \in Contacts(touch.hit) /\ touch'.hit = touch.hit /\ touch'.finger = touch.finger
        /\ touch'.state = touch.state /\ touch'.held = touch.held
    BY <1>5, <2>1 DEF IInv, Touching, Contact, Contacts
  <2>3. Contact(touch')
    BY <2>2 DEF IInv, Touching, Contact
  <2>4. Holds(touch', win')
    BY <1>1, <1>8, <2>2 DEF IInv, Typed, Touching, Contact, Holds
  <2>5. Drives(touch', inter')
    BY <1>6, <2>2 DEF IInv, Touching, Drives
  <2>6. QED
    BY <1>1, <1>4, <1>6, <2>3, <2>4, <2>5 DEF GoodStep, IInv, Touching
<1>9. QED
  BY <1>7, <1>8

-------------------------------------------------------------------------------
(* The outputs change under the windows.                                     *)

LEMMA AllAdaptedAre ==
  ASSUME Typed, NEW a, IsArea(a)
  PROVE  /\ AllAdapted(a) \in [Windows -> WindowRecs]
         /\ \A w \in Windows : Becomes(win[w], AllAdapted(a)[w], a)
         /\ \A w \in Open : win[w].state = "Maximized" => AllAdapted(a)[w].geom = a.usable
<1>1. \A w \in Windows : AllAdapted(a)[w] = IF win[w].open THEN Adapted(win[w], a) ELSE win[w]
  BY DEF AllAdapted
<1>2. \A w \in Windows : win[w] \in WindowRecs /\ Becomes(win[w], win[w], a)
  BY DEF Typed, Becomes
<1>3. \A w \in Windows : /\ Becomes(win[w], Adapted(win[w], a), a)
                         /\ win[w].state = "Maximized" => Adapted(win[w], a).geom = a.usable
  BY <1>2, AdaptedIs
<1>4. \A w \in Windows : Becomes(win[w], AllAdapted(a)[w], a)
  BY <1>1, <1>2, <1>3
<1>5. \A w \in Windows : AllAdapted(a)[w] \in WindowRecs
  BY <1>4 DEF Becomes
<1>6. AllAdapted(a) \in [Windows -> WindowRecs]
  BY <1>5 DEF AllAdapted
<1>7. QED
  BY <1>1, <1>3, <1>4, <1>6 DEF Open

\* Windows and touch follow to the area a.
LEMMA FollowingIs ==
  ASSUME IInv, NEW a, IsArea(a), TouchFollows(AllAdapted(a))
  PROVE  /\ win' \in [Windows -> WindowRecs] /\ Touching'
         /\ \A w \in Windows : \/ win'[w].geom \in {win[w].geom, inter.initial}
                               \/ win'[w].state = "Fullscreen"
                               \/ InReach(a.usable, win'[w].geom)
         /\ \A w \in Open : win[w].state = "Maximized" /\ w # inter.id => win'[w].geom = a.usable
<1> DEFINE W == AllAdapted(a)
<1>1. /\ W \in [Windows -> WindowRecs]
      /\ \A w \in Windows : Becomes(win[w], W[w], a)
      /\ \A w \in Open : win[w].state = "Maximized" => W[w].geom = a.usable
  BY AllAdaptedAre DEF IInv
<1> HIDE DEF W
<1>2. /\ win' \in [Windows -> WindowRecs] /\ Touching'
      /\ \A w \in Windows : \/ win'[w] = W[w]
                            \/ w = inter.id /\ win'[w].open = W[w].open /\ win'[w].geom = inter.initial
  <2>1. CASE touch.state = "Idle"
    <3>1. win' = W /\ UNCHANGED <<inter, touch>>
      BY <2>1 DEF TouchFollows, W
    <3>2. \A w \in Windows : win[w].open => win'[w].open
      BY <1>1, <3>1 DEF Becomes
    <3>3. Touching'
      BY <3>1, <3>2, ContactStays DEF IInv
    <3>4. QED
      BY <1>1, <3>1, <3>3
  <2>2. CASE touch.state # "Idle"
    <3>1. CancelIn(W)
      BY <2>2 DEF TouchFollows, W
    <3>2. QED
      BY <1>1, <3>1, CancelledIs DEF IInv
  <2>3. QED
    BY <2>1, <2>2
<1>3. \A w \in Windows : \/ win'[w].geom \in {win[w].geom, inter.initial}
                         \/ win'[w].state = "Fullscreen"
                         \/ InReach(a.usable, win'[w].geom)
  BY <1>1, <1>2 DEF Becomes
<1>4. \A w \in Open : win[w].state = "Maximized" /\ w # inter.id => win'[w].geom = a.usable
  BY <1>1, <1>2 DEF Open
<1>5. QED
  BY <1>2, <1>3, <1>4

\* The layout class of what touch remembers of an output is one.
LEMMA RecalledIs ==
  ASSUME NEW d, NEW h
  PROVE  Remembered(Recalled(AreaOf(d, h), h.reserved))
<1>1. AreaOf(d, h).class = LayoutClass(d, h)
  BY DEF AreaOf, Area
<1>2. AreaOf(d, h).class \in LayoutClasses
  BY <1>1, LayoutClassIs
<1>3. QED
  BY <1>2 DEF Recalled, Remembered

\* Steps that change outputs and windows: reach in an area of an output.
LEMMA ReachesArea ==
  ASSUME NEW a, a.usable \in Areas(outs, primary) \cup Areas(outs', primary'),
         \A w \in Windows : \/ win'[w].geom \in {win[w].geom, inter.initial}
                            \/ win'[w].state = "Fullscreen"
                            \/ InReach(a.usable, win'[w].geom)
  PROVE  ReachStep
BY DEF ReachStep

\* No window moves.
LEMMA NoneMoves ==
  ASSUME UNCHANGED win
  PROVE  ReachStep
BY DEF ReachStep

LEMMA DoneGood ==
  ASSUME IInv, NEW d \in Outputs, DisplayDone(d)
  PROVE  GoodStep
<1> DEFINE g == DoneOuts(d)[d]
           h == Reserved(g)
           a == AreaOf(d, h)
<1>1. outs[d].bound /\ primary' \in Primaries(DoneOuts(d), primary) /\ UNCHANGED seat
  BY DEF DisplayDone, CanBeDone
<1>2. g \in OutputHandles /\ g.bound /\ DoneOuts(d) = [outs EXCEPT ![d] = g]
  BY <1>1, DoneIs DEF IInv, Typed
<1>3. h \in OutputHandles /\ h.bound
  BY <1>2, ReservedIs
<1>4. outs \in [Outputs -> OutputHandles]
  BY DEF IInv, Typed, DisplaysInv
<1>5. primary' \in Bound(DoneOuts(d)) \cup {NoOutput}
  BY <1>1, PrimariesAre
<1>6. CASE ~Announced(outs[d])
  <2>1. outs' = DoneOuts(d) /\ UNCHANGED <<win, inter, touch, recall>>
    BY <1>6 DEF DisplayDone
  <2> HIDE DEF g
  <2>2. DisplaysInv'
    BY <1>2, <1>5, <2>1, OutputChanges DEF IInv, Typed
  <2>3. FollowStep
    BY <1>2, <1>4, <1>6, <2>1 DEF FollowStep, IInv, Typed, DisplaysInv, Bound
  <2>4. Touching'
    BY <2>1 DEF IInv, Touching, Holds
  <2>5. Typed'
    BY <2>1, <2>2 DEF IInv, Typed
  <2>6. QED
    BY <1>1, <2>1, <2>3, <2>4, <2>5, NoneMoves DEF GoodStep, IInv
<1>7. CASE Announced(outs[d])
  <2>1. outs' = [DoneOuts(d) EXCEPT ![d] = h] /\ TouchFollows(AllAdapted(a)) /\ recall' = Recalled(a, h.reserved)
    BY <1>7 DEF DisplayDone, AdaptedTo
  <2> HIDE DEF g, h
  <2>2. outs' = [outs EXCEPT ![d] = h]
    BY <1>2, <1>4, <2>1
  <2>3. Bound(outs') = Bound(DoneOuts(d))
    BY <1>2, <1>3, <1>4, <2>2 DEF Bound
  <2>4. DisplaysInv'
    BY <1>3, <1>5, <2>2, <2>3, OutputChanges DEF IInv, Typed
  <2>5. IsArea(a)
    BY <1>3, AreaOfRoomy DEF IsArea
  <2>6. /\ win' \in [Windows -> WindowRecs] /\ Touching'
        /\ \A w \in Windows : \/ win'[w].geom \in {win[w].geom, inter.initial}
                              \/ win'[w].state = "Fullscreen"
                              \/ InReach(a.usable, win'[w].geom)
        /\ \A w \in Open : win[w].state = "Maximized" /\ w # inter.id => win'[w].geom = a.usable
    <3> HIDE DEF a
    <3>1. QED
      BY <2>1, <2>5, FollowingIs
  <2>7. outs'[d] = h /\ d \in Bound(outs')
    BY <1>3, <1>4, <2>2 DEF Bound
  <2>8. ReachStep
    <3>1. a.usable \in Areas(outs', primary')
      BY <2>7 DEF Areas
    <3> HIDE DEF a
    <3>2. QED
      BY <2>6, <3>1, ReachesArea
  <2>9. FollowStep
    <3> SUFFICES ASSUME primary' = primary, primary # NoOutput, outs'[primary].info # outs[primary].info
                 PROVE  PrimaryArea(outs', primary') = a
      BY <2>6 DEF FollowStep
    <3>1. primary \in Outputs
      BY DEF IInv, Typed, DisplaysInv, Bound
    <3>2. primary = d
      BY <1>4, <2>2, <3>1
    <3>3. QED
      BY <2>7, <3>2 DEF PrimaryArea
  <2>10. Remembered(recall')
    BY <2>1, RecalledIs
  <2>11. QED
    BY <1>1, <2>4, <2>6, <2>8, <2>9, <2>10 DEF GoodStep, IInv, Typed
<1>8. QED
  BY <1>6, <1>7

LEMMA RemovedGood ==
  ASSUME IInv, NEW d \in Outputs, DisplayRemoved(d)
  PROVE  GoodStep
<1>1. outs[d].bound /\ primary' \in Primaries(RemovedOuts(d), primary) /\ UNCHANGED seat
  BY DEF DisplayRemoved
<1>2. /\ outs \in [Outputs -> OutputHandles] /\ RemovedOuts(d) = [outs EXCEPT ![d] = Unbound]
      /\ Unbound \in OutputHandles /\ Unbound.info = Blank /\ ~Unbound.bound
      /\ \A o \in Outputs : ~outs[o].bound => outs[o].info = Blank
  BY BlankIs DEF IInv, Typed, DisplaysInv, RemovedOuts, Unbound
<1>3. primary' \in Bound(RemovedOuts(d)) \cup {NoOutput}
  BY <1>1, PrimariesAre
<1>4. CASE primary' = NoOutput
  <2>1. outs' = RemovedOuts(d) /\ UNCHANGED <<win, inter, touch, recall>>
    BY <1>4 DEF DisplayRemoved
  <2>2. DisplaysInv'
    BY <1>2, <1>4, <2>1 DEF DisplaysInv
  <2>3. FollowStep
    BY <1>4 DEF FollowStep
  <2>4. Touching'
    BY <2>1 DEF IInv, Touching, Holds
  <2>5. Typed'
    BY <2>1, <2>2 DEF IInv, Typed
  <2>6. QED
    BY <1>1, <2>1, <2>3, <2>4, <2>5, NoneMoves DEF GoodStep, IInv
<1>5. CASE primary' # NoOutput
  <2> DEFINE p == primary'
             h == Reserved(outs[p])
             a == AreaOf(p, outs[p])
  <2>1. p \in Outputs /\ p # d /\ outs[p].bound /\ outs[p] \in OutputHandles
    BY <1>2, <1>3, <1>5 DEF Bound
  <2>2. /\ outs' = [RemovedOuts(d) EXCEPT ![p] = h] /\ TouchFollows(AllAdapted(a))
        /\ recall' = IF Announced(h) THEN Recalled(AreaOf(p, h), h.reserved)
                     ELSE [recall EXCEPT !.class = LayoutClass(p, h)]
    BY <1>5 DEF DisplayRemoved
  <2>3. h \in OutputHandles /\ h.bound /\ h.info = outs[p].info
    BY <2>1, ReservedIs
  <2>4. Remembered(recall')
    <3>1. CASE Announced(h)
      BY <2>2, <3>1, RecalledIs
    <3>2. CASE ~Announced(h)
      <4> DEFINE class == LayoutClass(p, h)
      <4>1. class \in LayoutClasses
        BY LayoutClassIs
      <4>2. recall' = [recall EXCEPT !.class = class]
        BY <2>2, <3>2
      <4> HIDE DEF class
      <4>3. QED
        BY <4>1, <4>2 DEF IInv, Remembered
    <3>3. QED
      BY <3>1, <3>2
  <2> HIDE DEF h
  <2>5. \A o \in Outputs : outs'[o] = IF o = p THEN h ELSE IF o = d THEN Unbound ELSE outs[o]
    BY <1>2, <2>1, <2>2
  <2>6. outs' \in [Outputs -> OutputHandles]
    BY <1>2, <2>2, <2>3
  <2>7. DisplaysInv'
    BY <1>2, <2>1, <2>3, <2>5, <2>6 DEF DisplaysInv, Bound
  <2>8. IsArea(a)
    BY <2>1, AreaOfRoomy DEF IsArea
  <2>9. /\ win' \in [Windows -> WindowRecs] /\ Touching'
        /\ \A w \in Windows : \/ win'[w].geom \in {win[w].geom, inter.initial}
                              \/ win'[w].state = "Fullscreen"
                              \/ InReach(a.usable, win'[w].geom)
    <3> HIDE DEF a
    <3>1. QED
      BY <2>2, <2>8, FollowingIs
  <2>10. ReachStep
    <3>1. a.usable \in Areas(outs, primary)
      BY <2>1 DEF Areas, Bound
    <3> HIDE DEF a
    <3>2. QED
      BY <2>9, <3>1, ReachesArea
  <2>11. FollowStep
    BY <2>1, <2>3, <2>5 DEF FollowStep
  <2>12. QED
    BY <1>1, <2>4, <2>7, <2>9, <2>10, <2>11 DEF GoodStep, IInv, Typed
<1>6. QED
  BY <1>4, <1>5

\* What an output announces, or that it is there, moves nothing.
LEMMA AnnouncedGood ==
  ASSUME IInv, NEW d \in Outputs, Announcing(d) \/ Appears(d)
  PROVE  GoodStep
<1>1. DisplaysInv' /\ \A o \in Outputs : outs'[o].info = outs[o].info
  BY AnnouncingPreserves, AppearPreserves DEF Announcing, Appears, IInv, Typed
<1>2. UNCHANGED <<win, inter, touch, recall, seat>>
  BY DEF Announcing, Appears
<1>3. FollowStep
  BY <1>1 DEF FollowStep, IInv, Typed, DisplaysInv, Bound
<1>4. Touching'
  BY <1>2 DEF IInv, Touching, Holds
<1>5. Typed'
  BY <1>1, <1>2 DEF IInv, Typed
<1>6. QED
  BY <1>2, <1>3, <1>4, <1>5, NoneMoves DEF GoodStep, IInv

-------------------------------------------------------------------------------
(* The specification.                                                        *)

LEMMA InitGood == Init => IInv
<1> SUFFICES ASSUME Init PROVE IInv
  OBVIOUS
<1>1. DisplaysInv
  BY DisplaysInitial DEF Init
<1>2. win \in [Windows -> WindowRecs]
  BY AbsentIs DEF Init
<1>3. Touching
  <2>1. inter = NoInteraction /\ touch = Idle(NoWindow)
    BY DEF Init
  <2>2. Contact(touch) /\ touch.finger = NoFinger
    <3>1. Origin \in Pts /\ FALSE \in BOOLEAN /\ "Idle" \in TouchStates /\ "None" \in EdgeNames
      BY DEF Origin, Pts, TouchStates, EdgeNames
    <3>2. QED
      BY <2>1, <3>1 DEF Idle, Contact, Contacts, NoHit
  <2>3. QED
    BY <2>1, <2>2, NoInteractionIs DEF Touching, Holds, Drives
<1>4. Remembered(recall)
  <2>1. CASE primary = NoOutput
    <3> DEFINE class == Classified(Size(720, 1280), NoSize)
    <3>1. class \in LayoutClasses
      BY ClassifiedIs
    <3>2. recall = [class |-> class, status |-> NoRect, dock |-> NoRect]
      BY <2>1 DEF Init
    <3> HIDE DEF class
    <3>3. QED
      BY <3>1, <3>2 DEF Remembered
  <2>2. CASE primary # NoOutput
    BY <2>2, RecalledIs DEF Init
  <2>3. QED
    BY <2>1, <2>2
<1>5. seat \in {"wired", "lost", "deaf"}
  BY DEF Init
<1>6. QED
  BY <1>1, <1>2, <1>3, <1>4, <1>5 DEF IInv, Typed

LEMMA StutterGood ==
  ASSUME IInv, UNCHANGED vars
  PROVE  GoodStep
<1>1. UNCHANGED <<outs, primary, win, inter, touch, recall, seat>>
  BY DEF vars
<1>2. Touching'
  BY <1>1 DEF IInv, Touching, Holds
<1>3. QED
  BY <1>1, <1>2, WindowsStay DEF GoodStep, IInv

\* Every step keeps the invariant, leaves title bars in reach and maximized windows full.
LEMMA NextGood == IInv /\ [Next]_vars => GoodStep
<1> SUFFICES ASSUME IInv, [Next]_vars PROVE GoodStep
  OBVIOUS
<1>1. ASSUME NEW w \in Windows, OpenWindow(w) \/ Show(w) PROVE GoodStep
  BY <1>1, OpenGood, ShowGood
<1>2. ASSUME NEW f \in Fingers, TouchStep(f) PROVE GoodStep
  BY <1>2, MotionGood, UpGood DEF TouchStep
<1>3. ASSUME Input PROVE GoodStep
  <2>1. ASSUME NEW f \in Fingers, NEW p \in Handles, TouchDown(f, p) PROVE GoodStep
    BY <2>1, DownGood
  <2>2. ASSUME NEW w \in Windows, WindowStep(w) PROVE GoodStep
    BY <2>2, DestroyGood, SetStateGood, SetSizesGood, SetGeometryGood, DesktopGood DEF WindowStep
  <2>3. ASSUME NEW d \in Outputs, OutputStep(d) PROVE GoodStep
    BY <2>3, AnnouncedGood, DoneGood, RemovedGood DEF OutputStep
  <2>4. ASSUME NEW b \in BOOLEAN, Capabilities(b) PROVE GoodStep
    BY <2>4, CapabilitiesGood
  <2>5. QED
    BY <1>3, <2>1, <2>2, <2>3, <2>4 DEF Input
<1>4. QED
  BY <1>1, <1>2, <1>3, CancelGood, StutterGood DEF Next

THEOREM Invariance == Spec => []IInv
<1>1. IInv /\ [Next]_vars => IInv'
  BY NextGood DEF GoodStep
<1>2. QED
  BY InitGood, <1>1, PTL DEF Spec

\* Every piece of state keeps to its values, whatever outputs, windows and fingers
\* there are.
THEOREM TypeCorrect == Spec => []TypeOK
<1>1. IInv => TypeOK
  <2> SUFFICES ASSUME IInv PROVE TypeOK
    OBVIOUS
  <2>1. primary \in Outputs \cup {NoOutput}
    BY DEF IInv, Typed, DisplaysInv, Bound
  <2>2. \A d \in Outputs : outs[d].info.transform \in Transforms /\ outs[d].pending.transform \in Transforms
    BY DEF IInv, Typed, DisplaysInv, OutputHandles, Infos
  <2>3. \A w \in Windows : win[w].state \in WindowStates /\ win[w].geom \in Rects /\ win[w].saved \in Rects
    BY WindowIs DEF IInv, Typed
  <2>4. inter.type \in {"None", "Moving", "Resizing"} /\ inter.id \in Windows \cup {NoWindow}
    BY DEF IInv, Touching, Sound, Interactions
  <2>5. /\ touch.state \in TouchStates
        /\ touch.finger \in Fingers \cup {NoFinger} /\ touch.held \in {"none", "drag", "resize"}
        /\ touch.tap \in Windows \cup {NoWindow} /\ touch.hit.id \in Windows \cup {NoWindow}
    BY DEF IInv, Touching, Contact, Contacts
  <2>6. recall.class \in LayoutClasses /\ seat \in {"wired", "lost", "deaf"}
    BY DEF IInv, Remembered
  <2>7. QED
    BY <2>1, <2>2, <2>3, <2>4, <2>5, <2>6 DEF TypeOK, TouchStates
<1>2. QED
  BY Invariance, <1>1, PTL

\* However windows are closed and destroyed, outputs turn and go, and contacts are
\* cancelled, the window manager's interaction is the one that the contact holds
\* (TouchInteractionManager::on_window_destroyed and cancel_active_interaction).
THEOREM NoOrphans == Spec => []NoOrphanDrag
<1>1. IInv => NoOrphanDrag
  BY TouchAssumption DEF IInv, Touching, Sound, Interactions, Drives, Holds, Contact, NoOrphanDrag, Open
<1>2. QED
  BY Invariance, <1>1, PTL

\* No step of the desktop puts a window out of the user's reach, on any outputs, but for
\* the three exceptions that TitleBarsStayInReach names.
THEOREM StaysInReach == Spec => TitleBarsStayInReach
<1>1. IInv /\ [Next]_vars => [ReachStep]_vars
  BY NextGood DEF GoodStep
<1>2. QED
  BY Invariance, <1>1, PTL DEF Spec, TitleBarsStayInReach, ReachStep

\* A maximized window follows the primary output, whatever that output becomes.
THEOREM FollowsScreen == Spec => MaximizedFollowsScreen
<1>1. IInv /\ [Next]_vars => [FollowStep]_vars
  BY NextGood DEF GoodStep
<1>2. QED
  BY Invariance, <1>1, PTL DEF Spec, MaximizedFollowsScreen, FollowStep

===============================================================================

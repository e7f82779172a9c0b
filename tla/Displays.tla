-------------------------------- MODULE Displays --------------------------------
(***************************************************************************)
(* DisplayManager: the outputs of the compositor, what each has announced   *)
(* since its last "done" and what it was at that "done", the policy         *)
(* computed from it, and the choice of the primary output.                  *)
(*                                                                          *)
(* The properties of an output arrive one event at a time; only "done"      *)
(* makes them count.  Outputs stand side by side along the x axis.          *)
(***************************************************************************)
EXTENDS DisplayPolicy

CONSTANTS
  Outputs,         \* the names of wl_output globals
  NoOutput,        \* stands for no primary output
  Modes,           \* the pixel sizes an output can be switched to, as Size
  Turns,           \* the transforms it can be turned to
  Scales,          \* the scales it can announce
  Left,            \* where each output begins
  Inch,            \* the physical size of each output in mm, NoSize if it is not said
  Preferred,       \* config display.primary: an output, or NoOutput
  ForcedClass,     \* config display.layout_class: a layout class, or "none"
  ForcedScale,     \* config display.scale, 0 when not given
  SafeArea         \* config display.safe_area

ASSUME OutputsAssumption ==
  /\ NoOutput \notin Outputs
  /\ Turns \subseteq Transforms
  /\ Modes \subseteq [w : Nat \ {0}, h : Nat \ {0}]
  /\ Scales \subseteq Nat \ {0}
  /\ Left \in [Outputs -> Nat]
  /\ ForcedClass \in LayoutClasses \cup {"none"}
  /\ ForcedScale \in Nat
  /\ SafeArea \in [left : Int, top : Int, right : Int, bottom : Int]

VARIABLES
  outs,       \* outputs_: the handles, with info, pending_info and the policy's inputs
  primary     \* primary_id_

\* DisplayInfo, the part that matters: pixels, transform and scale as announced,
\* the name (given or not), and the insets that "done" derives.
Blank == [px |-> NoSize, transform |-> "Normal", scale |-> 1, named |-> FALSE, insets |-> NoInsets]

\* A handle: reserved is the scale at which the shell has reserved its bars in
\* the policy, 0 while it has not.
Unbound == [bound |-> FALSE, info |-> Blank, pending |-> Blank, reserved |-> 0]

Bound(O) == {d \in Outputs : O[d].bound}

\* is_new, before "done"; an output that never was "done" has an empty info.
Announced(h) == h.info.px # NoSize

LogicalSize(i) == Logical(i.px, i.transform, i.scale)

\* The policy of an output.  Until its first "done" it is that of a 720 x 1280
\* phone, whatever the output is; the override is applied with the first "done".
LayoutClass(d, h) ==
  IF ~Announced(h) THEN Classified(Size(720, 1280), NoSize)
  ELSE IF ForcedClass # "none" THEN ForcedClass
  ELSE Classified(LogicalSize(h.info), Inch[d])

AreaOf(d, h) ==
  IF Announced(h)
    THEN Area(Left[d], LogicalSize(h.info), h.info.insets, LayoutClass(d, h), h.reserved)
    ELSE Area(0, Size(720, 1280), NoInsets, LayoutClass(d, h), h.reserved)

\* What primary_policy gives the window manager.
PrimaryArea(O, p) == IF p = NoOutput THEN NoOutputArea ELSE AreaOf(p, O[p])

\* update_primary_display: the configured name, else the one it was, else whichever
\* comes first in the hash table.
Primaries(O, p) ==
  LET named == {d \in Bound(O) : d = Preferred /\ O[d].info.named}
  IN  IF Bound(O) = {} THEN {NoOutput}
      ELSE IF named # {} THEN named
      ELSE IF p \in Bound(O) THEN {p}
      ELSE Bound(O)

-------------------------------------------------------------------------------
\* An output that is there, and known to the shell, when the desktop starts.
InitialOutput(d, m) ==
  LET i == [Blank EXCEPT !.px = m, !.named = TRUE, !.scale = Larger(1, ForcedScale), !.insets = SafeArea]
  IN  [bound |-> TRUE, info |-> i, pending |-> i, reserved |-> i.scale]

DisplaysInit ==
  \/ /\ outs = [d \in Outputs |-> Unbound]
     /\ primary = NoOutput
  \/ \E d \in Outputs, m \in Modes :
       /\ outs = [o \in Outputs |-> IF o = d THEN InitialOutput(d, m) ELSE Unbound]
       /\ primary = d

\* A wl_output global is bound: nothing is known of it, nobody is told.
Appear(d) ==
  /\ ~outs[d].bound
  /\ outs' = [outs EXCEPT ![d] = [Unbound EXCEPT !.bound = TRUE]]
  /\ UNCHANGED primary

\* The events geometry, mode, scale and name of an output.
Announce(d, i) == outs' = [outs EXCEPT ![d].pending = i] /\ UNCHANGED primary

HandleGeometry(d) ==
  \E t \in Turns : outs[d].bound /\ t # outs[d].pending.transform /\ Announce(d, [outs[d].pending EXCEPT !.transform = t])

HandleMode(d) ==
  \E m \in Modes : outs[d].bound /\ m # outs[d].pending.px /\ Announce(d, [outs[d].pending EXCEPT !.px = m])

\* A configured scale replaces the announced one, but only once one is announced.
HandleScale(d) ==
  \E s \in Scales :
    LET kept == IF ForcedScale > 0 THEN ForcedScale ELSE s
    IN  outs[d].bound /\ kept # outs[d].pending.scale /\ Announce(d, [outs[d].pending EXCEPT !.scale = kept])

HandleName(d) ==
  outs[d].bound /\ ~outs[d].pending.named /\ Announce(d, [outs[d].pending EXCEPT !.named = TRUE])

\* What the pending properties become at "done".
Settled(i) ==
  [i EXCEPT !.insets = IF SafeArea = NoInsets THEN @ ELSE RotatedFor(SafeArea, i.transform)]

\* handle_done, up to the events it emits; the compositor has announced a mode by then.
DoneOuts(d) == [outs EXCEPT ![d].info = Settled(outs[d].pending), ![d].pending = Settled(outs[d].pending)]

CanBeDone(d) == outs[d].bound /\ outs[d].pending.px # NoSize

\* The global is removed, up to the event that is emitted.
RemovedOuts(d) == [outs EXCEPT ![d] = Unbound]

\* Shell::update_display_policy as far as a policy feels it: the bars of the output
\* are reserved at its scale.
Reserved(h) == [h EXCEPT !.reserved = IF Announced(h) THEN h.info.scale ELSE @]

===============================================================================

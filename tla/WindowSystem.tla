----------------------------- MODULE WindowSystem -----------------------------
(***************************************************************************)
(* LDDE's window management: the registry of client windows                 *)
(* (WindowRegistry), the server endpoint that applications talk to          *)
(* (WindowTracker), and the desktop policy on top of them (WindowManager    *)
(* with WindowFocus, WindowStacking, WindowStateController, the default     *)
(* WindowManagementBackend and WindowInteraction).                          *)
(*                                                                          *)
(* Everything runs on one event-loop thread and every handler runs to       *)
(* completion, events dispatched to listeners included.  An action is one   *)
(* handler: a client request, or a call of the WindowManager API by the     *)
(* dock, the switcher, the touch layer or a click.                          *)
(*                                                                          *)
(* Geometry is abstracted away here; it is the subject of TouchWindows.    *)
(***************************************************************************)
EXTENDS WindowStacking

CONSTANTS
  States,   \* the WindowStates a run explores; at least Normal and Minimized
  Inputs    \* the kinds of optional input a run explores (the core ones always happen)

WindowStates == {"Normal", "Minimized", "Maximized", "Fullscreen"}

InputKinds ==
  {"family",   \* clients give their windows parents
   "state",    \* clients change the state of their windows
   "minimize", \* the desktop minimizes, enlarges and restores windows
   "close",    \* the desktop asks clients to close
   "zorder",   \* raise and lower without activation
   "drag"}     \* interactive move and resize

ASSUME StatesAssumption == {"Normal", "Minimized"} \subseteq States /\ States \subseteq WindowStates
ASSUME InputsAssumption == Inputs \subseteq InputKinds

VARIABLES
  order,      \* WindowRegistry::window_order_, oldest registration first
  win,        \* the Window objects: lifecycle, state, visibility, parent_id
  act,        \* focus: WindowFocus::active_id_; reg: WindowRegistry::active_window_id_;
              \* flagged: windows whose is_active_ is set
  stk,        \* WindowManager::stacking_
  drag,       \* WindowInteraction::window_id_
  closeAsked  \* windows that were sent xdg_toplevel.close

vars == <<order, win, act, stk, drag, closeAsked>>

Lives == {"Unborn", "Initializing", "Visible", "Closing", "Destroyed"}

WindowRecord == [life : Lives, state : States, visible : BOOLEAN, parent : Windows \cup {NoWindow}]

Fresh(l) == [life |-> l, state |-> "Normal", visible |-> FALSE, parent |-> NoWindow]

IsRegistered(W, w) == w \in Windows /\ W[w].life \in {"Initializing", "Visible", "Closing"}

Registered == {w \in Windows : IsRegistered(win, w)}

-------------------------------------------------------------------------------
(* Focus.  A is a value of act, S of stk, W of win.                          *)

\* Seeded faults: the registry is not told; the old window stays flagged.
ActivatedUntold(A, id) == [focus |-> id, reg |-> A.reg, flagged |-> (A.flagged \ {A.focus, A.reg}) \cup {id}]
ActivatedBoth(A, id) == [focus |-> id, reg |-> id, flagged |-> A.flagged \cup {id}]

\* WindowFocus::activate for a window that may take focus: the old window is
\* deactivated, and registry, focus and flags all move to id.
Activated(A, id) ==
  [focus |-> id, reg |-> id, flagged |-> (A.flagged \ {A.focus, A.reg}) \cup {id}]

\* The filter of WindowStacking::visible_stack.
Showable(W, w) == IsRegistered(W, w) /\ W[w].state # "Minimized" /\ W[w].visible

\* Seeded fault: the visible stack is walked from the bottom.
FallbackFromBottom(S, W, id) ==
  LET Fits(i) == Showable(W, S.seq[i]) /\ S.seq[i] # id
      Low     == {i \in DOMAIN S.seq : Fits(i) /\ \A j \in DOMAIN S.seq : j < i => ~Fits(j)}
  IN  IF \E i \in DOMAIN S.seq : Fits(i) THEN {S.seq[i] : i \in Low} ELSE {NoWindow}

\* What the fallback loop picks: the topmost showable window other than id, or
\* NoWindow when there is none.  The set always has exactly one element.
FallbackTargets(S, W, id) ==
  LET Fits(i) == Showable(W, S.seq[i]) /\ S.seq[i] # id
      Top     == {i \in DOMAIN S.seq : Fits(i) /\ \A j \in DOMAIN S.seq : j > i => ~Fits(j)}
  IN  IF \E i \in DOMAIN S.seq : Fits(i) THEN {S.seq[i] : i \in Top} ELSE {NoWindow}

\* WindowFocus::handle_window_removed_or_hidden(id), with t the fallback target.
ActAfterHide(A, id, t) ==
  IF A.focus # id THEN A
  ELSE IF t = NoWindow THEN [A EXCEPT !.focus = NoWindow]
  ELSE Activated([A EXCEPT !.focus = NoWindow], t)

StkAfterHide(A, S, id, t) ==
  IF A.focus = id /\ t # NoWindow THEN StackRaise(S, t) ELSE S

\* handle_window_removed_or_hidden as the end of a handler that has brought the
\* windows to W, the focus to A and the stack to S.
HideWith(W, A, S, id) ==
  \E t \in FallbackTargets(S, W, id) :
    /\ win' = W
    /\ act' = ActAfterHide(A, id, t)
    /\ stk' = StkAfterHide(A, S, id, t)

\* A move or resize of a window that is closed or destroyed is dropped.
DragWithout(id) == IF drag = id THEN NoWindow ELSE drag

\* WindowManager::on_window_event for StateChanged and VisibilityChanged of id.
NotifyState(W, A, id) ==
  IF W[id].state = "Minimized" THEN HideWith(W, A, stk, id)
  ELSE win' = W /\ act' = A /\ stk' = stk

-------------------------------------------------------------------------------
Init ==
  /\ order = <<>>
  /\ win = [w \in Windows |-> Fresh("Unborn")]
  /\ act = [focus |-> NoWindow, reg |-> NoWindow, flagged |-> {}]
  /\ stk = EmptyStacking
  /\ drag = NoWindow
  /\ closeAsked = {}

(* Requests of the applications, handled by WindowTracker.                   *)

\* xdg_surface.get_toplevel: a new Window is registered; on Created the manager
\* stacks it (it has no parent yet), places it and gives it the focus.
GetToplevel(id) ==
  /\ win[id].life = "Unborn"
  /\ win' = [win EXCEPT ![id] = Fresh("Initializing")]
  /\ order' = Append(order, id)
  /\ act' = Activated(act, id)
  /\ stk' = StackRaise(StackAdd(stk, id, NoWindow), id)
  /\ UNCHANGED <<drag, closeAsked>>

\* wl_surface.commit: the first commit of a window makes it visible.
Commit(id) ==
  /\ win[id].life = "Initializing"
  /\ NotifyState([win EXCEPT ![id].life = "Visible", ![id].visible = TRUE], act, id)
  /\ UNCHANGED <<order, drag, closeAsked>>

\* Transitive closure of parent_id over registered windows: w is in every set that
\* holds the children of a and of its own elements.
IsAncestor(a, w) ==
  LET Holds(X) == \A c \in Windows : win[c].parent \in Registered /\ win[c].parent \in X \cup {a} => c \in X
  IN  \A X \in SUBSET Windows : Holds(X) => w \in X

\* xdg_toplevel.set_parent.  The server does not check for cycles; xdg-shell
\* forbids a client to ask for one, and the model has only such clients.
SetParent(id, p) ==
  /\ id \in Registered
  /\ p = NoWindow \/ (p \in Registered /\ p # id /\ ~IsAncestor(id, p))
  /\ win' = [win EXCEPT ![id].parent = p]
  /\ stk' = StackAdd(stk, id, p)
  /\ UNCHANGED <<order, act, drag, closeAsked>>

\* xdg_toplevel.set_maximized, unset_maximized, set_fullscreen, unset_fullscreen
\* and set_minimized: only the state moves, whatever it was before.
ClientSetState(id, s) ==
  /\ id \in Registered
  /\ win[id].state # s
  /\ NotifyState([win EXCEPT ![id].state = s], act, id)
  /\ UNCHANGED <<order, drag, closeAsked>>

\* window_order_ without a window that occurs in it once.
OrderWithout(id) ==
  LET p == CHOOSE i \in DOMAIN order : order[i] = id
  IN  [i \in 1 .. Len(order) - 1 |-> IF i < p THEN order[i] ELSE order[i + 1]]

\* The end of WindowRegistry::remove_window, where ord is what window_order_ still
\* holds: an active window that is erased is succeeded by the newest one.
Erased(A, id, ord) ==
  LET left == A.flagged \ {id}
  IN  IF A.reg # id THEN [A EXCEPT !.flagged = left]
      ELSE IF Len(ord) = 0 THEN [A EXCEPT !.reg = NoWindow, !.flagged = left]
      ELSE [A EXCEPT !.reg = Last(ord), !.flagged = left \cup {Last(ord)}]

\* xdg_toplevel.destroy, or the disconnection of the client: Destroyed is
\* dispatched while the window is still registered but can no longer be shown in
\* the stack, then the registry forgets it; if the registry still thinks it is
\* active, the newest registered window becomes the registry's active one.
DestroyToplevel(id) ==
  /\ id \in Registered
  /\ \E t \in FallbackTargets(StackRemove(stk, id), win, id) :
       /\ act' = Erased(ActAfterHide(act, id, t), id, OrderWithout(id))
       /\ stk' = StkAfterHide(act, StackRemove(stk, id), id, t)
  /\ order' = OrderWithout(id)
  /\ win' = [win EXCEPT ![id] = Fresh("Destroyed")]
  /\ drag' = DragWithout(id)
  /\ closeAsked' = closeAsked \ {id}

-------------------------------------------------------------------------------
(* The WindowManager API.                                                    *)

\* Seeded fault: minimized windows are not refused.
ActivateAny(id) ==
  /\ id \in Registered
  /\ act' = IF act.focus = id THEN act ELSE Activated(act, id)
  /\ stk' = StackRaise(stk, id)
  /\ UNCHANGED <<order, win, drag, closeAsked>>

\* WindowManager::activate.  A minimized window is refused; the window that has
\* the focus is only raised.
Activate(id) ==
  /\ id \in Registered
  /\ act.focus = id \/ win[id].state # "Minimized"
  /\ act' = IF act.focus = id THEN act ELSE Activated(act, id)
  /\ stk' = StackRaise(stk, id)
  /\ UNCHANGED <<order, win, drag, closeAsked>>

\* WindowManager::close: xdg_toplevel.close goes to the client, and the window
\* leaves the stack at once, before the client has answered.
Close(id) ==
  /\ id \in Registered
  /\ HideWith([win EXCEPT ![id].life = IF @ = "Visible" THEN "Closing" ELSE @],
              act, StackRemove(stk, id), id)
  /\ drag' = DragWithout(id)
  /\ closeAsked' = closeAsked \cup {id}
  /\ UNCHANGED order

\* WindowManager::minimize: state and visibility, then the active flags, then
\* the two events and the manager's own call, which all end in the same fallback.
Minimize(id) ==
  /\ id \in Registered
  /\ LET hidden == [win EXCEPT ![id].state = "Minimized", ![id].visible = FALSE]
         quiet  == [act EXCEPT !.flagged = @ \ {id},
                               !.reg = IF id \in act.flagged /\ @ = id THEN NoWindow ELSE @]
     IN  IF win[id].state = "Minimized" THEN HideWith(win, act, stk, id)
                                        ELSE HideWith(hidden, quiet, stk, id)
  /\ UNCHANGED <<order, drag, closeAsked>>

\* WindowManager::restore
Restore(id) ==
  /\ id \in Registered
  /\ win[id].state # "Normal"
  /\ win' = [win EXCEPT ![id].state = "Normal",
                        ![id].visible = (win[id].state = "Minimized") \/ @]
  /\ UNCHANGED <<order, act, stk, drag, closeAsked>>

\* WindowManager::maximize and fullscreen (s), from whatever state the window
\* has; a minimized window keeps visible = FALSE.
Enlarge(id, s) ==
  /\ id \in Registered
  /\ win[id].state # s
  /\ win' = [win EXCEPT ![id].state = s]
  /\ UNCHANGED <<order, act, stk, drag, closeAsked>>

\* WindowManager::raise and lower
Raise(id) ==
  /\ id \in Registered
  /\ stk' = StackRaise(stk, id)
  /\ UNCHANGED <<order, win, act, drag, closeAsked>>

Lower(id) ==
  /\ id \in Registered
  /\ stk' = StackLower(stk, id)
  /\ UNCHANGED <<order, win, act, drag, closeAsked>>

\* WindowManager::start_move and start_resize
StartDrag(id) ==
  /\ id \in Registered
  /\ win[id].state \notin {"Minimized", "Fullscreen"}
  /\ act' = IF act.focus = id THEN act ELSE Activated(act, id)
  /\ stk' = StackRaise(stk, id)
  /\ drag' = id
  /\ UNCHANGED <<order, win, closeAsked>>

\* WindowManager::end_move, cancel_move, end_resize and cancel_resize
EndDrag ==
  /\ drag # NoWindow
  /\ drag' = NoWindow
  /\ UNCHANGED <<order, win, act, stk, closeAsked>>

-------------------------------------------------------------------------------
CoreStep(id) == GetToplevel(id) \/ Commit(id) \/ DestroyToplevel(id) \/ Activate(id)

FamilyStep(id) == \E p \in Windows \cup {NoWindow} : SetParent(id, p)

StateStep(id) == \E s \in States : ClientSetState(id, s)

MinimizeStep(id) ==
  \/ Minimize(id)
  \/ Restore(id)
  \/ \E s \in States \cap {"Maximized", "Fullscreen"} : Enlarge(id, s)

Next ==
  \E id \in Windows :
    \/ CoreStep(id)
    \/ "family"   \in Inputs /\ FamilyStep(id)
    \/ "state"    \in Inputs /\ StateStep(id)
    \/ "minimize" \in Inputs /\ MinimizeStep(id)
    \/ "close"    \in Inputs /\ Close(id)
    \/ "zorder"   \in Inputs /\ (Raise(id) \/ Lower(id))
    \/ "drag"     \in Inputs /\ (StartDrag(id) \/ EndDrag)

Spec == Init /\ [][Next]_vars

-------------------------------------------------------------------------------
(* Properties.                                                               *)

\* The values of the state: one record per Window object, and the three pieces
\* of bookkeeping the manager keeps about them.
TypeOK ==
  /\ order \in Seq(Windows)
  /\ win \in [Windows -> WindowRecord]
  /\ act \in [focus : Windows \cup {NoWindow}, reg : Windows \cup {NoWindow}, flagged : SUBSET Windows]
  /\ stk \in [seq : Seq(Windows), par : [Windows -> Windows \cup {NoWindow}]]
  /\ drag \in Windows \cup {NoWindow}
  /\ closeAsked \subseteq Windows

\* WindowFocus and WindowRegistry each keep "the active window", updated by
\* different handlers in different orders.  Whenever WindowFocus has one, the
\* registry (which the dock, the switcher and the layout read) has the same one.
FocusIsRegistryActive == act.focus # NoWindow => act.reg = act.focus

\* Exactly the registry's active window has is_active_ set: no path through
\* activate, minimize, close, destroy and the fallback leaves two windows, or the
\* wrong one, flagged as activated in the configures sent to clients.
OneActiveFlag == act.flagged = {act.reg} \ {NoWindow}

\* The window that has the focus is registered and not minimized, whichever
\* client request or desktop action came last.
FocusCanBeHeld ==
  act.focus # NoWindow => act.focus \in Registered /\ win[act.focus].state # "Minimized"

\* Whatever the registry calls active is registered: a destroyed window is
\* never handed to the dock, the switcher or the layout as the active one.
RegistryActiveRegistered == act.reg # NoWindow => act.reg \in Registered

\* A move or resize in progress never refers to a window that is gone.
DragWindowRegistered == drag # NoWindow => drag \in Registered

\* The z-order has no window twice, only registered windows, and every
\* registered window that nobody has asked to close.
StackHoldsOpenWindows ==
  /\ \A i, j \in DOMAIN stk.seq : stk.seq[i] = stk.seq[j] => i = j
  /\ Stacked(stk) \subseteq Registered
  /\ Registered \ closeAsked \subseteq Stacked(stk)

\* The windows above w in the z-order S, and the descendants of w in S:
Above(S, w) == {x \in Stacked(S) : \E i, j \in DOMAIN S.seq : i < j /\ S.seq[i] = w /\ S.seq[j] = x}

\* The least set that holds the children of w and of its own elements.
Family(S, w) ==
  LET Holds(X) == \A c \in Windows : S.par[c] \in X \cup {w} => c \in X
  IN  {x \in Windows : \A X \in SUBSET Windows : Holds(X) => x \in X}

\* A window that gets the focus ends on top of the z-order, under nothing but
\* its own transient dialogs, their dialogs and so on, all of them lifted with it.
ActivationLiftsFamily ==
  [][ LET f == act'.focus
      IN  f # act.focus /\ f \in Stacked(stk') => Above(stk', f) = Family(stk', f)
    ]_vars

\* The topmost window of the z-order that a user can see, other than w.
TopShown(S, W, w) ==
  LET shown == Kept(S.seq, {x \in Windows : x # w /\ Showable(W, x)})
  IN  IF shown = <<>> THEN NoWindow ELSE Last(shown)

\* When the window with the focus is closed, destroyed or minimized, the focus
\* goes to the topmost visible window that is left, and is given up only when
\* there is none.
FallbackIsTopmost ==
  [][ LET f    == act.focus
          lost == f \in Stacked(stk) /\ (f \notin Stacked(stk') \/ win'[f].state = "Minimized")
      IN  lost => act'.focus = TopShown(stk, win', f)
    ]_vars

===============================================================================

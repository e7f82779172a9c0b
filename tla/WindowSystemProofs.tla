-------------------------- MODULE WindowSystemProofs --------------------------
(***************************************************************************)
(* Proofs about WindowSystem for any number of windows and any kinds of     *)
(* input.                                                                   *)
(*                                                                          *)
(* First the focus: WindowFocus, the registry's active window, the flags    *)
(* and the interactive move stay consistent with each other and with the    *)
(* set of registered windows (Inv).  This does not depend on what the       *)
(* z-order holds: the fallback looks at every candidate with Showable.      *)
(*                                                                          *)
(* Then the z-order: its shape (StackInv), what raise() puts above a        *)
(* window (RaiseLifts) and which window the fallback finds (FallbackTops).  *)
(* raise() is a loop over sequences, so this part starts with induction on  *)
(* the naturals, for sets of numbers instead of predicates, with functions  *)
(* defined by recursion, and with what filters and insertions do to the     *)
(* elements of a sequence and to their order.                               *)
(***************************************************************************)
EXTENDS WindowSystem, FiniteSetTheorems, SequenceTheorems, WellFoundedInduction, TLAPS

\* The part of TypeOK that the invariants need.
TypeInv ==
  /\ order \in Seq(Windows)
  /\ win \in [Windows -> WindowRecord]
  /\ act \in [focus : Windows \cup {NoWindow}, reg : Windows \cup {NoWindow}, flagged : SUBSET Windows]
  /\ drag \in Windows \cup {NoWindow}
  /\ closeAsked \in SUBSET Windows

\* window_order_ lists the registered windows, each once: what makes its last
\* entry a possible active window after an erase.
OrderInv ==
  /\ \A i \in DOMAIN order : order[i] \in Registered
  /\ \A w \in Registered : \E i \in DOMAIN order : order[i] = w
  /\ \A i, j \in DOMAIN order : order[i] = order[j] => i = j

\* The consistency of a focus record A with the windows W.
FocusInv(A, W) ==
  /\ A.focus # NoWindow => A.reg = A.focus /\ W[A.focus].state # "Minimized"
  /\ A.reg # NoWindow => IsRegistered(W, A.reg)
  /\ A.flagged = {A.reg} \ {NoWindow}

ActType == [focus : Windows \cup {NoWindow}, reg : Windows \cup {NoWindow}, flagged : SUBSET Windows]

Inv ==
  /\ TypeInv
  /\ OrderInv
  /\ FocusInv(act, win)
  /\ DragWindowRegistered

-------------------------------------------------------------------------------
\* A new Window object is a window record.
LEMMA FreshType == ASSUME NEW l \in Lives PROVE Fresh(l) \in WindowRecord
BY StatesAssumption DEF Fresh, WindowRecord

\* Activating a registered window that is not minimized establishes the
\* consistency of the focus record, if the flags were those of one window.
LEMMA ActivatedInv ==
  ASSUME NEW W, NEW A \in ActType, NEW id \in Windows,
         IsRegistered(W, id), W[id].state # "Minimized",
         A.flagged \subseteq {A.focus, A.reg}
  PROVE  Activated(A, id) \in ActType /\ FocusInv(Activated(A, id), W)
BY NoWindowAssumption DEF ActType, Activated, FocusInv, IsRegistered

\* Every window the fallback may choose can hold the focus.
LEMMA TargetsCanHoldFocus ==
  ASSUME NEW S, NEW W, NEW id, NEW t \in FallbackTargets(S, W, id)
  PROVE  \/ t = NoWindow
         \/ t \in Windows /\ IsRegistered(W, t) /\ W[t].state # "Minimized" /\ t # id
BY DEF FallbackTargets, Showable, IsRegistered

\* The whole of handle_window_removed_or_hidden: it restores the consistency of
\* a record in which only id, if it had the focus, may have stopped holding it.
LEMMA AfterHideInv ==
  ASSUME NEW W, NEW A \in ActType, NEW id \in Windows, NEW S,
         NEW t \in FallbackTargets(S, W, id),
         A.reg # NoWindow => IsRegistered(W, A.reg),
         A.flagged = {A.reg} \ {NoWindow},
         A.focus # NoWindow /\ A.focus # id => A.reg = A.focus /\ W[A.focus].state # "Minimized"
  PROVE  LET B == ActAfterHide(A, id, t)
         IN  /\ B \in ActType /\ FocusInv(B, W)
             /\ B.focus # id
<1>1. CASE A.focus # id
  BY <1>1 DEF ActAfterHide, FocusInv, ActType
<1>2. CASE A.focus = id /\ t = NoWindow
  BY <1>2, NoWindowAssumption DEF ActAfterHide, FocusInv, ActType
<1>3. CASE A.focus = id /\ t # NoWindow
  <2>1. t \in Windows /\ IsRegistered(W, t) /\ W[t].state # "Minimized" /\ t # id
    BY <1>3, TargetsCanHoldFocus
  <2> DEFINE C == [A EXCEPT !.focus = NoWindow]
  <2>2. C \in ActType /\ C.flagged \subseteq {C.focus, C.reg}
    BY DEF ActType
  <2>3. Activated(C, t) \in ActType /\ FocusInv(Activated(C, t), W)
    BY <2>1, <2>2, ActivatedInv
  <2>4. Activated(C, t).focus = t
    BY DEF Activated
  <2> QED BY <1>3, <2>1, <2>3, <2>4 DEF ActAfterHide
<1> QED BY <1>1, <1>2, <1>3

\* A change of one window's record that keeps it registered changes neither who
\* is registered nor the state of any other window.
LEMMA WinUpdate ==
  ASSUME win \in [Windows -> WindowRecord], NEW id \in Windows, NEW r \in WindowRecord,
         r.life \in {"Initializing", "Visible", "Closing"}
  PROVE  LET W == [win EXCEPT ![id] = r]
         IN  /\ W \in [Windows -> WindowRecord]
             /\ W[id] = r
             /\ \A w \in Windows \ {id} : W[w] = win[w]
             /\ \A w : w # id => (IsRegistered(W, w) <=> IsRegistered(win, w))
             /\ IsRegistered(W, id)
BY DEF IsRegistered

\* A handler that changes the record of a registered window and ends in the
\* fallback preserves the invariant: HideWith from a consistent focus record A.
LEMMA HideWithInv ==
  ASSUME Inv, NEW W \in [Windows -> WindowRecord], NEW A \in ActType, NEW S, NEW id \in Windows,
         \A w : IsRegistered(W, w) <=> IsRegistered(win, w),
         A.reg # NoWindow => IsRegistered(W, A.reg),
         A.flagged = {A.reg} \ {NoWindow},
         A.focus # NoWindow /\ A.focus # id => A.reg = A.focus /\ W[A.focus].state # "Minimized",
         HideWith(W, A, S, id),
         order' = order,
         drag' \in {NoWindow, drag},
         closeAsked' \in SUBSET Windows
  PROVE  Inv'
<1>1. PICK t \in FallbackTargets(S, W, id) : win' = W /\ act' = ActAfterHide(A, id, t)
  BY DEF HideWith
<1>2. act' \in ActType /\ FocusInv(act', win')
  BY <1>1, AfterHideInv
<1>3. TypeInv'
  BY <1>1, <1>2 DEF Inv, TypeInv, ActType
<1>4. OrderInv'
  BY <1>1 DEF Inv, OrderInv, Registered, IsRegistered
<1>5. DragWindowRegistered'
  BY <1>1 DEF Inv, DragWindowRegistered, Registered, IsRegistered
<1> QED BY <1>2, <1>3, <1>4, <1>5 DEF Inv

\* A handler that changes the record of a registered window, does not minimize
\* it, and leaves the focus alone.
LEMMA KeepActInv ==
  ASSUME Inv, NEW id \in Windows, id \in Registered, NEW r \in WindowRecord,
         r.life \in {"Initializing", "Visible", "Closing"},
         win' = [win EXCEPT ![id] = r],
         act.focus = id => r.state # "Minimized",
         act' = act, order' = order, drag' = drag, closeAsked' = closeAsked
  PROVE  Inv'
<1> USE DEF Inv, TypeInv, ActType
<1>1. /\ win' \in [Windows -> WindowRecord]
      /\ win'[id] = r
      /\ \A w \in Windows \ {id} : win'[w] = win[w]
      /\ \A w : IsRegistered(win', w) <=> IsRegistered(win, w)
  BY WinUpdate DEF Registered
<1>2. FocusInv(act', win')
  BY <1>1, NoWindowAssumption DEF FocusInv
<1>3. OrderInv'
  BY <1>1 DEF OrderInv, Registered, IsRegistered
<1>4. DragWindowRegistered'
  BY <1>1 DEF DragWindowRegistered, Registered, IsRegistered
<1> QED BY <1>1, <1>2, <1>3, <1>4

\* The StateChanged and VisibilityChanged notifications of a window whose record
\* becomes r while the focus record is untouched.
LEMMA NotifyStateInv ==
  ASSUME Inv, NEW id \in Windows, id \in Registered, NEW r \in WindowRecord,
         r.life \in {"Initializing", "Visible", "Closing"},
         NotifyState([win EXCEPT ![id] = r], act, id),
         order' = order, drag' = drag, closeAsked' = closeAsked
  PROVE  Inv'
<1> DEFINE W == [win EXCEPT ![id] = r]
<1>1. /\ W \in [Windows -> WindowRecord] /\ W[id] = r
      /\ \A w \in Windows \ {id} : W[w] = win[w]
      /\ \A w : IsRegistered(W, w) <=> IsRegistered(win, w)
  BY WinUpdate DEF Inv, TypeInv, Registered
<1>2. CASE r.state = "Minimized"
  <2>1. HideWith(W, act, stk, id)
    BY <1>1, <1>2 DEF NotifyState
  <2>2. /\ act \in ActType
        /\ act.reg # NoWindow => IsRegistered(W, act.reg)
        /\ act.flagged = {act.reg} \ {NoWindow}
        /\ act.focus # NoWindow /\ act.focus # id => act.reg = act.focus /\ W[act.focus].state # "Minimized"
    BY <1>1, NoWindowAssumption DEF Inv, TypeInv, ActType, FocusInv
  <2>3. drag' \in {NoWindow, drag} /\ closeAsked' \in SUBSET Windows
    BY DEF Inv, TypeInv
  <2> HIDE DEF W
  <2> QED BY <1>1, <2>1, <2>2, <2>3, HideWithInv
<1>3. CASE r.state # "Minimized"
  <2>1. win' = W /\ act' = act
    BY <1>1, <1>3 DEF NotifyState
  <2> QED BY <1>3, <2>1, KeepActInv
<1> QED BY <1>2, <1>3

-------------------------------------------------------------------------------
(* One lemma per action that moves the focus record or the registration order. *)

\* Activation by the desktop (and the activation that starts a move or resize)
\* of a window that may hold the focus.
LEMMA TakeFocusInv ==
  ASSUME Inv, NEW id \in Windows, id \in Registered,
         act.focus = id \/ win[id].state # "Minimized",
         act' = IF act.focus = id THEN act ELSE Activated(act, id),
         win' = win, order' = order, drag' \in {drag, id}, closeAsked' = closeAsked
  PROVE  Inv'
<1>1. act' \in ActType /\ FocusInv(act', win')
  <2>1. CASE act.focus = id
    BY <2>1 DEF Inv, TypeInv, ActType
  <2>2. CASE act.focus # id
    <3>1. act \in ActType /\ act.flagged \subseteq {act.focus, act.reg}
      BY DEF Inv, TypeInv, ActType, FocusInv
    <3>2. Activated(act, id) \in ActType /\ FocusInv(Activated(act, id), win)
      BY <2>2, <3>1, ActivatedInv DEF Registered
    <3> QED BY <2>2, <3>2
  <2> QED BY <2>1, <2>2
<1>2. TypeInv'
  BY <1>1 DEF Inv, TypeInv, ActType
<1>3. OrderInv'
  BY DEF Inv, OrderInv, Registered
<1>4. DragWindowRegistered'
  BY DEF Inv, DragWindowRegistered, Registered
<1> QED BY <1>1, <1>2, <1>3, <1>4 DEF Inv

\* A new window takes the focus and is appended to window_order_.
LEMMA GetToplevelInv == ASSUME Inv, NEW id \in Windows, GetToplevel(id) PROVE Inv'
<1> DEFINE r == Fresh("Initializing")
           W == [win EXCEPT ![id] = r]
<1>1. r \in WindowRecord /\ r.life = "Initializing" /\ r.state = "Normal"
  BY FreshType DEF Lives, Fresh
<1>2. win' = W /\ order' = Append(order, id) /\ act' = Activated(act, id) /\ drag' = drag
  BY DEF GetToplevel
<1> HIDE DEF r
<1>3. /\ W \in [Windows -> WindowRecord]
      /\ \A w : w # id => (IsRegistered(W, w) <=> IsRegistered(win, w))
      /\ IsRegistered(W, id) /\ W[id].state # "Minimized"
  BY <1>1, WinUpdate DEF Inv, TypeInv
<1>4. act \in ActType /\ act.flagged \subseteq {act.focus, act.reg}
  BY DEF Inv, TypeInv, ActType, FocusInv
<1>5. act' \in ActType /\ FocusInv(act', win')
  BY <1>3, <1>2, <1>4, ActivatedInv
<1>6. TypeInv'
  BY <1>3, <1>2, <1>5 DEF Inv, TypeInv, ActType, GetToplevel
<1>7. OrderInv'
  <2>1. order \in Seq(Windows) /\ id \notin Registered /\ Len(order) \in Nat
    BY DEF Inv, TypeInv, GetToplevel, Registered, IsRegistered
  <2>2. \A i \in DOMAIN order : order[i] \in Registered /\ order[i] # id
    BY <2>1 DEF Inv, OrderInv
  <2>3. DOMAIN order' = DOMAIN order \cup {Len(order) + 1}
    BY <1>2, <2>1
  <2>4. order'[Len(order) + 1] = id /\ \A i \in DOMAIN order : order'[i] = order[i]
    BY <1>2, <2>1
  <2>5. Registered' = Registered \cup {id}
    BY <1>3, <1>2 DEF Registered
  <2> QED BY <2>2, <2>3, <2>4, <2>5 DEF Inv, OrderInv
<1>8. DragWindowRegistered'
  BY <1>3, <1>2 DEF Inv, DragWindowRegistered, Registered
<1> QED BY <1>5, <1>6, <1>7, <1>8 DEF Inv

\* Minimizing clears the flags of the window before the fallback runs.
LEMMA MinimizeInv == ASSUME Inv, NEW id \in Windows, Minimize(id) PROVE Inv'
<1> DEFINE r     == [win[id] EXCEPT !.state = "Minimized", !.visible = FALSE]
           W     == [win EXCEPT ![id] = r]
           quiet == [act EXCEPT !.flagged = @ \ {id},
                                !.reg = IF id \in act.flagged /\ @ = id THEN NoWindow ELSE @]
<1>1. id \in Registered /\ UNCHANGED <<order, drag, closeAsked>>
  BY DEF Minimize
<1>2. drag' \in {NoWindow, drag} /\ closeAsked' \in SUBSET Windows /\ order' = order
  BY <1>1 DEF Inv, TypeInv
<1>3. CASE win[id].state = "Minimized"
  <2>1. HideWith(win, act, stk, id)
    BY <1>3 DEF Minimize
  <2>2. /\ win \in [Windows -> WindowRecord] /\ act \in ActType
        /\ act.reg # NoWindow => IsRegistered(win, act.reg)
        /\ act.flagged = {act.reg} \ {NoWindow}
        /\ act.focus # NoWindow => act.reg = act.focus /\ win[act.focus].state # "Minimized"
    BY DEF Inv, TypeInv, ActType, FocusInv
  <2> QED BY <1>2, <2>1, <2>2, HideWithInv
<1>4. CASE win[id].state # "Minimized"
  <2>1. HideWith(W, quiet, stk, id)
    <3>1. W = [win EXCEPT ![id].state = "Minimized", ![id].visible = FALSE]
      BY DEF Inv, TypeInv, WindowRecord
    <3> QED BY <1>4, <3>1 DEF Minimize
  <2>2. r \in WindowRecord /\ r.state = "Minimized" /\ r.life \in {"Initializing", "Visible", "Closing"}
    BY <1>1, StatesAssumption DEF Inv, TypeInv, WindowRecord, Registered, IsRegistered
  <2> HIDE DEF r
  <2>3. /\ W \in [Windows -> WindowRecord]
        /\ \A w \in Windows \ {id} : W[w] = win[w]
        /\ \A w : IsRegistered(W, w) <=> IsRegistered(win, w)
    BY <1>1, <2>2, WinUpdate DEF Inv, TypeInv, Registered
  <2>4. /\ quiet \in ActType
        /\ quiet.reg # NoWindow => quiet.reg = act.reg
        /\ quiet.flagged = {quiet.reg} \ {NoWindow}
        /\ quiet.focus = act.focus
        /\ act.focus # NoWindow /\ act.focus # id => quiet.reg = act.reg
    BY NoWindowAssumption DEF Inv, TypeInv, ActType, FocusInv
  <2>5. quiet.reg # NoWindow => IsRegistered(W, quiet.reg)
    BY <2>3, <2>4 DEF Inv, FocusInv
  <2>6. quiet.focus # NoWindow /\ quiet.focus # id
          => quiet.reg = quiet.focus /\ W[quiet.focus].state # "Minimized"
    BY <2>3, <2>4 DEF Inv, FocusInv, TypeInv
  <2> HIDE DEF W, quiet
  <2> QED BY <1>2, <2>1, <2>3, <2>4, <2>5, <2>6, HideWithInv
<1> QED BY <1>3, <1>4

\* Closing takes the window from the stack and hands the focus on.
LEMMA CloseInv == ASSUME Inv, NEW id \in Windows, Close(id) PROVE Inv'
<1> DEFINE r == [win[id] EXCEPT !.life = IF @ = "Visible" THEN "Closing" ELSE @]
           W == [win EXCEPT ![id] = r]
<1>1. id \in Registered /\ HideWith(W, act, StackRemove(stk, id), id)
  <2>1. W = [win EXCEPT ![id].life = IF @ = "Visible" THEN "Closing" ELSE @]
    BY DEF Inv, TypeInv, WindowRecord
  <2> QED BY <2>1 DEF Close
<1>2. /\ r \in WindowRecord /\ r.life \in {"Initializing", "Visible", "Closing"}
      /\ r.state = win[id].state
  BY <1>1 DEF Inv, TypeInv, WindowRecord, Registered, IsRegistered, Lives
<1> HIDE DEF r
<1>3. /\ W \in [Windows -> WindowRecord] /\ W[id] = r
      /\ \A w \in Windows \ {id} : W[w] = win[w]
      /\ \A w : IsRegistered(W, w) <=> IsRegistered(win, w)
  BY <1>1, <1>2, WinUpdate DEF Inv, TypeInv, Registered
<1>4. /\ act \in ActType
      /\ act.reg # NoWindow => IsRegistered(W, act.reg)
      /\ act.flagged = {act.reg} \ {NoWindow}
      /\ act.focus # NoWindow /\ act.focus # id => act.reg = act.focus /\ W[act.focus].state # "Minimized"
  BY <1>3 DEF Inv, TypeInv, ActType, FocusInv
<1>5. order' = order /\ drag' \in {NoWindow, drag} /\ closeAsked' \in SUBSET Windows
  BY DEF Close, DragWithout, Inv, TypeInv
<1> HIDE DEF W
<1> QED BY <1>1, <1>3, <1>4, <1>5, HideWithInv

\* Taking a listed window out of window_order_.
LEMMA OrderWithoutProps ==
  ASSUME order \in Seq(Windows), NEW id \in Windows,
         \A i, j \in DOMAIN order : order[i] = order[j] => i = j,
         NEW p \in DOMAIN order, order[p] = id
  PROVE  LET ord == OrderWithout(id)
         IN  /\ ord \in Seq(Windows)
             /\ \A i \in DOMAIN ord : \E j \in DOMAIN order : ord[i] = order[j] /\ order[j] # id
             /\ \A j \in DOMAIN order : order[j] # id => \E i \in DOMAIN ord : ord[i] = order[j]
             /\ \A i, j \in DOMAIN ord : ord[i] = ord[j] => i = j
<1> DEFINE q == CHOOSE i \in DOMAIN order : order[i] = id
           ord == [i \in 1 .. Len(order) - 1 |-> IF i < q THEN order[i] ELSE order[i + 1]]
<1>1. q \in DOMAIN order /\ order[q] = id
  OBVIOUS
<1>2. Len(order) \in Nat /\ DOMAIN order = 1 .. Len(order) /\ \A i \in 1 .. Len(order) : order[i] \in Windows
  OBVIOUS
<1> HIDE DEF q
<1>3. ord \in Seq(Windows) /\ DOMAIN ord = 1 .. Len(order) - 1
  <2>1. \A i \in 1 .. Len(order) - 1 : (IF i < q THEN order[i] ELSE order[i + 1]) \in Windows
    BY <1>1, <1>2
  <2>2. Len(order) - 1 \in Nat
    BY <1>1, <1>2
  <2> QED BY <2>1, <2>2
<1>4. \A i \in 1 .. Len(order) - 1 :
        \E j \in DOMAIN order : ord[i] = order[j] /\ j # q /\ (j = i \/ j = i + 1) /\ (j = i <=> i < q)
  BY <1>1, <1>2
<1>5. \A i \in DOMAIN ord : \E j \in DOMAIN order : ord[i] = order[j] /\ order[j] # id
  BY <1>1, <1>3, <1>4
<1>6. ASSUME NEW i \in DOMAIN ord, NEW j \in DOMAIN ord, ord[i] = ord[j] PROVE i = j
  <2>1. PICK k \in DOMAIN order : ord[i] = order[k] /\ (k = i \/ k = i + 1) /\ (k = i <=> i < q)
    BY <1>3, <1>4
  <2>2. PICK l \in DOMAIN order : ord[j] = order[l] /\ (l = j \/ l = j + 1) /\ (l = j <=> j < q)
    BY <1>3, <1>4
  <2>3. k = l
    BY <1>6, <2>1, <2>2
  <2>4. i \in Nat /\ j \in Nat /\ q \in Nat
    BY <1>1, <1>2, <1>3
  <2> QED BY <2>1, <2>2, <2>3, <2>4
<1>7. ASSUME NEW j \in DOMAIN order, order[j] # id PROVE \E i \in DOMAIN ord : ord[i] = order[j]
  <2>1. CASE j < q
    <3>1. j \in DOMAIN ord /\ ord[j] = order[j]
      BY <1>1, <1>2, <1>3, <2>1
    <3> QED BY <3>1
  <2>2. CASE j > q
    <3>1. j - 1 \in DOMAIN ord /\ ord[j - 1] = order[j]
      BY <1>1, <1>2, <1>3, <2>2
    <3> QED BY <3>1
  <2> QED BY <1>1, <1>2, <1>7, <2>1, <2>2
<1>8. ord = OrderWithout(id)
  BY DEF OrderWithout, q
<1> HIDE DEF ord
<1> QED BY <1>3, <1>5, <1>6, <1>7, <1>8

\* Destroying runs the fallback first and then the erase of the registry.
LEMMA DestroyToplevelInv == ASSUME Inv, NEW id \in Windows, DestroyToplevel(id) PROVE Inv'
<1> DEFINE W == [win EXCEPT ![id] = Fresh("Destroyed")]
           S == StackRemove(stk, id)
<1>1. PICK t \in FallbackTargets(S, win, id) : act' = Erased(ActAfterHide(act, id, t), id, order')
  BY DEF DestroyToplevel
<1>2. /\ id \in Registered /\ win' = W /\ order' = OrderWithout(id)
      /\ drag' = DragWithout(id) /\ closeAsked' = closeAsked \ {id}
  BY DEF DestroyToplevel
<1> DEFINE A == ActAfterHide(act, id, t)
<1>3. A \in ActType /\ FocusInv(A, win) /\ A.focus # id
  <2>1. /\ act \in ActType
        /\ act.reg # NoWindow => IsRegistered(win, act.reg)
        /\ act.flagged = {act.reg} \ {NoWindow}
        /\ act.focus # NoWindow /\ act.focus # id => act.reg = act.focus /\ win[act.focus].state # "Minimized"
    BY DEF Inv, TypeInv, ActType, FocusInv
  <2> HIDE DEF S
  <2> QED BY <2>1, AfterHideInv
<1>4. W \in [Windows -> WindowRecord]
  BY FreshType DEF Lives, Inv, TypeInv
<1>5. \A w : IsRegistered(win, w) /\ w # id => IsRegistered(W, w) /\ W[w] = win[w]
  BY DEF IsRegistered, Inv, TypeInv
<1>6. /\ order' \in Seq(Windows)
      /\ \A i \in DOMAIN order' : order'[i] \in Registered /\ order'[i] # id
      /\ \A w \in Registered : w # id => \E i \in DOMAIN order' : order'[i] = w
      /\ \A i, j \in DOMAIN order' : order'[i] = order'[j] => i = j
  <2>1. PICK p \in DOMAIN order : order[p] = id
    BY <1>2 DEF Inv, OrderInv
  <2>2. order \in Seq(Windows) /\ (\A i, j \in DOMAIN order : order[i] = order[j] => i = j)
    BY DEF Inv, TypeInv, OrderInv
  <2>3. /\ order' \in Seq(Windows)
        /\ \A i \in DOMAIN order' : \E j \in DOMAIN order : order'[i] = order[j] /\ order[j] # id
        /\ \A j \in DOMAIN order : order[j] # id => \E i \in DOMAIN order' : order'[i] = order[j]
        /\ \A i, j \in DOMAIN order' : order'[i] = order'[j] => i = j
    BY <1>2, <2>1, <2>2, OrderWithoutProps
  <2> QED BY <2>3 DEF Inv, OrderInv
<1>7. Registered' = Registered \ {id}
  BY <1>2 DEF Registered, IsRegistered, Inv, TypeInv, Fresh
<1> HIDE DEF A, W
<1>8. act' \in ActType /\ FocusInv(act', W)
  <2>1. CASE A.reg # id
    <3>1. act' = [A EXCEPT !.flagged = @ \ {id}]
      BY <1>1, <2>1 DEF Erased, A
    <3> QED BY <1>3, <1>5, <2>1, <3>1 DEF FocusInv, ActType, IsRegistered
  <2>2. CASE A.reg = id /\ Len(order') = 0
    <3>1. act' = [A EXCEPT !.reg = NoWindow, !.flagged = @ \ {id}]
      BY <1>1, <2>2 DEF Erased, A
    <3> QED BY <1>3, <2>2, <3>1 DEF FocusInv, ActType, IsRegistered
  <2>3. CASE A.reg = id /\ Len(order') # 0
    <3> DEFINE n == Last(order')
    <3>1. act' = [A EXCEPT !.reg = n, !.flagged = (@ \ {id}) \cup {n}]
      BY <1>1, <2>3 DEF Erased, A
    <3>2. n \in Registered /\ n # id
      BY <1>6, <2>3 DEF Last
    <3>3. IsRegistered(W, n) /\ n \in Windows /\ n # NoWindow
      BY <1>5, <3>2, NoWindowAssumption DEF Registered
    <3> HIDE DEF n
    <3> QED BY <1>3, <2>3, <3>1, <3>3 DEF FocusInv, ActType
  <2> QED BY <2>1, <2>2, <2>3
<1>9. TypeInv'
  BY <1>2, <1>4, <1>6, <1>8 DEF Inv, TypeInv, ActType, DragWithout
<1>10. OrderInv'
  BY <1>6, <1>7 DEF OrderInv
<1>11. DragWindowRegistered'
  BY <1>2, <1>7 DEF Inv, DragWindowRegistered, DragWithout
<1> QED BY <1>2, <1>8, <1>9, <1>10, <1>11 DEF Inv

-------------------------------------------------------------------------------
\* Nothing is registered at the start.
LEMMA InitInv == Init => Inv
<1> SUFFICES ASSUME Init PROVE Inv
  OBVIOUS
<1>1. TypeInv
  BY FreshType DEF Init, TypeInv, Lives
<1>2. Registered = {}
  BY DEF Init, Registered, IsRegistered, Fresh
<1>3. OrderInv /\ FocusInv(act, win) /\ DragWindowRegistered
  BY <1>2, NoWindowAssumption DEF Init, OrderInv, FocusInv, DragWindowRegistered
<1> QED BY <1>1, <1>3 DEF Inv

\* Every action preserves the invariant.
LEMMA NextInv == ASSUME Inv, [Next]_vars PROVE Inv'
<1>1. CASE UNCHANGED vars
  BY <1>1 DEF vars, Inv, TypeInv, OrderInv, FocusInv, DragWindowRegistered, Registered
<1>2. ASSUME NEW id \in Windows, CoreStep(id) PROVE Inv'
  <2>1. CASE Commit(id)
    <3> DEFINE r == [win[id] EXCEPT !.life = "Visible", !.visible = TRUE]
    <3>1. r \in WindowRecord /\ r.life = "Visible" /\ id \in Registered
      BY <2>1 DEF Commit, Inv, TypeInv, WindowRecord, Lives, Registered, IsRegistered
    <3>2. NotifyState([win EXCEPT ![id] = r], act, id)
      <4>1. [win EXCEPT ![id] = r] = [win EXCEPT ![id].life = "Visible", ![id].visible = TRUE]
        BY DEF Inv, TypeInv, WindowRecord
      <4> QED BY <2>1, <4>1 DEF Commit
    <3>3. UNCHANGED <<order, drag, closeAsked>>
      BY <2>1 DEF Commit
    <3> HIDE DEF r
    <3> QED BY <3>1, <3>2, <3>3, NotifyStateInv
  <2>2. CASE Activate(id)
    BY <2>2, TakeFocusInv DEF Activate
  <2> QED BY <1>2, <2>1, <2>2, GetToplevelInv, DestroyToplevelInv DEF CoreStep
<1>3. ASSUME NEW id \in Windows, FamilyStep(id) PROVE Inv'
  <2>1. PICK p \in Windows \cup {NoWindow} : SetParent(id, p)
    BY <1>3 DEF FamilyStep
  <2> DEFINE r == [win[id] EXCEPT !.parent = p]
  <2>2. /\ r \in WindowRecord /\ id \in Registered /\ r.state = win[id].state
        /\ r.life \in {"Initializing", "Visible", "Closing"}
    BY <2>1 DEF SetParent, Inv, TypeInv, WindowRecord, Registered, IsRegistered
  <2>3. win' = [win EXCEPT ![id] = r] /\ UNCHANGED <<order, act, drag, closeAsked>>
    BY <2>1 DEF SetParent, Inv, TypeInv, WindowRecord
  <2>4. act.focus = id => r.state # "Minimized"
    BY <2>2, NoWindowAssumption DEF Inv, FocusInv
  <2> HIDE DEF r
  <2> QED BY <2>2, <2>3, <2>4, KeepActInv
<1>4. ASSUME NEW id \in Windows, StateStep(id) PROVE Inv'
  <2>1. PICK s \in States : ClientSetState(id, s)
    BY <1>4 DEF StateStep
  <2> DEFINE r == [win[id] EXCEPT !.state = s]
  <2>2. r \in WindowRecord /\ id \in Registered /\ r.life \in {"Initializing", "Visible", "Closing"}
    BY <2>1 DEF ClientSetState, Inv, TypeInv, WindowRecord, Registered, IsRegistered
  <2>3. NotifyState([win EXCEPT ![id] = r], act, id) /\ UNCHANGED <<order, drag, closeAsked>>
    <3>1. [win EXCEPT ![id] = r] = [win EXCEPT ![id].state = s]
      BY DEF Inv, TypeInv, WindowRecord
    <3> QED BY <2>1, <3>1 DEF ClientSetState
  <2> HIDE DEF r
  <2> QED BY <2>2, <2>3, NotifyStateInv
<1>5. ASSUME NEW id \in Windows, Restore(id) PROVE Inv'
  <2> DEFINE r == [win[id] EXCEPT !.state = "Normal", !.visible = (win[id].state = "Minimized") \/ @]
  <2>1. /\ r \in WindowRecord /\ id \in Registered /\ r.state = "Normal"
        /\ r.life \in {"Initializing", "Visible", "Closing"}
    BY <1>5, StatesAssumption DEF Restore, Inv, TypeInv, WindowRecord, Registered, IsRegistered
  <2>2. win' = [win EXCEPT ![id] = r] /\ UNCHANGED <<order, act, drag, closeAsked>>
    BY <1>5 DEF Restore, Inv, TypeInv, WindowRecord
  <2> HIDE DEF r
  <2> QED BY <2>1, <2>2, KeepActInv
<1>6. ASSUME NEW id \in Windows, NEW s \in States \cap {"Maximized", "Fullscreen"}, Enlarge(id, s)
      PROVE  Inv'
  <2> DEFINE r == [win[id] EXCEPT !.state = s]
  <2>1. /\ r \in WindowRecord /\ id \in Registered /\ r.state # "Minimized"
        /\ r.life \in {"Initializing", "Visible", "Closing"}
    BY <1>6 DEF Enlarge, Inv, TypeInv, WindowRecord, Registered, IsRegistered
  <2>2. win' = [win EXCEPT ![id] = r] /\ UNCHANGED <<order, act, drag, closeAsked>>
    BY <1>6 DEF Enlarge, Inv, TypeInv, WindowRecord
  <2> HIDE DEF r
  <2> QED BY <2>1, <2>2, KeepActInv
<1>7. ASSUME NEW id \in Windows, MinimizeStep(id) PROVE Inv'
  BY <1>5, <1>6, <1>7, MinimizeInv DEF MinimizeStep
<1>8. ASSUME NEW id \in Windows, Raise(id) \/ Lower(id) \/ EndDrag PROVE Inv'
  BY <1>8 DEF Raise, Lower, EndDrag, Inv, TypeInv, OrderInv, FocusInv, DragWindowRegistered, Registered
<1>9. ASSUME NEW id \in Windows, StartDrag(id) PROVE Inv'
  BY <1>9, TakeFocusInv DEF StartDrag
<1> QED BY <1>1, <1>2, <1>3, <1>4, <1>7, <1>8, <1>9, CloseInv DEF Next

\* The inductive invariant holds in every reachable state.
THEOREM Invariance == Spec => []Inv
<1> QED BY InitInv, NextInv, PTL DEF Spec

\* WindowFocus and the registry agree on the active window whenever WindowFocus
\* has one, however requests of clients and of the desktop interleave.
THEOREM FocusAgreement == Spec => []FocusIsRegistryActive
<1>1. Inv => FocusIsRegistryActive
  BY DEF Inv, FocusInv, FocusIsRegistryActive
<1> QED BY <1>1, Invariance, PTL

\* At most one window is ever flagged active, and it is the registry's.
THEOREM OneFlag == Spec => []OneActiveFlag
<1>1. Inv => OneActiveFlag
  BY DEF Inv, FocusInv, OneActiveFlag
<1> QED BY <1>1, Invariance, PTL

\* The focus is always on a registered window that is not minimized.
THEOREM FocusHeld == Spec => []FocusCanBeHeld
<1>1. Inv => FocusCanBeHeld
  BY DEF Inv, TypeInv, FocusInv, FocusCanBeHeld, Registered
<1> QED BY <1>1, Invariance, PTL

\* The registry's active window and the window being moved or resized are
\* registered: neither outlives its client.
THEOREM NoStaleReference == Spec => [](RegistryActiveRegistered /\ DragWindowRegistered)
<1>1. Inv => RegistryActiveRegistered /\ DragWindowRegistered
  BY DEF Inv, TypeInv, FocusInv, RegistryActiveRegistered, Registered
<1> QED BY <1>1, Invariance, PTL

-------------------------------------------------------------------------------
(* Sequences: induction, and functions defined by recursion.                 *)

\* Induction over the natural numbers, for sets.
LEMMA NatSetInduction ==
  ASSUME NEW S, S \subseteq Nat, 0 \in S, \A n \in S : n + 1 \in S
  PROVE  S = Nat
<1> DEFINE R == {ss \in Nat \X Nat : ss[1] < ss[2]}
           T == Nat \ S
<1>1. SUFFICES ASSUME T # {} PROVE FALSE
  OBVIOUS
<1>2. IsWellFoundedOn(R, Nat)
  BY NatLessThanWellFounded DEF OpToRel
<1>. HIDE DEF R
<1>3. PICK x \in T : \A y \in T : <<y, x>> \notin R
  BY <1>1, <1>2, WFMin
<1>4. \A y \in T : ~(y < x)
  BY <1>3 DEF R
<1>5. x # 0 /\ x - 1 \in Nat /\ x - 1 < x /\ (x - 1) + 1 = x
  BY <1>3
<1>. QED  BY <1>3, <1>4, <1>5

\* A set of natural numbers that is not empty has a least element.
LEMMA NatLeast ==
  ASSUME NEW T, T \subseteq Nat, T # {}
  PROVE  \E n \in T : \A m \in T : n <= m
<1> DEFINE R == {ss \in Nat \X Nat : ss[1] < ss[2]}
<1>1. IsWellFoundedOn(R, Nat)
  BY NatLessThanWellFounded DEF OpToRel
<1> HIDE DEF R
<1>2. PICK n \in T : \A m \in T : <<m, n>> \notin R
  BY <1>1, WFMin
<1>3. \A m \in T : ~(m < n)
  BY <1>2 DEF R
<1> QED BY <1>3

\* f starts with a and goes from n to n + 1 by the function G[n] from T to T.
StepsIn(G, T) == \A n \in Nat : \A t \in T : G[n][t] \in T
Iterates(f, T, a, G) == f \in [Nat -> T] /\ f[0] = a /\ \A n \in Nat : f[n + 1] = G[n][f[n]]

\* A recursion over the natural numbers defines a function.
LEMMA NatRecursion ==
  ASSUME NEW T, NEW a \in T, NEW G, StepsIn(G, T)
  PROVE  \E f : Iterates(f, T, a, G)
<1> USE DEF StepsIn, Iterates
<1> DEFINE Run(g, n) == /\ g \in [0 .. n -> T]
                        /\ g[0] = a
                        /\ \A k \in 0 .. n : k < n => g[k + 1] = G[k][g[k]]
           Runs == {n \in Nat : \E g : Run(g, n)}
           Agree == {k \in Nat : \A m, n \in Nat : \A g, h :
                       k <= m /\ k <= n /\ Run(g, m) /\ Run(h, n) => g[k] = h[k]}
<1>1. Runs = Nat
  <2>1. 0 \in Runs
    <3>1. Run([k \in 0 .. 0 |-> a], 0)
      OBVIOUS
    <3> QED BY <3>1
  <2>2. ASSUME NEW n \in Runs PROVE n + 1 \in Runs
    <3>1. PICK g : Run(g, n)
      OBVIOUS
    <3> DEFINE v == G[n][g[n]]
               h == [k \in 0 .. n + 1 |-> IF k = n + 1 THEN v ELSE g[k]]
    <3>2. n \in Nat /\ n \in 0 .. n
      OBVIOUS
    <3>3. g[n] \in T
      BY <3>1, <3>2
    <3>4. v \in T
      BY <3>3
    <3> HIDE DEF v
    <3>5. h \in [0 .. n + 1 -> T]
      BY <3>1, <3>2, <3>4
    <3>6. h[0] = a
      BY <3>1, <3>2
    <3>7. ASSUME NEW k \in 0 .. n + 1, k < n + 1 PROVE h[k + 1] = G[k][h[k]]
      <4>1. CASE k = n
        BY <4>1, <3>2 DEF v
      <4>2. CASE k < n
        <5>1. k \in 0 .. n /\ k + 1 \in 0 .. n + 1 /\ k + 1 # n + 1 /\ k # n + 1
          BY <4>2, <3>2
        <5>2. h[k + 1] = g[k + 1] /\ h[k] = g[k]
          BY <5>1
        <5> QED BY <3>1, <4>2, <5>1, <5>2
      <4> QED BY <3>7, <4>1, <4>2, <3>2
    <3> HIDE DEF h
    <3>8. Run(h, n + 1)
      BY <3>5, <3>6, <3>7
    <3> QED BY <3>2, <3>8
  <2> HIDE DEF Run
  <2>3. Runs \subseteq Nat
    OBVIOUS
  <2> HIDE DEF Runs
  <2> QED BY <2>1, <2>2, <2>3, NatSetInduction
<1>2. Agree = Nat
  <2>1. 0 \in Agree
    OBVIOUS
  <2>2. ASSUME NEW k \in Agree PROVE k + 1 \in Agree
    <3>1. k \in Nat
      OBVIOUS
    <3>2. ASSUME NEW m \in Nat, NEW n \in Nat, NEW g, NEW h,
                 k + 1 <= m, k + 1 <= n, Run(g, m), Run(h, n)
          PROVE  g[k + 1] = h[k + 1]
      <4>1. k <= m /\ k <= n /\ k < m /\ k < n /\ k \in 0 .. m /\ k \in 0 .. n
        BY <3>1, <3>2
      <4>2. g[k] = h[k]
        <5> HIDE DEF Run
        <5> QED BY <3>2, <4>1
      <4>3. g[k + 1] = G[k][g[k]] /\ h[k + 1] = G[k][h[k]]
        BY <3>2, <4>1
      <4> QED BY <4>2, <4>3
    <3> HIDE DEF Run
    <3> QED BY <3>1, <3>2
  <2>3. Agree \subseteq Nat
    OBVIOUS
  <2> HIDE DEF Agree, Run
  <2> QED BY <2>1, <2>2, <2>3, NatSetInduction
<1> DEFINE r == [n \in Nat |-> CHOOSE g : Run(g, n)]
           f == [n \in Nat |-> r[n][n]]
<1>3. \A n \in Nat : Run(r[n], n)
  <2> HIDE DEF Run
  <2>1. \A n \in Nat : \E g : Run(g, n)
    BY <1>1
  <2> QED BY <2>1
<1> HIDE DEF r
<1>4. ASSUME NEW n \in Nat PROVE f[n] \in T
  <2>1. n \in 0 .. n /\ f[n] = r[n][n]
    OBVIOUS
  <2>2. r[n] \in [0 .. n -> T]
    BY <1>3
  <2> QED BY <2>1, <2>2
<1>5. f[0] = a
  BY <1>3
<1>6. ASSUME NEW n \in Nat PROVE f[n + 1] = G[n][f[n]]
  <2>1. n + 1 \in Nat /\ n \in 0 .. n + 1 /\ n < n + 1 /\ n <= n /\ n <= n + 1
    OBVIOUS
  <2>2. r[n + 1][n + 1] = G[n][r[n + 1][n]]
    BY <1>3, <2>1
  <2>3. r[n + 1][n] = r[n][n]
    <3>1. n \in Agree
      BY <1>2
    <3>2. Run(r[n + 1], n + 1) /\ Run(r[n], n)
      BY <1>3, <2>1
    <3> HIDE DEF Run
    <3> QED BY <3>1, <3>2, <2>1
  <2> QED BY <2>1, <2>2, <2>3
<1>7. f \in [Nat -> T]
  BY <1>4
<1> QED BY <1>5, <1>6, <1>7

\* A sequence t keeps those of the first n elements of s that are in K: m says
\* where each element of t was.
KeepsFirst(t, s, K, n, m) ==
  /\ m \in [1 .. Len(t) -> 1 .. n]
  /\ \A k \in 1 .. Len(t) : t[k] = s[m[k]] /\ t[k] \in K
  /\ \A k, l \in 1 .. Len(t) : k < l => m[k] < m[l]
  /\ \A i \in 1 .. n : s[i] \in K => \E k \in 1 .. Len(t) : m[k] = i

\* One more element of s is looked at.
LEMMA KeepsOneMore ==
  ASSUME NEW X, NEW s \in Seq(X), NEW K, NEW n \in Nat, n + 1 <= Len(s),
         NEW t \in Seq(X), NEW m, KeepsFirst(t, s, K, n, m),
         NEW u, u = IF s[n + 1] \in K THEN Append(t, s[n + 1]) ELSE t
  PROVE  u \in Seq(X) /\ \E p : KeepsFirst(u, s, K, n + 1, p)
<1>1. n + 1 \in 1 .. Len(s) /\ s[n + 1] \in X
  OBVIOUS
<1>2. Len(t) \in Nat
  OBVIOUS
<1>3. CASE s[n + 1] \notin K
  <2>1. KeepsFirst(t, s, K, n + 1, m)
    BY <1>3, <1>2 DEF KeepsFirst
  <2> QED BY <1>3, <2>1
<1>4. CASE s[n + 1] \in K
  <2> DEFINE c == Len(t) + 1
             p == [k \in 1 .. c |-> IF k = c THEN n + 1 ELSE m[k]]
  <2>1. /\ u \in Seq(X) /\ Len(u) = c /\ u[c] = s[n + 1]
        /\ \A k \in 1 .. Len(t) : u[k] = t[k]
    BY <1>1, <1>4
  <2>2. 1 .. c = (1 .. Len(t)) \cup {c} /\ c \notin 1 .. Len(t) /\ c \in Nat
    BY <1>2
  <2>3. /\ \A k \in 1 .. Len(t) : p[k] = m[k] /\ m[k] \in 1 .. n
        /\ p[c] = n + 1
    BY <2>2 DEF KeepsFirst
  <2> HIDE DEF c
  <2>4. p \in [1 .. c -> 1 .. n + 1]
    <3>1. ASSUME NEW k \in 1 .. c PROVE p[k] \in 1 .. n + 1
      <4>1. CASE k = c
        BY <4>1, <2>3
      <4>2. CASE k \in 1 .. Len(t)
        <5>1. p[k] \in 1 .. n
          BY <4>2, <2>3
        <5> HIDE DEF p
        <5> QED BY <5>1
      <4> QED BY <2>2, <4>1, <4>2
    <3> QED BY <3>1
  <2> HIDE DEF p
  <2>5. \A k \in 1 .. c : u[k] = s[p[k]] /\ u[k] \in K
    BY <1>4, <2>1, <2>2, <2>3 DEF KeepsFirst
  <2>6. ASSUME NEW k \in 1 .. c, NEW l \in 1 .. c, k < l PROVE p[k] < p[l]
    <3>1. k \in 1 .. Len(t)
      BY <2>6, <1>2, <2>2 DEF c
    <3>2. CASE l = c
      BY <3>1, <3>2, <2>3
    <3>3. CASE l \in 1 .. Len(t)
      BY <3>1, <3>3, <2>6, <2>3 DEF KeepsFirst
    <3> QED BY <2>2, <3>2, <3>3
  <2>7. ASSUME NEW i \in 1 .. n + 1, s[i] \in K PROVE \E k \in 1 .. c : p[k] = i
    <3>1. CASE i = n + 1
      BY <3>1, <2>2, <2>3
    <3>2. CASE i \in 1 .. n
      <4>1. PICK k \in 1 .. Len(t) : m[k] = i
        BY <3>2, <2>7 DEF KeepsFirst
      <4> QED BY <4>1, <2>2, <2>3
    <3> QED BY <3>1, <3>2
  <2>8. KeepsFirst(u, s, K, n + 1, p)
    BY <2>1, <2>4, <2>5, <2>6, <2>7 DEF KeepsFirst
  <2> QED BY <2>1, <2>8
<1> QED BY <1>3, <1>4

\* Kept(s, K) keeps the elements of s that are in K, and their order.
LEMMA KeptKeeps ==
  ASSUME NEW X, NEW s \in Seq(X), NEW K
  PROVE  Kept(s, K) \in Seq(X) /\ \E m : KeepsFirst(Kept(s, K), s, K, Len(s), m)
<1> DEFINE Body(g) == [i \in 0 .. Len(s) |->
                         IF i = 0 THEN <<>> ELSE IF s[i] \in K THEN Append(g[i - 1], s[i]) ELSE g[i - 1]]
           F == CHOOSE g : g = Body(g)
           G == [n \in Nat |-> [t \in Seq(X) |->
                  IF n + 1 \in 1 .. Len(s) /\ s[n + 1] \in K THEN Append(t, s[n + 1]) ELSE t]]
<1>1. Len(s) \in Nat
  OBVIOUS
<1>2. G \in [Nat -> [Seq(X) -> Seq(X)]]
  OBVIOUS
<1> HIDE DEF G
<1>3. PICK f \in [Nat -> Seq(X)] : f[0] = <<>> /\ \A n \in Nat : f[n + 1] = G[n][f[n]]
  <2>1. <<>> \in Seq(X)
    OBVIOUS
  <2> DEFINE T == Seq(X)
             a == <<>>
  <2>2. a \in T /\ StepsIn(G, T)
    BY <1>2, <2>1 DEF StepsIn
  <2> HIDE DEF T, a, F, Body
  <2>3. \E f : Iterates(f, T, a, G)
    BY <2>2, NatRecursion
  <2> QED BY <2>3 DEF T, a, Iterates
<1>4. \A n \in Nat : n + 1 <= Len(s) => f[n + 1] = IF s[n + 1] \in K THEN Append(f[n], s[n + 1]) ELSE f[n]
  <2>1. ASSUME NEW n \in Nat, n + 1 <= Len(s)
        PROVE  f[n + 1] = IF s[n + 1] \in K THEN Append(f[n], s[n + 1]) ELSE f[n]
    <3>1. f[n] \in Seq(X) /\ n + 1 \in 1 .. Len(s)
      BY <2>1, <1>1
    <3> DEFINE t == f[n]
    <3>2. t \in Seq(X) /\ f[n + 1] = G[n][t]
      BY <3>1, <1>3
    <3> HIDE DEF t
    <3>3. G[n][t] = IF s[n + 1] \in K THEN Append(t, s[n + 1]) ELSE t
      BY <3>1, <3>2 DEF G
    <3> QED BY <3>2, <3>3 DEF t
  <2> QED BY <2>1
<1>5. [i \in 0 .. Len(s) |-> f[i]] = Body([i \in 0 .. Len(s) |-> f[i]])
  <2> DEFINE h == [i \in 0 .. Len(s) |-> f[i]]
  <2>1. ASSUME NEW i \in 0 .. Len(s) PROVE h[i] = Body(h)[i]
    <3>1. CASE i = 0
      BY <3>1, <1>3
    <3>2. CASE i # 0
      <4>1. i - 1 \in Nat /\ (i - 1) + 1 = i /\ i <= Len(s) /\ i - 1 \in 0 .. Len(s)
        BY <3>2, <1>1
      <4>2. f[i] = IF s[i] \in K THEN Append(f[i - 1], s[i]) ELSE f[i - 1]
        BY <4>1, <1>4
      <4> QED BY <3>2, <4>1, <4>2
    <3> QED BY <3>1, <3>2
  <2> QED BY <2>1
<1>6. F = Body(F)
  BY <1>5
<1>7. Kept(s, K) = F[Len(s)]
  BY DEF Kept
<1> HIDE DEF F
<1>8. F[0] = <<>> /\ \A n \in Nat : n + 1 <= Len(s) => F[n + 1] = IF s[n + 1] \in K THEN Append(F[n], s[n + 1]) ELSE F[n]
  <2>1. 0 \in 0 .. Len(s) /\ Body(F)[0] = <<>>
    BY <1>1
  <2>2. ASSUME NEW n \in Nat, n + 1 <= Len(s)
        PROVE  F[n + 1] = IF s[n + 1] \in K THEN Append(F[n], s[n + 1]) ELSE F[n]
    <3> DEFINE i == n + 1
    <3>1. i \in 0 .. Len(s) /\ i # 0 /\ i - 1 = n
      BY <2>2, <1>1
    <3> HIDE DEF i
    <3>2. Body(F)[i] = IF s[i] \in K THEN Append(F[n], s[i]) ELSE F[n]
      BY <3>1
    <3> HIDE DEF Body
    <3> QED BY <3>2, <1>6 DEF i
  <2> HIDE DEF Body
  <2> QED BY <2>1, <2>2, <1>6
<1> HIDE DEF Body
<1> DEFINE Q == {n \in Nat : n <= Len(s) => F[n] \in Seq(X) /\ \E m : KeepsFirst(F[n], s, K, n, m)}
<1>9. 0 \in Q
  <2>1. KeepsFirst(<<>>, s, K, 0, <<>>)
    BY DEF KeepsFirst
  <2>2. F[0] \in Seq(X) /\ \E m : KeepsFirst(F[0], s, K, 0, m)
    BY <1>8, <2>1
  <2> QED BY <2>2
<1>10. ASSUME NEW n \in Q PROVE n + 1 \in Q
  <2>1. SUFFICES ASSUME n + 1 <= Len(s)
                 PROVE  F[n + 1] \in Seq(X) /\ \E m : KeepsFirst(F[n + 1], s, K, n + 1, m)
    OBVIOUS
  <2>2. n \in Nat /\ n <= Len(s)
    BY <1>1, <2>1
  <2>3. F[n] \in Seq(X)
    BY <2>2
  <2>4. PICK m : KeepsFirst(F[n], s, K, n, m)
    BY <2>2
  <2>5. F[n + 1] = IF s[n + 1] \in K THEN Append(F[n], s[n + 1]) ELSE F[n]
    BY <1>8, <2>1, <2>2
  <2> DEFINE t == F[n]
             u == F[n + 1]
  <2>6. t \in Seq(X) /\ KeepsFirst(t, s, K, n, m) /\ u = IF s[n + 1] \in K THEN Append(t, s[n + 1]) ELSE t
    BY <2>3, <2>4, <2>5
  <2> HIDE DEF t, u
  <2>7. u \in Seq(X) /\ \E p : KeepsFirst(u, s, K, n + 1, p)
    BY <2>1, <2>2, <2>6, KeepsOneMore
  <2> QED BY <2>7 DEF u
<1>11. Q = Nat
  <2>1. Q \subseteq Nat
    OBVIOUS
  <2> HIDE DEF Q
  <2> QED BY <1>9, <1>10, <2>1, NatSetInduction
<1> QED
  <2>1. Len(s) \in Q
    BY <1>1, <1>11
  <2> QED BY <2>1, <1>1, <1>7

-------------------------------------------------------------------------------
(* Sequences without repetitions and the order of their elements.            *)

Distinct(s) == \A i, j \in DOMAIN s : s[i] = s[j] => i = j

Before(s, x, y) == \E i, j \in DOMAIN s : i < j /\ s[i] = x /\ s[j] = y

\* What a sequence that keeps the elements of K has of the original.
LEMMA KeepsFacts ==
  ASSUME NEW X, NEW s \in Seq(X), NEW K, NEW t \in Seq(X), NEW m,
         KeepsFirst(t, s, K, Len(s), m)
  PROVE  /\ ToSet(t) = ToSet(s) \cap K
         /\ Distinct(s) => Distinct(t)
         /\ \A x, y \in K : Before(t, x, y) <=> Before(s, x, y)
<1>1. DOMAIN s = 1 .. Len(s) /\ DOMAIN t = 1 .. Len(t) /\ Len(s) \in Nat /\ Len(t) \in Nat
  OBVIOUS
<1>2. /\ \A k \in DOMAIN t : m[k] \in DOMAIN s /\ t[k] = s[m[k]] /\ t[k] \in K
      /\ \A k, l \in DOMAIN t : k < l => m[k] < m[l]
      /\ \A i \in DOMAIN s : s[i] \in K => \E k \in DOMAIN t : m[k] = i
  BY <1>1 DEF KeepsFirst
<1>3. ToSet(t) = ToSet(s) \cap K
  BY <1>2 DEF ToSet
<1>4. ASSUME NEW k \in DOMAIN t, NEW l \in DOMAIN t PROVE k < l <=> m[k] < m[l]
  <2>1. k \in Nat /\ l \in Nat /\ m[k] \in Nat /\ m[l] \in Nat
    BY <1>1, <1>2
  <2> QED BY <1>2, <2>1
<1>5. Distinct(s) => Distinct(t)
  <2>1. ASSUME Distinct(s), NEW k \in DOMAIN t, NEW l \in DOMAIN t, t[k] = t[l] PROVE k = l
    <3>1. m[k] = m[l]
      BY <1>2, <2>1 DEF Distinct
    <3>2. ~(k < l) /\ ~(l < k) /\ k \in Nat /\ l \in Nat
      BY <1>1, <1>2, <1>4, <3>1
    <3> QED BY <3>2
  <2> QED BY <2>1 DEF Distinct
<1>6. ASSUME NEW x \in K, NEW y \in K PROVE Before(t, x, y) <=> Before(s, x, y)
  <2>1. ASSUME Before(t, x, y) PROVE Before(s, x, y)
    <3>1. PICK k, l \in DOMAIN t : k < l /\ t[k] = x /\ t[l] = y
      BY <2>1 DEF Before
    <3> QED BY <1>2, <3>1 DEF Before
  <2>2. ASSUME Before(s, x, y) PROVE Before(t, x, y)
    <3>1. PICK i, j \in DOMAIN s : i < j /\ s[i] = x /\ s[j] = y
      BY <2>2 DEF Before
    <3>2. PICK k \in DOMAIN t : m[k] = i
      BY <1>2, <3>1
    <3>3. PICK l \in DOMAIN t : m[l] = j
      BY <1>2, <3>1
    <3>4. k < l /\ t[k] = x /\ t[l] = y
      BY <1>2, <1>4, <3>1, <3>2, <3>3
    <3> QED BY <3>4 DEF Before
  <2> QED BY <2>1, <2>2
<1> QED BY <1>3, <1>5, <1>6

\* The children of a window, or what lower() leaves where it was.
LEMMA KeptFacts ==
  ASSUME NEW X, NEW s \in Seq(X), NEW K
  PROVE  /\ Kept(s, K) \in Seq(X)
         /\ ToSet(Kept(s, K)) = ToSet(s) \cap K
         /\ Distinct(s) => Distinct(Kept(s, K))
         /\ \A x, y \in K : Before(Kept(s, K), x, y) <=> Before(s, x, y)
<1> DEFINE t == Kept(s, K)
<1>1. t \in Seq(X) /\ \E m : KeepsFirst(t, s, K, Len(s), m)
  BY KeptKeeps
<1> HIDE DEF t
<1>2. /\ ToSet(t) = ToSet(s) \cap K
      /\ Distinct(s) => Distinct(t)
      /\ \A x, y \in K : Before(t, x, y) <=> Before(s, x, y)
  BY <1>1, KeepsFacts
<1> QED BY <1>1, <1>2 DEF t

\* Taking a window out of a sequence in which nothing is repeated.
LEMMA RemoveFirstFacts ==
  ASSUME NEW X, NEW s \in Seq(X), Distinct(s), NEW e
  PROVE  /\ RemoveFirst(s, e) \in Seq(X)
         /\ Distinct(RemoveFirst(s, e))
         /\ ToSet(RemoveFirst(s, e)) = ToSet(s) \ {e}
         /\ \A x, y \in X \ {e} : Before(RemoveFirst(s, e), x, y) <=> Before(s, x, y)
<1> DEFINE K == X \ {e}
           t == RemoveFirst(s, e)
<1>1. DOMAIN s = 1 .. Len(s) /\ Len(s) \in Nat /\ \A i \in 1 .. Len(s) : s[i] \in X
  OBVIOUS
<1>2. t \in Seq(X) /\ \E m : KeepsFirst(t, s, K, Len(s), m)
  <2>1. CASE ~ \E i \in 1 .. Len(s) : s[i] = e
    <3>1. t = s
      BY <2>1 DEF RemoveFirst
    <3> DEFINE m == [i \in 1 .. Len(s) |-> i]
    <3>2. KeepsFirst(s, s, K, Len(s), m)
      BY <1>1, <2>1 DEF KeepsFirst
    <3> QED BY <3>1, <3>2
  <2>2. CASE \E i \in 1 .. Len(s) : s[i] = e
    <3>1. PICK p \in 1 .. Len(s) : s[p] = e
      BY <2>2
    <3>2. \A i \in 1 .. Len(s) : s[i] = e <=> i = p
      BY <1>1, <3>1 DEF Distinct
    <3>3. SelectInSeq(s, LAMBDA v : v = e) = p
      BY <3>2 DEF SelectInSeq, Min
    <3>4. t = SubSeq(s, 1, p - 1) \o SubSeq(s, p + 1, Len(s))
      BY <2>2, <3>3 DEF RemoveFirst, RemoveAt
    <3> HIDE DEF t
    <3> DEFINE m == [k \in 1 .. Len(s) - 1 |-> IF k < p THEN k ELSE k + 1]
           a == SubSeq(s, 1, p - 1)
           b == SubSeq(s, p + 1, Len(s))
    <3>a. a \in Seq(X) /\ Len(a) = p - 1 /\ \A k \in 1 .. p - 1 : a[k] = s[k]
      BY <1>1
    <3>b. b \in Seq(X) /\ Len(b) = Len(s) - p /\ \A k \in 1 .. Len(s) - p : b[k] = s[p + k]
      <4>1. p + 1 \in Int /\ Len(s) \in Int /\ \A i \in p + 1 .. Len(s) : s[i] \in X
        BY <1>1
      <4>2. /\ b \in Seq(X) /\ Len(b) = IF p + 1 <= Len(s) THEN Len(s) - (p + 1) + 1 ELSE 0
            /\ \A i \in 1 .. Len(s) - (p + 1) + 1 : b[i] = s[(p + 1) + i - 1]
        BY <4>1, SubSeqProperties
      <4> HIDE DEF b
      <4>3. p \in Nat /\ p <= Len(s) /\ Len(s) - (p + 1) + 1 = Len(s) - p
        BY <1>1
      <4>4. ASSUME NEW i \in 1 .. Len(s) - p PROVE b[i] = s[p + i]
        <5>1. (p + 1) + i - 1 = p + i
          BY <4>3
        <5>2. b[i] = s[(p + 1) + i - 1]
          BY <4>2, <4>3
        <5> QED BY <5>1, <5>2
      <4>5. Len(b) = Len(s) - p
        <5>1. CASE p + 1 <= Len(s)
          BY <5>1, <4>2, <4>3
        <5>2. CASE ~(p + 1 <= Len(s))
          <6>1. p = Len(s) /\ Len(s) - p = 0
            <7> DEFINE N == Len(s)
            <7>1. N \in Nat /\ p \in Nat /\ p <= N /\ ~(p + 1 <= N)
              BY <5>2, <4>3, <1>1
            <7> HIDE DEF N
            <7>2. p = N /\ N - p = 0
              BY <7>1
            <7> QED BY <7>2 DEF N
          <6>2. Len(b) = 0
            BY <5>2, <4>2
          <6> QED BY <6>1, <6>2
        <5> QED BY <5>1, <5>2
      <4> QED BY <4>2, <4>4, <4>5
    <3>c. t = a \o b
      BY <3>4
    <3> HIDE DEF a, b
    <3>5. /\ t \in Seq(X) /\ Len(t) = Len(s) - 1
          /\ \A k \in 1 .. Len(s) - 1 : t[k] = IF k <= p - 1 THEN a[k] ELSE b[k - (p - 1)]
      <4>1. /\ t \in Seq(X) /\ Len(t) = Len(a) + Len(b)
            /\ \A k \in 1 .. Len(a) + Len(b) : t[k] = IF k <= Len(a) THEN a[k] ELSE b[k - Len(a)]
        BY <3>a, <3>b, <3>c, ConcatProperties
      <4>2. Len(a) + Len(b) = Len(s) - 1
        BY <1>1, <3>a, <3>b
      <4> QED BY <3>a, <4>1, <4>2
    <3>6. ASSUME NEW k \in 1 .. Len(t) PROVE t[k] = s[m[k]]
      <4>1. k \in Nat /\ p \in Nat /\ k \in 1 .. Len(s) - 1
        BY <1>1, <3>5
      <4>2. CASE k < p
        <5>1. k \in 1 .. p - 1 /\ m[k] = k
          BY <4>1, <4>2
        <5> HIDE DEF m
        <5> QED BY <5>1, <4>1, <3>5, <3>a
      <4>3. CASE ~(k < p)
        <5>1. k - (p - 1) \in 1 .. Len(s) - p /\ p + (k - (p - 1)) = k + 1 /\ ~(k <= p - 1) /\ m[k] = k + 1
          BY <4>1, <4>3, <1>1
        <5> HIDE DEF m
        <5>2. t[k] = b[k - (p - 1)] /\ b[k - (p - 1)] = s[k + 1]
          BY <5>1, <4>1, <3>5, <3>b
        <5> QED BY <5>1, <5>2
      <4> QED BY <4>2, <4>3
    <3>7. KeepsFirst(t, s, K, Len(s), m)
      <4>1. m \in [1 .. Len(t) -> 1 .. Len(s)] /\ \A k \in 1 .. Len(t) : m[k] # p
        BY <1>1, <3>5
      <4>2. \A k, l \in 1 .. Len(t) : k < l => m[k] < m[l]
        BY <1>1, <3>5
      <4>3. ASSUME NEW i \in 1 .. Len(s), i # p PROVE \E k \in 1 .. Len(t) : m[k] = i
        <5>1. CASE i < p
          <6>1. i \in 1 .. Len(t) /\ m[i] = i
            BY <5>1, <1>1, <3>5
          <6> QED BY <6>1
        <5>2. CASE i > p
          <6>1. i - 1 \in 1 .. Len(t) /\ m[i - 1] = i
            BY <5>2, <1>1, <3>5
          <6> QED BY <6>1
        <5> HIDE DEF m
        <5> QED BY <4>3, <5>1, <5>2, <1>1
      <4> HIDE DEF m
      <4>4. ASSUME NEW k \in 1 .. Len(t) PROVE t[k] = s[m[k]] /\ t[k] \in K
        BY <1>1, <3>2, <3>6, <4>1
      <4> QED BY <4>1, <4>2, <4>3, <4>4, <3>2 DEF KeepsFirst
    <3> QED BY <3>5, <3>7
  <2> QED BY <2>1, <2>2
<1>4. ToSet(s) \cap K = ToSet(s) \ {e}
  BY <1>1 DEF ToSet
<1> HIDE DEF t, K
<1>3. /\ ToSet(t) = ToSet(s) \cap K
      /\ Distinct(t)
      /\ \A x, y \in K : Before(t, x, y) <=> Before(s, x, y)
  BY <1>2, KeepsFacts
<1> QED BY <1>2, <1>3, <1>4 DEF t, K

\* A window goes to the top of a sequence that does not hold it.
LEMMA AppendFacts ==
  ASSUME NEW X, NEW s \in Seq(X), Distinct(s), NEW e \in X, e \notin ToSet(s)
  PROVE  /\ Append(s, e) \in Seq(X)
         /\ Distinct(Append(s, e))
         /\ ToSet(Append(s, e)) = ToSet(s) \cup {e}
         /\ \A x, y : Before(Append(s, e), x, y) <=> Before(s, x, y) \/ (y = e /\ x \in ToSet(s))
<1> DEFINE t == Append(s, e)
           n == Len(s) + 1
<1>1. /\ t \in Seq(X) /\ DOMAIN t = DOMAIN s \cup {n} /\ t[n] = e
      /\ \A i \in DOMAIN s : t[i] = s[i] /\ i < n /\ i \in Nat /\ s[i] # e
      /\ n \in Nat
  BY DEF ToSet
<1> HIDE DEF t, n
<1>2. Distinct(t)
  BY <1>1 DEF Distinct
<1>3. ToSet(t) = ToSet(s) \cup {e}
  BY <1>1 DEF ToSet
<1>4. ASSUME NEW x, NEW y PROVE Before(t, x, y) <=> Before(s, x, y) \/ (y = e /\ x \in ToSet(s))
  <2>1. ASSUME Before(t, x, y) PROVE Before(s, x, y) \/ (y = e /\ x \in ToSet(s))
    <3>1. PICK i, j \in DOMAIN t : i < j /\ t[i] = x /\ t[j] = y
      BY <2>1 DEF Before
    <3>2. i \in DOMAIN s
      BY <1>1, <3>1
    <3> QED BY <1>1, <3>1, <3>2 DEF Before, ToSet
  <2>2. ASSUME Before(s, x, y) PROVE Before(t, x, y)
    BY <2>2, <1>1 DEF Before
  <2>3. ASSUME y = e, x \in ToSet(s) PROVE Before(t, x, y)
    BY <2>3, <1>1 DEF Before, ToSet
  <2> QED BY <2>1, <2>2, <2>3
<1> QED BY <1>1, <1>2, <1>3, <1>4 DEF t

\* A window is put somewhere into a sequence that does not hold it.
LEMMA InsertFacts ==
  ASSUME NEW X, NEW s \in Seq(X), Distinct(s), NEW e \in X, e \notin ToSet(s),
         NEW p \in 1 .. Len(s) + 1
  PROVE  /\ InsertAt(s, p, e) \in Seq(X)
         /\ Distinct(InsertAt(s, p, e))
         /\ ToSet(InsertAt(s, p, e)) = ToSet(s) \cup {e}
<1> DEFINE a == SubSeq(s, 1, p - 1)
           b == SubSeq(s, p, Len(s))
           ae == a \o <<e>>
           t == InsertAt(s, p, e)
           N == Len(s)
<1>1. DOMAIN s = 1 .. N /\ N \in Nat /\ \A i \in 1 .. N : s[i] \in X
  OBVIOUS
<1>2. p \in Nat /\ p >= 1 /\ p <= N + 1
  BY <1>1
<1>3. a \in Seq(X) /\ Len(a) = p - 1 /\ \A k \in 1 .. p - 1 : a[k] = s[k]
  <2>1. 1 \in Int /\ p - 1 \in Int /\ \A i \in 1 .. p - 1 : s[i] \in X
    BY <1>1, <1>2
  <2>2. /\ a \in Seq(X) /\ Len(a) = IF 1 <= p - 1 THEN (p - 1) - 1 + 1 ELSE 0
        /\ \A i \in 1 .. (p - 1) - 1 + 1 : a[i] = s[1 + i - 1]
    BY <2>1, SubSeqProperties
  <2> HIDE DEF a
  <2>3. Len(a) = p - 1
    BY <1>2, <2>2
  <2>4. ASSUME NEW k \in 1 .. p - 1 PROVE a[k] = s[k]
    <3>1. k \in 1 .. (p - 1) - 1 + 1 /\ 1 + k - 1 = k
      BY <1>2
    <3>2. a[k] = s[1 + k - 1]
      BY <2>2, <3>1
    <3> QED BY <3>1, <3>2
  <2> QED BY <2>2, <2>3, <2>4
<1>4. b \in Seq(X) /\ Len(b) = N - p + 1 /\ \A k \in 1 .. N - p + 1 : b[k] = s[p + k - 1]
  <2>1. p \in Int /\ N \in Int /\ \A i \in p .. N : s[i] \in X
    BY <1>1, <1>2
  <2>2. /\ b \in Seq(X) /\ Len(b) = IF p <= N THEN N - p + 1 ELSE 0
        /\ \A i \in 1 .. N - p + 1 : b[i] = s[p + i - 1]
    BY <2>1, SubSeqProperties
  <2> HIDE DEF b, N
  <2>3. Len(b) = N - p + 1
    BY <1>1, <1>2, <2>2
  <2> QED BY <2>2, <2>3
<1>5. t = ae \o b
  BY DEF InsertAt
<1> HIDE DEF t, a, b
<1>6. ae \in Seq(X) /\ Len(ae) = p /\ ae[p] = e /\ \A k \in 1 .. p - 1 : ae[k] = s[k]
  <2>1. <<e>> \in Seq(X) /\ Len(<<e>>) = 1 /\ <<e>>[1] = e
    OBVIOUS
  <2> DEFINE u == <<e>>
  <2>2. u \in Seq(X) /\ Len(u) = 1 /\ u[1] = e /\ ae = a \o u
    BY <2>1
  <2> HIDE DEF u, ae
  <2>3. /\ ae \in Seq(X) /\ Len(ae) = Len(a) + Len(u)
        /\ \A k \in 1 .. Len(a) + Len(u) : ae[k] = IF k <= Len(a) THEN a[k] ELSE u[k - Len(a)]
    BY <1>3, <2>2, ConcatProperties
  <2>4. Len(ae) = p /\ \A k \in 1 .. p : ae[k] = IF k <= p - 1 THEN a[k] ELSE u[k - (p - 1)]
    BY <1>2, <1>3, <2>2, <2>3
  <2>5. ae[p] = e
    BY <1>2, <2>2, <2>4
  <2>6. ASSUME NEW k \in 1 .. p - 1 PROVE ae[k] = s[k]
    BY <1>2, <1>3, <2>4
  <2> QED BY <2>3, <2>4, <2>5, <2>6
<1> HIDE DEF ae, N
<1>7. /\ t \in Seq(X) /\ Len(t) = N + 1
      /\ \A k \in 1 .. N + 1 : t[k] = IF k <= p THEN ae[k] ELSE b[k - p]
  <2>1. /\ t \in Seq(X) /\ Len(t) = Len(ae) + Len(b)
        /\ \A k \in 1 .. Len(ae) + Len(b) : t[k] = IF k <= Len(ae) THEN ae[k] ELSE b[k - Len(ae)]
    BY <1>4, <1>5, <1>6, ConcatProperties
  <2>2. Len(ae) + Len(b) = N + 1
    BY <1>1, <1>2, <1>4, <1>6
  <2> QED BY <1>6, <2>1, <2>2
<1>8. ASSUME NEW k \in 1 .. N + 1
      PROVE  /\ k < p => k \in 1 .. N /\ t[k] = s[k]
             /\ k = p => t[k] = e
             /\ k > p => k - 1 \in 1 .. N /\ t[k] = s[k - 1]
  <2>1. CASE k < p
    BY <2>1, <1>1, <1>2, <1>6, <1>7
  <2>2. CASE k = p
    BY <2>2, <1>2, <1>6, <1>7
  <2>3. CASE k > p
    <3>1. k - p \in 1 .. N - p + 1 /\ p + (k - p) - 1 = k - 1 /\ ~(k <= p) /\ k - 1 \in 1 .. N
      BY <2>3, <1>1, <1>2
    <3>2. t[k] = b[k - p] /\ b[k - p] = s[p + (k - p) - 1]
      BY <3>1, <1>4, <1>7
    <3> QED BY <2>3, <3>1, <3>2
  <2> QED BY <2>1, <2>2, <2>3, <1>2
<1>9. DOMAIN t = 1 .. N + 1
  BY <1>7
<1>10. \A k \in 1 .. N : s[k] # e /\ s[k] \in ToSet(s)
  BY <1>1 DEF ToSet
<1>11. Distinct(t)
  <2>1. ASSUME NEW k \in 1 .. N + 1, NEW l \in 1 .. N + 1, t[k] = t[l], k # l PROVE FALSE
    <3>1. k \in Nat /\ l \in Nat
      OBVIOUS
    <3>2. \A i, j \in 1 .. N : s[i] = s[j] => i = j
      BY <1>1 DEF Distinct
    <3>3. CASE k = p
      BY <1>2, <1>8, <1>10, <2>1, <3>1, <3>3
    <3>4. CASE l = p
      BY <1>2, <1>8, <1>10, <2>1, <3>1, <3>4
    <3>5. CASE k # p /\ l # p
      BY <1>2, <1>8, <2>1, <3>1, <3>2, <3>5
    <3> QED BY <3>3, <3>4, <3>5
  <2> QED BY <2>1, <1>9 DEF Distinct
<1>12. ToSet(t) = ToSet(s) \cup {e}
  <2>1. ASSUME NEW k \in 1 .. N + 1 PROVE t[k] \in ToSet(s) \cup {e}
    BY <1>2, <1>8, <1>10
  <2>2. e \in ToSet(t)
    BY <1>1, <1>2, <1>8, <1>9 DEF ToSet
  <2>3. ASSUME NEW i \in 1 .. N PROVE s[i] \in ToSet(t)
    <3>1. CASE i < p
      BY <3>1, <1>1, <1>8, <1>9 DEF ToSet
    <3>2. CASE ~(i < p)
      <4>1. i + 1 \in 1 .. N + 1 /\ i + 1 > p /\ (i + 1) - 1 = i
        BY <3>2, <1>1, <1>2
      <4>2. t[i + 1] = s[i]
        BY <1>8, <4>1
      <4> QED BY <4>1, <4>2, <1>9 DEF ToSet
    <3> QED BY <3>1, <3>2
  <2> QED BY <2>1, <2>2, <2>3, <1>1, <1>9 DEF ToSet
<1> QED BY <1>7, <1>11, <1>12 DEF t

\* Two sequences one after the other.
LEMMA ConcatFacts ==
  ASSUME NEW X, NEW s \in Seq(X), NEW t \in Seq(X), Distinct(s), Distinct(t),
         ToSet(s) \cap ToSet(t) = {}
  PROVE  s \o t \in Seq(X) /\ Distinct(s \o t) /\ ToSet(s \o t) = ToSet(s) \cup ToSet(t)
<1> DEFINE u == s \o t
           M == Len(s)
           N == Len(t)
<1>1. M \in Nat /\ N \in Nat /\ DOMAIN s = 1 .. M /\ DOMAIN t = 1 .. N
  OBVIOUS
<1>2. /\ u \in Seq(X) /\ Len(u) = M + N
      /\ \A k \in 1 .. M + N : u[k] = IF k <= M THEN s[k] ELSE t[k - M]
  BY ConcatProperties
<1> HIDE DEF u, M, N
<1>3. DOMAIN u = 1 .. M + N
  BY <1>2
<1>4. ASSUME NEW k \in 1 .. M + N
      PROVE  /\ k <= M => k \in DOMAIN s /\ u[k] = s[k] /\ u[k] \in ToSet(s)
             /\ ~(k <= M) => k - M \in DOMAIN t /\ u[k] = t[k - M] /\ u[k] \in ToSet(t)
  BY <1>1, <1>2 DEF ToSet
<1>5. Distinct(u)
  <2>1. ASSUME NEW k \in 1 .. M + N, NEW l \in 1 .. M + N, u[k] = u[l] PROVE k = l
    <3>1. k <= M <=> l <= M
      BY <1>4, <2>1
    <3>2. CASE k <= M
      BY <1>4, <2>1, <3>1, <3>2 DEF Distinct
    <3>3. CASE ~(k <= M)
      <4>1. k - M = l - M
        BY <1>4, <2>1, <3>1, <3>3 DEF Distinct
      <4> QED BY <4>1, <1>1
    <3> QED BY <3>2, <3>3
  <2> QED BY <2>1, <1>3 DEF Distinct
<1>6. ToSet(u) = ToSet(s) \cup ToSet(t)
  <2>1. ASSUME NEW i \in DOMAIN s PROVE s[i] \in ToSet(u)
    <3>1. i \in 1 .. M + N /\ i <= M
      BY <1>1
    <3> QED BY <3>1, <1>3, <1>4 DEF ToSet
  <2>2. ASSUME NEW i \in DOMAIN t PROVE t[i] \in ToSet(u)
    <3>1. i + M \in 1 .. M + N /\ ~(i + M <= M) /\ (i + M) - M = i
      BY <1>1
    <3>2. u[i + M] = t[i]
      BY <3>1, <1>4
    <3> QED BY <3>1, <3>2, <1>3 DEF ToSet
  <2>3. ASSUME NEW x \in ToSet(u) PROVE x \in ToSet(s) \cup ToSet(t)
    BY <1>3, <1>4 DEF ToSet
  <2> QED BY <2>1, <2>2, <2>3 DEF ToSet
<1> QED BY <1>2, <1>5, <1>6 DEF u

-------------------------------------------------------------------------------
(* The stacking object S.                                                    *)

StackType == [seq : Seq(Windows), par : [Windows -> Windows \cup {NoWindow}]]

\* No window is stacked twice, and only stacked windows have a parent.
StackOK(S) ==
  /\ S \in StackType
  /\ Distinct(S.seq)
  /\ \A w \in Windows : S.par[w] # NoWindow => w \in Stacked(S)

\* The parts of a stack that the other lemmas are stated for.
LEMMA StackTyped ==
  ASSUME NEW S, StackOK(S)
  PROVE  /\ S.seq \in Seq(Windows) /\ Distinct(S.seq)
         /\ S.par \in [Windows -> Windows \cup {NoWindow}]
         /\ Stacked(S) = ToSet(S.seq) /\ Stacked(S) \subseteq Windows
BY DEF StackOK, StackType, Stacked, ToSet

\* remove(): one window less, its children orphans, the others in their order.
LEMMA StackRemoveFacts ==
  ASSUME NEW S, StackOK(S), NEW id \in Windows
  PROVE  /\ StackOK(StackRemove(S, id))
         /\ Stacked(StackRemove(S, id)) = Stacked(S) \ {id}
         /\ \A w \in Windows : StackRemove(S, id).par[w] =
                                 IF w = id \/ S.par[w] = id THEN NoWindow ELSE S.par[w]
         /\ \A x, y \in Windows \ {id} : Before(StackRemove(S, id).seq, x, y) <=> Before(S.seq, x, y)
<1> DEFINE q == RemoveFirst(S.seq, id)
           p == [w \in Windows |-> IF w = id \/ S.par[w] = id THEN NoWindow ELSE S.par[w]]
           R == StackRemove(S, id)
<1>1. /\ q \in Seq(Windows) /\ Distinct(q) /\ ToSet(q) = ToSet(S.seq) \ {id}
      /\ \A x, y \in Windows \ {id} : Before(q, x, y) <=> Before(S.seq, x, y)
  BY StackTyped, RemoveFirstFacts
<1>2. p \in [Windows -> Windows \cup {NoWindow}]
  BY StackTyped
<1>3. R = [seq |-> q, par |-> p]
  BY DEF StackRemove
<1>4. \A w \in Windows : p[w] # NoWindow => w # id /\ S.par[w] # NoWindow
  OBVIOUS
<1>5. \A w \in Windows : p[w] = IF w = id \/ S.par[w] = id THEN NoWindow ELSE S.par[w]
  OBVIOUS
<1> HIDE DEF q, p, R
<1>6. R.seq = q /\ R.par = p /\ R \in StackType
  BY <1>1, <1>2, <1>3 DEF StackType
<1>7. Stacked(R) = Stacked(S) \ {id}
  BY <1>1, <1>6 DEF Stacked
<1>8. StackOK(R)
  BY <1>1, <1>4, <1>6, <1>7 DEF StackOK
<1> QED BY <1>1, <1>5, <1>6, <1>7, <1>8 DEF R

\* The place that add() gives to a child is one of the sequence.
LEMMA AboveFamilyInRange ==
  ASSUME NEW S, S.seq \in Seq(Windows), NEW p \in Stacked(S)
  PROVE  AboveFamily(S, p) \in 1 .. Len(S.seq) + 1
<1> DEFINE N == Len(S.seq)
           at == CHOOSE i \in DOMAIN S.seq : S.seq[i] = p
           Ends(i) == i = N + 1 \/ S.par[S.seq[i]] # p
           Fits(i) == (\A j \in at + 1 .. i - 1 : S.par[S.seq[j]] = p) /\ Ends(i)
           T == {n \in Nat : n \in at + 1 .. N + 1 /\ Ends(n)}
<1>1. N \in Nat /\ DOMAIN S.seq = 1 .. N
  OBVIOUS
<1>2. at \in 1 .. N
  <2>1. \E i \in DOMAIN S.seq : S.seq[i] = p
    BY DEF Stacked, ToSet
  <2> QED BY <1>1, <2>1
<1> HIDE DEF at, N
<1>3. N + 1 \in T
  BY <1>1, <1>2
<1>4. PICK n \in T : \A m \in T : n <= m
  <2>1. T \subseteq Nat /\ T # {}
    BY <1>3
  <2> HIDE DEF T
  <2> QED BY <2>1, NatLeast
<1>5. n \in at + 1 .. N + 1 /\ Fits(n)
  <2>1. ASSUME NEW j \in at + 1 .. n - 1 PROVE S.par[S.seq[j]] = p
    <3>1. j \in Nat /\ j \in at + 1 .. N + 1 /\ ~(n <= j)
      BY <1>1, <1>2, <1>4
    <3>2. ~Ends(j)
      BY <1>4, <3>1
    <3> QED BY <3>2
  <2> QED BY <2>1, <1>4
<1>6. AboveFamily(S, p) = CHOOSE i \in at + 1 .. N + 1 : Fits(i)
  BY DEF AboveFamily, at, N
<1> HIDE DEF Fits
<1>7. AboveFamily(S, p) \in at + 1 .. N + 1
  BY <1>5, <1>6
<1> QED BY <1>1, <1>2, <1>7 DEF N

\* add(): the window is stacked once with its new parent; others may be orphaned.
LEMMA StackAddFacts ==
  ASSUME NEW S, StackOK(S), NEW id \in Windows, NEW p \in Windows \cup {NoWindow}, p # id
  PROVE  /\ StackOK(StackAdd(S, id, p))
         /\ Stacked(StackAdd(S, id, p)) = Stacked(S) \cup {id}
         /\ StackAdd(S, id, p).par[id] = p
         /\ \A w \in Windows \ {id} : StackAdd(S, id, p).par[w] \in {S.par[w], NoWindow}
<1> DEFINE base == IF id \in Stacked(S) THEN StackRemove(S, id) ELSE S
           B == [base EXCEPT !.par[id] = p]
           q == IF p \in Stacked(B) THEN InsertAt(B.seq, AboveFamily(B, p), id) ELSE Append(B.seq, id)
           R == StackAdd(S, id, p)
<1>1. /\ StackOK(base) /\ Stacked(base) = Stacked(S) \ {id}
      /\ \A w \in Windows \ {id} : base.par[w] \in {S.par[w], NoWindow}
  BY StackRemoveFacts
<1>2. R = [B EXCEPT !.seq = q]
  BY DEF StackAdd
<1> HIDE DEF base, R, q
<1>3. /\ B \in StackType /\ B.seq = base.seq /\ B.par[id] = p
      /\ \A w \in Windows \ {id} : B.par[w] = base.par[w]
  BY <1>1 DEF StackOK, StackType
<1> HIDE DEF B
<1>4. Stacked(B) = Stacked(S) \ {id} /\ id \notin ToSet(B.seq) /\ Distinct(B.seq) /\ B.seq \in Seq(Windows)
  BY <1>1, <1>3 DEF Stacked, StackOK, StackType
<1>5. q \in Seq(Windows) /\ Distinct(q) /\ ToSet(q) = ToSet(B.seq) \cup {id}
  <2>1. CASE p \in Stacked(B)
    <3>1. AboveFamily(B, p) \in 1 .. Len(B.seq) + 1
      BY <1>3, <1>4, <2>1, AboveFamilyInRange
    <3> DEFINE n == AboveFamily(B, p)
    <3> HIDE DEF n
    <3>2. n \in 1 .. Len(B.seq) + 1
      BY <3>1 DEF n
    <3>3. q = InsertAt(B.seq, n, id)
      BY <2>1 DEF q, n
    <3> QED BY <1>4, <3>2, <3>3, InsertFacts
  <2>2. CASE p \notin Stacked(B)
    <3>1. q = Append(B.seq, id)
      BY <2>2 DEF q
    <3> QED BY <1>4, <3>1, AppendFacts
  <2> QED BY <2>1, <2>2
<1>6. R.seq = q /\ R.par = B.par /\ R \in StackType
  BY <1>2, <1>3, <1>5 DEF StackType
<1>7. Stacked(R) = Stacked(S) \cup {id}
  BY <1>4, <1>5, <1>6 DEF Stacked
<1>8. StackOK(R)
  <2>1. ASSUME NEW w \in Windows, R.par[w] # NoWindow PROVE w \in Stacked(R)
    BY <2>1, <1>1, <1>3, <1>6, <1>7 DEF StackOK
  <2> QED BY <2>1, <1>5, <1>6 DEF StackOK
<1>9. R.par[id] = p /\ \A w \in Windows \ {id} : R.par[w] \in {S.par[w], NoWindow}
  BY <1>1, <1>3, <1>6
<1> QED BY <1>7, <1>8, <1>9 DEF R

\* lower() moves windows around and loses none.
LEMMA StackLowerFacts ==
  ASSUME NEW S, StackOK(S), NEW id \in Windows, S.par[id] # id
  PROVE  /\ StackOK(StackLower(S, id))
         /\ Stacked(StackLower(S, id)) = Stacked(S)
         /\ StackLower(S, id).par = S.par
<1>1. CASE id \notin Stacked(S)
  BY <1>1 DEF StackLower
<1>2. CASE id \in Stacked(S)
  <2> DEFINE K == {w \in Windows : S.par[w] = id}
             L == {w \in Windows : w # id /\ S.par[w] # id}
             kids == Kept(S.seq, K)
             rest == Kept(S.seq, L)
             one == <<id>>
             R == StackLower(S, id)
  <2>1. R = [S EXCEPT !.seq = one \o kids \o rest]
    BY <1>2 DEF StackLower, ChildrenOf
  <2>2. S.seq \in Seq(Windows) /\ Distinct(S.seq) /\ ToSet(S.seq) \subseteq Windows /\ id \in ToSet(S.seq)
    BY <1>2, StackTyped
  <2>3. one \in Seq(Windows) /\ Distinct(one) /\ ToSet(one) = {id}
    BY DEF Distinct, ToSet
  <2>4. id \notin K /\ id \notin L /\ K \cap L = {} /\ Windows = K \cup L \cup {id}
    OBVIOUS
  <2> HIDE DEF K, L
  <2>5. kids \in Seq(Windows) /\ Distinct(kids) /\ ToSet(kids) = ToSet(S.seq) \cap K
    BY <2>2, KeptFacts
  <2>6. rest \in Seq(Windows) /\ Distinct(rest) /\ ToSet(rest) = ToSet(S.seq) \cap L
    BY <2>2, KeptFacts
  <2> HIDE DEF kids, rest, one, R
  <2> DEFINE front == one \o kids
             all == front \o rest
  <2>7. front \in Seq(Windows) /\ Distinct(front) /\ ToSet(front) = ToSet(one) \cup ToSet(kids)
    BY <2>3, <2>4, <2>5, ConcatFacts
  <2> HIDE DEF front
  <2>8. ToSet(front) \cap ToSet(rest) = {}
    BY <2>3, <2>4, <2>5, <2>6, <2>7
  <2>9. all \in Seq(Windows) /\ Distinct(all) /\ ToSet(all) = ToSet(front) \cup ToSet(rest)
    BY <2>6, <2>7, <2>8, ConcatFacts
  <2> HIDE DEF all
  <2>10. ToSet(all) = ToSet(S.seq)
    BY <2>2, <2>3, <2>4, <2>5, <2>6, <2>7, <2>9
  <2>11. R = [S EXCEPT !.seq = all]
    BY <2>1 DEF all, front
  <2>12. R.seq = all /\ R.par = S.par /\ R \in StackType
    BY <2>9, <2>11 DEF StackOK, StackType
  <2> QED BY <2>9, <2>10, <2>12 DEF StackOK, Stacked, R
<1> QED BY <1>1, <1>2

-------------------------------------------------------------------------------
(* Raising: the loop of StackRaise, first what it keeps.                     *)

\* What every state r of the loop is: it holds the windows of S, and only stacked
\* windows are still to be raised.
LoopStates(S) ==
  {r \in [seq : Seq(Windows), todo : Seq(Windows)] :
     Distinct(r.seq) /\ ToSet(r.seq) = Stacked(S) /\ ToSet(r.todo) \subseteq Stacked(S)}

\* Raising one window loses none.
LEMMA ToTopFacts ==
  ASSUME NEW s \in Seq(Windows), Distinct(s), NEW w \in Windows
  PROVE  /\ ToTop(s, w) \in Seq(Windows)
         /\ Distinct(ToTop(s, w))
         /\ ToSet(ToTop(s, w)) = ToSet(s) \cup {w}
         /\ \A x, y \in Windows : x # w /\ y # w => (Before(ToTop(s, w), x, y) <=> Before(s, x, y))
         /\ \A x \in ToSet(s) \ {w} : Before(ToTop(s, w), x, w)
<1> DEFINE q == RemoveFirst(s, w)
           t == Append(q, w)
<1>1. /\ q \in Seq(Windows) /\ Distinct(q) /\ ToSet(q) = ToSet(s) \ {w}
      /\ \A x, y \in Windows \ {w} : Before(q, x, y) <=> Before(s, x, y)
  BY RemoveFirstFacts
<1> HIDE DEF q
<1>2. /\ t \in Seq(Windows) /\ Distinct(t) /\ ToSet(t) = ToSet(q) \cup {w}
      /\ \A x, y : Before(t, x, y) <=> Before(q, x, y) \/ (y = w /\ x \in ToSet(q))
  BY <1>1, AppendFacts
<1>3. ToTop(s, w) = t
  BY DEF ToTop, q
<1> HIDE DEF t
<1> QED BY <1>1, <1>2, <1>3

\* The children that raise() collects.
LEMMA ChildrenFacts ==
  ASSUME NEW S, NEW s \in Seq(Windows), Distinct(s), NEW w
  PROVE  /\ ChildrenOf(S, s, w) \in Seq(Windows)
         /\ Distinct(ChildrenOf(S, s, w))
         /\ \A c : c \in ToSet(ChildrenOf(S, s, w)) <=> c \in ToSet(s) /\ c \in Windows /\ S.par[c] = w
<1> DEFINE K == {c \in Windows : S.par[c] = w}
<1>1. \A c : c \in K <=> c \in Windows /\ S.par[c] = w
  OBVIOUS
<1>2. ChildrenOf(S, s, w) = Kept(s, K)
  BY DEF ChildrenOf
<1> HIDE DEF K
<1>3. Kept(s, K) \in Seq(Windows) /\ ToSet(Kept(s, K)) = ToSet(s) \cap K /\ Distinct(Kept(s, K))
  BY KeptFacts
<1> QED BY <1>1, <1>2, <1>3

\* The first and the others of what is to do.
LEMMA HeadTailFacts ==
  ASSUME NEW s \in Seq(Windows), s # <<>>
  PROVE  /\ Head(s) \in Windows /\ Tail(s) \in Seq(Windows)
         /\ ToSet(s) = {Head(s)} \cup ToSet(Tail(s))
         /\ Distinct(s) => Distinct(Tail(s)) /\ Head(s) \notin ToSet(Tail(s))
<1> DEFINE h == Head(s)
           t == Tail(s)
           N == Len(s)
<1>1. N \in Nat /\ N >= 1 /\ DOMAIN s = 1 .. N /\ h = s[1]
  OBVIOUS
<1>2. h \in Windows /\ t \in Seq(Windows) /\ Len(t) = N - 1 /\ \A i \in 1 .. N - 1 : t[i] = s[i + 1]
  BY HeadTailProperties
<1> HIDE DEF h, t, N
<1>3. DOMAIN t = 1 .. N - 1
  BY <1>2
<1>4. \A i \in 1 .. N - 1 : i + 1 \in 1 .. N /\ i + 1 # 1
  BY <1>1
<1>5. \A i \in 1 .. N : i = 1 \/ (i - 1 \in 1 .. N - 1 /\ (i - 1) + 1 = i)
  BY <1>1
<1>6. ToSet(s) = {h} \cup ToSet(t)
  <2>1. 1 \in DOMAIN s
    BY <1>1
  <2>2. ASSUME NEW i \in DOMAIN t PROVE t[i] \in ToSet(s)
    BY <1>1, <1>2, <1>3, <1>4 DEF ToSet
  <2>3. ASSUME NEW i \in DOMAIN s PROVE s[i] \in {h} \cup ToSet(t)
    <3>1. CASE i = 1
      BY <3>1, <1>1
    <3>2. CASE i # 1
      <4>1. i - 1 \in DOMAIN t /\ t[i - 1] = s[i]
        BY <3>2, <1>1, <1>2, <1>3, <1>5
      <4> QED BY <4>1 DEF ToSet
    <3> QED BY <3>1, <3>2
  <2> QED BY <1>1, <2>1, <2>2, <2>3 DEF ToSet
<1>7. ASSUME Distinct(s) PROVE Distinct(t) /\ h \notin ToSet(t)
  <2>1. \A i, j \in 1 .. N : s[i] = s[j] => i = j
    BY <1>1, <1>7 DEF Distinct
  <2>2. ASSUME NEW i \in 1 .. N - 1, NEW j \in 1 .. N - 1, t[i] = t[j] PROVE i = j
    <3>1. i + 1 = j + 1
      BY <1>2, <1>4, <2>1, <2>2
    <3> QED BY <3>1
  <2>3. ASSUME NEW i \in 1 .. N - 1 PROVE t[i] # h
    BY <1>1, <1>2, <1>4, <2>1
  <2> QED BY <1>3, <2>2, <2>3 DEF Distinct, ToSet
<1> QED BY <1>2, <1>6, <1>7 DEF h, t

\* The elements of a concatenation, repeated or not.
LEMMA ConcatElements ==
  ASSUME NEW s \in Seq(Windows), NEW t \in Seq(Windows)
  PROVE  s \o t \in Seq(Windows) /\ ToSet(s \o t) \subseteq ToSet(s) \cup ToSet(t)
<1> DEFINE u == s \o t
           M == Len(s)
           N == Len(t)
<1>1. M \in Nat /\ N \in Nat /\ DOMAIN s = 1 .. M /\ DOMAIN t = 1 .. N
  OBVIOUS
<1>2. /\ u \in Seq(Windows) /\ Len(u) = M + N
      /\ \A k \in 1 .. M + N : u[k] = IF k <= M THEN s[k] ELSE t[k - M]
  BY ConcatProperties
<1> HIDE DEF u, M, N
<1>3. ASSUME NEW k \in 1 .. M + N PROVE u[k] \in ToSet(s) \cup ToSet(t)
  <2>1. CASE k <= M
    <3>1. k \in DOMAIN s /\ u[k] = s[k]
      BY <2>1, <1>1, <1>2
    <3> QED BY <3>1 DEF ToSet
  <2>2. CASE ~(k <= M)
    <3>1. k - M \in DOMAIN t /\ u[k] = t[k - M]
      BY <2>2, <1>1, <1>2
    <3> QED BY <3>1 DEF ToSet
  <2> QED BY <2>1, <2>2
<1>4. DOMAIN u = 1 .. M + N
  BY <1>2
<1> QED BY <1>2, <1>3, <1>4 DEF u, ToSet

\* One call of raise() leads from a state of the loop to a state of the loop.
LEMMA LiftStays ==
  ASSUME NEW S, StackOK(S), NEW r \in LoopStates(S)
  PROVE  Lift(S, r) \in LoopStates(S)
<1>1. /\ r.seq \in Seq(Windows) /\ r.todo \in Seq(Windows) /\ Distinct(r.seq)
      /\ ToSet(r.seq) = Stacked(S) /\ ToSet(r.todo) \subseteq Stacked(S)
  BY DEF LoopStates
<1>2. CASE r.todo = <<>>
  BY <1>2 DEF Lift
<1>3. CASE r.todo # <<>>
  <2> DEFINE w == Head(r.todo)
             rest == Tail(r.todo)
             q == ToTop(r.seq, w)
             kids == ChildrenOf(S, r.seq, w)
             u == kids \o rest
             n == [seq |-> q, todo |-> u]
  <2>1. w \in Windows /\ rest \in Seq(Windows) /\ ToSet(r.todo) = {w} \cup ToSet(rest)
    BY <1>1, <1>3, HeadTailFacts
  <2>2. Lift(S, r) = n
    BY <1>3 DEF Lift
  <2> HIDE DEF w, rest
  <2>3. q \in Seq(Windows) /\ Distinct(q) /\ ToSet(q) = Stacked(S)
    <3> DEFINE s == r.seq
    <3>1. s \in Seq(Windows) /\ Distinct(s) /\ ToSet(s) = Stacked(S) /\ w \in Stacked(S)
      BY <1>1, <2>1
    <3> HIDE DEF s
    <3>2. /\ ToTop(s, w) \in Seq(Windows) /\ Distinct(ToTop(s, w))
          /\ ToSet(ToTop(s, w)) = ToSet(s) \cup {w}
      BY <2>1, <3>1, ToTopFacts
    <3> QED BY <3>1, <3>2 DEF s
  <2>4. kids \in Seq(Windows) /\ ToSet(kids) \subseteq Stacked(S)
    <3> DEFINE s == r.seq
    <3>1. s \in Seq(Windows) /\ Distinct(s) /\ ToSet(s) = Stacked(S) /\ kids = ChildrenOf(S, s, w)
      BY <1>1
    <3> HIDE DEF s, kids
    <3>2. /\ ChildrenOf(S, s, w) \in Seq(Windows)
          /\ \A c : c \in ToSet(ChildrenOf(S, s, w)) <=> c \in ToSet(s) /\ c \in Windows /\ S.par[c] = w
      BY <3>1, ChildrenFacts
    <3> QED BY <3>1, <3>2
  <2> HIDE DEF q, kids
  <2>5. u \in Seq(Windows) /\ ToSet(u) \subseteq Stacked(S)
    BY <1>1, <2>1, <2>4, ConcatElements
  <2> HIDE DEF u
  <2>6. n.seq = q /\ n.todo = u /\ n \in [seq : Seq(Windows), todo : Seq(Windows)]
    BY <2>3, <2>5
  <2> HIDE DEF n
  <2>7. n \in LoopStates(S)
    BY <2>3, <2>5, <2>6 DEF LoopStates
  <2> QED BY <2>2, <2>7
<1> QED BY <1>2, <1>3

\* f is the run of the loop: its states, and where the loop of StackRaise ends.
IsRun(f, S, id) ==
  /\ f \in [Nat -> LoopStates(S)]
  /\ f[0] = [seq |-> S.seq, todo |-> <<id>>]
  /\ \A n \in Nat : f[n + 1] = Lift(S, f[n])
  /\ StackRaise(S, id) = [S EXCEPT !.seq = f[Len(S.seq)].seq]

\* StackRaise is the run of the loop for as many calls as there are windows.
LEMMA RaiseRuns ==
  ASSUME NEW S, StackOK(S), NEW id \in Stacked(S)
  PROVE  \E f : IsRun(f, S, id)
<1> DEFINE T == LoopStates(S)
           a == [seq |-> S.seq, todo |-> <<id>>]
           G == [n \in Nat |-> [r \in T |-> Lift(S, r)]]
           Body(g) == [n \in Nat |-> IF n = 0 THEN a ELSE Lift(S, g[n - 1])]
           F == CHOOSE g : g = Body(g)
<1>1. S.seq \in Seq(Windows) /\ Distinct(S.seq) /\ ToSet(S.seq) = Stacked(S) /\ id \in Windows
  BY StackTyped
<1>2. a \in T
  <2>1. <<id>> \in Seq(Windows) /\ ToSet(<<id>>) = {id}
    BY <1>1 DEF ToSet
  <2> DEFINE u == <<id>>
  <2>2. u \in Seq(Windows) /\ ToSet(u) \subseteq Stacked(S) /\ a = [seq |-> S.seq, todo |-> u]
    BY <2>1
  <2> HIDE DEF u, a
  <2>3. a.seq = S.seq /\ a.todo = u /\ a \in [seq : Seq(Windows), todo : Seq(Windows)]
    BY <1>1, <2>2
  <2> QED BY <1>1, <2>2, <2>3 DEF LoopStates
<1>3. \A n \in Nat : \A r \in T : G[n][r] = Lift(S, r) /\ Lift(S, r) \in T
  BY LiftStays
<1> HIDE DEF G, T, a
<1>4. StepsIn(G, T)
  BY <1>3 DEF StepsIn
<1>5. PICK f : Iterates(f, T, a, G)
  BY <1>2, <1>4, NatRecursion
<1>6. f \in [Nat -> T] /\ f[0] = a /\ \A n \in Nat : f[n + 1] = Lift(S, f[n])
  BY <1>3, <1>5 DEF Iterates
<1>7. f = Body(f)
  <2>1. ASSUME NEW n \in Nat PROVE f[n] = IF n = 0 THEN a ELSE Lift(S, f[n - 1])
    <3>1. CASE n = 0
      BY <3>1, <1>6
    <3>2. CASE n # 0
      <4>1. n - 1 \in Nat /\ (n - 1) + 1 = n
        BY <3>2
      <4>2. f[(n - 1) + 1] = Lift(S, f[n - 1])
        BY <4>1, <1>6
      <4> QED BY <3>2, <4>1, <4>2
    <3> QED BY <3>1, <3>2
  <2> QED BY <2>1, <1>6
<1>8. F = Body(F)
  BY <1>7
<1>9. StackRaise(S, id) = [S EXCEPT !.seq = F[Len(S.seq)].seq]
  BY DEF StackRaise, a
<1>10. F = f
  <2> DEFINE Same == {n \in Nat : F[n] = f[n]}
  <2>1. 0 \in Same
    BY <1>6, <1>8
  <2>2. ASSUME NEW n \in Same PROVE n + 1 \in Same
    <3>1. n \in Nat /\ F[n] = f[n] /\ n + 1 \in Nat /\ n + 1 # 0 /\ (n + 1) - 1 = n
      OBVIOUS
    <3> DEFINE i == n + 1
    <3>2. i \in Nat /\ i # 0 /\ i - 1 = n
      BY <3>1
    <3> HIDE DEF i
    <3>3. Body(F)[i] = Lift(S, F[n])
      BY <3>2
    <3> HIDE DEF F, Body
    <3>4. F[i] = Lift(S, f[n])
      BY <3>1, <3>3, <1>8
    <3> QED BY <3>1, <3>4, <1>6 DEF i
  <2>3. Same \subseteq Nat
    OBVIOUS
  <2> HIDE DEF Same
  <2>4. Same = Nat
    BY <2>1, <2>2, <2>3, NatSetInduction
  <2> HIDE DEF F
  <2>5. DOMAIN F = Nat /\ F = [n \in Nat |-> F[n]]
    BY <1>8
  <2>6. \A n \in Nat : F[n] = f[n]
    BY <2>4 DEF Same
  <2> QED BY <2>5, <2>6, <1>6
<1> HIDE DEF F
<1> QED BY <1>6, <1>9, <1>10 DEF IsRun, T, a

\* raise() moves windows around and loses none.
LEMMA StackRaiseFacts ==
  ASSUME NEW S, StackOK(S), NEW id \in Windows
  PROVE  /\ StackOK(StackRaise(S, id))
         /\ Stacked(StackRaise(S, id)) = Stacked(S)
         /\ StackRaise(S, id).par = S.par
<1>1. CASE id \notin Stacked(S)
  BY <1>1 DEF StackRaise
<1>2. CASE id \in Stacked(S)
  <2>1. PICK f : IsRun(f, S, id)
    BY <1>2, RaiseRuns
  <2> DEFINE r == f[Len(S.seq)]
             R == StackRaise(S, id)
  <2>2. Len(S.seq) \in Nat
    BY StackTyped
  <2>3. r \in LoopStates(S) /\ R = [S EXCEPT !.seq = r.seq]
    BY <2>1, <2>2 DEF IsRun
  <2> HIDE DEF r, R
  <2>4. r.seq \in Seq(Windows) /\ Distinct(r.seq) /\ ToSet(r.seq) = Stacked(S)
    BY <2>3 DEF LoopStates
  <2>5. R.seq = r.seq /\ R.par = S.par /\ R \in StackType
    BY <2>3, <2>4 DEF StackOK, StackType
  <2> QED BY <2>4, <2>5 DEF StackOK, Stacked, R
<1> QED BY <1>1, <1>2

-------------------------------------------------------------------------------
(* Descendants, and what raising a window puts above it.                     *)

\* X holds the children of w and of its own elements.
ClosedUnder(S, w, X) == \A c \in Windows : S.par[c] \in X \cup {w} => c \in X

\* The family of w is the least set that is closed under children.
LEMMA FamilyFacts ==
  ASSUME NEW S, NEW w \in Windows
  PROVE  /\ Family(S, w) \subseteq Windows
         /\ ClosedUnder(S, w, Family(S, w))
         /\ \A X \in SUBSET Windows : ClosedUnder(S, w, X) => Family(S, w) \subseteq X
<1>1. \A x : x \in Family(S, w) <=> x \in Windows /\ \A X \in SUBSET Windows : ClosedUnder(S, w, X) => x \in X
  BY DEF Family, ClosedUnder
<1>2. ASSUME NEW c \in Windows, S.par[c] \in Family(S, w) \cup {w} PROVE c \in Family(S, w)
  <2>1. ASSUME NEW X \in SUBSET Windows, ClosedUnder(S, w, X) PROVE c \in X
    <3>1. S.par[c] \in X \cup {w}
      BY <1>1, <1>2, <2>1
    <3> QED BY <2>1, <3>1 DEF ClosedUnder
  <2> QED BY <1>1, <2>1
<1> QED BY <1>1, <1>2 DEF ClosedUnder

\* No window is its own descendant.
NoLoop(S) == \A w \in Windows : w \notin Family(S, w)

\* The loop has raised the windows of P, which are on top, and has the children of
\* those that are not raised to do.
Lifting(S, id, r, P) ==
  /\ P \subseteq Stacked(S)
  /\ \A x \in P : \A y \in Stacked(S) \ P : Before(r.seq, y, x)
  /\ \A x \in P \ {id} : Before(r.seq, id, x)
  /\ Distinct(r.todo)
  /\ \A x \in ToSet(r.todo) : x \notin P
  /\ \A c \in Windows : S.par[c] \in P => c \in P \/ c \in ToSet(r.todo)
  /\ \A x \in P \cup ToSet(r.todo) : x = id \/ S.par[x] \in P
  /\ \A x \in P \cup ToSet(r.todo) : x = id \/ x \in Family(S, id)
  /\ id \in P \/ (P = {} /\ r.todo = <<id>>)

\* Before the first call nothing is raised.
LEMMA LiftingStarts ==
  ASSUME NEW S, StackOK(S), NEW id \in Stacked(S)
  PROVE  Lifting(S, id, [seq |-> S.seq, todo |-> <<id>>], {})
<1> DEFINE u == <<id>>
           r == [seq |-> S.seq, todo |-> u]
<1>1. ToSet(u) = {id} /\ Distinct(u) /\ u = <<id>>
  BY DEF ToSet, Distinct
<1> HIDE DEF u
<1>2. r.seq = S.seq /\ r.todo = u
  OBVIOUS
<1> HIDE DEF r
<1>3. Lifting(S, id, r, {})
  <2>1. \A c \in Windows : S.par[c] \notin {}
    OBVIOUS
  <2> QED BY <1>1, <1>2 DEF Lifting
<1> QED BY <1>1, <1>3 DEF r

\* Each call raises one window of the family that was not raised yet.
LEMMA LiftingGoesOn ==
  ASSUME NEW S, StackOK(S), NoLoop(S), NEW id \in Stacked(S), NEW r \in LoopStates(S),
         NEW P, Lifting(S, id, r, P), r.todo # <<>>
  PROVE  /\ Head(r.todo) \notin P
         /\ Lifting(S, id, Lift(S, r), P \cup {Head(r.todo)})
<1> DEFINE w == Head(r.todo)
           s == r.seq
           todo == r.todo
           rest == Tail(todo)
           kids == ChildrenOf(S, s, w)
           q == ToTop(s, w)
           u == kids \o rest
           n == [seq |-> q, todo |-> u]
           PP == P \cup {w}
           T == Stacked(S)
<1>1. /\ s \in Seq(Windows) /\ Distinct(s) /\ ToSet(s) = T
      /\ todo \in Seq(Windows) /\ ToSet(todo) \subseteq T /\ Distinct(todo)
  BY DEF LoopStates, Lifting
<1>2. n = Lift(S, r)
  BY DEF Lift
<1>3. T \subseteq Windows /\ id \in Windows /\ id \in T
  BY StackTyped
<1> HIDE DEF s, T
<1>4. w \in Windows /\ rest \in Seq(Windows) /\ ToSet(todo) = {w} \cup ToSet(rest)
      /\ Distinct(rest) /\ w \notin ToSet(rest)
  <2>1. todo # <<>> /\ w = Head(todo) /\ rest = Tail(todo)
    OBVIOUS
  <2> HIDE DEF todo, w, rest
  <2> QED BY <2>1, <1>1, HeadTailFacts
<1> HIDE DEF w, rest
<1>5. /\ q \in Seq(Windows) /\ Distinct(q)
      /\ \A x, y \in Windows : x # w /\ y # w => (Before(q, x, y) <=> Before(s, x, y))
      /\ \A x \in T \ {w} : Before(q, x, w)
  BY <1>1, <1>4, ToTopFacts
<1>6. /\ kids \in Seq(Windows) /\ Distinct(kids)
      /\ \A c : c \in ToSet(kids) <=> c \in T /\ S.par[c] = w
  <2>1. kids = ChildrenOf(S, s, w)
    OBVIOUS
  <2> HIDE DEF kids
  <2>2. /\ ChildrenOf(S, s, w) \in Seq(Windows) /\ Distinct(ChildrenOf(S, s, w))
        /\ \A c : c \in ToSet(ChildrenOf(S, s, w)) <=> c \in ToSet(s) /\ c \in Windows /\ S.par[c] = w
    BY <1>1, ChildrenFacts
  <2> QED BY <2>1, <2>2, <1>1, <1>3
<1> HIDE DEF q, kids, todo
<1>7. /\ P \subseteq T
      /\ \A x \in P : \A y \in T \ P : Before(s, y, x)
      /\ \A x \in P \ {id} : Before(s, id, x)
      /\ \A x \in ToSet(todo) : x \notin P
      /\ \A c \in Windows : S.par[c] \in P => c \in P \/ c \in ToSet(todo)
      /\ \A x \in P \cup ToSet(todo) : x = id \/ S.par[x] \in P
      /\ \A x \in P \cup ToSet(todo) : x = id \/ x \in Family(S, id)
      /\ id \in P \/ (P = {} /\ todo = <<id>>)
  BY DEF Lifting, s, T, todo
<1>8. w \notin P /\ w \in T
  BY <1>1, <1>4, <1>7
<1>9. id \in P \/ (P = {} /\ w = id /\ ToSet(rest) = {})
  <2>1. CASE id \in P
    BY <2>1
  <2>2. CASE P = {} /\ todo = <<id>>
    <3>1. w = id
      BY <2>2 DEF w, todo
    <3>2. ToSet(todo) = {id}
      BY <2>2 DEF ToSet
    <3> QED BY <2>2, <3>1, <3>2, <1>4
  <2> QED BY <1>7, <2>1, <2>2
<1>10. ClosedUnder(S, id, Family(S, id)) /\ Family(S, id) \subseteq Windows /\ id \notin Family(S, id)
  BY <1>3, FamilyFacts DEF NoLoop
<1>11. S.par[id] # id /\ S.par[id] \notin Family(S, id)
  BY <1>3, <1>10 DEF ClosedUnder
<1>12. w = id \/ w \in Family(S, id)
  BY <1>4, <1>7
<1>13. \A c \in ToSet(kids) : c # id /\ c \notin P /\ c # w /\ c \notin ToSet(rest)
  <2>1. SUFFICES ASSUME NEW c \in ToSet(kids) PROVE c # id /\ c \notin P /\ c # w /\ c \notin ToSet(rest)
    OBVIOUS
  <2>2. S.par[c] = w
    BY <1>6
  <2>3. c # id
    BY <2>2, <1>11, <1>12
  <2>4. S.par[c] \notin P
    BY <2>2, <1>8
  <2> QED BY <2>3, <2>4, <1>4, <1>7
<1>14. u \in Seq(Windows) /\ Distinct(u) /\ ToSet(u) = ToSet(kids) \cup ToSet(rest)
  BY <1>4, <1>6, <1>13, ConcatFacts
<1> HIDE DEF u
<1>15. n.seq = q /\ n.todo = u
  OBVIOUS
<1> HIDE DEF n
<1>16. \A x \in PP : \A y \in T \ PP : Before(q, y, x)
  BY <1>3, <1>5, <1>7, <1>8
<1>17. \A x \in PP \ {id} : Before(q, id, x)
  <2>1. ASSUME NEW x \in PP \ {id} PROVE Before(q, id, x)
    <3>1. CASE x = w
      BY <3>1, <2>1, <1>3, <1>5
    <3>2. CASE x # w
      <4>1. x \in P \ {id} /\ id # w
        BY <3>2, <2>1, <1>8, <1>9
      <4> QED BY <4>1, <3>2, <1>3, <1>5, <1>7
    <3> QED BY <3>1, <3>2
  <2> QED BY <2>1
<1>18. \A x \in ToSet(u) : x \notin PP
  BY <1>4, <1>7, <1>13, <1>14
<1>19. \A c \in Windows : S.par[c] \in PP => c \in PP \/ c \in ToSet(u)
  <2>1. ASSUME NEW c \in Windows, S.par[c] = w PROVE c \in ToSet(u)
    <3>1. S.par[c] # NoWindow
      BY <2>1, <1>4, NoWindowAssumption
    <3>2. c \in T
      BY <3>1 DEF StackOK, T
    <3> QED BY <2>1, <3>2, <1>6, <1>14
  <2>2. ASSUME NEW c \in Windows, S.par[c] \in P PROVE c \in PP \/ c \in ToSet(u)
    BY <2>2, <1>4, <1>7, <1>14
  <2> QED BY <2>1, <2>2
<1>20. \A x \in PP \cup ToSet(u) : x = id \/ S.par[x] \in PP
  BY <1>4, <1>6, <1>7, <1>14
<1>21. \A x \in PP \cup ToSet(u) : x = id \/ x \in Family(S, id)
  <2>1. ASSUME NEW x \in ToSet(kids) PROVE x \in Family(S, id)
    <3>1. x \in Windows /\ S.par[x] \in Family(S, id) \cup {id}
      BY <1>3, <1>6, <1>12
    <3> QED BY <3>1, <1>10 DEF ClosedUnder
  <2> QED BY <2>1, <1>4, <1>7, <1>12, <1>14
<1>22. id \in PP
  BY <1>9
<1>23. Lifting(S, id, n, PP)
  BY <1>7, <1>8, <1>14, <1>15, <1>16, <1>17, <1>18, <1>19, <1>20, <1>21, <1>22 DEF Lifting, T
<1> QED BY <1>2, <1>8, <1>23 DEF w, todo

\* A sequence has at most as many elements as places.
LEMMA ElementsCounted ==
  ASSUME NEW X, NEW s \in Seq(X)
  PROVE  IsFiniteSet(ToSet(s)) /\ Cardinality(ToSet(s)) <= Len(s)
<1> DEFINE D == 1 .. Len(s)
           R == ToSet(s)
<1>1. Len(s) \in Nat /\ DOMAIN s = D
  OBVIOUS
<1>2. IsFiniteSet(D) /\ Cardinality(D) = Len(s)
  BY <1>1, FS_Interval
<1>3. s \in Surjection(D, R)
  BY <1>1 DEF Surjection, ToSet
<1> HIDE DEF D, R
<1> QED BY <1>2, <1>3, FS_Surjection DEF R

\* A raised window has above it its descendants and nothing else.
LEMMA RaiseLifts ==
  ASSUME NEW S, StackOK(S), NoLoop(S), NEW id \in Stacked(S)
  PROVE  Above(StackRaise(S, id), id) = Family(S, id)
<1>1. PICK f : IsRun(f, S, id)
  BY RaiseRuns
<1> DEFINE N == Len(S.seq)
           Raised(n, P) == /\ Lifting(S, id, f[n], P)
                           /\ IsFiniteSet(P)
                           /\ f[n].todo # <<>> => Cardinality(P) = n
           Q == {n \in Nat : \E P : Raised(n, P)}
<1>2. N \in Nat /\ IsFiniteSet(Stacked(S)) /\ Cardinality(Stacked(S)) <= N /\ id \in Windows
      /\ Stacked(S) \subseteq Windows
  BY StackTyped, ElementsCounted
<1>3. 0 \in Q
  <2>1. Lifting(S, id, f[0], {})
    BY <1>1, LiftingStarts DEF IsRun
  <2>2. IsFiniteSet({}) /\ Cardinality({}) = 0
    BY FS_EmptySet
  <2>3. Raised(0, {})
    BY <2>1, <2>2
  <2> HIDE DEF Raised
  <2> QED BY <2>3
<1>4. ASSUME NEW n \in Q PROVE n + 1 \in Q
  <2>1. PICK P : Raised(n, P)
    OBVIOUS
  <2>2. n \in Nat /\ f[n] \in LoopStates(S) /\ f[n + 1] = Lift(S, f[n])
    BY <1>1 DEF IsRun
  <2>3. CASE f[n].todo = <<>>
    <3>1. f[n + 1] = f[n]
      BY <2>2, <2>3 DEF Lift
    <3>2. Raised(n + 1, P)
      BY <2>1, <2>3, <3>1
    <3> HIDE DEF Raised
    <3> QED BY <2>2, <3>2
  <2>4. CASE f[n].todo # <<>>
    <3> DEFINE r == f[n]
               w == Head(r.todo)
               PP == P \cup {w}
    <3>1. r \in LoopStates(S) /\ Lifting(S, id, r, P) /\ r.todo # <<>> /\ IsFiniteSet(P) /\ Cardinality(P) = n
      BY <2>1, <2>2, <2>4
    <3> HIDE DEF r
    <3>2. w \notin P /\ Lifting(S, id, Lift(S, r), PP)
      BY <3>1, LiftingGoesOn
    <3> HIDE DEF w
    <3>3. IsFiniteSet(PP) /\ Cardinality(PP) = n + 1
      BY <3>1, <3>2, FS_AddElement
    <3> HIDE DEF PP
    <3>4. Raised(n + 1, PP)
      BY <2>2, <3>2, <3>3 DEF r
    <3> HIDE DEF Raised
    <3> QED BY <2>2, <3>4
  <2> QED BY <2>3, <2>4
<1>5. N \in Q
  <2>1. Q \subseteq Nat
    OBVIOUS
  <2> HIDE DEF Q
  <2> QED BY <1>2, <1>3, <1>4, <2>1, NatSetInduction
<1>6. PICK P : Raised(N, P)
  BY <1>5
<1> DEFINE r == f[N]
<1>7. /\ r \in LoopStates(S) /\ Lifting(S, id, r, P) /\ IsFiniteSet(P)
      /\ r.todo # <<>> => Cardinality(P) = N
      /\ StackRaise(S, id) = [S EXCEPT !.seq = r.seq]
  BY <1>1, <1>2, <1>6 DEF IsRun
<1> HIDE DEF r, N, Q
<1>8. r.todo = <<>>
  <2>1. SUFFICES ASSUME r.todo # <<>> PROVE FALSE
    OBVIOUS
  <2> DEFINE w == Head(r.todo)
             PP == P \cup {w}
  <2>2. w \notin P
    BY <1>7, <2>1, LiftingGoesOn
  <2>3. w \in Stacked(S) /\ P \subseteq Stacked(S)
    <3> DEFINE t == r.todo
    <3>1. t \in Seq(Windows) /\ t # <<>> /\ ToSet(t) \subseteq Stacked(S) /\ w = Head(t)
      BY <1>7, <2>1 DEF LoopStates
    <3> HIDE DEF t, w
    <3>2. w \in ToSet(t)
      BY <3>1, HeadTailFacts
    <3> QED BY <1>7, <3>1, <3>2 DEF Lifting
  <2> HIDE DEF w
  <2>4. Cardinality(PP) = N + 1 /\ PP \in SUBSET Stacked(S)
    BY <1>7, <2>1, <2>2, <2>3, FS_AddElement
  <2> HIDE DEF PP
  <2>5. Cardinality(PP) <= Cardinality(Stacked(S)) /\ Cardinality(Stacked(S)) \in Nat
    BY <1>2, <2>4, FS_Subset, FS_CardinalityType
  <2> QED BY <1>2, <2>4, <2>5
<1>9. /\ P \subseteq Stacked(S) /\ id \in P
      /\ \A x \in P : \A y \in Stacked(S) \ P : Before(r.seq, y, x)
      /\ \A x \in P \ {id} : Before(r.seq, id, x) /\ x \in Family(S, id)
      /\ \A c \in Windows : S.par[c] \in P => c \in P
  <2>1. ToSet(r.todo) = {} /\ r.todo # <<id>>
    BY <1>8 DEF ToSet
  <2> QED BY <1>7, <2>1 DEF Lifting
<1>10. Family(S, id) = P \ {id}
  <2>1. id \notin Family(S, id)
    BY <1>2 DEF NoLoop
  <2>2. ClosedUnder(S, id, P) /\ P \in SUBSET Windows
    BY <1>2, <1>9 DEF ClosedUnder
  <2>3. Family(S, id) \subseteq P
    BY <1>2, <2>2, FamilyFacts
  <2> QED BY <1>9, <2>1, <2>3
<1> DEFINE R == StackRaise(S, id)
<1>11. R.seq = r.seq /\ Stacked(R) = Stacked(S) /\ Distinct(r.seq) /\ r.seq \in Seq(Windows)
  <2>1. R.seq = r.seq
    BY <1>7 DEF StackOK, StackType
  <2> HIDE DEF R
  <2> QED BY <1>7, <2>1 DEF LoopStates, Stacked
<1> HIDE DEF R
<1>12. \A x, y : Before(r.seq, x, y) => ~Before(r.seq, y, x) /\ x # y
  <2>1. \A i \in DOMAIN r.seq : i \in Nat
    BY <1>11
  <2> QED BY <1>11, <2>1 DEF Before, Distinct
<1>13. \A x : x \in Above(R, id) <=> x \in Stacked(S) /\ Before(r.seq, id, x)
  BY <1>11 DEF Above, Before
<1> QED BY <1>9, <1>10, <1>12, <1>13 DEF R

\* Without parents that were forgotten, a window has no new descendants.
LEMMA FamilyShrinks ==
  ASSUME NEW S, NEW R, NEW w \in Windows, \A c \in Windows : R.par[c] \in {S.par[c], NoWindow}
  PROVE  Family(R, w) \subseteq Family(S, w)
<1> DEFINE X == Family(S, w)
<1>1. X \in SUBSET Windows /\ ClosedUnder(S, w, X)
  BY FamilyFacts
<1> HIDE DEF X
<1>2. ClosedUnder(R, w, X)
  BY <1>1, NoWindowAssumption DEF ClosedUnder
<1> QED BY <1>1, <1>2, FamilyFacts DEF X

\* Forgetting parents makes no loop.
LEMMA NoLoopShrinks ==
  ASSUME NEW S, NEW R, NoLoop(S), \A c \in Windows : R.par[c] \in {S.par[c], NoWindow}
  PROVE  NoLoop(R)
BY FamilyShrinks DEF NoLoop

\* A window gets a parent that is not its own descendant.
LEMMA NoLoopAdopted ==
  ASSUME NEW S, NEW R, NoLoop(S), NEW id \in Windows, NEW p \in Windows, p # id,
         p \notin Family(S, id), R.par[id] = p,
         \A c \in Windows \ {id} : R.par[c] \in {S.par[c], NoWindow}
  PROVE  NoLoop(R)
<1> DEFINE D == Family(S, id) \cup {id}
<1>1. D \subseteq Windows /\ (\A c \in Windows : S.par[c] \in D => c \in D) /\ p \notin D
  BY FamilyFacts DEF ClosedUnder
<1>2. ASSUME NEW w \in Windows PROVE w \notin Family(R, w)
  <2> DEFINE F == Family(S, w)
             X == IF p \in F \cup {w} THEN F \cup D ELSE F
  <2>1. F \subseteq Windows /\ (\A c \in Windows : S.par[c] \in F \cup {w} => c \in F) /\ w \notin F
    BY FamilyFacts DEF ClosedUnder, NoLoop
  <2>2. w \notin X
    <3>1. SUFFICES ASSUME p \in F \cup {w}, w \in D PROVE FALSE
      BY <2>1
    <3>2. F \subseteq D
      <4>1. ClosedUnder(S, w, D)
        BY <1>1, <3>1 DEF ClosedUnder
      <4> HIDE DEF D
      <4> QED BY <1>1, <4>1, FamilyFacts
    <3> QED BY <1>1, <3>1, <3>2
  <2>3. ClosedUnder(R, w, X)
    <3>1. ASSUME NEW c \in Windows, R.par[c] \in X \cup {w} PROVE c \in X
      <4> HIDE DEF F, D
      <4>1. X \cup {w} \subseteq Windows
        BY <1>1, <2>1
      <4>2. CASE c = id
        <5>1. p \in F \cup {w}
          BY <4>2, <3>1, <1>1
        <5> QED BY <4>2, <5>1 DEF D
      <4>3. CASE c # id
        <5>1. R.par[c] = S.par[c]
          BY <4>1, <4>3, <3>1, NoWindowAssumption
        <5> QED BY <5>1, <3>1, <1>1, <2>1
      <4> QED BY <4>2, <4>3
    <3> HIDE DEF X
    <3> QED BY <3>1 DEF ClosedUnder
  <2>4. X \in SUBSET Windows
    BY <1>1, <2>1
  <2> HIDE DEF X
  <2> QED BY <2>2, <2>3, <2>4, FamilyFacts
<1> QED BY <1>2 DEF NoLoop

-------------------------------------------------------------------------------
(* The z-order S of the windows W, of which those of C were asked to close.  *)

Stacks(S, W, C) ==
  /\ StackOK(S)
  /\ NoLoop(S)
  /\ \A w \in Stacked(S) : IsRegistered(W, w)
  /\ \A w \in Windows : IsRegistered(W, w) /\ w \notin C => w \in Stacked(S)
  /\ \A c \in Windows : S.par[c] # NoWindow => S.par[c] = W[c].parent /\ IsRegistered(W, S.par[c])

StackInv == Stacks(stk, win, closeAsked)

\* raise() keeps the shape of the z-order.
LEMMA RaiseStacks ==
  ASSUME NEW S, NEW W, NEW C, Stacks(S, W, C), NEW id \in Windows
  PROVE  Stacks(StackRaise(S, id), W, C)
<1> DEFINE R == StackRaise(S, id)
<1>1. StackOK(S) /\ NoLoop(S)
  BY DEF Stacks
<1>2. StackOK(R) /\ Stacked(R) = Stacked(S) /\ R.par = S.par
  BY <1>1, StackRaiseFacts
<1> HIDE DEF R
<1>3. NoLoop(R)
  BY <1>1, <1>2, NoLoopShrinks
<1>4. Stacks(R, W, C)
  BY <1>2, <1>3 DEF Stacks
<1> QED BY <1>4 DEF R

\* remove() keeps it, if the window counts as one that was asked to close.
LEMMA RemoveStacks ==
  ASSUME NEW S, NEW W, NEW C, Stacks(S, W, C), NEW id \in Windows
  PROVE  Stacks(StackRemove(S, id), W, C \cup {id})
<1> DEFINE R == StackRemove(S, id)
<1>1. StackOK(S) /\ NoLoop(S)
  BY DEF Stacks
<1>2. /\ StackOK(R) /\ Stacked(R) = Stacked(S) \ {id}
      /\ \A w \in Windows : R.par[w] = IF w = id \/ S.par[w] = id THEN NoWindow ELSE S.par[w]
  BY <1>1, StackRemoveFacts
<1> HIDE DEF R
<1>3. NoLoop(R)
  BY <1>1, <1>2, NoLoopShrinks
<1>4. Stacks(R, W, C \cup {id})
  BY <1>2, <1>3 DEF Stacks
<1> QED BY <1>4 DEF R

\* The fallback brings a stacked window to the top, or leaves the stack alone.
LEMMA TargetIsStacked ==
  ASSUME NEW S, NEW W, NEW id, NEW t \in FallbackTargets(S, W, id)
  PROVE  t = NoWindow \/ t \in Stacked(S)
BY DEF FallbackTargets, Stacked, ToSet

\* The fallback keeps it.
LEMMA HideStacks ==
  ASSUME NEW S, NEW W, NEW C, Stacks(S, W, C), NEW A, NEW V, NEW id,
         NEW t \in FallbackTargets(S, V, id)
  PROVE  Stacks(StkAfterHide(A, S, id, t), W, C)
<1>1. t = NoWindow \/ t \in Windows
  BY TargetIsStacked, StackTyped DEF Stacks
<1> QED BY <1>1, RaiseStacks DEF StkAfterHide

\* The stack depends on who is registered and on the parents only.
LEMMA SameWindowsStacks ==
  ASSUME NEW S, NEW W, NEW V, NEW C, Stacks(S, W, C),
         \A w : IsRegistered(V, w) <=> IsRegistered(W, w),
         \A w \in Windows : V[w].parent = W[w].parent
  PROVE  Stacks(S, V, C)
BY DEF Stacks

\* A handler that changes a window's record, except for its parent, and ends in
\* the fallback with the z-order S.
LEMMA HideWithStacks ==
  ASSUME Inv, NEW id \in Windows, id \in Registered, NEW r \in WindowRecord,
         r.life \in {"Initializing", "Visible", "Closing"}, r.parent = win[id].parent,
         NEW A, NEW S, NEW C, Stacks(S, win, C),
         HideWith([win EXCEPT ![id] = r], A, S, id)
  PROVE  Stacks(stk', win', C)
<1> DEFINE W == [win EXCEPT ![id] = r]
<1>1. /\ \A w : IsRegistered(W, w) <=> IsRegistered(win, w)
      /\ \A w \in Windows : W[w].parent = win[w].parent
  BY WinUpdate DEF Inv, TypeInv, Registered
<1> HIDE DEF W
<1>2. Stacks(S, W, C)
  BY <1>1, SameWindowsStacks
<1>3. PICK t \in FallbackTargets(S, W, id) : win' = W /\ stk' = StkAfterHide(A, S, id, t)
  BY DEF HideWith, W
<1> QED BY <1>2, <1>3, HideStacks

\* A handler that changes a window's record, except for its parent, and not the stack.
LEMMA KeepStacks ==
  ASSUME Inv, StackInv, NEW id \in Windows, id \in Registered, NEW r \in WindowRecord,
         r.life \in {"Initializing", "Visible", "Closing"}, r.parent = win[id].parent,
         win' = [win EXCEPT ![id] = r], stk' = stk, closeAsked' = closeAsked
  PROVE  StackInv'
<1>1. /\ \A w : IsRegistered(win', w) <=> IsRegistered(win, w)
      /\ \A w \in Windows : win'[w].parent = win[w].parent
  BY WinUpdate DEF Inv, TypeInv, Registered
<1>2. Stacks(stk, win, closeAsked)
  BY DEF StackInv
<1>3. Stacks(stk, win', closeAsked)
  BY <1>1, <1>2, SameWindowsStacks
<1> QED BY <1>3 DEF StackInv

\* A change of state or visibility, with the fallback it may run, keeps it.
LEMMA NotifyStacks ==
  ASSUME Inv, StackInv, NEW id \in Windows, id \in Registered, NEW r \in WindowRecord,
         r.life \in {"Initializing", "Visible", "Closing"}, r.parent = win[id].parent,
         NotifyState([win EXCEPT ![id] = r], act, id), closeAsked' = closeAsked
  PROVE  StackInv'
<1> DEFINE W == [win EXCEPT ![id] = r]
<1>1. CASE W[id].state = "Minimized"
  <2>1. HideWith(W, act, stk, id)
    BY <1>1 DEF NotifyState
  <2>2. Stacks(stk, win, closeAsked)
    BY DEF StackInv
  <2>3. Stacks(stk', win', closeAsked)
    BY <2>1, <2>2, HideWithStacks
  <2> QED BY <2>3 DEF StackInv
<1>2. CASE W[id].state # "Minimized"
  <2>1. win' = W /\ stk' = stk
    BY <1>2 DEF NotifyState
  <2> QED BY <2>1, KeepStacks
<1> QED BY <1>1, <1>2

\* A new window is stacked without a parent.
LEMMA GetToplevelStacks == ASSUME Inv, StackInv, NEW id \in Windows, GetToplevel(id) PROVE StackInv'
<1> DEFINE r == Fresh("Initializing")
           W == [win EXCEPT ![id] = r]
           R == StackAdd(stk, id, NoWindow)
<1>1. r \in WindowRecord /\ r.life = "Initializing"
  BY FreshType DEF Lives, Fresh
<1>2. win' = W /\ stk' = StackRaise(R, id) /\ closeAsked' = closeAsked
  BY DEF GetToplevel
<1> HIDE DEF r
<1>3. /\ \A w : w # id => (IsRegistered(W, w) <=> IsRegistered(win, w))
      /\ IsRegistered(W, id) /\ \A w \in Windows \ {id} : W[w] = win[w]
  BY <1>1, WinUpdate DEF Inv, TypeInv
<1>4. StackOK(stk) /\ NoLoop(stk) /\ id \notin Registered
  BY DEF StackInv, Stacks, GetToplevel, Registered, IsRegistered
<1>5. /\ StackOK(R) /\ Stacked(R) = Stacked(stk) \cup {id} /\ R.par[id] = NoWindow
      /\ \A w \in Windows \ {id} : R.par[w] \in {stk.par[w], NoWindow}
  BY <1>4, StackAddFacts, NoWindowAssumption
<1> HIDE DEF R, W
<1>6. NoLoop(R)
  BY <1>4, <1>5, NoLoopShrinks
<1>7. \A c \in Windows : R.par[c] # NoWindow => R.par[c] = W[c].parent /\ IsRegistered(W, R.par[c])
  <2>1. ASSUME NEW c \in Windows, R.par[c] # NoWindow
        PROVE  R.par[c] = W[c].parent /\ IsRegistered(W, R.par[c])
    <3>1. c # id /\ R.par[c] = stk.par[c]
      BY <1>5, <2>1
    <3>2. stk.par[c] = win[c].parent /\ IsRegistered(win, stk.par[c])
      BY <2>1, <3>1 DEF StackInv, Stacks
    <3>3. IsRegistered(W, stk.par[c])
      BY <3>2, <1>3
    <3> QED BY <3>1, <3>2, <3>3, <1>3
  <2> QED BY <2>1
<1>8. Stacks(R, W, closeAsked)
  <2>1. \A w \in Stacked(R) : IsRegistered(W, w)
    BY <1>3, <1>5 DEF StackInv, Stacks
  <2>2. \A w \in Windows : IsRegistered(W, w) /\ w \notin closeAsked => w \in Stacked(R)
    BY <1>3, <1>5 DEF StackInv, Stacks
  <2> QED BY <1>5, <1>6, <1>7, <2>1, <2>2 DEF Stacks
<1>9. Stacks(stk', win', closeAsked')
  BY <1>2, <1>8, RaiseStacks
<1> QED BY <1>9 DEF StackInv

\* The windows that the stack reaches down from id are those that the server
\* would find by their parent_id.
LEMMA FamilyAreDescendants ==
  ASSUME StackInv, NEW id \in Windows, NEW p \in Family(stk, id)
  PROVE  IsAncestor(id, p)
<1>1. SUFFICES ASSUME NEW X \in SUBSET Windows,
                      \A c \in Windows : win[c].parent \in Registered /\ win[c].parent \in X \cup {id} => c \in X
               PROVE  p \in X
  BY DEF IsAncestor
<1>2. ASSUME NEW c \in Windows, stk.par[c] \in X \cup {id} PROVE c \in X
  <2>1. stk.par[c] # NoWindow
    BY <1>2, NoWindowAssumption
  <2>2. stk.par[c] = win[c].parent /\ stk.par[c] \in Registered
    BY <2>1 DEF StackInv, Stacks, Registered, IsRegistered
  <2> QED BY <1>1, <1>2, <2>2
<1>3. ClosedUnder(stk, id, X)
  BY <1>2 DEF ClosedUnder
<1> QED BY <1>3, FamilyFacts

\* A parent that is not a descendant of the window makes no loop in the stack.
LEMMA SetParentStacks ==
  ASSUME Inv, StackInv, NEW id \in Windows, NEW p \in Windows \cup {NoWindow}, SetParent(id, p)
  PROVE  StackInv'
<1> DEFINE r == [win[id] EXCEPT !.parent = p]
           W == [win EXCEPT ![id] = r]
           R == StackAdd(stk, id, p)
<1>1. /\ r \in WindowRecord /\ id \in Registered /\ r.parent = p
      /\ r.life \in {"Initializing", "Visible", "Closing"}
  BY DEF SetParent, Inv, TypeInv, WindowRecord, Registered, IsRegistered
<1>2. win' = W /\ stk' = R /\ closeAsked' = closeAsked
  BY DEF SetParent, Inv, TypeInv, WindowRecord
<1>3. p = NoWindow \/ (p \in Registered /\ p # id /\ ~IsAncestor(id, p))
  BY DEF SetParent
<1> HIDE DEF r
<1>4. /\ \A w : IsRegistered(W, w) <=> IsRegistered(win, w)
      /\ W[id] = r /\ \A w \in Windows \ {id} : W[w] = win[w]
  BY <1>1, WinUpdate DEF Inv, TypeInv, Registered
<1>5. StackOK(stk) /\ NoLoop(stk) /\ p # id
  BY <1>3, NoWindowAssumption DEF StackInv, Stacks
<1>6. /\ StackOK(R) /\ Stacked(R) = Stacked(stk) \cup {id} /\ R.par[id] = p
      /\ \A w \in Windows \ {id} : R.par[w] \in {stk.par[w], NoWindow}
  BY <1>5, StackAddFacts
<1> HIDE DEF R, W
<1>7. NoLoop(R)
  <2>1. CASE p = NoWindow
    BY <2>1, <1>5, <1>6, NoLoopShrinks
  <2>2. CASE p # NoWindow
    <3>1. p \in Windows /\ p \notin Family(stk, id)
      BY <2>2, <1>3, FamilyAreDescendants DEF Registered
    <3> QED BY <3>1, <1>5, <1>6, NoLoopAdopted
  <2> QED BY <2>1, <2>2
<1>8. \A c \in Windows : R.par[c] # NoWindow => R.par[c] = W[c].parent /\ IsRegistered(W, R.par[c])
  <2>1. ASSUME NEW c \in Windows, R.par[c] # NoWindow
        PROVE  R.par[c] = W[c].parent /\ IsRegistered(W, R.par[c])
    <3>1. CASE c = id
      BY <3>1, <2>1, <1>1, <1>3, <1>4, <1>6 DEF Registered
    <3>2. CASE c # id
      <4>1. R.par[c] = stk.par[c]
        BY <1>6, <2>1, <3>2
      <4>2. stk.par[c] = win[c].parent /\ IsRegistered(win, stk.par[c])
        BY <2>1, <4>1 DEF StackInv, Stacks
      <4> QED BY <3>2, <4>1, <4>2, <1>4
    <3> QED BY <3>1, <3>2
  <2> QED BY <2>1
<1>9. Stacks(R, W, closeAsked)
  <2>1. \A w \in Stacked(R) : IsRegistered(W, w)
    BY <1>1, <1>4, <1>6 DEF StackInv, Stacks, Registered
  <2>2. \A w \in Windows : IsRegistered(W, w) /\ w \notin closeAsked => w \in Stacked(R)
    BY <1>4, <1>6 DEF StackInv, Stacks
  <2> QED BY <1>6, <1>7, <1>8, <2>1, <2>2 DEF Stacks
<1> QED BY <1>2, <1>9 DEF StackInv

\* What is left of the stack, of the windows and of those that were asked to close
\* when a window is destroyed.
LEMMA DestroyStacks ==
  ASSUME Inv, StackInv, NEW id \in Windows, id \in Registered
  PROVE  Stacks(StackRemove(stk, id), [win EXCEPT ![id] = Fresh("Destroyed")], closeAsked \ {id})
<1> DEFINE W == [win EXCEPT ![id] = Fresh("Destroyed")]
           R == StackRemove(stk, id)
<1>1. /\ \A w \in Windows \ {id} : W[w] = win[w]
      /\ \A w : IsRegistered(W, w) <=> IsRegistered(win, w) /\ w # id
  BY DEF Inv, TypeInv, IsRegistered, Fresh
<1>2. Stacks(R, win, closeAsked \cup {id})
  BY RemoveStacks DEF StackInv
<1>3. /\ Stacked(R) = Stacked(stk) \ {id}
      /\ \A w \in Windows : R.par[w] = IF w = id \/ stk.par[w] = id THEN NoWindow ELSE stk.par[w]
  BY StackRemoveFacts DEF StackInv, Stacks
<1> HIDE DEF R, W
<1>4. \A w \in Stacked(R) : IsRegistered(W, w)
  BY <1>1, <1>2, <1>3 DEF Stacks
<1>5. \A w \in Windows : IsRegistered(W, w) /\ w \notin closeAsked \ {id} => w \in Stacked(R)
  BY <1>1, <1>2 DEF Stacks
<1>6. \A c \in Windows : R.par[c] # NoWindow => R.par[c] = W[c].parent /\ IsRegistered(W, R.par[c])
  BY <1>1, <1>2, <1>3 DEF Stacks
<1>7. Stacks(R, W, closeAsked \ {id})
  BY <1>2, <1>4, <1>5, <1>6 DEF Stacks
<1> QED BY <1>7 DEF R, W
\* The stack is empty at the start.
LEMMA InitStacks == Init => StackInv
<1> SUFFICES ASSUME Init PROVE StackInv
  OBVIOUS
<1>1. stk.seq = <<>> /\ stk.par = [w \in Windows |-> NoWindow] /\ stk \in StackType
  BY DEF Init, EmptyStacking, StackType
<1>2. Distinct(stk.seq) /\ Stacked(stk) = {}
  BY <1>1 DEF Distinct, Stacked, ToSet
<1>3. StackOK(stk)
  BY <1>1, <1>2 DEF StackOK
<1>4. ASSUME NEW w \in Windows PROVE w \notin Family(stk, w)
  <2>1. ClosedUnder(stk, w, {})
    BY <1>1, NoWindowAssumption DEF ClosedUnder
  <2> QED BY <2>1, FamilyFacts
<1>5. \A w : ~IsRegistered(win, w)
  BY DEF Init, IsRegistered, Fresh
<1> QED BY <1>1, <1>2, <1>3, <1>4, <1>5 DEF StackInv, Stacks, NoLoop

\* The stack forgets the window before the registry does.
LEMMA DestroyToplevelStacks ==
  ASSUME Inv, StackInv, NEW id \in Windows, DestroyToplevel(id) PROVE StackInv'
<1> DEFINE W == [win EXCEPT ![id] = Fresh("Destroyed")]
           R == StackRemove(stk, id)
<1>1. Stacks(R, W, closeAsked \ {id})
  BY DestroyStacks DEF DestroyToplevel
<1>2. PICK t \in FallbackTargets(R, win, id) : stk' = StkAfterHide(act, R, id, t)
  BY DEF DestroyToplevel
<1>3. win' = W /\ closeAsked' = closeAsked \ {id}
  BY DEF DestroyToplevel
<1> HIDE DEF R, W
<1>4. Stacks(stk', win', closeAsked')
  BY <1>1, <1>2, <1>3, HideStacks
<1> QED BY <1>4 DEF StackInv

\* A minimized window stays in the stack.
LEMMA MinimizeStacks == ASSUME Inv, StackInv, NEW id \in Windows, Minimize(id) PROVE StackInv'
<1> DEFINE r     == [win[id] EXCEPT !.state = "Minimized", !.visible = FALSE]
           quiet == [act EXCEPT !.flagged = @ \ {id},
                                !.reg = IF id \in act.flagged /\ @ = id THEN NoWindow ELSE @]
<1>1. id \in Registered /\ closeAsked' = closeAsked /\ Stacks(stk, win, closeAsked)
  BY DEF Minimize, StackInv
<1>2. CASE win[id].state = "Minimized"
  <2>1. /\ win = [win EXCEPT ![id] = win[id]] /\ win[id] \in WindowRecord
        /\ win[id].life \in {"Initializing", "Visible", "Closing"}
    BY <1>1 DEF Inv, TypeInv, Registered, IsRegistered
  <2>2. HideWith([win EXCEPT ![id] = win[id]], act, stk, id)
    BY <1>2, <2>1 DEF Minimize
  <2>3. Stacks(stk', win', closeAsked)
    BY <1>1, <2>1, <2>2, HideWithStacks
  <2> QED BY <1>1, <2>3 DEF StackInv
<1>3. CASE win[id].state # "Minimized"
  <2>1. HideWith([win EXCEPT ![id] = r], quiet, stk, id)
    <3>1. [win EXCEPT ![id] = r] = [win EXCEPT ![id].state = "Minimized", ![id].visible = FALSE]
      BY DEF Inv, TypeInv, WindowRecord
    <3> QED BY <1>3, <3>1 DEF Minimize
  <2>2. /\ r \in WindowRecord /\ r.parent = win[id].parent
        /\ r.life \in {"Initializing", "Visible", "Closing"}
    BY <1>1, StatesAssumption DEF Inv, TypeInv, WindowRecord, Registered, IsRegistered
  <2> HIDE DEF r, quiet
  <2>3. Stacks(stk', win', closeAsked)
    BY <1>1, <2>1, <2>2, HideWithStacks
  <2> QED BY <1>1, <2>3 DEF StackInv
<1> QED BY <1>2, <1>3

\* A window that was asked to close leaves the stack and stays registered.
LEMMA CloseStacks == ASSUME Inv, StackInv, NEW id \in Windows, Close(id) PROVE StackInv'
<1> DEFINE r == [win[id] EXCEPT !.life = IF @ = "Visible" THEN "Closing" ELSE @]
           R == StackRemove(stk, id)
           C == closeAsked \cup {id}
<1>1. id \in Registered /\ HideWith([win EXCEPT ![id] = r], act, R, id) /\ closeAsked' = C
  <2>1. [win EXCEPT ![id] = r] = [win EXCEPT ![id].life = IF @ = "Visible" THEN "Closing" ELSE @]
    BY DEF Inv, TypeInv, WindowRecord
  <2> QED BY <2>1 DEF Close
<1>2. /\ r \in WindowRecord /\ r.life \in {"Initializing", "Visible", "Closing"}
      /\ r.parent = win[id].parent
  BY <1>1 DEF Inv, TypeInv, WindowRecord, Registered, IsRegistered, Lives
<1>3. Stacks(R, win, C)
  BY RemoveStacks DEF StackInv
<1> HIDE DEF r, R, C
<1>4. Stacks(stk', win', C)
  BY <1>1, <1>2, <1>3, HideWithStacks
<1> QED BY <1>1, <1>4 DEF StackInv

\* Nobody is its own parent, which lower() needs: it takes the children out first.
LEMMA NotOwnParent == ASSUME StackInv, NEW id \in Windows PROVE stk.par[id] # id
<1>1. SUFFICES ASSUME stk.par[id] = id PROVE FALSE
  OBVIOUS
<1>2. id \in Family(stk, id)
  BY <1>1, FamilyFacts DEF ClosedUnder
<1> QED BY <1>2 DEF StackInv, Stacks, NoLoop

\* lower() keeps the shape of the z-order.
LEMMA LowerStacks == ASSUME StackInv, NEW id \in Windows, Lower(id) PROVE StackInv'
<1> DEFINE R == StackLower(stk, id)
<1>1. Stacks(stk, win, closeAsked) /\ StackOK(stk) /\ NoLoop(stk)
  BY DEF StackInv, Stacks
<1>2. stk.par[id] # id
  BY NotOwnParent
<1>3. StackOK(R) /\ Stacked(R) = Stacked(stk) /\ R.par = stk.par
  BY <1>1, <1>2, StackLowerFacts
<1>4. stk' = R /\ win' = win /\ closeAsked' = closeAsked
  BY DEF Lower
<1> HIDE DEF R
<1>5. NoLoop(R)
  BY <1>1, <1>3, NoLoopShrinks
<1>6. Stacks(R, win, closeAsked)
  BY <1>1, <1>3, <1>5 DEF Stacks
<1> QED BY <1>4, <1>6 DEF StackInv

\* Every action preserves the shape of the z-order.
LEMMA NextStacks == ASSUME Inv, StackInv, [Next]_vars PROVE StackInv'
<1>1. CASE UNCHANGED vars
  BY <1>1 DEF vars, StackInv
<1>2. ASSUME NEW id \in Windows, Commit(id) PROVE StackInv'
  <2> DEFINE r == [win[id] EXCEPT !.life = "Visible", !.visible = TRUE]
  <2>1. r \in WindowRecord /\ r.life = "Visible" /\ r.parent = win[id].parent /\ id \in Registered
    BY <1>2 DEF Commit, Inv, TypeInv, WindowRecord, Lives, Registered, IsRegistered
  <2>2. NotifyState([win EXCEPT ![id] = r], act, id) /\ closeAsked' = closeAsked
    <3>1. [win EXCEPT ![id] = r] = [win EXCEPT ![id].life = "Visible", ![id].visible = TRUE]
      BY DEF Inv, TypeInv, WindowRecord
    <3> QED BY <1>2, <3>1 DEF Commit
  <2> HIDE DEF r
  <2> QED BY <2>1, <2>2, NotifyStacks
<1>3. ASSUME NEW id \in Windows, NEW s \in States, ClientSetState(id, s) PROVE StackInv'
  <2> DEFINE r == [win[id] EXCEPT !.state = s]
  <2>1. /\ r \in WindowRecord /\ id \in Registered /\ r.life \in {"Initializing", "Visible", "Closing"}
        /\ r.parent = win[id].parent
    BY <1>3 DEF ClientSetState, Inv, TypeInv, WindowRecord, Registered, IsRegistered
  <2>2. NotifyState([win EXCEPT ![id] = r], act, id) /\ closeAsked' = closeAsked
    <3>1. [win EXCEPT ![id] = r] = [win EXCEPT ![id].state = s]
      BY DEF Inv, TypeInv, WindowRecord
    <3> QED BY <1>3, <3>1 DEF ClientSetState
  <2> HIDE DEF r
  <2> QED BY <2>1, <2>2, NotifyStacks
<1>4. ASSUME NEW id \in Windows, Restore(id) PROVE StackInv'
  <2> DEFINE r == [win[id] EXCEPT !.state = "Normal", !.visible = (win[id].state = "Minimized") \/ @]
  <2>1. /\ r \in WindowRecord /\ id \in Registered /\ r.parent = win[id].parent
        /\ r.life \in {"Initializing", "Visible", "Closing"}
    BY <1>4, StatesAssumption DEF Restore, Inv, TypeInv, WindowRecord, Registered, IsRegistered
  <2>2. win' = [win EXCEPT ![id] = r] /\ UNCHANGED <<stk, closeAsked>>
    BY <1>4 DEF Restore, Inv, TypeInv, WindowRecord
  <2> HIDE DEF r
  <2> QED BY <2>1, <2>2, KeepStacks
<1>5. ASSUME NEW id \in Windows, NEW s \in States \cap {"Maximized", "Fullscreen"}, Enlarge(id, s)
      PROVE  StackInv'
  <2> DEFINE r == [win[id] EXCEPT !.state = s]
  <2>1. /\ r \in WindowRecord /\ id \in Registered /\ r.parent = win[id].parent
        /\ r.life \in {"Initializing", "Visible", "Closing"}
    BY <1>5 DEF Enlarge, Inv, TypeInv, WindowRecord, Registered, IsRegistered
  <2>2. win' = [win EXCEPT ![id] = r] /\ UNCHANGED <<stk, closeAsked>>
    BY <1>5 DEF Enlarge, Inv, TypeInv, WindowRecord
  <2> HIDE DEF r
  <2> QED BY <2>1, <2>2, KeepStacks
<1>6. ASSUME NEW id \in Windows, Activate(id) \/ Raise(id) \/ StartDrag(id) PROVE StackInv'
  <2>1. stk' = StackRaise(stk, id) /\ win' = win /\ closeAsked' = closeAsked
    BY <1>6 DEF Activate, Raise, StartDrag
  <2> QED BY <2>1, RaiseStacks DEF StackInv
<1>7. ASSUME EndDrag PROVE StackInv'
  BY <1>7 DEF EndDrag, StackInv
<1>8. ASSUME NEW id \in Windows, CoreStep(id) PROVE StackInv'
  BY <1>2, <1>6, <1>8, GetToplevelStacks, DestroyToplevelStacks DEF CoreStep
<1>9. ASSUME NEW id \in Windows, FamilyStep(id) PROVE StackInv'
  BY <1>9, SetParentStacks DEF FamilyStep
<1>10. ASSUME NEW id \in Windows, MinimizeStep(id) PROVE StackInv'
  BY <1>4, <1>5, <1>10, MinimizeStacks DEF MinimizeStep
<1> QED BY <1>1, <1>3, <1>6, <1>7, <1>8, <1>9, <1>10, CloseStacks, LowerStacks DEF Next, StateStep

\* The shape of the z-order holds in every reachable state.
THEOREM StackInvariance == Spec => []StackInv
<1> QED BY InitStacks, NextStacks, Invariance, PTL DEF Spec

\* The values of all variables, the z-order included, are what TypeOK says.
THEOREM TypeCorrect == Spec => []TypeOK
<1>1. Inv /\ StackInv => TypeOK
  BY DEF Inv, TypeInv, StackInv, Stacks, StackOK, StackType, TypeOK
<1> QED BY <1>1, Invariance, StackInvariance, PTL

\* The z-order has no window twice, only registered windows, and every registered
\* window that nobody has asked to close.
THEOREM StackShape == Spec => []StackHoldsOpenWindows
<1>1. StackInv => StackHoldsOpenWindows
  <2> SUFFICES ASSUME StackInv PROVE StackHoldsOpenWindows
    OBVIOUS
  <2>1. Distinct(stk.seq) /\ Stacked(stk) \subseteq Windows
    BY StackTyped DEF StackInv, Stacks
  <2> QED BY <2>1 DEF StackInv, Stacks, StackHoldsOpenWindows, Distinct, Registered
<1> QED BY <1>1, StackInvariance, PTL
-------------------------------------------------------------------------------
(* Where the focus goes.                                                     *)

\* ActivationLiftsFamily and FallbackIsTopmost, as actions.
LiftStep ==
  LET f == act'.focus
  IN  f # act.focus /\ f \in Stacked(stk') => Above(stk', f) = Family(stk', f)

FallbackStep ==
  LET f    == act.focus
      lost == f \in Stacked(stk) /\ (f \notin Stacked(stk') \/ win'[f].state = "Minimized")
  IN  lost => act'.focus = TopShown(stk, win', f)

\* The step ends in a raise of the window that has the focus then.
Lifts == \E S : StackOK(S) /\ NoLoop(S) /\ stk' = StackRaise(S, act'.focus)

\* Such a raise puts the family of the window above it and nothing else.
LEMMA LiftsLifts == ASSUME Lifts PROVE LiftStep
<1> DEFINE f == act'.focus
<1>1. SUFFICES ASSUME f \in Stacked(stk') PROVE Above(stk', f) = Family(stk', f)
  BY DEF LiftStep
<1>2. PICK S : StackOK(S) /\ NoLoop(S) /\ stk' = StackRaise(S, f)
  BY DEF Lifts
<1> DEFINE R == StackRaise(S, f)
<1>3. R = stk'
  BY <1>2
<1> HIDE DEF R, f
<1>4. f \in Windows
  <2>1. CASE f \in Stacked(S)
    BY <2>1, <1>2, StackTyped
  <2>2. CASE f \notin Stacked(S)
    <3>1. R = S
      BY <2>2 DEF R, StackRaise
    <3> QED BY <3>1, <2>2, <1>1, <1>3
  <2> QED BY <2>1, <2>2
<1>5. Stacked(R) = Stacked(S) /\ R.par = S.par
  BY <1>2, <1>4, StackRaiseFacts DEF R
<1>6. Above(R, f) = Family(S, f)
  <2>1. f \in Stacked(S)
    BY <1>1, <1>3, <1>5
  <2> QED BY <2>1, <1>2, RaiseLifts DEF R
<1>7. Family(R, f) = Family(S, f)
  BY <1>5 DEF Family
<1> QED BY <1>3, <1>6, <1>7

\* The fallback lifts the window that it gives the focus to.
LEMMA HideLifts ==
  ASSUME NEW A, NEW S, StackOK(S), NoLoop(S), NEW V, NEW id, NEW t \in FallbackTargets(S, V, id),
         act'.focus = ActAfterHide(A, id, t).focus, stk' = StkAfterHide(A, S, id, t),
         act'.focus # A.focus, act'.focus # NoWindow
  PROVE  Lifts
<1>1. A.focus = id /\ t # NoWindow /\ act'.focus = t
  BY DEF ActAfterHide, Activated
<1>2. stk' = StackRaise(S, t)
  BY <1>1 DEF StkAfterHide
<1> QED BY <1>1, <1>2 DEF Lifts

\* So do the handlers that end in the fallback.
LEMMA HideWithLifts ==
  ASSUME NEW W, NEW A, A.focus = act.focus, NEW S, StackOK(S), NoLoop(S), NEW id,
         HideWith(W, A, S, id), act'.focus # act.focus, act'.focus # NoWindow
  PROVE  Lifts
<1>1. PICK t \in FallbackTargets(S, W, id) : act' = ActAfterHide(A, id, t) /\ stk' = StkAfterHide(A, S, id, t)
  BY DEF HideWith
<1> QED BY <1>1, HideLifts

\* What close and destroy leave of the stack.
LEMMA RemovedOK ==
  ASSUME StackInv, NEW id \in Windows
  PROVE  StackOK(StackRemove(stk, id)) /\ NoLoop(StackRemove(stk, id))
BY RemoveStacks DEF StackInv, Stacks

\* Every action that moves the focus ends in a raise of the new window.
LEMMA NextLifts == ASSUME Inv, StackInv, [Next]_vars PROVE LiftStep
<1>1. SUFFICES ASSUME act'.focus # act.focus, act'.focus \in Stacked(stk') PROVE Lifts
  BY LiftsLifts DEF LiftStep
<1>2. StackOK(stk) /\ NoLoop(stk)
  BY DEF StackInv, Stacks
<1>3. act'.focus # NoWindow
  <2>1. Stacked(stk') \subseteq Windows
    BY NextStacks, StackTyped DEF StackInv, Stacks
  <2> QED BY <1>1, <2>1, NoWindowAssumption
<1>4. ASSUME NEW id \in Windows, GetToplevel(id) PROVE Lifts
  <2> DEFINE R == StackAdd(stk, id, NoWindow)
  <2>1. act'.focus = id /\ stk' = StackRaise(R, id)
    BY <1>4 DEF GetToplevel, Activated
  <2>2. /\ StackOK(R) /\ R.par[id] = NoWindow
        /\ \A w \in Windows \ {id} : R.par[w] \in {stk.par[w], NoWindow}
    BY <1>2, StackAddFacts, NoWindowAssumption
  <2> HIDE DEF R
  <2>3. NoLoop(R)
    BY <1>2, <2>2, NoLoopShrinks
  <2> QED BY <2>1, <2>2, <2>3 DEF Lifts
<1>5. ASSUME NEW id \in Windows, DestroyToplevel(id) PROVE Lifts
  <2> DEFINE R == StackRemove(stk, id)
  <2>1. PICK t \in FallbackTargets(R, win, id) :
          /\ act' = Erased(ActAfterHide(act, id, t), id, OrderWithout(id))
          /\ stk' = StkAfterHide(act, R, id, t)
    BY <1>5 DEF DestroyToplevel
  <2>2. StackOK(R) /\ NoLoop(R)
    BY RemovedOK
  <2> HIDE DEF R
  <2>3. act'.focus = ActAfterHide(act, id, t).focus
    BY <2>1 DEF Erased, ActAfterHide, Activated, Inv, TypeInv
  <2> QED BY <1>1, <1>3, <2>1, <2>2, <2>3, HideLifts
<1>6. ASSUME NEW id \in Windows, Close(id) PROVE Lifts
  <2> DEFINE R == StackRemove(stk, id)
             W == [win EXCEPT ![id].life = IF @ = "Visible" THEN "Closing" ELSE @]
  <2>1. HideWith(W, act, R, id) /\ StackOK(R) /\ NoLoop(R)
    BY <1>6, RemovedOK DEF Close
  <2> HIDE DEF R, W
  <2> QED BY <1>1, <1>3, <2>1, HideWithLifts
<1>7. ASSUME NEW id \in Windows, Minimize(id) PROVE Lifts
  <2> DEFINE W     == [win EXCEPT ![id].state = "Minimized", ![id].visible = FALSE]
             quiet == [act EXCEPT !.flagged = @ \ {id},
                                  !.reg = IF id \in act.flagged /\ @ = id THEN NoWindow ELSE @]
  <2>1. HideWith(win, act, stk, id) \/ HideWith(W, quiet, stk, id)
    BY <1>7 DEF Minimize
  <2>2. quiet.focus = act.focus
    BY DEF Inv, TypeInv
  <2> HIDE DEF W, quiet
  <2> QED BY <1>1, <1>2, <1>3, <2>1, <2>2, HideWithLifts
<1>8. ASSUME NEW W, NEW id, NotifyState(W, act, id) PROVE Lifts
  BY <1>1, <1>2, <1>3, <1>8, HideWithLifts DEF NotifyState
<1>9. ASSUME NEW id \in Windows, Activate(id) \/ StartDrag(id) PROVE Lifts
  <2>1. stk' = StackRaise(stk, id) /\ act'.focus = id
    BY <1>1, <1>9 DEF Activate, StartDrag, Activated
  <2> QED BY <1>2, <2>1 DEF Lifts
<1>10. ASSUME NEW id \in Windows, CoreStep(id) PROVE Lifts
  BY <1>4, <1>5, <1>8, <1>9, <1>10 DEF CoreStep, Commit
<1>11. ASSUME NEW id \in Windows, StateStep(id) PROVE Lifts
  BY <1>8, <1>11 DEF StateStep, ClientSetState
<1>12. ASSUME NEW id \in Windows, MinimizeStep(id) PROVE Lifts
  BY <1>1, <1>7, <1>12 DEF MinimizeStep, Restore, Enlarge
<1>13. ASSUME NEW id \in Windows, FamilyStep(id) \/ Raise(id) \/ Lower(id) \/ EndDrag PROVE Lifts
  BY <1>1, <1>13 DEF FamilyStep, SetParent, Raise, Lower, EndDrag
<1>14. ~ UNCHANGED vars
  BY <1>1 DEF vars
<1> QED BY <1>6, <1>9, <1>10, <1>11, <1>12, <1>13, <1>14 DEF Next

\* A window that gets the focus ends on top of the z-order, under nothing but its
\* own descendants, for families of any depth.
THEOREM FocusLifts == Spec => ActivationLiftsFamily
<1>1. (Inv /\ StackInv) /\ [Next]_vars => [LiftStep]_vars
  BY NextLifts
<1>2. ActivationLiftsFamily <=> [][LiftStep]_vars
  BY PTL DEF ActivationLiftsFamily, LiftStep
<1> QED BY <1>1, <1>2, Invariance, StackInvariance, PTL DEF Spec
\* The sequences order the windows other than id in the same way.
SameOrder(s, q, id) ==
  /\ ToSet(s) \ {id} = ToSet(q) \ {id}
  /\ \A x, y \in Windows \ {id} : Before(s, x, y) <=> Before(q, x, y)

\* The window that the fallback finds in the stack S is the topmost of those that a
\* user can see in stk.
LEMMA FallbackTops ==
  ASSUME NEW P, P.seq \in Seq(Windows), Distinct(P.seq), NEW S, S.seq \in Seq(Windows), Distinct(S.seq),
         NEW id, SameOrder(S.seq, P.seq, id),
         NEW V, NEW W, \A x \in Windows \ {id} : Showable(V, x) <=> Showable(W, x),
         NEW t \in FallbackTargets(S, V, id)
  PROVE  t = TopShown(P, W, id)
<1> DEFINE K == {x \in Windows : x # id /\ Showable(W, x)}
           k == Kept(P.seq, K)
           s == S.seq
           Fits(i) == Showable(V, s[i]) /\ s[i] # id
<1>1. /\ k \in Seq(Windows) /\ ToSet(k) = ToSet(P.seq) \cap K /\ Distinct(k)
      /\ \A x, y \in K : Before(k, x, y) <=> Before(P.seq, x, y)
  <2> HIDE DEF K
  <2> QED BY KeptFacts
<1>2. TopShown(P, W, id) = IF k = <<>> THEN NoWindow ELSE Last(k)
  BY DEF TopShown
<1>3. \/ t = NoWindow /\ \A i \in DOMAIN s : ~Fits(i)
      \/ \E i \in DOMAIN s : t = s[i] /\ Fits(i) /\ \A j \in DOMAIN s : j > i => ~Fits(j)
  BY DEF FallbackTargets
<1>4. \A i \in DOMAIN s : Fits(i) <=> s[i] \in K
  BY DEF Showable, IsRegistered
<1>5. K \subseteq Windows \ {id} /\ ToSet(s) \cap K = ToSet(k)
  BY <1>1 DEF SameOrder
<1> HIDE DEF K, k, Fits, s
<1>6. CASE t = NoWindow /\ \A i \in DOMAIN s : ~Fits(i)
  <2>1. ToSet(k) = {}
    BY <1>4, <1>5, <1>6 DEF ToSet
  <2>2. k = <<>>
    <3>1. Len(k) \in Nat /\ DOMAIN k = 1 .. Len(k)
      BY <1>1
    <3>2. ~ (1 \in DOMAIN k)
      BY <2>1 DEF ToSet
    <3>3. Len(k) = 0
      BY <3>1, <3>2
    <3> QED BY <1>1, <3>3
  <2> QED BY <1>2, <1>6, <2>2
<1>7. CASE \E i \in DOMAIN s : t = s[i] /\ Fits(i) /\ \A j \in DOMAIN s : j > i => ~Fits(j)
  <2>1. PICK i \in DOMAIN s : t = s[i] /\ Fits(i) /\ \A j \in DOMAIN s : j > i => ~Fits(j)
    BY <1>7
  <2>2. t \in K /\ t \in ToSet(k)
    BY <1>4, <1>5, <2>1 DEF ToSet
  <2>3. PICK a \in DOMAIN k : k[a] = t
    BY <2>2 DEF ToSet
  <2> DEFINE z == k[Len(k)]
  <2>4. Len(k) \in DOMAIN k /\ k # <<>> /\ a \in Nat /\ Len(k) \in Nat /\ a <= Len(k)
    BY <1>1, <2>3
  <2>5. TopShown(P, W, id) = z
    BY <1>2, <2>4 DEF Last
  <2>6. ASSUME z # t PROVE FALSE
    <3>1. a < Len(k)
      BY <2>3, <2>4, <2>6
    <3>2. Before(k, t, z) /\ z \in K
      BY <1>1, <2>3, <2>4, <3>1 DEF Before, ToSet
    <3>3. Before(s, t, z)
      BY <1>1, <1>5, <2>2, <3>2 DEF SameOrder, s
    <3>4. PICK b, c \in DOMAIN s : b < c /\ s[b] = t /\ s[c] = z
      BY <3>3 DEF Before
    <3>5. b = i
      BY <2>1, <3>4 DEF Distinct, s
    <3>6. c > i /\ Fits(c)
      <4>1. b \in Nat /\ c \in Nat
        BY <3>4 DEF s
      <4> QED BY <4>1, <1>4, <3>2, <3>4, <3>5
    <3> QED BY <2>1, <3>4, <3>6
  <2> QED BY <2>5, <2>6
<1> QED BY <1>3, <1>6, <1>7

\* minimize() runs the fallback on the stack as it is.
LEMMA SameOrderAll == ASSUME NEW s, NEW id PROVE SameOrder(s, s, id)
BY DEF SameOrder

\* close() and destroy run it on the stack without the window.
LEMMA SameOrderRemoved ==
  ASSUME StackInv, NEW id \in Windows
  PROVE  /\ StackOK(StackRemove(stk, id)) /\ SameOrder(StackRemove(stk, id).seq, stk.seq, id)
         /\ Stacked(StackRemove(stk, id)) = Stacked(stk) \ {id}
<1> DEFINE R == StackRemove(stk, id)
<1>1. /\ StackOK(R) /\ Stacked(R) = Stacked(stk) \ {id}
      /\ \A x, y \in Windows \ {id} : Before(R.seq, x, y) <=> Before(stk.seq, x, y)
  BY StackRemoveFacts DEF StackInv, Stacks
<1> HIDE DEF R
<1>2. SameOrder(R.seq, stk.seq, id)
  BY <1>1 DEF SameOrder, Stacked
<1> QED BY <1>1, <1>2 DEF R

\* A step that keeps the window with the focus on the screen has nothing to hand on.
LEMMA KeptFocus ==
  ASSUME act.focus \in Stacked(stk) => act.focus \in Stacked(stk') /\ win'[act.focus].state # "Minimized"
  PROVE  FallbackStep
BY DEF FallbackStep

\* The end of a handler that hides id: if id had the focus, it goes to the topmost
\* window that is left.
LEMMA HideFallsBack ==
  ASSUME Inv, StackInv, NEW id \in Windows, NEW S, StackOK(S), SameOrder(S.seq, stk.seq, id), NEW A,
         A.focus = act.focus, NEW V, NEW t \in FallbackTargets(S, V, id),
         \A x \in Windows \ {id} : Showable(V, x) <=> Showable(win', x),
         \A x \in Windows \ {id} : win'[x].state = win[x].state,
         act'.focus = ActAfterHide(A, id, t).focus, A \in ActType, stk' = StkAfterHide(A, S, id, t)
  PROVE  FallbackStep
<1>1. CASE act.focus = id
  <2>1. t = TopShown(stk, win', id)
    BY FallbackTops, StackTyped DEF StackInv, Stacks
  <2>2. act'.focus = t
    BY <1>1 DEF ActAfterHide, Activated, ActType
  <2> QED BY <1>1, <2>1, <2>2 DEF FallbackStep
<1>2. CASE act.focus # id
  <2>1. stk' = S
    BY <1>2 DEF StkAfterHide
  <2>2. SUFFICES ASSUME act.focus \in Stacked(stk)
                 PROVE  act.focus \in Stacked(stk') /\ win'[act.focus].state # "Minimized"
    BY KeptFocus
  <2>3. act.focus \in Windows \ {id} /\ act.focus # NoWindow
    BY <1>2, <2>2, StackTyped, NoWindowAssumption DEF StackInv, Stacks
  <2>4. act.focus \in Stacked(S)
    BY <1>2, <2>2 DEF SameOrder, Stacked
  <2> QED BY <2>1, <2>3, <2>4 DEF Inv, FocusInv
<1> QED BY <1>1, <1>2

\* The same for HideWith, where only the record of id changes.
LEMMA HideWithFallsBack ==
  ASSUME Inv, StackInv, NEW id \in Windows, NEW S, StackOK(S), SameOrder(S.seq, stk.seq, id),
         NEW A \in ActType, A.focus = act.focus, NEW W, \A x \in Windows \ {id} : W[x] = win[x],
         HideWith(W, A, S, id)
  PROVE  FallbackStep
<1>1. PICK t \in FallbackTargets(S, W, id) :
        win' = W /\ act' = ActAfterHide(A, id, t) /\ stk' = StkAfterHide(A, S, id, t)
  BY DEF HideWith
<1>2. \A x \in Windows \ {id} : win'[x].state = win[x].state
  BY <1>1
<1> QED BY <1>1, <1>2, HideFallsBack
\* Every action that takes the focused window off the screen runs the fallback.
LEMMA NextFallsBack == ASSUME Inv, StackInv, [Next]_vars PROVE FallbackStep
<1> DEFINE f == act.focus
<1>1. StackOK(stk) /\ SameOrder(stk.seq, stk.seq, f) /\ Stacked(stk) \subseteq Windows /\ act \in ActType
  BY SameOrderAll, StackTyped DEF StackInv, Stacks, Inv, TypeInv, ActType
<1>2. f # NoWindow => f \in Registered /\ win[f].state # "Minimized"
  BY DEF Inv, TypeInv, ActType, FocusInv, Registered, IsRegistered
<1>3. f \in Stacked(stk) => f \in Windows /\ f # NoWindow
  BY <1>1, NoWindowAssumption
<1>4. ASSUME Stacked(stk) \subseteq Stacked(stk'), f # NoWindow => win'[f].state # "Minimized" PROVE FallbackStep
  BY <1>3, <1>4, KeptFocus
<1>5. ASSUME NEW id \in Windows, GetToplevel(id) PROVE FallbackStep
  <2> DEFINE R == StackAdd(stk, id, NoWindow)
  <2>1. StackOK(R) /\ Stacked(R) = Stacked(stk) \cup {id}
    BY <1>1, StackAddFacts, NoWindowAssumption
  <2>2. Stacked(StackRaise(R, id)) = Stacked(R)
    BY <2>1, StackRaiseFacts
  <2>3. id # f /\ stk' = StackRaise(R, id) /\ win' = [win EXCEPT ![id] = Fresh("Initializing")]
    BY <1>2, <1>5, NoWindowAssumption DEF GetToplevel, Registered, IsRegistered
  <2>4. f # NoWindow => win'[f] = win[f]
    BY <1>2, <2>3 DEF Registered, Inv, TypeInv
  <2> QED BY <1>2, <1>4, <2>1, <2>2, <2>3, <2>4
<1>6. ASSUME NEW id \in Windows, NEW p \in Windows \cup {NoWindow}, SetParent(id, p) PROVE FallbackStep
  <2>1. p # id
    BY <1>6, NoWindowAssumption DEF SetParent
  <2>2. Stacked(stk') = Stacked(stk) \cup {id}
    BY <1>1, <1>6, <2>1, StackAddFacts DEF SetParent
  <2>3. f # NoWindow => win'[f].state = win[f].state
    BY <1>2, <1>6 DEF SetParent, Registered, Inv, TypeInv, WindowRecord
  <2> QED BY <1>2, <1>4, <2>2, <2>3
<1>7. ASSUME NEW id \in Windows, Activate(id) \/ Raise(id) \/ StartDrag(id) PROVE FallbackStep
  <2>1. stk' = StackRaise(stk, id) /\ win' = win
    BY <1>7 DEF Activate, Raise, StartDrag
  <2> QED BY <1>1, <1>2, <1>4, <2>1, StackRaiseFacts
<1>8. ASSUME NEW id \in Windows, Lower(id) PROVE FallbackStep
  <2>1. Stacked(stk') = Stacked(stk) /\ win' = win
    BY <1>1, <1>8, NotOwnParent, StackLowerFacts DEF Lower
  <2> QED BY <1>2, <1>4, <2>1
<1>9. ASSUME NEW id \in Windows, Restore(id) PROVE FallbackStep
  <2>1. stk' = stk /\ (f # NoWindow => win'[f].state # "Minimized")
    BY <1>2, <1>9 DEF Restore, Registered, Inv, TypeInv, WindowRecord
  <2> QED BY <1>4, <2>1
<1>10. ASSUME NEW id \in Windows, NEW s \in States \cap {"Maximized", "Fullscreen"}, Enlarge(id, s)
       PROVE  FallbackStep
  <2>1. stk' = stk /\ (f # NoWindow => win'[f].state # "Minimized")
    BY <1>2, <1>10 DEF Enlarge, Registered, Inv, TypeInv, WindowRecord
  <2> QED BY <1>4, <2>1
<1>11. ASSUME EndDrag PROVE FallbackStep
  BY <1>2, <1>4, <1>11 DEF EndDrag
<1>12. ASSUME UNCHANGED vars PROVE FallbackStep
  BY <1>2, <1>4, <1>12 DEF vars
<1>13. ASSUME NEW id \in Windows, NEW r, NotifyState([win EXCEPT ![id] = r], act, id) PROVE FallbackStep
  <2> DEFINE W == [win EXCEPT ![id] = r]
  <2>1. \A x \in Windows \ {id} : W[x] = win[x]
    BY DEF Inv, TypeInv
  <2>2. CASE W[id].state = "Minimized"
    <3>1. HideWith(W, act, stk, id)
      BY <1>13, <2>2 DEF NotifyState
    <3> HIDE DEF W
    <3> QED BY <1>1, <2>1, <3>1, SameOrderAll, HideWithFallsBack
  <2>3. CASE W[id].state # "Minimized"
    <3>1. win' = W /\ stk' = stk
      BY <1>13, <2>3 DEF NotifyState
    <3>2. f # NoWindow => W[f].state # "Minimized"
      BY <1>2, <2>1, <2>3 DEF Registered
    <3> QED BY <1>4, <3>1, <3>2
  <2> QED BY <2>2, <2>3
<1>14. ASSUME NEW id \in Windows, Commit(id) PROVE FallbackStep
  <2> DEFINE r == [win[id] EXCEPT !.life = "Visible", !.visible = TRUE]
  <2>1. NotifyState([win EXCEPT ![id] = r], act, id)
    <3>1. [win EXCEPT ![id] = r] = [win EXCEPT ![id].life = "Visible", ![id].visible = TRUE]
      BY DEF Inv, TypeInv, WindowRecord
    <3> QED BY <1>14, <3>1 DEF Commit
  <2> HIDE DEF r
  <2> QED BY <1>13, <2>1
<1>15. ASSUME NEW id \in Windows, NEW s \in States, ClientSetState(id, s) PROVE FallbackStep
  <2> DEFINE r == [win[id] EXCEPT !.state = s]
  <2>1. NotifyState([win EXCEPT ![id] = r], act, id)
    <3>1. [win EXCEPT ![id] = r] = [win EXCEPT ![id].state = s]
      BY DEF Inv, TypeInv, WindowRecord
    <3> QED BY <1>15, <3>1 DEF ClientSetState
  <2> HIDE DEF r
  <2> QED BY <1>13, <2>1
<1>16. ASSUME NEW id \in Windows, Minimize(id) PROVE FallbackStep
  <2> DEFINE W     == [win EXCEPT ![id].state = "Minimized", ![id].visible = FALSE]
             quiet == [act EXCEPT !.flagged = @ \ {id},
                                  !.reg = IF id \in act.flagged /\ @ = id THEN NoWindow ELSE @]
  <2>1. HideWith(win, act, stk, id) \/ HideWith(W, quiet, stk, id)
    BY <1>16 DEF Minimize
  <2>2. quiet.focus = act.focus /\ quiet \in ActType
    BY <1>1 DEF ActType
  <2>3. \A x \in Windows \ {id} : W[x] = win[x]
    BY DEF Inv, TypeInv
  <2> HIDE DEF W, quiet
  <2> QED BY <1>1, <2>1, <2>2, <2>3, SameOrderAll, HideWithFallsBack
<1>17. ASSUME NEW id \in Windows, Close(id) PROVE FallbackStep
  <2> DEFINE R == StackRemove(stk, id)
             W == [win EXCEPT ![id].life = IF @ = "Visible" THEN "Closing" ELSE @]
  <2>1. HideWith(W, act, R, id)
    BY <1>17 DEF Close
  <2>2. StackOK(R) /\ SameOrder(R.seq, stk.seq, id)
    BY SameOrderRemoved
  <2>3. \A x \in Windows \ {id} : W[x] = win[x]
    BY DEF Inv, TypeInv
  <2> HIDE DEF R, W
  <2> QED BY <1>1, <2>1, <2>2, <2>3, HideWithFallsBack
<1>18. ASSUME NEW id \in Windows, DestroyToplevel(id) PROVE FallbackStep
  <2> DEFINE R == StackRemove(stk, id)
  <2>1. PICK t \in FallbackTargets(R, win, id) :
          /\ act' = Erased(ActAfterHide(act, id, t), id, OrderWithout(id))
          /\ stk' = StkAfterHide(act, R, id, t)
    BY <1>18 DEF DestroyToplevel
  <2>2. StackOK(R) /\ SameOrder(R.seq, stk.seq, id)
    BY SameOrderRemoved
  <2> HIDE DEF R
  <2>3. act'.focus = ActAfterHide(act, id, t).focus
    BY <2>1, <1>1 DEF Erased, ActAfterHide, Activated, ActType
  <2>4. \A x \in Windows \ {id} : win'[x] = win[x]
    BY <1>18 DEF DestroyToplevel, Inv, TypeInv
  <2>5. \A x \in Windows \ {id} : Showable(win, x) <=> Showable(win', x)
    BY <2>4 DEF Showable, IsRegistered
  <2> QED BY <1>1, <2>1, <2>2, <2>3, <2>4, <2>5, HideFallsBack
<1> QED
  BY <1>5, <1>6, <1>7, <1>8, <1>9, <1>10, <1>11, <1>12, <1>14, <1>15, <1>16, <1>17, <1>18
  DEF Next, CoreStep, FamilyStep, StateStep, MinimizeStep

\* When the window with the focus is closed, destroyed or minimized, the focus goes
\* to the topmost visible window that is left, or to none when there is none.
THEOREM FocusFallsBack == Spec => FallbackIsTopmost
<1>1. (Inv /\ StackInv) /\ [Next]_vars => [FallbackStep]_vars
  BY NextFallsBack
<1> QED BY <1>1, Invariance, StackInvariance, PTL DEF Spec, FallbackIsTopmost, FallbackStep
===============================================================================

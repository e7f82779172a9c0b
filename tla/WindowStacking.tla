---------------------------- MODULE WindowStacking ----------------------------
(***************************************************************************)
(* The z-order kept by ldde::window::WindowStacking.  The object has two    *)
(* fields: stack_ (bottom first) and parents_ (the transient parent that    *)
(* each stacked window was added with).  Here it is a record                *)
(*     [seq |-> sequence of windows, par |-> [Windows -> Windows or none]]  *)
(* and every method that changes it is an operator from records to records. *)
(* visible_stack() is the only query: it filters seq by the registry's view *)
(* of each window, so it lives with the window system.                      *)
(***************************************************************************)
EXTENDS Integers, Sequences, SequencesExt

CONSTANTS Windows,   \* the WindowIds the registry may hand out
          NoWindow   \* std::nullopt for an optional WindowId

ASSUME NoWindowAssumption == NoWindow \notin Windows

EmptyStacking == [seq |-> <<>>, par |-> [w \in Windows |-> NoWindow]]

\* WindowStacking::contains
Stacked(S) == ToSet(S.seq)

\* The elements of s that are in K, in their order.  (SelectSeq, as a function
\* that the proof system can unfold.)
Kept(s, K) ==
  LET F[i \in 0 .. Len(s)] ==
        IF i = 0 THEN <<>> ELSE IF s[i] \in K THEN Append(F[i - 1], s[i]) ELSE F[i - 1]
  IN  F[Len(s)]

\* The children raise() and lower() collect, in stack order.
ChildrenOf(S, s, id) == Kept(s, {w \in Windows : S.par[w] = id})

\* WindowStacking::remove: the window leaves the stack and its children become
\* orphans of the stacking object.
StackRemove(S, id) ==
  [seq |-> RemoveFirst(S.seq, id),
   par |-> [w \in Windows |-> IF w = id \/ S.par[w] = id THEN NoWindow ELSE S.par[w]]]

\* The place add() gives a child of p: above p and the unbroken run of p's
\* children that already sit on it.
AboveFamily(S, p) ==
  LET at == CHOOSE i \in DOMAIN S.seq : S.seq[i] = p
  IN  CHOOSE i \in at + 1 .. Len(S.seq) + 1 :
        /\ \A j \in at + 1 .. i - 1 : S.par[S.seq[j]] = p
        /\ i = Len(S.seq) + 1 \/ S.par[S.seq[i]] # p

\* Seeded fault: add() does not look whether the window is stacked already.
StackAddAgain(S, id, p) ==
  LET B == [S EXCEPT !.par[id] = p]
  IN  [B EXCEPT !.seq = IF p \in Stacked(B)
                        THEN InsertAt(B.seq, AboveFamily(B, p), id)
                        ELSE Append(B.seq, id)]

\* WindowStacking::add: a window that is already stacked is removed first, and
\* that removal orphans its own children.
StackAdd(S, id, p) ==
  LET base == IF id \in Stacked(S) THEN StackRemove(S, id) ELSE S
      B    == [base EXCEPT !.par[id] = p]
  IN  [B EXCEPT !.seq = IF p \in Stacked(B)
                        THEN InsertAt(B.seq, AboveFamily(B, p), id)
                        ELSE Append(B.seq, id)]

\* WindowStacking::raise_internal of a stacked window
ToTop(s, id) == Append(RemoveFirst(s, id), id)

\* Seeded fault: raise() forgets the children.
StackRaiseAlone(S, id) ==
  IF id \in Stacked(S) THEN [S EXCEPT !.seq = ToTop(@, id)] ELSE S

\* One call of WindowStacking::raise: the window goes to the top, and its children
\* (in the order they had) are raised before whatever else was still to do.
Lift(S, r) ==
  IF r.todo = <<>> THEN r
  ELSE LET w == Head(r.todo)
       IN  [seq |-> ToTop(r.seq, w), todo |-> ChildrenOf(S, r.seq, w) \o Tail(r.todo)]

\* WindowStacking::raise with the calls it makes of itself.  Parents form a forest
\* (see SetParent in WindowSystem), so that there is at most one per stacked window.
StackRaise(S, id) ==
  LET Lifted[n \in Nat] ==
        IF n = 0 THEN [seq |-> S.seq, todo |-> <<id>>] ELSE Lift(S, Lifted[n - 1])
  IN  IF id \in Stacked(S) THEN [S EXCEPT !.seq = Lifted[Len(S.seq)].seq] ELSE S

\* WindowStacking::lower: the window goes to the bottom with its direct children
\* right above it, whatever the position of its own parent.
StackLower(S, id) ==
  LET kids == ChildrenOf(S, S.seq, id)
      rest == Kept(S.seq, {w \in Windows : w # id /\ S.par[w] # id})
  IN  IF id \in Stacked(S) THEN [S EXCEPT !.seq = <<id>> \o kids \o rest] ELSE S
===============================================================================

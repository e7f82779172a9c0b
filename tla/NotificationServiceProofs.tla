----------------------- MODULE NotificationServiceProofs -----------------------
(***************************************************************************)
(* Proofs about NotificationService, for any number of notifications, any    *)
(* sizes of the store and of the screen, and any kinds of content.           *)
(*                                                                           *)
(* The popups are bounded and distinct, their timers match them and no slot  *)
(* is idle while a notification waits: ShownInv.  ToldInv says which ids are  *)
(* on the screen and which ends were told; it is inductive only if it counts  *)
(* what the limit per application has ended, which stays on the screen and   *)
(* is told to nobody.                                                        *)
(***************************************************************************)
EXTENDS NotificationService, FiniteSetTheorems, TLAPS

StoreType == [held : SUBSET Ids, note : [Ids -> NoteRecord]]
ShownType == [popups : Seq(Ids), timers : SUBSET Ids]

Distinct(P) == \A i, j \in DOMAIN P : P[i] = P[j] => i = j

\* s and r hold content of the same kind under every id but those of X.
SameKinds(s, r, X) == \A i \in Ids \ X : r.note[i].kind = s.note[i].kind

\* PopupsBounded, TimersMatchPopups and NoIdleSlot of a store s and a screen sh.
ShownInv(s, sh) ==
  /\ sh \in ShownType
  /\ Distinct(sh.popups)
  /\ Len(sh.popups) <= MaxPopups
  /\ sh.timers = {i \in ToSet(sh.popups) : Expires(s, i)}
  /\ Len(sh.popups) < MaxPopups => Live(s) \subseteq ToSet(sh.popups)

TypeInv ==
  /\ store \in StoreType
  /\ told \in [Ids -> SUBSET Reasons]
  /\ evicted \subseteq Ids
  /\ next \in 1 .. MaxIds + 1
  /\ posts \in 0 .. MaxPosts
  /\ touch \in [on : {"nothing", "popup", "clear", "leave"}, id : Ids \cup {0}]
  /\ touch.on = "popup" => touch.id \in Ids
  /\ center \in BOOLEAN

\* No id is held or evicted before it has been handed out.
HeldInv == store.held \cup evicted \subseteq 1 .. next - 1

\* PopupsAreLive and ClientsKnow
ToldInv == PopupsAreLive /\ ClientsKnow

Inv == TypeInv /\ ShownInv(store, shown) /\ HeldInv /\ ToldInv

-------------------------------------------------------------------------------
(* The store.                                                                  *)

\* prune_history touches nothing that is live and no content.
LEMMA PrunedProps ==
  ASSUME NEW s \in StoreType
  PROVE  /\ Pruned(s) \in StoreType
         /\ Live(Pruned(s)) = Live(s)
         /\ Pruned(s).note = s.note
         /\ Pruned(s).held \subseteq s.held
<1> DEFINE past     == {i \in s.held \ Live(s) : ~s.note[i].kind.transient}
           Older(i) == {j \in past : j < i}
           kept     == {i \in past : Critical(s, i) \/ Cardinality(Older(i)) < MaxHistory}
<1>1. Pruned(s) = [s EXCEPT !.held = Live(s) \cup kept]
  BY DEF Pruned
<1> HIDE DEF kept
<1>2. kept \subseteq s.held \ Live(s)
  BY DEF kept
<1>3. QED
  BY <1>1, <1>2 DEF StoreType, Live

\* Ending an entry takes exactly that one from the live ones.
LEMMA EndedProps ==
  ASSUME NEW s \in StoreType, NEW id \in Ids, NEW how \in HistoryStates
  PROVE  /\ Ended(s, id, how) \in StoreType
         /\ Live(Ended(s, id, how)) = Live(s) \ {id}
         /\ SameKinds(s, Ended(s, id, how), {})
         /\ Ended(s, id, how).held \subseteq s.held
<1> DEFINE r == [s EXCEPT !.note[id].state = how]
<1>1. r \in StoreType /\ Live(r) = Live(s) \ {id} /\ r.held = s.held /\ SameKinds(s, r, {})
  BY DEF StoreType, NoteRecord, Live, LiveStates, HistoryStates, SameKinds
<1>2. QED
  BY <1>1, PrunedProps DEF Ended, SameKinds

LEMMA ClosedProps ==
  ASSUME NEW s \in StoreType, NEW id \in Ids
  PROVE  /\ Closed(s, id) \in StoreType
         /\ Live(Closed(s, id)) = Live(s) \ {id}
         /\ SameKinds(s, Closed(s, id), {})
         /\ Closed(s, id).held \subseteq s.held
<1> DEFINE r == [s EXCEPT !.note[id].state = "Closed"]
<1>1. r \in StoreType /\ Live(r) = Live(s) \ {id} /\ r.held = s.held /\ SameKinds(s, r, {})
  BY DEF StoreType, NoteRecord, Live, LiveStates, HistoryStates, SameKinds
<1>2. id \notin s.held => Live(s) = Live(s) \ {id}
  BY DEF Live
<1>3. QED
  BY <1>1, <1>2, PrunedProps DEF Closed, SameKinds

LEMMA ClearedProps ==
  ASSUME NEW s \in StoreType
  PROVE  /\ Cleared(s) \in StoreType
         /\ Live(Cleared(s)) = Live(s)
         /\ SameKinds(s, Cleared(s), {})
         /\ Cleared(s).held \subseteq s.held
BY DEF Cleared, StoreType, Live, SameKinds

\* The flood limit takes its victims from the live ones and changes nothing else.
LEMMA FloodLimitedProps ==
  ASSUME NEW s \in StoreType, NEW app
  PROVE  /\ FloodLimited(s, app) \in StoreType
         /\ FloodVictims(s, app) \subseteq Live(s)
         /\ Live(FloodLimited(s, app)) = Live(s) \ FloodVictims(s, app)
         /\ FloodLimited(s, app).held = s.held
         /\ SameKinds(s, FloodLimited(s, app), {})
<1> DEFINE victims == FloodVictims(s, app)
           r       == [s EXCEPT !.note = [i \in Ids |->
                         IF i \in victims THEN [s.note[i] EXCEPT !.state = "Expired"] ELSE s.note[i]]]
<1>1. FloodLimited(s, app) = r
  BY DEF FloodLimited
<1>2. victims \subseteq Live(s)
  BY DEF FloodVictims
<1> HIDE DEF victims
<1>3. r \in StoreType /\ Live(r) = Live(s) \ victims /\ r.held = s.held /\ SameKinds(s, r, {})
  BY DEF StoreType, NoteRecord, Live, LiveStates, HistoryStates, SameKinds
<1>4. victims = FloodVictims(s, app)
  BY DEF victims
<1>5. QED
  BY <1>1, <1>2, <1>3, <1>4

\* Posting makes the posted id live, and ends exactly what it evicts.
LEMMA AddedProps ==
  ASSUME NEW s \in StoreType, NEW id \in Ids, NEW kind \in Kinds
  PROVE  /\ AddedOrReplaced(s, id, kind) \in StoreType
         /\ Evicts(s, id, kind) \subseteq Live(s) \ {id}
         /\ Live(AddedOrReplaced(s, id, kind)) = (Live(s) \ Evicts(s, id, kind)) \cup {id}
         /\ SameKinds(s, AddedOrReplaced(s, id, kind), {id})
         /\ AddedOrReplaced(s, id, kind).held \subseteq s.held \cup {id}
<1> DEFINE new == [state |-> "Active", kind |-> kind]
<1>1. CASE id \in s.held
  <2>1. Evicts(s, id, kind) = {}
    BY <1>1 DEF Evicts
  <2>2. QED
    BY <1>1, <2>1 DEF AddedOrReplaced, StoreType, NoteRecord, Live, LiveStates, SameKinds
<1>2. CASE id \notin s.held
  <2> DEFINE l == FloodLimited(s, kind.app)
             v == FloodVictims(s, kind.app)
             r == [held |-> l.held \cup {id}, note |-> [l.note EXCEPT ![id] = new]]
  <2>1. AddedOrReplaced(s, id, kind) = Pruned(r) /\ Evicts(s, id, kind) = v
    BY <1>2 DEF AddedOrReplaced, Evicts
  <2>2. /\ l \in StoreType /\ v \subseteq Live(s) /\ Live(l) = Live(s) \ v
        /\ l.held = s.held /\ SameKinds(s, l, {})
    BY FloodLimitedProps
  <2>3. v \subseteq Live(s) \ {id}
    BY <1>2, <2>2 DEF Live
  <2> HIDE DEF l, v
  <2>4. r \in StoreType
    BY <2>2 DEF StoreType, NoteRecord, LiveStates
  <2>5. Live(r) = Live(l) \cup {id}
    BY <2>2 DEF StoreType, Live, LiveStates
  <2>6. SameKinds(s, r, {id}) /\ r.held = s.held \cup {id}
    BY <2>2 DEF SameKinds, StoreType
  <2> HIDE DEF r
  <2>7. QED
    BY <2>1, <2>2, <2>3, <2>4, <2>5, <2>6, PrunedProps DEF SameKinds
<1>3. QED
  BY <1>1, <1>2

LEMMA MarkedProps ==
  ASSUME NEW s \in StoreType, NEW X
  PROVE  /\ Marked(s, X) \in StoreType
         /\ Live(Marked(s, X)) = Live(s)
         /\ SameKinds(s, Marked(s, X), {})
         /\ Marked(s, X).held = s.held
BY DEF Marked, StoreType, NoteRecord, Live, LiveStates, SameKinds

-------------------------------------------------------------------------------
(* Sequences of popups.                                                        *)

LEMMA WithoutAtProps ==
  ASSUME NEW P \in Seq(Ids), Distinct(P), NEW k \in DOMAIN P
  PROVE  /\ WithoutAt(P, k) \in Seq(Ids)
         /\ Distinct(WithoutAt(P, k))
         /\ Len(WithoutAt(P, k)) = Len(P) - 1
         /\ ToSet(WithoutAt(P, k)) = ToSet(P) \ {P[k]}
<1> DEFINE R == WithoutAt(P, k)
<1>1. k \in 1 .. Len(P) /\ Len(P) \in Nat
  OBVIOUS
<1>2. R = [j \in 1 .. Len(P) - 1 |-> IF j < k THEN P[j] ELSE P[j + 1]]
  BY DEF WithoutAt
<1>3. R \in Seq(Ids) /\ Len(R) = Len(P) - 1 /\ DOMAIN R = 1 .. Len(P) - 1
  <2>1. \A j \in 1 .. Len(P) - 1 : R[j] \in Ids
    BY <1>1, <1>2
  <2>2. R \in [1 .. Len(P) - 1 -> Ids]
    BY <1>2, <2>1
  <2>3. QED
    BY <1>1, <2>2
<1>4. Distinct(R)
  BY <1>1, <1>2, <1>3 DEF Distinct
<1>5. ASSUME NEW j \in DOMAIN R PROVE R[j] \in ToSet(P) \ {P[k]}
  BY <1>1, <1>2, <1>3 DEF ToSet, Distinct
<1>6. ASSUME NEW i \in DOMAIN P, P[i] # P[k] PROVE P[i] \in ToSet(R)
  <2>1. CASE i < k
    <3>1. i \in DOMAIN R /\ R[i] = P[i]
      BY <1>1, <1>2, <1>3, <2>1
    <3>2. QED
      BY <3>1 DEF ToSet
  <2>2. CASE i > k
    <3>1. i - 1 \in DOMAIN R /\ R[i - 1] = P[i]
      BY <1>1, <1>2, <1>3, <2>2
    <3>2. QED
      BY <3>1 DEF ToSet
  <2>3. QED
    BY <1>1, <1>6, <2>1, <2>2
<1>7. ToSet(R) = ToSet(P) \ {P[k]}
  BY <1>5, <1>6 DEF ToSet
<1>8. QED
  BY <1>3, <1>4, <1>7

LEMMA WithoutProps ==
  ASSUME NEW P \in Seq(Ids), Distinct(P), NEW id
  PROVE  /\ Without(P, id) \in Seq(Ids)
         /\ Distinct(Without(P, id))
         /\ Len(Without(P, id)) <= Len(P)
         /\ ToSet(Without(P, id)) = ToSet(P) \ {id}
<1>1. CASE \E i \in DOMAIN P : P[i] = id
  <2> DEFINE k == CHOOSE i \in DOMAIN P : P[i] = id
  <2>1. k \in DOMAIN P /\ P[k] = id
    BY <1>1
  <2>2. Without(P, id) = WithoutAt(P, k)
    BY <1>1 DEF Without
  <2> HIDE DEF k
  <2>3. QED
    BY <2>1, <2>2, WithoutAtProps
<1>2. CASE ~ \E i \in DOMAIN P : P[i] = id
  BY <1>2 DEF Without, ToSet
<1>3. QED
  BY <1>1, <1>2

LEMMA ConcatProps ==
  ASSUME NEW P \in Seq(Ids), NEW q \in Seq(Ids), Distinct(P), Distinct(q),
         ToSet(P) \cap ToSet(q) = {}
  PROVE  /\ P \o q \in Seq(Ids)
         /\ Len(P \o q) = Len(P) + Len(q)
         /\ ToSet(P \o q) = ToSet(P) \cup ToSet(q)
         /\ Distinct(P \o q)
<1> DEFINE R == P \o q
<1>1. /\ R \in Seq(Ids)
      /\ Len(R) = Len(P) + Len(q)
      /\ \A i \in 1 .. Len(R) : R[i] = IF i <= Len(P) THEN P[i] ELSE q[i - Len(P)]
  OBVIOUS
<1>2. DOMAIN P = 1 .. Len(P) /\ DOMAIN q = 1 .. Len(q) /\ DOMAIN R = 1 .. Len(P) + Len(q)
      /\ Len(P) \in Nat /\ Len(q) \in Nat
  BY <1>1
<1> HIDE DEF R
<1>3. ToSet(R) \subseteq ToSet(P) \cup ToSet(q)
  <2>1. ASSUME NEW i \in DOMAIN R PROVE R[i] \in ToSet(P) \cup ToSet(q)
    <3>1. CASE i <= Len(P)
      BY <1>1, <1>2, <3>1 DEF ToSet
    <3>2. CASE i > Len(P)
      <4>1. i - Len(P) \in DOMAIN q /\ R[i] = q[i - Len(P)]
        BY <1>1, <1>2, <3>2
      <4>2. QED
        BY <4>1 DEF ToSet
    <3>3. QED
      BY <1>2, <3>1, <3>2
  <2>2. QED
    BY <2>1 DEF ToSet
<1>4. ToSet(P) \cup ToSet(q) \subseteq ToSet(R)
  <2>1. ASSUME NEW i \in DOMAIN P PROVE P[i] \in ToSet(R)
    <3>1. i \in DOMAIN R /\ R[i] = P[i]
      BY <1>1, <1>2
    <3>2. QED
      BY <3>1 DEF ToSet
  <2>2. ASSUME NEW i \in DOMAIN q PROVE q[i] \in ToSet(R)
    <3>1. i + Len(P) \in DOMAIN R /\ R[i + Len(P)] = q[i]
      BY <1>1, <1>2
    <3>2. QED
      BY <3>1 DEF ToSet
  <2>3. QED
    BY <2>1, <2>2 DEF ToSet
<1>5. Distinct(R)
  <2>1. SUFFICES ASSUME NEW i \in DOMAIN R, NEW j \in DOMAIN R, R[i] = R[j], i < j PROVE FALSE
    BY <1>2 DEF Distinct
  <2>2. CASE j <= Len(P)
    BY <1>1, <1>2, <2>1, <2>2 DEF Distinct
  <2>3. CASE i > Len(P)
    <3>1. i - Len(P) \in DOMAIN q /\ j - Len(P) \in DOMAIN q
      BY <1>2, <2>1, <2>3
    <3>2. R[i] = q[i - Len(P)]
      BY <1>1, <1>2, <2>1, <2>3
    <3>3. R[j] = q[j - Len(P)]
      BY <1>1, <1>2, <2>1, <2>3
    <3>4. i - Len(P) = j - Len(P)
      BY <2>1, <3>1, <3>2, <3>3 DEF Distinct
    <3>5. QED
      BY <1>2, <2>1, <3>4
  <2>4. CASE i <= Len(P) /\ j > Len(P)
    <3>1. i \in DOMAIN P /\ j - Len(P) \in DOMAIN q
      BY <1>2, <2>1, <2>4
    <3>2. R[i] = P[i]
      BY <1>1, <1>2, <2>1, <2>4
    <3>3. R[j] = q[j - Len(P)]
      BY <1>1, <1>2, <2>1, <2>4
    <3>4. P[i] = q[j - Len(P)]
      BY <2>1, <3>2, <3>3
    <3>5. QED
      BY <3>1, <3>4 DEF ToSet
  <2>5. QED
    BY <1>2, <2>1, <2>2, <2>3, <2>4
<1>6. QED
  BY <1>1, <1>3, <1>4, <1>5 DEF R

\* What refresh_visible appends keeps the popups distinct and within bounds, and
\* leaves no slot idle.
LEMMA FillsProps ==
  ASSUME NEW P \in Seq(Ids), Distinct(P), Len(P) <= MaxPopups,
         NEW L \in SUBSET Ids, NEW q \in Fills(P, L)
  PROVE  /\ P \o q \in Seq(Ids)
         /\ Distinct(P \o q)
         /\ Len(P \o q) <= MaxPopups
         /\ ToSet(P \o q) = ToSet(P) \cup ToSet(q)
         /\ ToSet(q) \subseteq L
         /\ Len(P \o q) < MaxPopups => L \subseteq ToSet(P \o q)
<1> DEFINE waiting == L \ ToSet(P)
           room    == IF Len(P) < MaxPopups THEN MaxPopups - Len(P) ELSE 0
<1>1. /\ q \in UNION {[1 .. n -> waiting] : n \in 0 .. room}
      /\ \A i, j \in DOMAIN q : i < j => q[i] > q[j]
      /\ Len(q) = room \/ waiting \subseteq ToSet(q)
  BY DEF Fills
<1>2. PICK n \in 0 .. room : q \in [1 .. n -> waiting]
  BY <1>1
<1>3. room \in Nat /\ Len(P) + room = MaxPopups
  BY BoundsAssumption
<1> HIDE DEF room
<1>4. q \in Seq(Ids) /\ Len(q) = n /\ Len(q) <= room /\ DOMAIN q = 1 .. n
  BY <1>2, <1>3
<1>5. ToSet(q) \subseteq waiting
  BY <1>2, <1>4 DEF ToSet
<1>6. Distinct(q)
  <2>1. SUFFICES ASSUME NEW i \in DOMAIN q, NEW j \in DOMAIN q, q[i] = q[j], i < j PROVE FALSE
    BY <1>4 DEF Distinct
  <2>2. q[i] > q[j]
    BY <1>1, <2>1
  <2>3. q[i] \in Ids
    BY <1>4
  <2>4. QED
    BY <2>1, <2>2, <2>3 DEF Ids
<1>7. /\ P \o q \in Seq(Ids) /\ Len(P \o q) = Len(P) + Len(q)
      /\ ToSet(P \o q) = ToSet(P) \cup ToSet(q) /\ Distinct(P \o q)
  BY <1>4, <1>5, <1>6, ConcatProps
<1>8. Len(P \o q) <= MaxPopups /\ (Len(P \o q) < MaxPopups => Len(q) # room)
  BY <1>3, <1>4, <1>7, BoundsAssumption
<1>9. QED
  BY <1>1, <1>5, <1>7, <1>8

-------------------------------------------------------------------------------
(* The steps.                                                                  *)

\* refresh_visible brings any distinct popups with their timers to ShownInv.
LEMMA RefreshInv ==
  ASSUME NEW s \in StoreType, NEW P \in Seq(Ids), NEW T,
         Distinct(P), Len(P) <= MaxPopups, T = {i \in ToSet(P) : Expires(s, i)},
         Refresh(s, P, T)
  PROVE  /\ store' \in StoreType
         /\ ShownInv(store', shown')
         /\ Live(store') = Live(s)
         /\ store'.held = s.held
         /\ ToSet(shown'.popups) \subseteq ToSet(P) \cup Live(s)
<1>1. PICK q \in Fills(P, Live(s)) :
        /\ store' = Marked(s, ToSet(q))
        /\ shown' = [popups |-> P \o q, timers |-> WithTimers(s, T, ToSet(q))]
  BY DEF Refresh
<1>2. Live(s) \in SUBSET Ids
  BY DEF StoreType, Live
<1>3. /\ P \o q \in Seq(Ids) /\ Distinct(P \o q) /\ Len(P \o q) <= MaxPopups
      /\ ToSet(P \o q) = ToSet(P) \cup ToSet(q) /\ ToSet(q) \subseteq Live(s)
      /\ Len(P \o q) < MaxPopups => Live(s) \subseteq ToSet(P \o q)
  BY <1>2, FillsProps
<1>4. /\ store' \in StoreType /\ Live(store') = Live(s) /\ store'.held = s.held
      /\ SameKinds(s, store', {})
  BY <1>1, MarkedProps
<1>5. ToSet(P) \subseteq Ids
  BY DEF ToSet
<1>6. \A i \in Ids : Expires(store', i) <=> Expires(s, i)
  BY <1>4 DEF SameKinds, Expires, Critical
<1>7. WithTimers(s, T, ToSet(q)) = {i \in ToSet(P \o q) : Expires(store', i)}
  BY <1>2, <1>3, <1>5, <1>6 DEF WithTimers
<1>8. ShownInv(store', shown')
  <2>1. shown' \in ShownType
    BY <1>1, <1>2, <1>3, <1>5, <1>7 DEF ShownType
  <2>2. QED
    BY <2>1, <1>1, <1>3, <1>4, <1>7 DEF ShownInv
<1>9. QED
  BY <1>1, <1>3, <1>4, <1>8

\* The popups and timers that dismiss and expire hand to refresh_visible.
LEMMA WithoutShown ==
  ASSUME ShownInv(store, shown), NEW r \in StoreType, SameKinds(store, r, {}), NEW id \in Ids
  PROVE  /\ Without(shown.popups, id) \in Seq(Ids)
         /\ Distinct(Without(shown.popups, id))
         /\ Len(Without(shown.popups, id)) <= MaxPopups
         /\ ToSet(Without(shown.popups, id)) = ToSet(shown.popups) \ {id}
         /\ shown.timers \ {id} = {i \in ToSet(Without(shown.popups, id)) : Expires(r, i)}
<1> DEFINE P == Without(shown.popups, id)
<1>1. shown.popups \in Seq(Ids) /\ Distinct(shown.popups) /\ Len(shown.popups) <= MaxPopups
  BY DEF ShownInv, ShownType
<1>2. P \in Seq(Ids) /\ Distinct(P) /\ Len(P) <= Len(shown.popups) /\ ToSet(P) = ToSet(shown.popups) \ {id}
  BY <1>1, WithoutProps
<1>3. Len(P) <= MaxPopups
  BY <1>1, <1>2, BoundsAssumption
<1>4. ToSet(shown.popups) \subseteq Ids
  BY <1>1 DEF ToSet
<1>5. \A i \in Ids : Expires(r, i) <=> Expires(store, i)
  BY DEF SameKinds, Expires, Critical
<1>6. shown.timers \ {id} = {i \in ToSet(P) : Expires(r, i)}
  BY <1>2, <1>4, <1>5 DEF ShownInv
<1>7. QED
  BY <1>2, <1>3, <1>6

\* What a dismissal or an expiry does to the state.
LEMMA PresenterEndsInv ==
  ASSUME Inv, NEW id \in Ids, NEW how \in {"Dismissed", "Expired"}, PresenterEnds(id, how)
  PROVE  /\ store' \in StoreType
         /\ ShownInv(store', shown')
         /\ Live(store') = Live(store) \ {id}
         /\ store'.held \subseteq store.held
         /\ ToSet(shown'.popups) \subseteq (ToSet(shown.popups) \ {id}) \cup Live(store')
         /\ told' \in [Ids -> SUBSET Reasons]
         /\ told' = IF id \in Live(store) THEN [told EXCEPT ![id] = @ \cup {how}] ELSE told
<1> DEFINE s == Ended(store, id, how)
           P == Without(shown.popups, id)
           T == shown.timers \ {id}
<1>1. store \in StoreType /\ ShownInv(store, shown) /\ how \in HistoryStates
  BY DEF Inv, TypeInv, HistoryStates
<1>2. /\ s \in StoreType /\ Live(s) = Live(store) \ {id} /\ SameKinds(store, s, {})
      /\ s.held \subseteq store.held
  BY <1>1, EndedProps
<1>3. Refresh(s, P, T)
  BY DEF PresenterEnds
<1> HIDE DEF s
<1>4. /\ P \in Seq(Ids) /\ Distinct(P) /\ Len(P) <= MaxPopups
      /\ ToSet(P) = ToSet(shown.popups) \ {id} /\ T = {i \in ToSet(P) : Expires(s, i)}
  BY <1>1, <1>2, WithoutShown
<1> HIDE DEF P, T
<1>5. /\ store' \in StoreType /\ ShownInv(store', shown') /\ Live(store') = Live(s)
      /\ store'.held = s.held /\ ToSet(shown'.popups) \subseteq ToSet(P) \cup Live(s)
  BY <1>2, <1>3, <1>4, RefreshInv
<1>6. told' = IF id \in Live(store) THEN [told EXCEPT ![id] = @ \cup {how}] ELSE told
  BY DEF PresenterEnds, Told
<1>7. told' \in [Ids -> SUBSET Reasons]
  BY <1>6 DEF Inv, TypeInv, Reasons
<1>8. QED
  BY <1>2, <1>4, <1>5, <1>6, <1>7

\* Every screen that show may make room on, and the timers that stay on it.
LEMMA WithRoomProps ==
  ASSUME ShownInv(store, shown), NEW s \in StoreType, NEW Q \in WithRoom(s, shown.popups)
  PROVE  /\ Q \in Seq(Ids) /\ Distinct(Q) /\ Len(Q) <= MaxPopups
         /\ ToSet(Q) \subseteq ToSet(shown.popups)
         /\ Len(Q) < MaxPopups => Q = shown.popups \/ Len(Q) + 1 = MaxPopups
<1> DEFINE P == shown.popups
           evictable == {i \in DOMAIN P : ~Critical(s, P[i])}
<1>1. P \in Seq(Ids) /\ Distinct(P) /\ Len(P) <= MaxPopups /\ Len(P) \in Nat
  BY DEF ShownInv, ShownType
<1>2. Q = P \/ (Len(P) >= MaxPopups /\ \E k \in DOMAIN P : Q = WithoutAt(P, k))
  BY <1>1, BoundsAssumption DEF WithRoom
<1>3. ASSUME NEW k \in DOMAIN P, Q = WithoutAt(P, k), Len(P) >= MaxPopups
      PROVE  /\ Q \in Seq(Ids) /\ Distinct(Q) /\ Len(Q) <= MaxPopups
             /\ ToSet(Q) \subseteq ToSet(P) /\ Len(Q) + 1 = MaxPopups
  <2>1. /\ Q \in Seq(Ids) /\ Distinct(Q) /\ Len(Q) = Len(P) - 1
        /\ ToSet(Q) = ToSet(P) \ {P[k]}
    BY <1>1, <1>3, WithoutAtProps
  <2>2. QED
    BY <1>1, <1>3, <2>1, BoundsAssumption
<1>4. QED
  BY <1>1, <1>2, <1>3

\* show keeps ShownInv and puts at most the posted id on the screen; s is the store
\* after the post.
LEMMA ShowInv ==
  ASSUME ShownInv(store, shown), NEW s \in StoreType, NEW id \in Ids,
         id \in Live(s), Live(s) \subseteq Live(store) \cup {id}, SameKinds(store, s, {id}),
         Show(s, shown.popups, shown.timers, id)
  PROVE  /\ store' \in StoreType
         /\ ShownInv(store', shown')
         /\ Live(store') = Live(s)
         /\ store'.held = s.held
         /\ ToSet(shown'.popups) \subseteq ToSet(shown.popups) \cup {id}
<1> DEFINE P == shown.popups
           T == shown.timers
<1>1. /\ P \in Seq(Ids) /\ Distinct(P) /\ Len(P) <= MaxPopups /\ Len(P) \in Nat
      /\ T = {i \in ToSet(P) : Expires(store, i)}
      /\ Len(P) < MaxPopups => Live(store) \subseteq ToSet(P)
      /\ ToSet(P) \subseteq Ids
  BY DEF ShownInv, ShownType, ToSet
<1>2. \A i \in Ids \ {id} : Expires(s, i) <=> Expires(store, i)
  BY DEF SameKinds, Expires, Critical
<1>3. CASE id \in ToSet(P)
  <2>1. store' = s /\ shown' = [popups |-> P, timers |-> WithTimers(s, T \ {id}, {id})]
    BY <1>3 DEF Show
  <2>2. WithTimers(s, T \ {id}, {id}) = {i \in ToSet(P) : Expires(s, i)}
    BY <1>1, <1>2, <1>3 DEF WithTimers
  <2>3. shown' \in ShownType
    BY <1>1, <2>1, <2>2 DEF ShownType
  <2>4. QED
    BY <1>1, <1>3, <2>1, <2>2, <2>3 DEF ShownInv
<1>4. CASE id \notin ToSet(P)
  <2>1. PICK Q \in WithRoom(s, P) :
          LET kept == T \ (ToSet(P) \ ToSet(Q))
          IN  IF Len(Q) < MaxPopups
              THEN /\ store' = Marked(s, {id})
                   /\ shown' = [popups |-> <<id>> \o Q, timers |-> WithTimers(s, kept, {id})]
              ELSE store' = s /\ shown' = [popups |-> Q, timers |-> kept]
    BY <1>4 DEF Show
  <2> DEFINE kept == T \ (ToSet(P) \ ToSet(Q))
  <2>2. /\ Q \in Seq(Ids) /\ Distinct(Q) /\ Len(Q) <= MaxPopups /\ Len(Q) \in Nat
        /\ ToSet(Q) \subseteq ToSet(P)
        /\ Len(Q) < MaxPopups => Q = P \/ Len(Q) + 1 = MaxPopups
    BY WithRoomProps
  <2>3. kept = {i \in ToSet(Q) : Expires(s, i)}
    BY <1>1, <1>2, <1>4, <2>2
  <2>4. CASE Len(Q) < MaxPopups
    <3> DEFINE one == <<id>>
               R   == one \o Q
    <3>1. store' = Marked(s, {id}) /\ shown' = [popups |-> R, timers |-> WithTimers(s, kept, {id})]
      BY <2>1, <2>4
    <3>2. one \in Seq(Ids) /\ Distinct(one) /\ ToSet(one) = {id} /\ Len(one) = 1
      BY DEF Distinct, ToSet
    <3> HIDE DEF one
    <3>a. ToSet(one) \cap ToSet(Q) = {}
      BY <1>4, <2>2, <3>2
    <3>3. /\ R \in Seq(Ids) /\ Distinct(R) /\ Len(R) = 1 + Len(Q)
          /\ ToSet(R) = {id} \cup ToSet(Q)
      BY <2>2, <3>2, <3>a, ConcatProps
    <3>4. /\ store' \in StoreType /\ Live(store') = Live(s) /\ store'.held = s.held
          /\ SameKinds(s, store', {})
      BY <3>1, MarkedProps
    <3>5. \A i \in Ids : Expires(store', i) <=> Expires(s, i)
      BY <3>4 DEF SameKinds, Expires, Critical
    <3> HIDE DEF kept, R
    <3>6. WithTimers(s, kept, {id}) = {i \in ToSet(R) : Expires(store', i)}
      BY <1>1, <2>2, <2>3, <3>3, <3>5 DEF WithTimers
    <3>7. Len(R) <= MaxPopups
      BY <2>2, <2>4, <3>3, BoundsAssumption
    <3>8. Len(R) < MaxPopups => Live(s) \subseteq ToSet(R)
      <4>1. SUFFICES ASSUME Len(R) < MaxPopups PROVE Live(s) \subseteq ToSet(R)
        OBVIOUS
      <4>2. Q = P
        BY <2>2, <2>4, <3>3, <4>1, BoundsAssumption
      <4>3. QED
        BY <1>1, <2>4, <3>3, <4>2
    <3>9. shown' \in ShownType
      BY <1>1, <2>2, <3>1, <3>3, <3>6 DEF ShownType
    <3>10. QED
      BY <2>2, <3>1, <3>3, <3>4, <3>6, <3>7, <3>8, <3>9 DEF ShownInv
  <2>5. CASE ~(Len(Q) < MaxPopups)
    <3>1. store' = s /\ shown' = [popups |-> Q, timers |-> kept]
      BY <2>1, <2>5
    <3> HIDE DEF kept
    <3>2. shown' \in ShownType
      BY <1>1, <2>2, <2>3, <3>1 DEF ShownType
    <3>3. QED
      BY <2>2, <2>3, <2>5, <3>1, <3>2 DEF ShownInv
  <2>6. QED
    BY <2>4, <2>5
<1>5. QED
  BY <1>3, <1>4

LEMMA InitInv == Init => Inv
<1> SUFFICES ASSUME Init PROVE Inv
  OBVIOUS
<1>1. Nothing \in NoteRecord
  BY KindsAssumption DEF Nothing, NoteRecord, HistoryStates
<1>2. ToSet(<<>>) = {} /\ Live(store) = {}
  BY DEF Init, Live, ToSet
<1>3. TypeInv
  <2>1. store \in StoreType
    BY <1>1 DEF Init, StoreType
  <2>2. next \in 1 .. MaxIds + 1 /\ posts \in 0 .. MaxPosts
    BY BoundsAssumption DEF Init
  <2>3. told \in [Ids -> SUBSET Reasons] /\ evicted \subseteq Ids
    BY DEF Init
  <2>4. /\ touch \in [on : {"nothing", "popup", "clear", "leave"}, id : Ids \cup {0}]
        /\ touch.on # "popup" /\ center \in BOOLEAN
    BY DEF Init, NoTouch
  <2>5. QED
    BY <2>1, <2>2, <2>3, <2>4 DEF TypeInv
<1>4. ShownInv(store, shown)
  <2>1. shown.popups = <<>> /\ shown.timers = {} /\ shown \in ShownType
    BY DEF Init, ShownType
  <2>2. Len(shown.popups) = 0 /\ Distinct(shown.popups) /\ 0 <= MaxPopups
    BY <2>1, BoundsAssumption DEF Distinct
  <2>3. shown.timers = {i \in ToSet(shown.popups) : Expires(store, i)}
    BY <1>2, <2>1
  <2>4. QED
    BY <1>2, <2>1, <2>2, <2>3 DEF ShownInv
<1>5. store.held \cup evicted = {} /\ ToSet(shown.popups) = {} /\ next = 1
  BY <1>2 DEF Init
<1>a. HeldInv /\ ToldInv
  BY <1>2, <1>5 DEF HeldInv, ToldInv, PopupsAreLive, ClientsKnow, Ids
<1>6. QED
  BY <1>3, <1>4, <1>a DEF Inv

\* One lemma per kind of step.
LEMMA PostInv ==
  ASSUME Inv, NEW r, NEW kind \in Kinds, Post(r, kind)
  PROVE  Inv'
<1> DEFINE id == IF r \in store.held THEN r ELSE next
           s  == AddedOrReplaced(store, id, kind)
           X  == Evicts(store, id, kind)
<1>1. /\ id \in Ids
      /\ next' = IF id = next THEN next + 1 ELSE next
      /\ posts < MaxPosts /\ posts' = posts + 1
      /\ Show(s, shown.popups, shown.timers, id)
      /\ told' = [told EXCEPT ![id] = {}]
      /\ evicted' = (evicted \cup X) \ {id}
      /\ touch' = touch /\ center' = center
      /\ id = next \/ id \in store.held
  BY DEF Post
<1> HIDE DEF id
<1>2. /\ store \in StoreType /\ ShownInv(store, shown) /\ HeldInv /\ ToldInv
      /\ next \in 1 .. MaxIds + 1 /\ posts \in 0 .. MaxPosts /\ MaxIds \in Nat /\ MaxPosts \in Nat
      /\ told \in [Ids -> SUBSET Reasons] /\ evicted \subseteq Ids
  BY BoundsAssumption DEF Inv, TypeInv
<1>3. /\ s \in StoreType /\ X \subseteq Live(store) \ {id} /\ Live(s) = (Live(store) \ X) \cup {id}
      /\ SameKinds(store, s, {id}) /\ s.held \subseteq store.held \cup {id}
  BY <1>1, <1>2, AddedProps
<1> HIDE DEF s, X
<1>4. /\ store' \in StoreType /\ ShownInv(store', shown') /\ Live(store') = Live(s)
      /\ store'.held = s.held /\ ToSet(shown'.popups) \subseteq ToSet(shown.popups) \cup {id}
  <2>1. id \in Live(s) /\ Live(s) \subseteq Live(store) \cup {id}
    BY <1>3
  <2>2. QED
    BY <1>1, <1>2, <1>3, <2>1, ShowInv
<1>5. /\ next' \in 1 .. MaxIds + 1 /\ posts' \in 0 .. MaxPosts /\ told' \in [Ids -> SUBSET Reasons]
      /\ X \subseteq store.held /\ evicted' \subseteq Ids
  BY <1>1, <1>2, <1>3 DEF Ids, Live, StoreType
<1>6. HeldInv'
  BY <1>1, <1>2, <1>3, <1>4, <1>5 DEF HeldInv, Ids
<1>7. PopupsAreLive'
  BY <1>1, <1>2, <1>3, <1>4 DEF ToldInv, PopupsAreLive
<1>8. ASSUME NEW i \in Ids, i < next' PROVE told'[i] = {} <=> i \in Live(store') \cup evicted'
  <2>1. CASE i = id
    BY <1>1, <1>2, <1>3, <1>4, <2>1
  <2>2. CASE i # id
    <3>1. i < next
      BY <1>1, <1>2, <1>8, <2>2 DEF Ids
    <3>2. told'[i] = told[i] /\ (i \in Live(store') \cup evicted' <=> i \in Live(store) \cup evicted)
      BY <1>1, <1>2, <1>3, <1>4, <2>2
    <3>3. QED
      BY <1>2, <3>1, <3>2 DEF ToldInv, ClientsKnow
  <2>3. QED
    BY <2>1, <2>2
<1>9. evicted' \cap Live(store') = {}
  BY <1>1, <1>2, <1>3, <1>4 DEF ToldInv, ClientsKnow
<1>10. QED
  BY <1>1, <1>4, <1>5, <1>6, <1>7, <1>8, <1>9 DEF Inv, TypeInv, ToldInv, ClientsKnow

LEMMA CloseNotificationInv ==
  ASSUME Inv, NEW id \in Ids, CloseNotification(id)
  PROVE  Inv'
<1> DEFINE ended == Ended(store, id, "Dismissed")
           s     == Closed(ended, id)
           P     == Without(shown.popups, id)
           T     == shown.timers \ {id}
           more  == {r \in {"Dismissed", "ClosedByCall"} :
                             \/ r = "Dismissed" /\ id \in Live(store)
                             \/ r = "ClosedByCall" /\ id \in ended.held}
<1>1. /\ Refresh(s, P, T)
      /\ told' = [told EXCEPT ![id] = @ \cup more]
      /\ evicted' = IF id \in ended.held THEN evicted \ {id} ELSE evicted
      /\ UNCHANGED <<next, posts, touch, center>>
  BY DEF CloseNotification, Told
<1>2. /\ store \in StoreType /\ ShownInv(store, shown) /\ HeldInv /\ ToldInv
      /\ told \in [Ids -> SUBSET Reasons] /\ evicted \subseteq Ids
  BY DEF Inv, TypeInv
<1>3. /\ ended \in StoreType /\ Live(ended) = Live(store) \ {id} /\ SameKinds(store, ended, {})
      /\ ended.held \subseteq store.held
  BY <1>2, EndedProps DEF HistoryStates
<1>4. /\ more \subseteq Reasons /\ (id \in Live(store) => "Dismissed" \in more)
      /\ more # {} <=> id \in Live(store) \/ id \in ended.held
  BY DEF Reasons
<1> HIDE DEF ended, more
<1>5. /\ s \in StoreType /\ Live(s) = Live(ended) \ {id} /\ SameKinds(ended, s, {})
      /\ s.held \subseteq ended.held
  BY <1>3, ClosedProps
<1> HIDE DEF s
<1>6. SameKinds(store, s, {})
  BY <1>3, <1>5 DEF SameKinds
<1>7. /\ P \in Seq(Ids) /\ Distinct(P) /\ Len(P) <= MaxPopups
      /\ ToSet(P) = ToSet(shown.popups) \ {id} /\ T = {i \in ToSet(P) : Expires(s, i)}
  BY <1>2, <1>5, <1>6, WithoutShown
<1> HIDE DEF P, T
<1>8. /\ store' \in StoreType /\ ShownInv(store', shown') /\ Live(store') = Live(s)
      /\ store'.held = s.held /\ ToSet(shown'.popups) \subseteq ToSet(P) \cup Live(s)
  BY <1>1, <1>5, <1>7, RefreshInv
<1>9. told' \in [Ids -> SUBSET Reasons]
  BY <1>1, <1>2, <1>4
<1>10. HeldInv' /\ evicted' \subseteq Ids
  BY <1>1, <1>2, <1>3, <1>5, <1>8 DEF HeldInv
<1>11. PopupsAreLive'
  BY <1>1, <1>2, <1>3, <1>5, <1>7, <1>8 DEF ToldInv, PopupsAreLive
<1>12. ASSUME NEW i \in Ids, i < next' PROVE told'[i] = {} <=> i \in Live(store') \cup evicted'
  <2>1. i < next /\ (told[i] = {} <=> i \in Live(store) \cup evicted)
    BY <1>1, <1>2, <1>12 DEF ToldInv, ClientsKnow
  <2>2. CASE i = id
    BY <1>1, <1>2, <1>3, <1>4, <1>5, <1>8, <2>1, <2>2 DEF ToldInv, ClientsKnow
  <2>3. CASE i # id
    BY <1>1, <1>2, <1>3, <1>5, <1>8, <2>1, <2>3
  <2>4. QED
    BY <2>2, <2>3
<1>13. evicted' \cap Live(store') = {}
  BY <1>1, <1>2, <1>3, <1>5, <1>8 DEF ToldInv, ClientsKnow
<1>14. QED
  BY <1>1, <1>8, <1>9, <1>10, <1>11, <1>12, <1>13 DEF Inv, TypeInv, ToldInv, ClientsKnow

LEMMA EndsInv ==
  ASSUME Inv, NEW id \in Ids, NEW how \in {"Dismissed", "Expired"}, PresenterEnds(id, how),
         UNCHANGED <<evicted, next, posts, center>>, touch' \in {touch, NoTouch}
  PROVE  Inv'
<1>1. /\ store' \in StoreType /\ ShownInv(store', shown')
      /\ Live(store') = Live(store) \ {id} /\ store'.held \subseteq store.held
      /\ ToSet(shown'.popups) \subseteq (ToSet(shown.popups) \ {id}) \cup Live(store')
      /\ told' \in [Ids -> SUBSET Reasons]
      /\ told' = IF id \in Live(store) THEN [told EXCEPT ![id] = @ \cup {how}] ELSE told
  BY PresenterEndsInv
<1>2. told \in [Ids -> SUBSET Reasons] /\ HeldInv /\ ToldInv
  BY DEF Inv, TypeInv
<1>3. HeldInv'
  BY <1>1, <1>2 DEF HeldInv
<1>4. PopupsAreLive'
  BY <1>1, <1>2 DEF ToldInv, PopupsAreLive
<1>5. ASSUME NEW i \in Ids, i < next' PROVE told'[i] = {} <=> i \in Live(store') \cup evicted'
  <2>1. told[i] = {} <=> i \in Live(store) \cup evicted
    BY <1>2, <1>5 DEF ToldInv, ClientsKnow
  <2>2. id \in Live(store) => id \notin evicted
    BY <1>2 DEF ToldInv, ClientsKnow
  <2>3. QED
    BY <1>1, <1>2, <2>1, <2>2
<1>6. evicted' \cap Live(store') = {}
  BY <1>1, <1>2 DEF ToldInv, ClientsKnow
<1>7. QED
  BY <1>1, <1>3, <1>4, <1>5, <1>6 DEF Inv, TypeInv, NoTouch, ToldInv, ClientsKnow

\* Steps of the user that end nothing.
LEMMA QuietInv ==
  ASSUME Inv,
         store' \in {store, Cleared(store)},
         touch' \in {touch, NoTouch} \/ TouchDown,
         center' \in BOOLEAN,
         UNCHANGED <<shown, told, evicted, next, posts>>
  PROVE  Inv'
<1>1. /\ store \in StoreType /\ ShownInv(store, shown) /\ HeldInv /\ ToldInv
  BY DEF Inv, TypeInv
<1>2. /\ store' \in StoreType /\ Live(store') = Live(store) /\ SameKinds(store, store', {})
      /\ store'.held \subseteq store.held
  BY <1>1, ClearedProps DEF SameKinds
<1>3. \A i \in Ids : Expires(store', i) <=> Expires(store, i)
  BY <1>2 DEF SameKinds, Expires, Critical
<1>4. ToSet(shown.popups) \subseteq Ids
  BY <1>1 DEF ShownInv, ShownType, ToSet
<1>5. ShownInv(store', shown')
  BY <1>1, <1>2, <1>3, <1>4 DEF ShownInv
<1>6. /\ touch' \in [on : {"nothing", "popup", "clear", "leave"}, id : Ids \cup {0}]
      /\ touch'.on = "popup" => touch'.id \in Ids
  <2>1. CASE touch' \in {touch, NoTouch}
    BY <2>1 DEF Inv, TypeInv, NoTouch
  <2>2. CASE TouchDown
    BY <1>4, <2>2 DEF TouchDown
  <2>3. QED
    BY <2>1, <2>2
<1>7. ToldInv'
  BY <1>1, <1>2 DEF ToldInv, PopupsAreLive, ClientsKnow
<1>8. QED
  BY <1>1, <1>2, <1>5, <1>6, <1>7 DEF Inv, TypeInv, HeldInv

LEMMA NextInv ==
  ASSUME Inv, [Next]_vars
  PROVE  Inv'
<1>1. ASSUME NEW r \in 0 .. MaxIds, NEW kind \in Kinds, Post(r, kind)
      PROVE  Inv'
  BY <1>1, PostInv
<1>2. ASSUME NEW id \in Ids, CloseNotification(id) PROVE Inv'
  BY <1>2, CloseNotificationInv
<1>3. ASSUME NEW id \in Ids, TimerFires(id) PROVE Inv'
  <2>1. PresenterEnds(id, "Expired") /\ UNCHANGED <<evicted, next, posts, center>> /\ touch' \in {touch, NoTouch}
    BY <1>3 DEF TimerFires
  <2>2. QED
    BY <2>1, EndsInv
<1>4. center \in BOOLEAN /\ (touch.on = "popup" => touch.id \in Ids)
  BY DEF Inv, TypeInv
<1>5. ASSUME TouchDown PROVE Inv'
  BY <1>4, <1>5, QuietInv DEF TouchDown
<1>6. ASSUME TouchUpDismiss PROVE Inv'
  <2>1. /\ touch.id \in Ids /\ PresenterEnds(touch.id, "Dismissed")
        /\ UNCHANGED <<evicted, next, posts, center>> /\ touch' \in {touch, NoTouch}
    BY <1>4, <1>6 DEF TouchUpDismiss
  <2>2. QED
    BY <2>1, EndsInv
<1>7. ASSUME TouchUpTap PROVE Inv'
  <2>1. CASE touch.id \in store.held /\ ~store.note[touch.id].kind.resident
    <3>1. /\ touch.id \in Ids /\ PresenterEnds(touch.id, "Dismissed")
          /\ UNCHANGED <<evicted, next, posts, center>> /\ touch' \in {touch, NoTouch}
      BY <1>4, <1>7, <2>1 DEF TouchUpTap
    <3>2. QED
      BY <3>1, EndsInv
  <2>2. CASE ~(touch.id \in store.held /\ ~store.note[touch.id].kind.resident)
    BY <1>4, <1>7, <2>2, QuietInv DEF TouchUpTap
  <2>3. QED
    BY <2>1, <2>2
<1>8. ASSUME TouchUpCenter PROVE Inv'
  BY <1>4, <1>8, QuietInv DEF TouchUpCenter
<1>9. ASSUME TouchCancel PROVE Inv'
  BY <1>4, <1>9, QuietInv DEF TouchCancel
<1>10. ASSUME ToggleCenter PROVE Inv'
  BY <1>4, <1>10, QuietInv DEF ToggleCenter
<1>11. ASSUME UNCHANGED vars PROVE Inv'
  BY <1>4, <1>11, QuietInv DEF vars
<1>12. QED
  BY <1>1, <1>2, <1>3, <1>5, <1>6, <1>7, <1>8, <1>9, <1>10, <1>11
  DEF Next, AppStep, UserStep, TimerStep

-------------------------------------------------------------------------------
(* The theorems.                                                               *)

\* Inv is an invariant of the service, whatever the limits.
THEOREM Invariance == Spec => []Inv
<1>1. Init => Inv
  BY InitInv
<1>2. Inv /\ [Next]_vars => Inv'
  BY NextInv
<1>3. QED
  BY <1>1, <1>2, PTL DEF Spec

\* Every handler keeps the types: ids, states, timers and reasons are the ones that the
\* code hands out.
THEOREM TypeCorrect == Spec => []TypeOK
<1>1. Inv => TypeOK
  BY DEF Inv, TypeInv, ShownInv, StoreType, ShownType, TypeOK
<1>2. QED
  BY <1>1, Invariance, PTL

\* The popups never exceed max_visible_popups_ and none is shown twice.
THEOREM ScreenBounded == Spec => []PopupsBounded
<1>1. Inv => PopupsBounded
  BY DEF Inv, ShownInv, Distinct, PopupsBounded
<1>2. QED
  BY <1>1, Invariance, PTL

\* A timer is armed exactly for the popups that expire, also after evictions by the
\* screen, by the flood limit, and replacements that change the urgency.
THEOREM TimersExact == Spec => []TimersMatchPopups
<1>1. Inv => TimersMatchPopups
  BY DEF Inv, ShownInv, TimersMatchPopups
<1>2. QED
  BY <1>1, Invariance, PTL

\* No notification waits while there is a free slot on the screen.
THEOREM NoStarvation == Spec => []NoIdleSlot
<1>1. Inv => NoIdleSlot
  BY DEF Inv, ShownInv, NoIdleSlot
<1>2. QED
  BY <1>1, Invariance, PTL

\* A popup that is no live entry of the store is one that the limit per application has
\* ended: only such a one's raw pointer may dangle.
THEOREM NoDanglingPopup == Spec => []PopupsAreLive
<1>1. Inv => PopupsAreLive
  BY DEF Inv, ToldInv
<1>2. QED
  BY <1>1, Invariance, PTL

\* An application has been told of the end of its notification exactly when it has
\* ended, unless the limit per application has ended it, which tells nobody.
THEOREM NoSilentEnd == Spec => []ClientsKnow
<1>1. Inv => ClientsKnow
  BY DEF Inv, ToldInv
<1>2. QED
  BY <1>1, Invariance, PTL
===============================================================================

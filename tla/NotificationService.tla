-------------------------- MODULE NotificationService --------------------------
(***************************************************************************)
(* LDDE's notification service: the bounded store (NotificationStore), the   *)
(* popups on the screen and their expiry timers (NotificationPresenter), the *)
(* touch controller and the notification center, and the signals that go     *)
(* back to the applications (NotificationManager::setup_callbacks).          *)
(*                                                                           *)
(* An action is one call into NotificationManager: an application posts or   *)
(* closes a notification, a timer of the event loop fires, or the user       *)
(* touches the screen.  Each runs to completion before the next, as it does  *)
(* with the internal backend.                                                *)
(*                                                                           *)
(* The store keeps its entries newest first.  An entry never moves and new   *)
(* entries have larger ids, so the order of the store is that of the ids and *)
(* a set is enough.                                                          *)
(***************************************************************************)
EXTENDS Integers, FiniteSets, Sequences, SequencesExt

CONSTANTS
  Apps,              \* applications that post
  Kinds,             \* the content a run posts: records of KindRecord
  MaxPopups,         \* max_visible_popups_
  MaxHistory,        \* max_history_entries_
  MaxActivePerApp,   \* max_active_per_app_; 0 means no limit
  MaxIds,            \* bound: ids handed out
  MaxPosts           \* bound: notifications posted, replacements included

\* timed: the timeout is not 0, so that the popup expires unless it is critical.
KindRecord ==
  [app : Apps, critical : BOOLEAN, transient : BOOLEAN, resident : BOOLEAN, timed : BOOLEAN]

ASSUME KindsAssumption == Kinds \subseteq KindRecord /\ Kinds # {}
ASSUME BoundsAssumption ==
  /\ MaxPopups \in Nat \ {0}
  /\ MaxHistory \in Nat /\ MaxActivePerApp \in Nat
  /\ MaxIds \in Nat /\ MaxPosts \in Nat

VARIABLES
  store,   \* held: ids in NotificationStore::notifications_; note: what each id holds
  shown,   \* popups: visible_popups_, first the leftmost; timers: keys of active_timers_
  told,    \* reasons of the NotificationClosed signals since an id was last posted
  evicted, \* history: ids that the limit per application has ended and of which no signal told
  next,    \* next_id_
  posts,   \* number of posts so far
  touch,   \* what the finger went down on
  center   \* is the notification center open

vars == <<store, shown, told, evicted, next, posts, touch, center>>

Ids == 1 .. MaxIds

LiveStates    == {"Active", "Displayed"}
HistoryStates == {"Dismissed", "Expired", "Closed"}
Reasons       == {"Dismissed", "Expired", "ClosedByCall"}

NoteRecord == [state : LiveStates \cup HistoryStates, kind : Kinds]

\* An id that was never handed out.
Nothing == [state |-> "Closed", kind |-> CHOOSE k \in Kinds : TRUE]

NoTouch == [on |-> "nothing", id |-> 0]

-------------------------------------------------------------------------------
(* NotificationStore: s is a value of store.                                  *)

Live(s) == {i \in s.held : s.note[i].state \in LiveStates}

Critical(s, i) == s.note[i].kind.critical

\* schedule_expiration arms a timer for these only.
Expires(s, i) == s.note[i].kind.timed /\ ~Critical(s, i)

\* prune_history: transient entries do not stay in the history, and what is left of
\* it is walked from the oldest entry on; past the limit only critical entries stay.
Pruned(s) ==
  LET past     == {i \in s.held \ Live(s) : ~s.note[i].kind.transient}
      Older(i) == {j \in past : j < i}
  IN  [s EXCEPT !.held = Live(s) \cup
         {i \in past : Critical(s, i) \/ Cardinality(Older(i)) < MaxHistory}]

\* dismiss and expire: how is the state reached; nothing happens to an entry that is
\* not live.
Ended(s, id, how) == IF id \in Live(s) THEN Pruned([s EXCEPT !.note[id].state = how]) ELSE s

\* close, for an entry in any state
Closed(s, id) == IF id \in s.held THEN Pruned([s EXCEPT !.note[id].state = "Closed"]) ELSE s

\* Seeded fault: the state is not looked at.
ClearedAll(s) == [s EXCEPT !.held = {i \in @ : Critical(s, i)}]

\* clear_history
Cleared(s) == [s EXCEPT !.held = {i \in @ : i \in Live(s) \/ Critical(s, i)}]

\* enforce_per_app_limit: an app that has reached its limit loses its oldest live entry
\* that is not critical,
FloodVictims(s, app) ==
  LET mine    == {i \in Live(s) : s.note[i].kind.app = app}
      victims == {i \in mine : ~Critical(s, i)}
  IN  IF MaxActivePerApp = 0 \/ Cardinality(mine) < MaxActivePerApp THEN {}
      ELSE {i \in victims : \A j \in victims : i <= j}

\* which is expired where it stands; no callback runs, so that a popup stays on the
\* screen with its timer.
FloodLimited(s, app) ==
  LET victims == FloodVictims(s, app)
  IN  [s EXCEPT !.note = [i \in Ids |-> IF i \in victims THEN [s.note[i] EXCEPT !.state = "Expired"]
                                                         ELSE s.note[i]]]

\* add_or_replace: id is replaced where it stands, even in the history, or is new.
AddedOrReplaced(s, id, kind) ==
  IF id \in s.held
  THEN [s EXCEPT !.note[id] = [state |-> "Active", kind |-> kind]]
  ELSE LET limited == FloodLimited(s, kind.app)
       IN  Pruned([held |-> limited.held \cup {id},
                   note |-> [limited.note EXCEPT ![id] = [state |-> "Active", kind |-> kind]]])

\* The ids that the post of id ends on the way.
Evicts(s, id, kind) == IF id \in s.held THEN {} ELSE FloodVictims(s, kind.app)

\* mark_displayed for each of the ids
Marked(s, new) ==
  [s EXCEPT !.note = [i \in Ids |-> IF i \in new /\ s.note[i].state = "Active"
                                    THEN [s.note[i] EXCEPT !.state = "Displayed"] ELSE s.note[i]]]

-------------------------------------------------------------------------------
(* NotificationPresenter: s is the store, P the popups and T the timers that a  *)
(* handler has come to.                                                         *)

\* A sequence of popups without its i-th one.
WithoutAt(P, i) == [j \in 1 .. Len(P) - 1 |-> IF j < i THEN P[j] ELSE P[j + 1]]

Without(P, id) ==
  IF \E i \in DOMAIN P : P[i] = id THEN WithoutAt(P, CHOOSE i \in DOMAIN P : P[i] = id) ELSE P

\* Seeded fault: free slots are not filled.
FillsNone(P, live) == {<<>>}

\* What the loop of refresh_visible appends to P: the newest live entries that are
\* not popups yet, newest first, until the slots or the entries run out.  There is
\* always exactly one such sequence.
Fills(P, live) ==
  LET waiting == live \ ToSet(P)
      room    == IF Len(P) < MaxPopups THEN MaxPopups - Len(P) ELSE 0
  IN  {q \in UNION {[1 .. n -> waiting] : n \in 0 .. room} :
         /\ \A i, j \in DOMAIN q : i < j => q[i] > q[j]
         /\ \A w \in waiting \ ToSet(q), i \in DOMAIN q : w < q[i]
         /\ Len(q) = room \/ waiting \subseteq ToSet(q)}

\* Seeded fault: critical popups get a timer too.
WithTimersForAll(s, T, new) == T \cup {i \in new : s.note[i].kind.timed}

\* schedule_expiration for each popup of new
WithTimers(s, T, new) == T \cup {i \in new : Expires(s, i)}

\* Seeded fault: only entries that were never displayed are candidates.
RefreshUndisplayed(s, P, T) ==
  \E q \in Fills(P, {i \in Live(s) : s.note[i].state = "Active"}) :
    /\ store' = Marked(s, ToSet(q))
    /\ shown' = [popups |-> P \o q, timers |-> WithTimers(s, T, ToSet(q))]

\* refresh_visible at the end of a handler
Refresh(s, P, T) ==
  \E q \in Fills(P, Live(s)) :
    /\ store' = Marked(s, ToSet(q))
    /\ shown' = [popups |-> P \o q, timers |-> WithTimers(s, T, ToSet(q))]

\* The popups after show has made room for one more: when they are at capacity the
\* last one that is not critical goes; its entry stays in the store.
WithRoom(s, P) ==
  LET evictable == {i \in DOMAIN P : ~Critical(s, P[i])}
  IN  IF Len(P) < MaxPopups \/ evictable = {} THEN {P}
      ELSE {WithoutAt(P, i) : i \in {i \in evictable : \A j \in evictable : j <= i}}

\* Seeded fault: no room is made.
ShownWithoutLimit(s, P, T, id) ==
  /\ store' = Marked(s, {id})
  /\ shown' = [popups |-> <<id>> \o P, timers |-> WithTimers(s, T, {id})]

\* show: a popup only gets a new timer; a new one comes first if there is room.
Show(s, P, T, id) ==
  IF id \in ToSet(P)
  THEN /\ store' = s
       /\ shown' = [popups |-> P, timers |-> WithTimers(s, T \ {id}, {id})]
  ELSE \E Q \in WithRoom(s, P) :
         LET kept == T \ (ToSet(P) \ ToSet(Q))
         IN  IF Len(Q) < MaxPopups
             THEN /\ store' = Marked(s, {id})
                  /\ shown' = [popups |-> <<id>> \o Q, timers |-> WithTimers(s, kept, {id})]
             ELSE store' = s /\ shown' = [popups |-> Q, timers |-> kept]

\* NotificationClosed to the applications, from the removed callback of the store.
Told(id, reasons) == [told EXCEPT ![id] = @ \cup reasons]

\* Seeded fault: the removed callback does not run.
PresenterEndsSilently(id, how) ==
  /\ Refresh(Ended(store, id, how), Without(shown.popups, id), shown.timers \ {id})
  /\ told' = told

\* NotificationPresenter::dismiss and expire
PresenterEnds(id, how) ==
  /\ Refresh(Ended(store, id, how), Without(shown.popups, id), shown.timers \ {id})
  /\ told' = IF id \in Live(store) THEN Told(id, {how}) ELSE told

\* visible_popups_ are raw pointers into the store.  Once one of them points to an
\* entry that is gone, the next handler that lays out, draws or
\* searches the popups reads freed memory; what happens from there on is not modelled.
Intact == ToSet(shown.popups) \subseteq store.held

-------------------------------------------------------------------------------
Init ==
  /\ store = [held |-> {}, note |-> [i \in Ids |-> Nothing]]
  /\ shown = [popups |-> <<>>, timers |-> {}]
  /\ told = [i \in Ids |-> {}]
  /\ evicted = {}
  /\ next = 1
  /\ posts = 0
  /\ touch = NoTouch
  /\ center = FALSE

\* NotificationManager::post_notification: r is replaces_id, 0 when there is none.  A
\* replaces_id that the store no longer holds gets a new id.
Post(r, kind) ==
  LET id == IF r \in store.held THEN r ELSE next
  IN  /\ Intact
      /\ r < next
      /\ posts < MaxPosts
      /\ id \in Ids
      /\ posts' = posts + 1
      /\ next' = IF id = next THEN next + 1 ELSE next
      /\ Show(AddedOrReplaced(store, id, kind), shown.popups, shown.timers, id)
      /\ told' = [told EXCEPT ![id] = {}]
      /\ evicted' = (evicted \cup Evicts(store, id, kind)) \ {id}
      /\ UNCHANGED <<touch, center>>

\* NotificationManager::close_notification: the presenter dismisses the notification,
\* then the store closes it, if it still holds it.
CloseNotification(id) ==
  LET ended == Ended(store, id, "Dismissed")
  IN  /\ Intact
      /\ id < next
      /\ Refresh(Closed(ended, id), Without(shown.popups, id), shown.timers \ {id})
      /\ told' = Told(id, {r \in {"Dismissed", "ClosedByCall"} :
                             \/ r = "Dismissed" /\ id \in Live(store)
                             \/ r = "ClosedByCall" /\ id \in ended.held})
      /\ evicted' = IF id \in ended.held THEN evicted \ {id} ELSE evicted
      /\ UNCHANGED <<next, posts, touch, center>>

\* The expiry timer of a popup fires.
TimerFires(id) ==
  /\ Intact
  /\ id \in shown.timers
  /\ PresenterEnds(id, "Expired")
  /\ UNCHANGED <<evicted, next, posts, touch, center>>

-------------------------------------------------------------------------------
(* The user: the touch controller and the notification center.                  *)

\* handle_touch_down: a popup, or a place of the center if that is open; "leave" is
\* the outside, the close button or an entry, which all close the center.
TouchDown ==
  /\ Intact
  /\ touch' \in {[on |-> "popup", id |-> i] : i \in ToSet(shown.popups)}
                \cup {[on |-> o, id |-> 0] : o \in IF center THEN {"clear", "leave"} ELSE {"nothing"}}
  /\ UNCHANGED <<store, shown, told, evicted, next, posts, center>>

\* handle_touch_up: a swipe or a touch of the dismiss button
TouchUpDismiss ==
  /\ Intact
  /\ touch.on = "popup"
  /\ touch' = NoTouch
  /\ PresenterEnds(touch.id, "Dismissed")
  /\ UNCHANGED <<evicted, next, posts, center>>

\* handle_touch_up: a tap on the body or on an action, which a resident popup outlives.
TouchUpTap ==
  /\ Intact
  /\ touch.on = "popup"
  /\ touch' = NoTouch
  /\ IF touch.id \in store.held /\ ~store.note[touch.id].kind.resident
     THEN PresenterEnds(touch.id, "Dismissed")
     ELSE UNCHANGED <<store, shown, told>>
  /\ UNCHANGED <<evicted, next, posts, center>>

\* handle_touch_up in the center, if it is still open
TouchUpCenter ==
  /\ Intact
  /\ touch.on \in {"clear", "leave"}
  /\ touch' = NoTouch
  /\ center' = (center /\ touch.on # "leave")
  /\ store' = IF center /\ touch.on = "clear" THEN Cleared(store) ELSE store
  /\ UNCHANGED <<shown, told, evicted, next, posts>>

\* handle_touch_cancel
TouchCancel ==
  /\ touch' = NoTouch
  /\ UNCHANGED <<store, shown, told, evicted, next, posts, center>>

\* open_notification_center and close_notification_center
ToggleCenter ==
  /\ Intact
  /\ center' = ~center
  /\ UNCHANGED <<store, shown, told, evicted, next, posts, touch>>

-------------------------------------------------------------------------------
AppStep == \/ \E r \in 0 .. MaxIds, k \in Kinds : Post(r, k)
           \/ \E id \in Ids : CloseNotification(id)

UserStep == TouchDown \/ TouchUpDismiss \/ TouchUpTap \/ TouchUpCenter \/ TouchCancel \/ ToggleCenter

TimerStep == \E id \in Ids : TimerFires(id)

Next == AppStep \/ UserStep \/ TimerStep

\* The event loop waits with epoll on every timer descriptor and calls the callback
\* of each that is ready, so a timer that stays armed fires.
Fairness == \A id \in Ids : WF_vars(TimerFires(id))

Spec == Init /\ [][Next]_vars /\ Fairness

-------------------------------------------------------------------------------
(* Properties.                                                                  *)

TypeOK ==
  /\ store \in [held : SUBSET Ids, note : [Ids -> NoteRecord]]
  /\ shown \in [popups : Seq(Ids), timers : SUBSET Ids]
  /\ told \in [Ids -> SUBSET Reasons]
  /\ evicted \subseteq Ids
  /\ next \in 1 .. MaxIds + 1
  /\ posts \in 0 .. MaxPosts
  /\ touch \in [on : {"nothing", "popup", "clear", "leave"}, id : Ids \cup {0}]
  /\ center \in BOOLEAN

\* What is on the screen is a notification that counts as active, or one that the limit
\* per application has ended: only enforce_per_app_limit, which leaves popups alone, lets a
\* popup outlive its notification.  No mix of replacements, closes, taps, expiries and
\* history pruning does, and a pointer in visible_popups_ that dangles is of that kind.
PopupsAreLive == ToSet(shown.popups) \subseteq Live(store) \cup evicted

\* No popup is shown twice and there are never more than max_visible_popups_.
PopupsBounded ==
  /\ Len(shown.popups) <= MaxPopups
  /\ \A i, j \in DOMAIN shown.popups : shown.popups[i] = shown.popups[j] => i = j

\* A timer is armed exactly for the popups that expire: none fires for a popup that
\* was evicted, dismissed or made critical by a replacement, and no popup that should
\* go away by itself has lost its timer on the way.
TimersMatchPopups == shown.timers = {i \in ToSet(shown.popups) : Expires(store, i)}

\* As long as there is a free slot, every active notification is on the screen.
NoIdleSlot == Len(shown.popups) < MaxPopups => Live(store) \subseteq ToSet(shown.popups)

\* An application has been told that its notification is closed exactly when it is no
\* longer active, unless the limit per application has ended it: no other end is silent,
\* that one stays so until a call closes what is left, and nothing that is active was
\* reported closed or counts as evicted.
ClientsKnow ==
  /\ \A i \in Ids : i < next => (told[i] = {} <=> i \in Live(store) \cup evicted)
  /\ evicted \cap Live(store) = {}

\* A notification that should expire does so sooner or later, or is ended by someone,
\* or becomes one that does not, or it waits while popups that never go by themselves take
\* every slot; an evicted popup whose entry was pruned may stop the service before that.
Stuck(i) == /\ Len(shown.popups) >= MaxPopups
            /\ i \notin ToSet(shown.popups)
            /\ \A p \in ToSet(shown.popups) : ~Expires(store, p)

QueueDrains == \A i \in Ids : (i \in Live(store) /\ Expires(store, i)) ~>
                                (i \notin Live(store) \/ ~Expires(store, i) \/ Stuck(i) \/ ~Intact)

\* What an application posts beyond its limit force-evicts its oldest notification, as
\* docs/notification_architecture.md:79 says: such a one is not on the screen any more.
\* The code does not keep it; NotificationQuota.cfg shows how.
EvictedGo == ToSet(shown.popups) \cap evicted = {}
===============================================================================

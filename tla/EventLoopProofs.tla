---------------------------- MODULE EventLoopProofs ----------------------------
(***************************************************************************)
(* Proofs about EventLoop, for any number of timers, descriptors, tasks and  *)
(* posting threads.                                                          *)
(*                                                                           *)
(* TablesAgree is inductive with the types: a new descriptor is not open,    *)
(* and as only live sources have descriptors, it is in neither map.  That no *)
(* wakeup is lost needs to know what happens between the read of the eventfd *)
(* and the swap of the tasks (WakeInv).  The order of the tasks is a fact    *)
(* about concatenations, by lemmas on the numbers of a queue.                *)
(***************************************************************************)
EXTENDS EventLoop, FiniteSetTheorems, SequenceTheorems, TLAPS

\* A task waits only while the loop is sure to swap the tasks out.
WakeInv == tasks.pending # <<>> => wake \/ posting # {} \/ phase = "woken"

Numbers(q) == [i \in DOMAIN q |-> q[i].n]

\* TasksInOrder, with the queues of tasks as parameters.
InOrder(k) == k.ran \o Numbers(k.running) \o Numbers(k.pending) = [i \in 1 .. k.count |-> i]

Inv == TypeOK /\ TablesAgree /\ WakeInv /\ InOrder(tasks)

-------------------------------------------------------------------------------
(* Queues of tasks and their numbers.                                          *)

\* The numbers of a queue are a sequence of the same length.
LEMMA NumbersType ==
  ASSUME NEW q \in Seq(Tasks)
  PROVE  /\ Numbers(q) \in Seq(Nat)
         /\ Len(Numbers(q)) = Len(q)
         /\ \A i \in 1 .. Len(q) : Numbers(q)[i] = q[i].n
<1>1. \A i \in 1 .. Len(q) : q[i] \in Tasks
  BY ElementOfSeq
<1>2. \A t \in Tasks : t.n \in Nat
  BY DEF Tasks
<1>3. DOMAIN q = 1 .. Len(q) /\ Len(q) \in Nat
  BY LenProperties
<1>4. Numbers(q) = [i \in 1 .. Len(q) |-> q[i].n]
  BY <1>3 DEF Numbers
<1>5. Numbers(q) \in [1 .. Len(q) -> Nat]
  BY <1>1, <1>2, <1>4
<1>6. QED
  BY <1>3, <1>4, <1>5

\* A posted task adds its number at the end.
LEMMA NumbersPushed ==
  ASSUME NEW q \in Seq(Tasks), NEW t \in Tasks
  PROVE  Numbers(Append(q, t)) = Numbers(q) \o <<t.n>>
<1>1. Append(q, t) \in Seq(Tasks) /\ Len(Append(q, t)) = Len(q) + 1 /\ Len(q) \in Nat
  OBVIOUS
<1>2. t.n \in Nat
  BY DEF Tasks
<1>3. Numbers(q) \in Seq(Nat) /\ Len(Numbers(q)) = Len(q)
  BY NumbersType
<1>4. /\ Numbers(Append(q, t)) \in Seq(Nat)
      /\ Len(Numbers(Append(q, t))) = Len(q) + 1
  BY <1>1, NumbersType
<1>5. /\ Numbers(q) \o <<t.n>> \in Seq(Nat)
      /\ Len(Numbers(q) \o <<t.n>>) = Len(q) + 1
  BY <1>2, <1>3
<1>6. ASSUME NEW i \in 1 .. Len(q) + 1
      PROVE  Numbers(Append(q, t))[i] = (Numbers(q) \o <<t.n>>)[i]
  <2>1. Numbers(Append(q, t))[i] = Append(q, t)[i].n
    BY <1>1, NumbersType
  <2>2. CASE i = Len(q) + 1
    BY <2>1, <2>2, <1>1, <1>2, <1>3
  <2>3. CASE i \in 1 .. Len(q)
    <3>1. Append(q, t)[i] = q[i]
      BY <2>3
    <3>2. Numbers(q)[i] = q[i].n
      BY <2>3, NumbersType
    <3>3. (Numbers(q) \o <<t.n>>)[i] = Numbers(q)[i]
      BY <2>3, <1>2, <1>3
    <3>4. QED
      BY <2>1, <3>1, <3>2, <3>3
  <2>4. i = Len(q) + 1 \/ i \in 1 .. Len(q)
    BY <1>1
  <2>5. QED
    BY <2>2, <2>3, <2>4
<1>7. QED
  BY <1>1, <1>4, <1>5, <1>6, SeqEqual

\* A task that is taken from the front takes its number with it.
LEMMA NumbersTaken ==
  ASSUME NEW q \in Seq(Tasks), q # <<>>
  PROVE  Numbers(q) = <<Head(q).n>> \o Numbers(Tail(q))
<1>1. Head(q) \in Tasks /\ Tail(q) \in Seq(Tasks) /\ Len(Tail(q)) = Len(q) - 1
      /\ Len(q) \in Nat \ {0} /\ Head(q) = q[1]
  BY HeadTailProperties, EmptySeq
<1>2. Head(q).n \in Nat
  BY <1>1 DEF Tasks
<1>3. Numbers(q) \in Seq(Nat) /\ Len(Numbers(q)) = Len(q)
  BY NumbersType
<1>4. Numbers(Tail(q)) \in Seq(Nat) /\ Len(Numbers(Tail(q))) = Len(q) - 1
  BY <1>1, NumbersType
<1>5. /\ <<Head(q).n>> \o Numbers(Tail(q)) \in Seq(Nat)
      /\ Len(<<Head(q).n>> \o Numbers(Tail(q))) = Len(q)
  <2> DEFINE first == <<Head(q).n>>
             rest  == Numbers(Tail(q))
  <2>1. first \in Seq(Nat) /\ Len(first) = 1
    BY <1>2
  <2>2. rest \in Seq(Nat) /\ Len(rest) = Len(q) - 1
    BY <1>4
  <2> HIDE DEF first, rest
  <2>3. first \o rest \in Seq(Nat) /\ Len(first \o rest) = Len(first) + Len(rest)
    BY <2>1, <2>2, ConcatProperties
  <2>4. Len(first) + Len(rest) = Len(q)
    BY <2>1, <2>2, <1>1
  <2>5. QED
    BY <2>3, <2>4 DEF first, rest
<1>6. ASSUME NEW i \in 1 .. Len(q)
      PROVE  Numbers(q)[i] = (<<Head(q).n>> \o Numbers(Tail(q)))[i]
  <2>1. Numbers(q)[i] = q[i].n
    BY NumbersType
  <2>2. CASE i = 1
    BY <2>1, <2>2, <1>1, <1>2, <1>4
  <2>3. CASE i # 1
    <3>1. i - 1 \in 1 .. Len(Tail(q)) /\ i - 1 + 1 = i
      BY <2>3, <1>1
    <3>2. Tail(q)[i - 1] = q[i]
      BY <3>1, HeadTailProperties
    <3>3. Numbers(Tail(q))[i - 1] = q[i].n
      BY <3>1, <3>2, <1>1, NumbersType
    <3>4. (<<Head(q).n>> \o Numbers(Tail(q)))[i] = Numbers(Tail(q))[i - 1]
      BY <2>3, <1>1, <1>2, <1>4
    <3>5. QED
      BY <2>1, <3>3, <3>4
  <2>4. QED
    BY <2>2, <2>3
<1>7. QED
  BY <1>3, <1>5, <1>6, SeqEqual

QueueType == [pending : Seq(Tasks), running : Seq(Tasks), count : 0 .. MaxTasks, ran : Seq(1 .. MaxTasks)]

\* push keeps the types and the order.
LEMMA PushedInOrder ==
  ASSUME tasks \in QueueType, InOrder(tasks), tasks.count < MaxTasks
  PROVE  Pushed \in QueueType /\ InOrder(Pushed)
<1> DEFINE t == [kind |-> "task", n |-> tasks.count + 1]
           a == tasks.ran \o Numbers(tasks.running)
           c == tasks.count
<1>1. c \in Nat /\ c + 1 \in 1 .. MaxTasks /\ t \in Tasks
  BY BoundsAssumption DEF QueueType, Tasks
<1>2. /\ Pushed.ran = tasks.ran /\ Pushed.running = tasks.running
      /\ Pushed.count = c + 1 /\ Pushed.pending = Append(tasks.pending, t)
      /\ Pushed \in QueueType
  <2>1. Append(tasks.pending, t) \in Seq(Tasks)
    BY <1>1 DEF QueueType
  <2>2. Pushed = [tasks EXCEPT !.count = c + 1, !.pending = Append(tasks.pending, t)]
    BY DEF Pushed
  <2>3. c + 1 \in 0 .. MaxTasks
    BY <1>1
  <2> HIDE DEF t
  <2>4. QED
    BY <2>1, <2>2, <2>3 DEF QueueType
<1>3. tasks.ran \in Seq(Nat)
  <2>1. tasks.ran \in Seq(1 .. MaxTasks) /\ 1 .. MaxTasks \subseteq Nat
    BY DEF QueueType
  <2>2. QED
    BY <2>1, SeqMonotonic
<1>4. a \in Seq(Nat) /\ Numbers(tasks.pending) \in Seq(Nat)
  BY <1>3, NumbersType DEF QueueType
<1>5. Numbers(Pushed.pending) = Numbers(tasks.pending) \o <<c + 1>>
  BY <1>1, <1>2, NumbersPushed DEF QueueType
<1>6. a \o Numbers(Pushed.pending) = (a \o Numbers(tasks.pending)) \o <<c + 1>>
  <2>1. <<c + 1>> \in Seq(Nat)
    BY <1>1
  <2> HIDE DEF a
  <2>2. QED
    BY <2>1, <1>4, <1>5, ConcatAssociative
<1>7. [i \in 1 .. c |-> i] \o <<c + 1>> = [i \in 1 .. c + 1 |-> i]
  BY <1>1
<1>8. QED
  BY <1>2, <1>6, <1>7 DEF InOrder

\* The swap finds no task of an earlier swap and moves all that wait.
LEMMA SwapInOrder ==
  ASSUME tasks \in QueueType, InOrder(tasks), tasks.running = <<>>
  PROVE  LET k == [tasks EXCEPT !.running = tasks.pending, !.pending = <<>>]
         IN  k \in QueueType /\ InOrder(k)
<1> DEFINE k == [tasks EXCEPT !.running = tasks.pending, !.pending = <<>>]
           P == Numbers(tasks.pending)
<1>1. /\ k \in QueueType /\ k.ran = tasks.ran /\ k.count = tasks.count
      /\ k.running = tasks.pending /\ k.pending = <<>>
  BY DEF QueueType
<1>2. tasks.ran \in Seq(Nat) /\ P \in Seq(Nat)
  <2>1. tasks.ran \in Seq(1 .. MaxTasks) /\ 1 .. MaxTasks \subseteq Nat
    BY BoundsAssumption DEF QueueType
  <2>2. QED
    BY <2>1, SeqMonotonic, NumbersType DEF QueueType
<1>3. Numbers(<<>>) = <<>>
  BY DEF Numbers
<1>4. tasks.ran \o P \in Seq(Nat)
  BY <1>2, ConcatProperties
<1>5. k.ran \o Numbers(k.running) \o Numbers(k.pending) = tasks.ran \o P
  BY <1>1, <1>3, <1>4, ConcatEmptySeq
<1>6. tasks.ran \o Numbers(tasks.running) \o P = tasks.ran \o P
  BY <1>2, <1>3, ConcatEmptySeq
<1>7. QED
  BY <1>1, <1>5, <1>6 DEF InOrder

\* A task that runs leaves the front of the queue for the end of the history.
LEMMA RunInOrder ==
  ASSUME tasks \in QueueType, InOrder(tasks), tasks.running # <<>>
  PROVE  LET k == [tasks EXCEPT !.running = Tail(@), !.ran = Append(@, Head(tasks.running).n)]
         IN  k \in QueueType /\ InOrder(k)
<1> DEFINE k == [tasks EXCEPT !.running = Tail(@), !.ran = Append(@, Head(tasks.running).n)]
           h == Head(tasks.running).n
<1>1. /\ Head(tasks.running) \in Tasks /\ Tail(tasks.running) \in Seq(Tasks)
      /\ tasks.ran \in Seq(1 .. MaxTasks) /\ 1 .. MaxTasks \subseteq Nat
  BY HeadTailProperties DEF QueueType
<1>2. h \in 1 .. MaxTasks
  BY <1>1 DEF Tasks
<1>3. /\ k \in QueueType /\ k.ran = Append(tasks.ran, h) /\ k.count = tasks.count
      /\ k.running = Tail(tasks.running) /\ k.pending = tasks.pending
  <2>1. Append(tasks.ran, h) \in Seq(1 .. MaxTasks)
    BY <1>1, <1>2
  <2>2. QED
    BY <2>1, <1>1 DEF QueueType
<1> HIDE DEF k, h
<1>4. tasks.ran \in Seq(Nat) /\ <<h>> \in Seq(Nat) /\ Numbers(Tail(tasks.running)) \in Seq(Nat)
  <2>1. tasks.ran \in Seq(Nat)
    BY <1>1, SeqMonotonic
  <2>2. <<h>> \in Seq(Nat)
    BY <1>1, <1>2
  <2>3. QED
    BY <2>1, <2>2, <1>1, NumbersType
<1>5. k.ran = tasks.ran \o <<h>>
  BY <1>2, <1>3, <1>4
<1>6. k.ran \o Numbers(k.running) = tasks.ran \o (<<h>> \o Numbers(Tail(tasks.running)))
  <2> DEFINE one  == <<h>>
             rest == Numbers(Tail(tasks.running))
             ran  == tasks.ran
  <2>1. ran \in Seq(Nat) /\ one \in Seq(Nat) /\ rest \in Seq(Nat)
    BY <1>4
  <2>2. k.ran \o Numbers(k.running) = (ran \o one) \o rest
    BY <1>3, <1>5
  <2> HIDE DEF one, rest, ran
  <2>3. (ran \o one) \o rest = ran \o (one \o rest)
    BY <2>1, ConcatAssociative
  <2>4. QED
    BY <2>2, <2>3 DEF one, rest, ran
<1>7. Numbers(tasks.running) = <<h>> \o Numbers(Tail(tasks.running))
  BY NumbersTaken DEF QueueType, h
<1>8. InOrder(k)
  BY <1>3, <1>6, <1>7 DEF InOrder
<1>9. QED
  BY <1>3, <1>8 DEF k, h

-------------------------------------------------------------------------------
(* The tables.                                                                 *)

SourceType == [Sources -> SourceRecord]
TableType  == [timer : [Fds -> Timers \cup {None}], watch : [Fds -> Watches \cup {None}]]

\* TablesAgree of the sources srcs and the maps tab.
Agree(srcs, tab) ==
  /\ \A d \in Fds : tab.timer[d] = None \/ tab.watch[d] = None
  /\ \A s \in Sources : \A d, e \in FdsOf(tab, s) : d = e
  /\ \A s \in Sources : srcs[s].life = "live" <=> FdsOf(tab, s) # {}

\* Timers, watches, tasks and None are told apart by their kinds.
LEMMA Kinds ==
  /\ None \notin Sources /\ Timers \cap Watches = {}
  /\ Timers \subseteq Sources /\ Watches \subseteq Sources
  /\ \A s \in Sources : s \in Timers \/ s \in Watches
  BY DEF None, Sources, Timers, Watches

\* A descriptor that is not open is in neither map.
LEMMA NewFdIsFree ==
  ASSUME sources \in SourceType, table \in TableType, Agree(sources, table), NEW d \in NewFd
  PROVE  d \in Fds /\ table.timer[d] = None /\ table.watch[d] = None
<1>1. d \in Fds /\ d \notin Open
  BY DEF NewFd
<1>2. ASSUME NEW s \in Sources, d \in FdsOf(table, s) PROVE FALSE
  BY <1>1, <1>2 DEF Agree, Open
<1>3. table.timer[d] \in Sources \cup {None} /\ table.watch[d] \in Sources \cup {None}
  BY <1>1, Kinds DEF TableType
<1>4. QED
  BY <1>1, <1>2, <1>3 DEF FdsOf

\* A new source gets one descriptor and no other source loses or gets one.
LEMMA AddedAgrees ==
  ASSUME sources \in SourceType, table \in TableType, Agree(sources, table),
         NEW d \in NewFd, NEW s \in Sources, sources[s].life = "new",
         NEW srcs \in SourceType, NEW tab \in TableType,
         srcs[s].life = "live",
         \A r \in Sources \ {s} : srcs[r].life = sources[r].life,
         \/ s \in Timers /\ tab = [table EXCEPT !.timer[d] = s]
         \/ s \in Watches /\ tab = [table EXCEPT !.watch[d] = s]
  PROVE  Agree(srcs, tab)
<1>1. d \in Fds /\ table.timer[d] = None /\ table.watch[d] = None
  BY NewFdIsFree
<1>2. FdsOf(table, s) = {}
  BY DEF Agree
<1>3. \A r \in Sources \ {s} : FdsOf(tab, r) = FdsOf(table, r)
  BY <1>1, Kinds DEF FdsOf, TableType
<1>4. FdsOf(tab, s) = {d}
  BY <1>1, <1>2, Kinds DEF FdsOf, TableType
<1>5. \A e \in Fds : tab.timer[e] = None \/ tab.watch[e] = None
  BY <1>1 DEF Agree, TableType
<1>6. QED
  BY <1>3, <1>4, <1>5 DEF Agree

\* A map that has forgotten s.
Without(m, s) == [d \in Fds |-> IF m[d] = s THEN None ELSE m[d]]

\* A source that ends takes its descriptor with it.
LEMMA RemovedAgrees ==
  ASSUME table \in TableType, NEW live, Agree(live, table), NEW s \in Sources,
         NEW srcs, NEW tab \in TableType,
         srcs[s].life = "gone",
         \A r \in Sources \ {s} : srcs[r].life = live[r].life,
         \/ s \in Timers  /\ tab.timer = Without(table.timer, s) /\ tab.watch = table.watch
         \/ s \in Watches /\ tab.watch = Without(table.watch, s) /\ tab.timer = table.timer
  PROVE  Agree(srcs, tab)
<1>1. \A r \in Sources \ {s} : FdsOf(tab, r) = FdsOf(table, r)
  BY Kinds DEF FdsOf, TableType, Without
<1>2. FdsOf(tab, s) = {}
  BY Kinds DEF FdsOf, TableType, Without
<1>3. \A d \in Fds : tab.timer[d] = None \/ tab.watch[d] = None
  BY DEF Agree, TableType, Without
<1>4. QED
  BY <1>1, <1>2, <1>3 DEF Agree

\* What changes neither the maps nor who is alive keeps the agreement.
LEMMA QuietAgrees ==
  ASSUME Agree(sources, table), NEW srcs,
         \A r \in Sources : srcs[r].life = sources[r].life
  PROVE  Agree(srcs, table)
  BY DEF Agree

-------------------------------------------------------------------------------
(* Every step keeps Inv.                                                       *)

LEMMA InvParts ==
  Inv <=> /\ sources \in SourceType /\ table \in TableType /\ Agree(sources, table)
          /\ batch \in Seq(Fds \cup {Wakeup})
          /\ phase \in Phases
          /\ busy \in Sources \cup Tasks \cup {None}
          /\ tasks \in QueueType /\ InOrder(tasks)
          /\ wake \in BOOLEAN
          /\ posting \subseteq Posters
          /\ WakeInv
  BY DEF Inv, TypeOK, TablesAgree, Agree, SourceType, TableType, QueueType

LEMMA InvPartsNext ==
  Inv' <=> /\ sources' \in SourceType /\ table' \in TableType /\ Agree(sources', table')
           /\ batch' \in Seq(Fds \cup {Wakeup})
           /\ phase' \in Phases
           /\ busy' \in Sources \cup Tasks \cup {None}
           /\ tasks' \in QueueType /\ InOrder(tasks')
           /\ wake' \in BOOLEAN
           /\ posting' \subseteq Posters
           /\ WakeInv'
  BY DEF Inv, TypeOK, TablesAgree, Agree, SourceType, TableType, QueueType, FdsOf, InOrder

\* Before anything is added there is nothing to agree on.
LEMMA InitInv == Init => Inv
<1> SUFFICES ASSUME Init PROVE Inv
  OBVIOUS
<1>1. sources \in SourceType /\ table \in TableType
  BY DEF Init, SourceType, SourceRecord, TableType
<1>2. \A s \in Sources : FdsOf(table, s) = {} /\ sources[s].life = "new"
  BY Kinds DEF Init, FdsOf
<1>3. Agree(sources, table)
  BY <1>1, <1>2 DEF Agree, Init
<1>4. tasks \in QueueType
  BY BoundsAssumption DEF Init, QueueType
<1>5. InOrder(tasks)
  <2>1. Numbers(<<>>) = <<>> /\ <<>> \in Seq(Nat)
    BY DEF Numbers
  <2>2. <<>> \o Numbers(<<>>) \o Numbers(<<>>) = <<>>
    BY <2>1, ConcatEmptySeq
  <2>3. [i \in 1 .. 0 |-> i] = <<>>
    OBVIOUS
  <2>4. tasks.ran = <<>> /\ tasks.running = <<>> /\ tasks.pending = <<>> /\ tasks.count = 0
    BY DEF Init
  <2>5. QED
    BY <2>2, <2>3, <2>4 DEF InOrder
<1>6. batch \in Seq(Fds \cup {Wakeup}) /\ tasks.pending = <<>>
  BY EmptySeq DEF Init
<1>7. phase \in Phases /\ busy \in Sources \cup Tasks \cup {None}
      /\ wake \in BOOLEAN /\ posting \subseteq Posters
  BY DEF Init, Phases
<1>8. QED
  BY <1>1, <1>3, <1>4, <1>5, <1>6, <1>7, InvParts DEF WakeInv

\* A new timer or watch.
LEMMA AddInv ==
  ASSUME Inv,
         \/ \E t \in Timers, r \in BOOLEAN : AddTimer(t, r)
         \/ \E w \in Watches : AddFd(w)
  PROVE  Inv'
<1> USE InvParts
<1>1. ASSUME NEW t \in Timers, NEW r \in BOOLEAN, AddTimer(t, r) PROVE Inv'
  <2>1. PICK d \in NewFd :
          /\ table' = [table EXCEPT !.timer[d] = t]
          /\ sources' = [sources EXCEPT ![t] = [life |-> "live", recurring |-> r, due |-> FALSE]]
    BY <1>1 DEF AddTimer
  <2>2. d \in Fds /\ t \in Sources /\ sources[t].life = "new"
    BY <1>1, Kinds, NewFdIsFree DEF AddTimer, Fresh
  <2>3. sources' \in SourceType /\ table' \in TableType
    BY <2>1, <2>2 DEF SourceType, SourceRecord, TableType
  <2>4. sources'[t].life = "live" /\ \A q \in Sources \ {t} : sources'[q].life = sources[q].life
    BY <2>1, <2>2 DEF SourceType
  <2>5. Agree(sources', table')
    BY <2>1, <2>2, <2>3, <2>4, AddedAgrees
  <2>6. QED
    BY <1>1, <2>3, <2>5, InvPartsNext DEF AddTimer, WakeInv
<1>2. ASSUME NEW w \in Watches, AddFd(w) PROVE Inv'
  <2>1. PICK d \in NewFd :
          /\ table' = [table EXCEPT !.watch[d] = w]
          /\ sources' = [sources EXCEPT ![w].life = "live"]
    BY <1>2 DEF AddFd
  <2>2. d \in Fds /\ w \in Sources /\ sources[w].life = "new"
    BY <1>2, Kinds, NewFdIsFree DEF AddFd, Fresh
  <2>3. sources' \in SourceType /\ table' \in TableType
    BY <2>1, <2>2 DEF SourceType, SourceRecord, TableType
  <2>4. sources'[w].life = "live" /\ \A q \in Sources \ {w} : sources'[q].life = sources[q].life
    BY <2>1, <2>2 DEF SourceType, SourceRecord
  <2>5. Agree(sources', table')
    BY <2>1, <2>2, <2>3, <2>4, AddedAgrees
  <2>6. QED
    BY <1>2, <2>3, <2>5, InvPartsNext DEF AddFd, WakeInv
<1>3. QED
  BY <1>1, <1>2

\* cancel_timer, from whatever sources live, which agree with the maps.
LEMMA CancelledAgrees ==
  ASSUME table \in TableType, NEW live \in SourceType, Agree(live, table), NEW t \in Timers
  PROVE  /\ Cancelled(live, table, t).srcs \in SourceType
         /\ Cancelled(live, table, t).tab \in TableType
         /\ Agree(Cancelled(live, table, t).srcs, Cancelled(live, table, t).tab)
<1> DEFINE srcs == Cancelled(live, table, t).srcs
           tab  == Cancelled(live, table, t).tab
<1>1. t \in Sources
  BY Kinds
<1>2. /\ srcs = [live EXCEPT ![t].life = "gone", ![t].due = FALSE]
      /\ tab = [table EXCEPT !.timer = Without(@, t)]
  BY DEF Cancelled, Without
<1> HIDE DEF srcs, tab
<1>3. /\ srcs \in SourceType /\ tab \in TableType
      /\ tab.timer = Without(table.timer, t) /\ tab.watch = table.watch
  BY <1>1, <1>2 DEF SourceType, SourceRecord, TableType, Without
<1>4. srcs[t].life = "gone" /\ \A r \in Sources \ {t} : srcs[r].life = live[r].life
  BY <1>1, <1>2 DEF SourceType, SourceRecord
<1>5. Agree(srcs, tab)
  BY <1>1, <1>3, <1>4, RemovedAgrees
<1>6. QED
  BY <1>3, <1>5 DEF srcs, tab

\* A timer or a watch is removed.
LEMMA RemoveInv ==
  ASSUME Inv,
         \/ \E t \in Timers : CancelTimer(t)
         \/ \E w \in Watches : RemoveFd(w)
  PROVE  Inv'
<1> USE InvParts
<1>1. ASSUME NEW t \in Timers, CancelTimer(t) PROVE Inv'
  <2>1. sources' \in SourceType /\ table' \in TableType /\ Agree(sources', table')
    BY <1>1, CancelledAgrees DEF CancelTimer
  <2>2. QED
    BY <1>1, <2>1, InvPartsNext DEF CancelTimer, WakeInv
<1>2. ASSUME NEW w \in Watches, RemoveFd(w) PROVE Inv'
  <2>1. w \in Sources
    BY Kinds
  <2>2. /\ sources' = [sources EXCEPT ![w].life = "gone", ![w].due = FALSE]
        /\ table' = [table EXCEPT !.watch = Without(@, w)]
    BY <1>2 DEF RemoveFd, Without
  <2>3. /\ sources' \in SourceType /\ table' \in TableType
        /\ table'.watch = Without(table.watch, w) /\ table'.timer = table.timer
    BY <2>1, <2>2 DEF SourceType, SourceRecord, TableType, Without
  <2>4. sources'[w].life = "gone" /\ \A r \in Sources \ {w} : sources'[r].life = sources[r].life
    BY <2>1, <2>2 DEF SourceType, SourceRecord
  <2>5. Agree(sources', table')
    BY <2>1, <2>3, <2>4, RemovedAgrees
  <2>6. QED
    BY <1>2, <2>3, <2>5, InvPartsNext DEF RemoveFd, WakeInv
<1>3. QED
  BY <1>1, <1>2

\* A task is posted, by the loop's thread or in the two steps of another one.
LEMMA PostInv ==
  ASSUME Inv, Post \/ \E p \in Posters : PostPush(p) \/ PostWake(p)
  PROVE  Inv'
<1> USE InvParts
<1>1. CASE Post
  BY <1>1, PushedInOrder, InvPartsNext DEF Post, WakeInv
<1>2. ASSUME NEW p \in Posters, PostPush(p) PROVE Inv'
  <2>1. posting' \subseteq Posters /\ posting' # {}
    BY <1>2 DEF PostPush
  <2>2. QED
    BY <1>2, <2>1, PushedInOrder, InvPartsNext DEF PostPush, WakeInv
<1>3. ASSUME NEW p \in Posters, PostWake(p) PROVE Inv'
  BY <1>3, InvPartsNext DEF PostWake, WakeInv
<1>4. QED
  BY <1>1, <1>2, <1>3

\* epoll_wait returns a sequence of descriptors.
LEMMA WaitInv ==
  ASSUME Inv, Wait
  PROVE  Inv'
<1> USE InvParts
<1>1. Ready \subseteq Fds \cup {Wakeup}
  BY DEF Ready
<1>2. IsFiniteSet(Fds \cup {Wakeup})
  <2>1. IsFiniteSet(Fds)
    BY BoundsAssumption, FS_Interval DEF Fds
  <2>2. IsFiniteSet({Wakeup})
    BY FS_Singleton
  <2>3. QED
    BY <2>1, <2>2, FS_Union
<1>3. Cardinality(Ready) \in Nat
  BY <1>1, <1>2, FS_Subset, FS_CardinalityType
<1>4. batch' \in [1 .. Cardinality(Ready) -> Ready]
  BY DEF Wait, SetToSeqs
<1>5. batch' \in Seq(Fds \cup {Wakeup})
  <2>1. batch' \in Seq(Ready)
    BY <1>3, <1>4
  <2>2. QED
    BY <1>1, <2>1, SeqMonotonic
<1>6. QED
  BY <1>5, InvPartsNext DEF Wait, Phases, WakeInv

\* One event of the batch is handled.
LEMMA HandleInv ==
  ASSUME Inv, HandleWakeup \/ HandleTimer \/ HandleFd
  PROVE  Inv'
<1> USE InvParts
<1>1. batch # <<>> /\ batch' = Tail(batch)
  BY DEF HandleWakeup, HandleTimer, HandleFd
<1>2. batch' \in Seq(Fds \cup {Wakeup})
  BY <1>1, HeadTailProperties
<1>3. CASE HandleWakeup
  BY <1>2, <1>3, InvPartsNext DEF HandleWakeup, Phases, WakeInv
<1>4. CASE HandleTimer
  <2> DEFINE t    == table.timer[Head(batch)]
             read == [sources EXCEPT ![t].due = FALSE]
  <2>1. t # None /\ t \in Timers /\ t \in Sources
    BY <1>4, Kinds DEF HandleTimer, TableType
  <2>2. \/ UNCHANGED <<sources, table, busy>>
        \/ sources' = read /\ busy' = t /\ UNCHANGED table
        \/ /\ sources' = Cancelled(read, table, t).srcs
           /\ table' = Cancelled(read, table, t).tab
           /\ busy' = t
    BY <1>4 DEF HandleTimer
  <2> HIDE DEF t
  <2>3. read \in SourceType /\ \A r \in Sources : read[r].life = sources[r].life
    BY <2>1 DEF SourceType, SourceRecord
  <2> HIDE DEF read
  <2>4. Agree(read, table)
    BY <2>3, QuietAgrees
  <2>5. sources' \in SourceType /\ table' \in TableType /\ Agree(sources', table')
    BY <2>1, <2>2, <2>3, <2>4, CancelledAgrees
  <2>6. busy' \in Sources \cup Tasks \cup {None}
    BY <2>1, <2>2
  <2>7. QED
    BY <1>2, <1>4, <2>5, <2>6, InvPartsNext DEF HandleTimer, WakeInv
<1>5. CASE HandleFd
  <2> DEFINE w == table.watch[Head(batch)]
  <2>1. w = None \/ (w \in Watches /\ w \in Sources)
    BY <1>5, Kinds DEF HandleFd, TableType
  <2>2. \/ UNCHANGED <<sources, busy>>
        \/ w # None /\ sources' = [sources EXCEPT ![w].due = FALSE] /\ busy' = w
    BY <1>5 DEF HandleFd
  <2> HIDE DEF w
  <2>3. /\ sources' \in SourceType /\ \A r \in Sources : sources'[r].life = sources[r].life
        /\ busy' \in Sources \cup Tasks \cup {None}
    <3>1. CASE UNCHANGED <<sources, busy>>
      BY <3>1
    <3>2. CASE w # None /\ sources' = [sources EXCEPT ![w].due = FALSE] /\ busy' = w
      <4>1. w \in Sources
        BY <2>1, <3>2
      <4>2. QED
        BY <3>2, <4>1 DEF SourceType, SourceRecord
    <3>3. QED
      BY <2>2, <3>1, <3>2
  <2>4. Agree(sources', table)
    BY <2>3, QuietAgrees
  <2>5. QED
    BY <1>2, <1>5, <2>3, <2>4, InvPartsNext DEF HandleFd, WakeInv
<1>6. QED
  BY <1>3, <1>4, <1>5

\* Tasks are swapped out and run, callbacks return, the dispatch ends.
LEMMA TaskInv ==
  ASSUME Inv, SwapTasks \/ RunTask \/ Return \/ EndDispatch
  PROVE  Inv'
<1> USE InvParts
<1>1. CASE SwapTasks
  <2>1. tasks' \in QueueType /\ InOrder(tasks') /\ tasks'.pending = <<>>
    BY <1>1, SwapInOrder DEF SwapTasks, Quiet, QueueType
  <2>2. QED
    BY <1>1, <2>1, InvPartsNext DEF SwapTasks, Phases, WakeInv
<1>2. CASE RunTask
  <2>1. tasks' \in QueueType /\ InOrder(tasks') /\ tasks'.pending = tasks.pending
    BY <1>2, RunInOrder DEF RunTask, QueueType
  <2>2. busy' \in Tasks
    BY <1>2, HeadTailProperties DEF RunTask, QueueType
  <2>3. QED
    BY <1>2, <2>1, <2>2, InvPartsNext DEF RunTask, WakeInv
<1>3. CASE Return
  BY <1>3, InvPartsNext DEF Return, WakeInv
<1>4. CASE EndDispatch
  BY <1>4, InvPartsNext DEF EndDispatch, Phases, WakeInv
<1>5. QED
  BY <1>1, <1>2, <1>3, <1>4

\* A timer expires or something arrives, and steps that change nothing.
LEMMA OutsideInv ==
  ASSUME Inv, UNCHANGED vars \/ \E s \in Sources : BecomeDue(s)
  PROVE  Inv'
<1> USE InvParts
<1>1. ASSUME NEW s \in Sources, BecomeDue(s) PROVE Inv'
  <2>1. /\ sources' \in SourceType
        /\ \A r \in Sources : sources'[r].life = sources[r].life
    BY <1>1 DEF BecomeDue, SourceType, SourceRecord
  <2>2. Agree(sources', table)
    BY <2>1, QuietAgrees
  <2>3. QED
    BY <1>1, <2>1, <2>2, InvPartsNext DEF BecomeDue, WakeInv
<1>2. CASE UNCHANGED vars
  BY <1>2, InvPartsNext DEF vars, WakeInv
<1>3. QED
  BY <1>1, <1>2

LEMMA NextInv == Inv /\ [Next]_vars => Inv'
<1> SUFFICES ASSUME Inv, [Next]_vars PROVE Inv'
  OBVIOUS
<1>1. CASE DispatchStep
  BY <1>1, WaitInv, HandleInv, TaskInv DEF DispatchStep
<1>2. CASE CallStep
  BY <1>2, AddInv, RemoveInv, PostInv DEF CallStep
<1>3. CASE OtherStep
  BY <1>3, PostInv, OutsideInv DEF OtherStep
<1>4. CASE UNCHANGED vars
  BY <1>4, OutsideInv
<1>5. QED
  BY <1>1, <1>2, <1>3, <1>4 DEF Next

-------------------------------------------------------------------------------
(* The theorems.                                                               *)

\* Inv is an invariant of the loop, whatever callbacks do and whoever posts.
THEOREM Invariance == Spec => []Inv
<1>1. QED
  BY InitInv, NextInv, PTL DEF Spec

\* Callbacks and posting threads keep the types.
THEOREM TypeCorrect == Spec => []TypeOK
<1>1. Inv => TypeOK
  BY DEF Inv
<1>2. QED
  BY <1>1, Invariance, PTL

\* The maps of the loop name each open descriptor for exactly one live source, however
\* callbacks change them while a batch is dispatched.
THEOREM TablesExact == Spec => []TablesAgree
<1>1. Inv => TablesAgree
  BY DEF Inv
<1>2. QED
  BY <1>1, Invariance, PTL

\* The loop never goes to sleep on a posted task: the eventfd is read before the tasks are
\* swapped out, and written after they are pushed.
THEOREM NoLostWakeup == Spec => []NoSleepOnTask
<1>1. Inv => NoSleepOnTask
  BY DEF Inv, WakeInv, NoSleepOnTask
<1>2. QED
  BY <1>1, Invariance, PTL

\* Tasks run once each, in the order in which they were posted.
THEOREM TasksOnceInOrder == Spec => []TasksInOrder
<1>1. Inv => TasksInOrder
  BY DEF Inv, InOrder, Numbers, TasksInOrder
<1>2. QED
  BY <1>1, Invariance, PTL
===============================================================================

------------------------------- MODULE EventLoop -------------------------------
(***************************************************************************)
(* ldde::core::EventLoop: one thread waits with epoll on descriptors, timers *)
(* (a timerfd each) and an eventfd, and calls back for each event of the     *)
(* batch that epoll_wait returns; any thread may post tasks.                 *)
(*                                                                           *)
(* A callback is not atomic: while one runs, the loop's thread makes any     *)
(* calls to the loop, one per step, and other threads post in between.       *)
(* Descriptors are numbers and a closed one is reused, the lowest first, as   *)
(* the kernel does.                                                          *)
(***************************************************************************)
EXTENDS Integers, Sequences, SequencesExt

CONSTANTS
  MaxTimers,    \* bound: timers ever added
  MaxWatches,   \* bound: descriptors ever watched
  MaxTasks,     \* bound: tasks ever posted
  MaxFds,       \* bound: descriptors open at a time, besides the eventfd
  Posters       \* other threads that post

ASSUME BoundsAssumption ==
  /\ MaxTimers \in Nat /\ MaxWatches \in Nat /\ MaxTasks \in Nat /\ MaxFds \in Nat

VARIABLES
  sources,  \* timers and watches; see SourceRecord
  table,    \* timer: timer_fd_to_id_, watch: fd_watches_
  batch,    \* the events of dispatch still to be handled
  phase,    \* what the loop's thread is doing between callbacks
  busy,     \* the source or task whose callback runs
  tasks,    \* pending: pending_tasks_; running: the tasks that were swapped out;
            \* count: number of tasks pushed so far; ran: those run, in order
  wake,     \* the eventfd is readable
  posting   \* other threads between push and wakeup

vars == <<sources, table, batch, phase, busy, tasks, wake, posting>>

Timers  == [kind : {"timer"}, n : 1 .. MaxTimers]
Watches == [kind : {"watch"}, n : 1 .. MaxWatches]
Sources == Timers \cup Watches
None    == [kind |-> "none", n |-> 0]
Tasks   == [kind : {"task"}, n : 1 .. MaxTasks]

Fds    == 1 .. MaxFds
Wakeup == 0

\* due: a timer has expired, or a descriptor is readable, and has not been read.
SourceRecord == [life : {"new", "live", "gone"}, recurring : BOOLEAN, due : BOOLEAN]

Phases == {"idle", "batch", "woken", "tasks"}

-------------------------------------------------------------------------------
Init ==
  /\ sources = [s \in Sources |-> [life |-> "new", recurring |-> FALSE, due |-> FALSE]]
  /\ table = [timer |-> [d \in Fds |-> None], watch |-> [d \in Fds |-> None]]
  /\ batch = <<>>
  /\ phase = "idle"
  /\ busy = None
  /\ tasks = [pending |-> <<>>, running |-> <<>>, count |-> 0, ran |-> <<>>]
  /\ wake = FALSE
  /\ posting = {}

FdsOf(tab, s) == {d \in Fds : tab.timer[d] = s \/ tab.watch[d] = s}

\* The descriptors of live sources are open in the kernel.
Open == {d \in Fds : \E s \in Sources : sources[s].life = "live" /\ d \in FdsOf(table, s)}

\* The number the kernel gives to a new descriptor, if there is one left.
NewFd == {d \in Fds \ Open : \A e \in Fds \ Open : d <= e}

Fresh(s) == /\ sources[s].life = "new"
            /\ \A r \in Sources : r.kind = s.kind /\ r.n < s.n => sources[r].life # "new"

\* Seeded fault: the descriptor stays in timer_fd_to_id_.
CancelledKeepingFd(srcs, tab, t) ==
  [srcs |-> [srcs EXCEPT ![t].life = "gone", ![t].due = FALSE], tab |-> tab]

\* cancel_timer: the timerfd is closed and both maps forget it.
Cancelled(srcs, tab, t) ==
  [srcs |-> [srcs EXCEPT ![t].life = "gone", ![t].due = FALSE],
   tab  |-> [tab EXCEPT !.timer = [d \in Fds |-> IF @[d] = t THEN None ELSE @[d]]]]

(* Calls by the loop's own thread: in a callback, or between two dispatches.   *)

MayCall == busy # None \/ phase = "idle"

AddTimer(t, recurring) ==
  /\ MayCall /\ Fresh(t)
  /\ \E d \in NewFd :
       /\ table' = [table EXCEPT !.timer[d] = t]
       /\ sources' = [sources EXCEPT ![t] = [life |-> "live", recurring |-> recurring, due |-> FALSE]]
  /\ UNCHANGED <<batch, phase, busy, tasks, wake, posting>>

CancelTimer(t) ==
  /\ MayCall /\ sources[t].life = "live"
  /\ sources' = Cancelled(sources, table, t).srcs
  /\ table' = Cancelled(sources, table, t).tab
  /\ UNCHANGED <<batch, phase, busy, tasks, wake, posting>>

\* A caller opens a descriptor and calls add_fd.
AddFd(w) ==
  /\ MayCall /\ Fresh(w)
  /\ \E d \in NewFd :
       /\ table' = [table EXCEPT !.watch[d] = w]
       /\ sources' = [sources EXCEPT ![w].life = "live"]
  /\ UNCHANGED <<batch, phase, busy, tasks, wake, posting>>

\* A caller calls remove_fd and closes the descriptor.
RemoveFd(w) ==
  /\ MayCall /\ sources[w].life = "live" /\ busy # w
  /\ sources' = [sources EXCEPT ![w].life = "gone", ![w].due = FALSE]
  /\ table' = [table EXCEPT !.watch = [d \in Fds |-> IF @[d] = w THEN None ELSE @[d]]]
  /\ UNCHANGED <<batch, phase, busy, tasks, wake, posting>>

Pushed == [tasks EXCEPT !.count = @ + 1,
                        !.pending = Append(@, [kind |-> "task", n |-> tasks.count + 1])]

\* Seeded fault: the loop's own thread does not wake itself up.
PostQuietly ==
  /\ MayCall /\ tasks.count < MaxTasks
  /\ tasks' = Pushed
  /\ UNCHANGED <<sources, table, batch, phase, busy, wake, posting>>

\* post, on the loop's own thread
Post ==
  /\ MayCall /\ tasks.count < MaxTasks
  /\ tasks' = Pushed
  /\ wake' = TRUE
  /\ UNCHANGED <<sources, table, batch, phase, busy, posting>>

\* post, on another thread: the push under the mutex, then the write to the eventfd
PostPush(p) ==
  /\ p \notin posting /\ tasks.count < MaxTasks
  /\ tasks' = Pushed
  /\ posting' = posting \cup {p}
  /\ UNCHANGED <<sources, table, batch, phase, busy, wake>>

PostWake(p) ==
  /\ p \in posting
  /\ posting' = posting \ {p}
  /\ wake' = TRUE
  /\ UNCHANGED <<sources, table, batch, phase, busy, tasks>>

-------------------------------------------------------------------------------
(* dispatch                                                                    *)

Ready == {d \in Fds : \E s \in Sources : d \in FdsOf(table, s) /\ sources[s].life = "live" /\ sources[s].due}
         \cup {d \in {Wakeup} : wake}

\* epoll_wait returns what is ready, in some order, or nothing after the timeout.
Wait ==
  /\ phase = "idle" /\ busy = None
  /\ phase' = "batch"
  /\ batch' \in SetToSeqs(Ready)
  /\ UNCHANGED <<sources, table, busy, tasks, wake, posting>>

Quiet == busy = None /\ tasks.running = <<>>

\* handle_wakeup: the eventfd is read, then the tasks are swapped out.
HandleWakeup ==
  /\ phase = "batch" /\ Quiet
  /\ batch # <<>> /\ Head(batch) = Wakeup
  /\ batch' = Tail(batch)
  /\ wake' = FALSE
  /\ phase' = "woken"
  /\ UNCHANGED <<sources, table, busy, tasks, posting>>

\* handle_timer, for whichever timer has the descriptor now: what read returns is not
\* looked at.  A one-shot timer is cancelled before its callback runs.
HandleTimer ==
  /\ phase = "batch" /\ Quiet
  /\ batch # <<>> /\ Head(batch) \in Fds
  /\ LET t    == table.timer[Head(batch)]
         read == [sources EXCEPT ![t].due = FALSE]
         shot == Cancelled(read, table, t)
     IN  /\ t # None
         /\ IF sources[t].life # "live" THEN UNCHANGED <<sources, table, busy>>
            ELSE IF sources[t].recurring THEN sources' = read /\ busy' = t /\ UNCHANGED table
            ELSE sources' = shot.srcs /\ table' = shot.tab /\ busy' = t
  /\ batch' = Tail(batch)
  /\ UNCHANGED <<phase, tasks, wake, posting>>

\* A watched descriptor; the callback reads it.  An event of a descriptor that is in
\* neither map any more is dropped.
HandleFd ==
  /\ phase = "batch" /\ Quiet
  /\ batch # <<>> /\ Head(batch) \in Fds
  /\ table.timer[Head(batch)] = None
  /\ LET w == table.watch[Head(batch)]
     IN  IF w = None THEN UNCHANGED <<sources, busy>>
         ELSE sources' = [sources EXCEPT ![w].due = FALSE] /\ busy' = w
  /\ batch' = Tail(batch)
  /\ UNCHANGED <<table, phase, tasks, wake, posting>>

\* Seeded fault: the tasks are copied, not swapped.
SwapCopied ==
  /\ Quiet
  /\ phase = "woken" \/ (phase = "batch" /\ batch = <<>>)
  /\ phase' = IF phase = "woken" THEN "batch" ELSE "tasks"
  /\ tasks' = [tasks EXCEPT !.running = tasks.pending]
  /\ UNCHANGED <<sources, table, batch, busy, wake, posting>>

\* process_pending_tasks: the swap under the mutex, in handle_wakeup and at the end of
\* dispatch
SwapTasks ==
  /\ Quiet
  /\ phase = "woken" \/ (phase = "batch" /\ batch = <<>>)
  /\ phase' = IF phase = "woken" THEN "batch" ELSE "tasks"
  /\ tasks' = [tasks EXCEPT !.running = tasks.pending, !.pending = <<>>]
  /\ UNCHANGED <<sources, table, batch, busy, wake, posting>>

RunTask ==
  /\ busy = None /\ tasks.running # <<>>
  /\ busy' = Head(tasks.running)
  /\ tasks' = [tasks EXCEPT !.running = Tail(@), !.ran = Append(@, Head(tasks.running).n)]
  /\ UNCHANGED <<sources, table, batch, phase, wake, posting>>

\* The callback returns.
Return ==
  /\ busy # None
  /\ busy' = None
  /\ UNCHANGED <<sources, table, batch, phase, tasks, wake, posting>>

\* Seeded fault: the tasks that were posted while tasks ran are cleared with them.
EndClearing ==
  /\ phase = "tasks" /\ Quiet
  /\ phase' = "idle"
  /\ tasks' = [tasks EXCEPT !.pending = <<>>]
  /\ UNCHANGED <<sources, table, batch, busy, wake, posting>>

EndDispatch ==
  /\ phase = "tasks" /\ Quiet
  /\ phase' = "idle"
  /\ UNCHANGED <<sources, table, batch, busy, tasks, wake, posting>>

-------------------------------------------------------------------------------
\* The interval of a timer passes, or something arrives on a descriptor.
BecomeDue(s) ==
  /\ sources[s].life = "live" /\ ~sources[s].due
  /\ sources' = [sources EXCEPT ![s].due = TRUE]
  /\ UNCHANGED <<table, batch, phase, busy, tasks, wake, posting>>

DispatchStep == Wait \/ HandleWakeup \/ HandleTimer \/ HandleFd \/ SwapTasks \/ RunTask \/ Return \/ EndDispatch

CallStep == \/ \E t \in Timers : (\E r \in BOOLEAN : AddTimer(t, r)) \/ CancelTimer(t)
            \/ \E w \in Watches : AddFd(w) \/ RemoveFd(w)
            \/ Post

OtherStep == \/ \E p \in Posters : PostPush(p) \/ PostWake(p)
             \/ \E s \in Sources : BecomeDue(s)

Next == DispatchStep \/ CallStep \/ OtherStep

\* The loop's thread goes on (Application::run calls dispatch again and again, and
\* callbacks return), and so do the threads that post.
Fairness == WF_vars(DispatchStep) /\ \A p \in Posters : WF_vars(PostWake(p))

Spec == Init /\ [][Next]_vars /\ Fairness

-------------------------------------------------------------------------------
(* Properties.                                                                 *)

TypeOK ==
  /\ sources \in [Sources -> SourceRecord]
  /\ table \in [timer : [Fds -> Timers \cup {None}], watch : [Fds -> Watches \cup {None}]]
  /\ batch \in Seq(Fds \cup {Wakeup})
  /\ phase \in Phases
  /\ busy \in Sources \cup Tasks \cup {None}
  /\ tasks \in [pending : Seq(Tasks), running : Seq(Tasks), count : 0 .. MaxTasks, ran : Seq(1 .. MaxTasks)]
  /\ wake \in BOOLEAN
  /\ posting \subseteq Posters

\* The maps of the loop name each descriptor for at most one live source, and each live
\* source has exactly one descriptor: whatever callbacks cancel, remove and add.
TablesAgree ==
  /\ \A d \in Fds : table.timer[d] = None \/ table.watch[d] = None
  /\ \A s \in Sources : \A d, e \in FdsOf(table, s) : d = e
  /\ \A s \in Sources : sources[s].life = "live" <=> FdsOf(table, s) # {}

\* When the loop is about to sleep while tasks wait, the eventfd is readable or the thread
\* that posted is about to write it: no task waits for an unrelated event.
NoSleepOnTask == phase = "idle" /\ busy = None /\ tasks.pending # <<>> => wake \/ posting # {}

\* Tasks run once each and in the order of their posts, whichever threads posted them and
\* wherever in a dispatch they were swapped out.
TasksInOrder ==
  LET order == tasks.ran \o [i \in DOMAIN tasks.running |-> tasks.running[i].n]
                         \o [i \in DOMAIN tasks.pending |-> tasks.pending[i].n]
  IN  order = [i \in 1 .. tasks.count |-> i]

\* Every source that is ready and stays registered is read sooner or later.
SourcesServed == \A s \in Sources : sources[s].due ~> ~sources[s].due

\* Every posted task runs.
TasksRun == \A k \in 1 .. MaxTasks : tasks.count >= k ~> k \in ToSet(tasks.ran)

===============================================================================

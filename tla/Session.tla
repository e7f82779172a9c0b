-------------------------------- MODULE Session --------------------------------
(***************************************************************************)
(* The life of the LDDE process (ldde::core::Application): the staged        *)
(* initialization, the readiness report to the session manager LDDM, the main  *)
(* loop that drives the connection to the compositor and the event loop, and   *)
(* the shutdown with the join of the D-Bus worker thread.                      *)
(*                                                                             *)
(* The main thread is a program counter `at` over the stages of               *)
(* Application::initialize, run and perform_shutdown.  The compositor, LDDM,   *)
(* the applications, the timers and the worker thread take steps in between.   *)
(***************************************************************************)
EXTENDS Integers

CONSTANTS
  DBus,       \* TRUE: DBusNotificationBackend, the default; FALSE: the internal backend
  MaxEvents   \* bound: events of the compositor, or requests of applications, that wait

ASSUME DBusAssumption == DBus \in BOOLEAN
ASSUME MaxEventsAssumption == MaxEvents \in Nat \ {0}

VARIABLES
  at,        \* the stage the main thread is about to take
  life,      \* LifecycleManager::state_
  conn,      \* WaylandConnection; see ConnRecord
  outside,   \* the rest of the world; see OutsideRecord
  attached,  \* fds in the epoll set of the EventLoop
  reported,  \* ReadinessManager::ready_reported_
  code,      \* exit_code_, then the exit status of the process
  broke,     \* history: what other than a stop has ended the program
  worker     \* worker_thread_ of the D-Bus backend

vars == <<at, life, conn, outside, attached, reported, code, broke, worker>>

\* Stages of initialize() in program order; an error in one of them leads to "shutdown".
InitStages == {"start", "environment", "loop", "connect", "components",
               "roundtrip", "globals", "resync", "shell", "services", "readiness"}
LoopStages == {"run", "top", "wait"}
LastStages == {"shutdown", "join", "exited"}

LifeStates == {"Starting", "Initializing", "ConnectingWayland", "InitializingComponents",
               "Ready", "Running", "Stopping", "Stopped", "Failed"}

\* open: display_ is set; reading: reading_, a prepared read; queue: events read but not
\* dispatched; unsent: requests wait for a flush; lost: a failure has been noticed and
\* disconnect_callback_ has run.
ConnRecord == [open : BOOLEAN, reading : BOOLEAN, queue : BOOLEAN, unsent : BOOLEAN, lost : BOOLEAN]

\* alive: the compositor is; events: what it sent and LDDE has not read; server: the socket
\* for applications is open; requests: what they sent there; signal: LDDM has sent a
\* shutdown signal that is not yet handled; signalled: one was handled.
Counts == 0 .. MaxEvents

OutsideRecord == [alive : BOOLEAN, events : Counts, server : BOOLEAN, requests : Counts,
                  signal : BOOLEAN, signalled : BOOLEAN]

\* poll: epoll_wait has failed; exception: one has reached main.
Breaks == {"no", "poll", "exception"}

Workers == {"none", "starting", "looping", "ended"}

-------------------------------------------------------------------------------
(* LifecycleManager.                                                           *)

Forward == {<<"Starting", "Initializing">>, <<"Initializing", "ConnectingWayland">>,
            <<"ConnectingWayland", "InitializingComponents">>,
            <<"InitializingComponents", "Ready">>, <<"Ready", "Running">>}

\* Seeded fault: FAILED is a dead end.
StoppedOnlyFromStopping(from, to) ==
  \/ from = to
  \/ from # "Stopped" /\ to = "Failed"
  \/ from \notin {"Failed", "Stopped"} /\ to = "Stopping"
  \/ from = "Stopping" /\ to = "Stopped"
  \/ <<from, to>> \in Forward

\* LifecycleManager::is_valid_transition
ValidTransition(from, to) ==
  \/ from = to
  \/ from # "Stopped" /\ to = "Failed"
  \/ from \notin {"Failed", "Stopped"} /\ to = "Stopping"
  \/ from \in {"Stopping", "Failed"} /\ to = "Stopped"
  \/ <<from, to>> \in Forward

\* transition_to, where the caller does not look at the status
Transition(from, to) == IF ValidTransition(from, to) THEN to ELSE from

\* Seeded fault: a request during the initialization is left to the main loop.
RequestedWhenRunning(l) == IF l = "Running" THEN "Stopping" ELSE l

\* request_shutdown: what it makes of the lifecycle.
Requested(l) == IF l \in {"Stopping", "Stopped"} THEN l ELSE Transition(l, "Stopping")

-------------------------------------------------------------------------------
Init ==
  /\ at = "start"
  /\ life = "Starting"
  /\ conn = [open |-> FALSE, reading |-> FALSE, queue |-> FALSE, unsent |-> FALSE, lost |-> FALSE]
  /\ outside = [alive |-> TRUE, events |-> 0, server |-> FALSE, requests |-> 0,
                signal |-> FALSE, signalled |-> FALSE]
  /\ attached = {}
  /\ reported = FALSE
  /\ code = 0
  /\ broke = "no"
  /\ worker = "none"

(* Application::initialize.  An error makes main return 1, and ~Application     *)
(* shuts down what there is.                                                    *)

Proceed(stage, l) == at' = stage /\ life' = l /\ UNCHANGED code

\* Seeded fault: the status of a failed initialization is lost.
FailQuietly(l) == at' = "shutdown" /\ life' = Transition(l, "Failed") /\ UNCHANGED code

Fail(l) == at' = "shutdown" /\ life' = Transition(l, "Failed") /\ code' = 1

\* parse_args and the move to INITIALIZING.  --help and --version, which print and exit
\* without starting anything, are left out.
ParseArguments ==
  /\ at = "start"
  /\ \/ Proceed("environment", Transition(life, "Initializing"))
     \/ at' = "shutdown" /\ code' = 1 /\ UNCHANGED life
  /\ UNCHANGED <<conn, outside, attached, reported, broke, worker>>

\* setup_session_environment and Config::load_with_precedence
ReadEnvironment ==
  /\ at = "environment"
  /\ Proceed("loop", life) \/ Fail(life)
  /\ UNCHANGED <<conn, outside, attached, reported, broke, worker>>

\* setup_event_loop: the shutdown signals, and the two Wayland descriptors if there
\* are any at this stage; a descriptor that does not exist is -1.
SetupEventLoop ==
  /\ at = "loop"
  /\ \/ /\ Proceed("connect", life)
        /\ attached' = {"signals"} \cup {f \in {"wayland"} : conn.open} \cup {f \in {"server"} : outside.server}
     \/ Fail(life) /\ attached' \in {{}, {"signals"}}
  /\ UNCHANGED <<conn, outside, reported, broke, worker>>

\* connect_wayland: the connection, then the registry on it
ConnectWayland ==
  /\ at = "connect"
  /\ LET l == Transition(life, "ConnectingWayland")
     IN  \/ outside.alive /\ Proceed("components", l) /\ conn' = [conn EXCEPT !.open = TRUE, !.unsent = TRUE]
         \/ Fail(l) /\ \E opened \in BOOLEAN : conn' = [conn EXCEPT !.open = opened]
  /\ UNCHANGED <<outside, attached, reported, broke, worker>>

\* initialize_components, up to the first roundtrip: the display and input managers
BindComponents ==
  /\ at = "components"
  /\ LET l == Transition(life, "InitializingComponents") IN Proceed("roundtrip", l) \/ Fail(l)
  /\ UNCHANGED <<conn, outside, attached, reported, broke, worker>>

\* WaylandConnection::roundtrip: everything is sent, read and dispatched; or the
\* connection is found broken, and the disconnect callback requests a shutdown.
Synced == conn' = [conn EXCEPT !.queue = FALSE, !.unsent = FALSE] /\ outside' = [outside EXCEPT !.events = 0]

Broken == conn' = [conn EXCEPT !.lost = TRUE] /\ UNCHANGED outside

Roundtrip ==
  /\ at = "roundtrip"
  /\ IF outside.alive THEN Synced /\ Proceed("globals", life) ELSE Broken /\ Fail(Requested(life))
  /\ UNCHANGED <<attached, reported, broke, worker>>

VerifyGlobals ==
  /\ at = "globals"
  /\ Proceed("resync", life) \/ Fail(life)
  /\ UNCHANGED <<conn, outside, attached, reported, broke, worker>>

\* The second roundtrip; its status is ignored.
Resync ==
  /\ at = "resync"
  /\ at' = "shell"
  /\ IF outside.alive THEN Synced /\ UNCHANGED <<life, code>>
                      ELSE Broken /\ life' = Requested(life) /\ code' = 1
  /\ UNCHANGED <<attached, reported, broke, worker>>

\* The shell, the window tracker and the window manager.  The tracker opens the socket for
\* applications if that is configured, and goes on without it if it cannot.
InitializeShell ==
  /\ at = "shell"
  /\ \E opened \in BOOLEAN : outside' = [outside EXCEPT !.server = opened]
  /\ \/ Proceed("services", life) /\ conn' = [conn EXCEPT !.unsent = TRUE]
     \/ Fail(life) /\ UNCHANGED conn
  /\ UNCHANGED <<attached, reported, broke, worker>>

\* An exception that nothing catches reaches main, which returns 1 after ~Application.
Throw == at' = "shutdown" /\ code' = 1 /\ broke' = "exception"

\* The rest of initialize_components, where errors are only logged, but the scan for
\* applications may throw.  The notification manager, which comes after it, starts its backend.
StartServices ==
  /\ at = "services"
  /\ \/ /\ Proceed("readiness", life)
        /\ worker' = IF DBus THEN "starting" ELSE "none"
        /\ UNCHANGED broke
     \/ Throw /\ UNCHANGED <<life, worker>>
  /\ UNCHANGED <<conn, outside, attached, reported>>

EstablishReadiness ==
  /\ at = "readiness"
  /\ IF ValidTransition(life, "Ready")
     THEN Proceed("run", "Ready") /\ reported' = TRUE
     ELSE at' = "shutdown" /\ code' = 1 /\ UNCHANGED <<life, reported>>
  /\ UNCHANGED <<conn, outside, attached, broke, worker>>

-------------------------------------------------------------------------------
(* Application::run                                                            *)

Run ==
  /\ at = "run"
  /\ Proceed("top", Transition(life, "Running"))
  /\ UNCHANGED <<conn, outside, attached, reported, broke, worker>>

\* Seeded fault: the lifecycle is not looked at.
IterateAlways ==
  /\ at = "top"
  /\ Proceed("wait", life)
  /\ conn' = [conn EXCEPT !.reading = TRUE, !.queue = FALSE]
  /\ UNCHANGED <<outside, attached, reported, broke, worker>>

\* The top of the loop: prepare_read, which dispatches what is queued, and flush, which
\* is where a write to a compositor that is gone fails.
Iterate ==
  /\ at = "top"
  /\ IF life # "Running" THEN Proceed("shutdown", life) /\ UNCHANGED conn
     ELSE LET failed == conn.unsent /\ ~outside.alive
          IN  /\ at' = "wait"
              /\ conn' = [conn EXCEPT !.reading = TRUE, !.queue = FALSE,
                                      !.unsent = failed, !.lost = @ \/ failed]
              /\ life' = IF failed THEN Requested(life) ELSE life
              /\ code' = IF failed THEN 1 ELSE code
  /\ UNCHANGED <<outside, attached, reported, broke, worker>>

\* The attached descriptors that epoll_wait finds ready
Ready == {f \in attached : \/ f = "signals" /\ outside.signal
                           \/ f = "wayland" /\ (~outside.alive \/ outside.events > 0)
                           \/ f = "server" /\ outside.requests > 0}

\* The callbacks of the descriptors F: a signal requests a shutdown with 0, a connection that
\* hangs up one with 1, and requests and events are read.
Handle(F) ==
  LET signal == "signals" \in F
      hangup == "wayland" \in F /\ ~outside.alive
  IN  /\ life' = IF signal \/ hangup THEN Requested(life) ELSE life
      /\ outside' = [outside EXCEPT !.signal = @ /\ ~signal, !.signalled = @ \/ signal,
                                    !.events = IF "wayland" \in F /\ ~hangup THEN 0 ELSE @,
                                    !.requests = IF "server" \in F THEN 0 ELSE @]

\* EventLoop::dispatch and the rest of the iteration.  Every attached descriptor that is
\* ready has its callback called, in some order; after 100 ms there may be none.  A read
\* that was prepared and not used is cancelled.  Handlers may leave something to send.
Dispatch ==
  LET signal == "signals" \in Ready
      hangup == "wayland" \in Ready /\ ~outside.alive
  IN  /\ at = "wait"
      /\ at' = "top"
      /\ Handle(Ready)
      /\ code' \in {c \in {0, 1} : \/ c = 0 /\ signal
                                   \/ c = 1 /\ hangup
                                   \/ c = code /\ ~signal /\ ~hangup}
      /\ \E more \in BOOLEAN :
           conn' = [conn EXCEPT !.reading = FALSE, !.queue = FALSE, !.unsent = @ \/ more]
      /\ UNCHANGED <<attached, reported, broke, worker>>

\* epoll_wait fails, and not because of a signal: the loop ends with the exit code it has.
PollFails ==
  /\ at = "wait"
  /\ Proceed("shutdown", life)
  /\ broke' = "poll"
  /\ conn' = [conn EXCEPT !.reading = FALSE]
  /\ UNCHANGED <<outside, attached, reported, worker>>

\* A callback throws, of one of these descriptors or of another, after some have run.
CallbackThrows ==
  /\ at = "wait"
  /\ Throw
  /\ \E F \in SUBSET Ready : Handle(F)
  /\ \E more \in BOOLEAN : conn' = [conn EXCEPT !.unsent = @ \/ more]
  /\ UNCHANGED <<attached, reported, worker>>

-------------------------------------------------------------------------------
(* Application::perform_shutdown                                               *)

\* The descriptors, then the components up to DBusNotificationBackend::stop, which ends
\* the loop of the worker if that is running, and then waits for the worker.
Shutdown ==
  /\ at = "shutdown"
  /\ Proceed("join", Transition(life, "Stopping"))
  /\ attached' = attached \ {"wayland", "server"}
  /\ worker' = IF worker = "looping" THEN "ended" ELSE worker
  /\ UNCHANGED <<conn, outside, reported, broke>>

\* The join, then the other components in reverse order and the connection.
Release ==
  /\ at = "join"
  /\ worker \in {"none", "ended"}
  /\ Proceed("exited", Transition(life, "Stopped"))
  /\ conn' = [conn EXCEPT !.open = FALSE, !.reading = FALSE, !.queue = FALSE, !.unsent = FALSE]
  /\ outside' = [outside EXCEPT !.server = FALSE, !.events = 0, !.requests = 0]
  /\ UNCHANGED <<attached, reported, broke, worker>>

-------------------------------------------------------------------------------
(* Everything else.                                                            *)

\* DBusNotificationBackend::run_worker: the setup fails, or the GLib loop runs.
WorkerStep ==
  /\ worker = "starting"
  /\ worker' \in {"ended", "looping"}
  /\ UNCHANGED <<at, life, conn, outside, attached, reported, code, broke>>

CompositorSends ==
  /\ conn.open /\ outside.alive /\ outside.events < MaxEvents
  /\ outside' = [outside EXCEPT !.events = @ + 1]
  /\ UNCHANGED <<at, life, conn, attached, reported, code, broke, worker>>

CompositorDies ==
  /\ outside.alive
  /\ outside' = [outside EXCEPT !.alive = FALSE]
  /\ UNCHANGED <<at, life, conn, attached, reported, code, broke, worker>>

ApplicationRequests ==
  /\ outside.server /\ outside.requests < MaxEvents
  /\ outside' = [outside EXCEPT !.requests = @ + 1]
  /\ UNCHANGED <<at, life, conn, attached, reported, code, broke, worker>>

\* SIGTERM, SIGINT or SIGHUP, once they are blocked and read from the signalfd.  Before
\* that they end the process at once.
ManagerSignals ==
  /\ "signals" \in attached /\ at # "exited"
  /\ outside' = [outside EXCEPT !.signal = TRUE]
  /\ UNCHANGED <<at, life, conn, attached, reported, code, broke, worker>>

InitStep == \/ ParseArguments \/ ReadEnvironment \/ SetupEventLoop \/ ConnectWayland \/ BindComponents
            \/ Roundtrip \/ VerifyGlobals \/ Resync \/ InitializeShell \/ StartServices \/ EstablishReadiness

MainStep == InitStep \/ Run \/ Iterate \/ Dispatch \/ PollFails \/ CallbackThrows \/ Shutdown \/ Release

WorldStep == CompositorSends \/ CompositorDies \/ ApplicationRequests \/ ManagerSignals

Next == MainStep \/ WorkerStep \/ WorldStep

\* Both threads of the process run when they can.  A roundtrip returns: a compositor
\* answers wl_display.sync or is gone.
Fairness == WF_vars(MainStep) /\ WF_vars(WorkerStep)

Spec == Init /\ [][Next]_vars /\ Fairness

-------------------------------------------------------------------------------
(* Properties.                                                                 *)

TypeOK ==
  /\ at \in InitStages \cup LoopStages \cup LastStages
  /\ life \in LifeStates
  /\ conn \in ConnRecord
  /\ outside \in OutsideRecord
  /\ attached \subseteq {"signals", "wayland", "server"}
  /\ reported \in BOOLEAN
  /\ code \in {0, 1}
  /\ broke \in Breaks
  /\ worker \in Workers

\* docs/lddm_integration.md:40-48: LDDM is told that the desktop is ready only in the READY
\* state, with the signals handled and a connection to the compositor that has not failed:
\* not even in the second roundtrip, whose status nobody looks at.  Nothing is said of the
\* applications' socket, without which the desktop is ready all the same.
ReadyMeansUp ==
  [][ reported' # reported =>
        /\ life' = "Ready"
        /\ conn.open /\ ~conn.lost
        /\ "signals" \in attached ]_vars

\* The exit status tells LDDM what happened: 0 only if it asked a desktop that was ready to
\* stop, or epoll_wait failed, which the code does not tell from that; 1 only if the
\* initialization failed, the compositor was lost, or an exception reached main.
ExitStatusExplained ==
  at = "exited" =>
    /\ code = 0 => reported /\ (outside.signalled \/ broke = "poll")
    /\ code = 1 => ~reported \/ conn.lost \/ broke = "exception"

\* However far the initialization came and however it failed, the lifecycle ends in STOPPED
\* and no worker thread is left.
EndsStopped == at = "exited" => life = "Stopped" /\ worker \in {"none", "ended"}

\* A prepared read never outlives the iteration that prepared it, so that the next
\* prepare_read meets a connection at rest; only one that an exception interrupts is left to
\* the disconnection, which cancels it.
ReadsPaired == conn.reading => at = "wait" \/ (broke = "exception" /\ at \in {"shutdown", "join"})

\* A shutdown signal, or a compositor that is found gone, ends the initialization or the
\* main loop; nothing after it is waited for but the worker thread.
StopIsHeeded == (outside.signal \/ conn.lost) ~> at \in {"join", "exited"}

\* docs/lddm_integration.md:72: upon a signal LDDE shuts down and exits.
ShutdownCompletes == outside.signal ~> at = "exited"

===============================================================================

----------------------------- MODULE SessionProofs -----------------------------
(***************************************************************************)
(* Proofs about Session, with either notification backend: readiness is     *)
(* reported honestly, the exit status tells the truth, every path ends in   *)
(* STOPPED and prepared reads are paired.  The inductive invariant says what *)
(* each stage of the program may take for granted about the lifecycle, the   *)
(* connection and the exit code.  What must eventually happen stays with TLC. *)
(***************************************************************************)
EXTENDS Session, TLAPS

\* Stages of InitStages by what the lifecycle is when they are reached.
Early  == {"environment", "loop", "connect"}
Middle == {"roundtrip", "globals", "resync"}
Late   == {"shell", "services", "readiness"}

\* The lifecycle at each stage.  A connection that is lost in the second roundtrip leaves
\* a lifecycle that is stopping behind while the initialization goes on.
LifeInv ==
  /\ at = "start" => life = "Starting"
  /\ at \in Early => life = "Initializing"
  /\ at = "components" => life = "ConnectingWayland"
  /\ at \in Middle => life = "InitializingComponents"
  /\ at \in Late => life = IF conn.lost THEN "Stopping" ELSE "InitializingComponents"
  /\ at = "run" => life = "Ready"
  /\ at \in {"top", "wait"} => life \in {"Running", "Stopping"}
  /\ at = "shutdown" => life # "Stopped"
  /\ at = "join" => life \in {"Stopping", "Failed"}

\* What the stages have set up.  The Wayland descriptors are looked for before there are any.
SetupInv ==
  /\ attached \subseteq {"signals"}
  /\ at \in {"start"} \cup Early => ~conn.open /\ ~outside.server
  /\ at \in {"connect", "components"} \cup Middle \cup Late => "signals" \in attached
  /\ at \in {"components"} \cup Middle \cup Late \cup LoopStages => conn.open
  /\ at \in {"start", "components"} \cup Early \cup Middle => ~conn.lost

\* The exit code at each stage.
CodeInv ==
  /\ reported => at \in LoopStages \cup LastStages
  /\ at \in LoopStages => reported
  /\ at \in InitStages \cup LoopStages => broke = "no"
  /\ at \in {"start", "components"} \cup Early \cup Middle => code = 0
  /\ at \in Late => (code = 1 => conn.lost)
  /\ at \in LoopStages /\ life # "Stopping" => code = 0
  /\ at \in {"top", "wait"} /\ life = "Stopping" => (code = 0 => outside.signalled) /\ (code = 1 => conn.lost)
  /\ at \in LastStages =>
       /\ code = 0 => reported /\ (outside.signalled \/ broke = "poll")
       /\ code = 1 => ~reported \/ conn.lost \/ broke = "exception"

Inv ==
  /\ TypeOK
  /\ ReadsPaired
  /\ LifeInv
  /\ SetupInv
  /\ CodeInv
  /\ EndsStopped
-------------------------------------------------------------------------------
\* The steps of the lifecycle that the stages take.
LEMMA Transitions ==
  /\ Transition("Starting", "Initializing") = "Initializing"
  /\ Transition("Initializing", "ConnectingWayland") = "ConnectingWayland"
  /\ Transition("ConnectingWayland", "InitializingComponents") = "InitializingComponents"
  /\ Transition("Ready", "Running") = "Running"
  /\ \A l \in LifeStates \ {"Stopped"} : Transition(l, "Failed") = "Failed"
  /\ \A l \in LifeStates \ {"Stopped"} : Transition(l, "Stopping") = IF l = "Failed" THEN l ELSE "Stopping"
  /\ \A l \in {"Stopping", "Failed"} : Transition(l, "Stopped") = "Stopped"
  /\ \A l \in {"InitializingComponents", "Running", "Stopping"} : Requested(l) = "Stopping"
  /\ ~ValidTransition("Stopping", "Ready")
<1>1. /\ Transition("Starting", "Initializing") = "Initializing"
      /\ Transition("Initializing", "ConnectingWayland") = "ConnectingWayland"
      /\ Transition("ConnectingWayland", "InitializingComponents") = "InitializingComponents"
      /\ Transition("Ready", "Running") = "Running"
  BY DEF Transition, ValidTransition, Forward
<1>2. \A l \in LifeStates \ {"Stopped"} : Transition(l, "Failed") = "Failed"
  BY DEF Transition, ValidTransition, LifeStates
<1>3. \A l \in LifeStates \ {"Stopped"} : Transition(l, "Stopping") = IF l = "Failed" THEN l ELSE "Stopping"
  BY DEF Transition, ValidTransition, LifeStates, Forward
<1>4. \A l \in {"Stopping", "Failed"} : Transition(l, "Stopped") = "Stopped"
  BY DEF Transition, ValidTransition
<1>5. \A l \in {"InitializingComponents", "Running", "Stopping"} : Requested(l) = "Stopping"
  BY <1>3 DEF Requested, LifeStates
<1>6. ~ValidTransition("Stopping", "Ready")
  BY DEF ValidTransition, Forward
<1> QED
  BY <1>1, <1>2, <1>3, <1>4, <1>5, <1>6

LEMMA ZeroCounts == 0 \in Counts
BY MaxEventsAssumption DEF Counts

LEMMA TransitionTypes ==
  /\ \A l, to \in LifeStates : Transition(l, to) \in LifeStates
  /\ \A l \in LifeStates : Requested(l) \in LifeStates
  /\ {"Initializing", "ConnectingWayland", "InitializingComponents", "Ready", "Running", "Failed",
      "Stopping", "Stopped"} \subseteq LifeStates
BY DEF Transition, Requested, LifeStates

USE DEF InitStages, LoopStages, LastStages, Early, Middle, Late

LEMMA InitInv == Init => Inv
<1> SUFFICES ASSUME Init PROVE Inv
  OBVIOUS
<1> USE DEF Init
<1>1. conn \in ConnRecord
  BY DEF ConnRecord
<1>2. outside \in OutsideRecord
  BY ZeroCounts DEF OutsideRecord
<1>3. TypeOK
  BY <1>1, <1>2 DEF TypeOK, LifeStates, Workers, Breaks
<1>4. ReadsPaired /\ LifeInv /\ SetupInv /\ CodeInv /\ EndsStopped
  BY DEF ReadsPaired, LifeInv, SetupInv, CodeInv, EndsStopped
<1> QED
  BY <1>3, <1>4 DEF Inv

\* Each stage hands the next one what it takes for granted.
LEMMA NextInv == Inv /\ [Next]_vars => Inv'
<1> SUFFICES ASSUME Inv, [Next]_vars PROVE Inv'
  OBVIOUS
<1> USE DEF Inv, TypeOK
<1>1. CASE ParseArguments
  <2> USE <1>1 DEF ParseArguments, Proceed
  <2>1. conn' \in ConnRecord
    BY DEF ConnRecord
  <2>2. outside' \in OutsideRecord
    BY ZeroCounts DEF OutsideRecord
  <2>3. TypeOK'
    <3>1. life' \in LifeStates
      BY TransitionTypes
    <3> QED
      BY <2>1, <2>2, <3>1, DBusAssumption DEF Workers, Breaks
  <2>4. ReadsPaired' /\ LifeInv' /\ EndsStopped'
    BY Transitions DEF ReadsPaired, LifeInv, SetupInv, EndsStopped, LifeStates, Workers, ConnRecord
  <2>5. SetupInv'
    BY DEF ReadsPaired, SetupInv, LifeInv, ConnRecord, OutsideRecord
  <2>6. CodeInv'
    BY Transitions DEF LifeInv, SetupInv, CodeInv, ConnRecord, OutsideRecord
  <2> QED
    BY <2>3, <2>4, <2>5, <2>6
<1>2. CASE ReadEnvironment
  <2> USE <1>2 DEF ReadEnvironment, Proceed, Fail
  <2>1. conn' \in ConnRecord
    BY DEF ConnRecord
  <2>2. outside' \in OutsideRecord
    BY ZeroCounts DEF OutsideRecord
  <2>3. TypeOK'
    <3>1. life' \in LifeStates
      BY TransitionTypes
    <3> QED
      BY <2>1, <2>2, <3>1, DBusAssumption DEF Workers, Breaks
  <2>4. ReadsPaired' /\ LifeInv' /\ EndsStopped'
    BY Transitions DEF ReadsPaired, LifeInv, SetupInv, EndsStopped, LifeStates, Workers, ConnRecord
  <2>5. SetupInv'
    BY DEF ReadsPaired, SetupInv, LifeInv, ConnRecord, OutsideRecord
  <2>6. CodeInv'
    BY Transitions DEF LifeInv, SetupInv, CodeInv, ConnRecord, OutsideRecord
  <2> QED
    BY <2>3, <2>4, <2>5, <2>6
<1>3. CASE SetupEventLoop
  <2> USE <1>3 DEF SetupEventLoop, Proceed, Fail
  <2>1. conn' \in ConnRecord
    BY DEF ConnRecord
  <2>2. outside' \in OutsideRecord
    BY ZeroCounts DEF OutsideRecord
  <2>3. TypeOK'
    <3>1. life' \in LifeStates
      BY TransitionTypes
    <3> QED
      BY <2>1, <2>2, <3>1, DBusAssumption DEF Workers, Breaks
  <2>4. ReadsPaired' /\ LifeInv' /\ EndsStopped'
    BY Transitions DEF ReadsPaired, LifeInv, SetupInv, EndsStopped, LifeStates, Workers, ConnRecord
  <2>5. SetupInv'
    BY DEF ReadsPaired, SetupInv, LifeInv, ConnRecord, OutsideRecord
  <2>6. CodeInv'
    BY Transitions DEF LifeInv, SetupInv, CodeInv, ConnRecord, OutsideRecord
  <2> QED
    BY <2>3, <2>4, <2>5, <2>6
<1>4. CASE ConnectWayland
  <2> USE <1>4 DEF ConnectWayland, Proceed, Fail
  <2>1. conn' \in ConnRecord
    BY DEF ConnRecord
  <2>2. outside' \in OutsideRecord
    BY ZeroCounts DEF OutsideRecord
  <2>3. TypeOK'
    <3>1. life' \in LifeStates
      BY TransitionTypes
    <3> QED
      BY <2>1, <2>2, <3>1, DBusAssumption DEF Workers, Breaks
  <2>4. ReadsPaired' /\ LifeInv' /\ EndsStopped'
    BY Transitions DEF ReadsPaired, LifeInv, SetupInv, EndsStopped, LifeStates, Workers, ConnRecord
  <2>5. SetupInv'
    BY DEF ReadsPaired, SetupInv, LifeInv, ConnRecord, OutsideRecord
  <2>6. CodeInv'
    BY Transitions DEF LifeInv, SetupInv, CodeInv, ConnRecord, OutsideRecord
  <2> QED
    BY <2>3, <2>4, <2>5, <2>6
<1>5. CASE BindComponents
  <2> USE <1>5 DEF BindComponents, Proceed, Fail
  <2>1. conn' \in ConnRecord
    BY DEF ConnRecord
  <2>2. outside' \in OutsideRecord
    BY ZeroCounts DEF OutsideRecord
  <2>3. TypeOK'
    <3>1. life' \in LifeStates
      BY TransitionTypes
    <3> QED
      BY <2>1, <2>2, <3>1, DBusAssumption DEF Workers, Breaks
  <2>4. ReadsPaired' /\ LifeInv' /\ EndsStopped'
    BY Transitions DEF ReadsPaired, LifeInv, SetupInv, EndsStopped, LifeStates, Workers, ConnRecord
  <2>5. SetupInv'
    BY DEF ReadsPaired, SetupInv, LifeInv, ConnRecord, OutsideRecord
  <2>6. CodeInv'
    BY Transitions DEF LifeInv, SetupInv, CodeInv, ConnRecord, OutsideRecord
  <2> QED
    BY <2>3, <2>4, <2>5, <2>6
<1>6. CASE Roundtrip
  <2> USE <1>6 DEF Roundtrip, Proceed, Fail, Synced, Broken
  <2>1. conn' \in ConnRecord
    BY DEF ConnRecord
  <2>2. outside' \in OutsideRecord
    BY ZeroCounts DEF OutsideRecord
  <2>3. TypeOK'
    <3>1. life' \in LifeStates
      BY TransitionTypes
    <3> QED
      BY <2>1, <2>2, <3>1, DBusAssumption DEF Workers, Breaks
  <2>4. ReadsPaired' /\ LifeInv' /\ EndsStopped'
    BY Transitions DEF ReadsPaired, LifeInv, SetupInv, EndsStopped, LifeStates, Workers, ConnRecord
  <2>5. SetupInv'
    BY DEF ReadsPaired, SetupInv, LifeInv, ConnRecord, OutsideRecord
  <2>6. CodeInv'
    BY Transitions DEF LifeInv, SetupInv, CodeInv, ConnRecord, OutsideRecord
  <2> QED
    BY <2>3, <2>4, <2>5, <2>6
<1>7. CASE VerifyGlobals
  <2> USE <1>7 DEF VerifyGlobals, Proceed, Fail
  <2>1. conn' \in ConnRecord
    BY DEF ConnRecord
  <2>2. outside' \in OutsideRecord
    BY ZeroCounts DEF OutsideRecord
  <2>3. TypeOK'
    <3>1. life' \in LifeStates
      BY TransitionTypes
    <3> QED
      BY <2>1, <2>2, <3>1, DBusAssumption DEF Workers, Breaks
  <2>4. ReadsPaired' /\ LifeInv' /\ EndsStopped'
    BY Transitions DEF ReadsPaired, LifeInv, SetupInv, EndsStopped, LifeStates, Workers, ConnRecord
  <2>5. SetupInv'
    BY DEF ReadsPaired, SetupInv, LifeInv, ConnRecord, OutsideRecord
  <2>6. CodeInv'
    BY Transitions DEF LifeInv, SetupInv, CodeInv, ConnRecord, OutsideRecord
  <2> QED
    BY <2>3, <2>4, <2>5, <2>6
<1>8. CASE Resync
  <2> USE <1>8 DEF Resync, Synced, Broken
  <2>1. conn' \in ConnRecord
    BY DEF ConnRecord
  <2>2. outside' \in OutsideRecord
    BY ZeroCounts DEF OutsideRecord
  <2>3. TypeOK'
    <3>1. life' \in LifeStates
      BY TransitionTypes
    <3> QED
      BY <2>1, <2>2, <3>1, DBusAssumption DEF Workers, Breaks
  <2>4. ReadsPaired' /\ LifeInv' /\ EndsStopped'
    BY Transitions DEF ReadsPaired, LifeInv, SetupInv, EndsStopped, LifeStates, Workers, ConnRecord
  <2>5. SetupInv'
    BY DEF ReadsPaired, SetupInv, LifeInv, ConnRecord, OutsideRecord
  <2>6. CodeInv'
    BY Transitions DEF LifeInv, SetupInv, CodeInv, ConnRecord, OutsideRecord
  <2> QED
    BY <2>3, <2>4, <2>5, <2>6
<1>9. CASE InitializeShell
  <2> USE <1>9 DEF InitializeShell, Proceed, Fail
  <2>1. conn' \in ConnRecord
    BY DEF ConnRecord
  <2>2. outside' \in OutsideRecord
    BY ZeroCounts DEF OutsideRecord
  <2>3. TypeOK'
    <3>1. life' \in LifeStates
      BY TransitionTypes
    <3> QED
      BY <2>1, <2>2, <3>1, DBusAssumption DEF Workers, Breaks
  <2>4. ReadsPaired' /\ LifeInv' /\ EndsStopped'
    BY Transitions DEF ReadsPaired, LifeInv, SetupInv, EndsStopped, LifeStates, Workers, ConnRecord
  <2>5. SetupInv'
    BY DEF ReadsPaired, SetupInv, LifeInv, ConnRecord, OutsideRecord
  <2>6. CodeInv'
    BY Transitions DEF LifeInv, SetupInv, CodeInv, ConnRecord, OutsideRecord
  <2> QED
    BY <2>3, <2>4, <2>5, <2>6
<1>10. CASE StartServices
  <2> USE <1>10 DEF StartServices, Proceed, Throw
  <2>1. conn' \in ConnRecord
    BY DEF ConnRecord
  <2>2. outside' \in OutsideRecord
    BY ZeroCounts DEF OutsideRecord
  <2>3. TypeOK'
    <3>1. life' \in LifeStates
      BY TransitionTypes
    <3> QED
      BY <2>1, <2>2, <3>1, DBusAssumption DEF Workers, Breaks
  <2>4. ReadsPaired' /\ LifeInv' /\ EndsStopped'
    BY Transitions DEF ReadsPaired, LifeInv, SetupInv, EndsStopped, LifeStates, Workers, ConnRecord
  <2>5. SetupInv'
    BY DEF ReadsPaired, SetupInv, LifeInv, ConnRecord, OutsideRecord
  <2>6. CodeInv'
    BY Transitions DEF LifeInv, SetupInv, CodeInv, ConnRecord, OutsideRecord
  <2> QED
    BY <2>3, <2>4, <2>5, <2>6
<1>11. CASE EstablishReadiness
  <2> USE <1>11 DEF EstablishReadiness, Proceed
  <2>1. conn' \in ConnRecord
    BY DEF ConnRecord
  <2>2. outside' \in OutsideRecord
    BY ZeroCounts DEF OutsideRecord
  <2>3. TypeOK'
    <3>1. life' \in LifeStates
      BY TransitionTypes
    <3> QED
      BY <2>1, <2>2, <3>1, DBusAssumption DEF Workers, Breaks
  <2>4. ReadsPaired' /\ LifeInv' /\ EndsStopped'
    BY Transitions DEF ReadsPaired, LifeInv, SetupInv, EndsStopped, LifeStates, Workers, ConnRecord
  <2>5. SetupInv'
    BY DEF ReadsPaired, SetupInv, LifeInv, ConnRecord, OutsideRecord
  <2>6. CodeInv'
    BY Transitions DEF LifeInv, SetupInv, CodeInv, ConnRecord, OutsideRecord
  <2> QED
    BY <2>3, <2>4, <2>5, <2>6
<1>12. CASE Run
  <2> USE <1>12 DEF Run, Proceed
  <2>1. conn' \in ConnRecord
    BY DEF ConnRecord
  <2>2. outside' \in OutsideRecord
    BY ZeroCounts DEF OutsideRecord
  <2>3. TypeOK'
    <3>1. life' \in LifeStates
      BY TransitionTypes
    <3> QED
      BY <2>1, <2>2, <3>1, DBusAssumption DEF Workers, Breaks
  <2>4. ReadsPaired' /\ LifeInv' /\ EndsStopped'
    BY Transitions DEF ReadsPaired, LifeInv, SetupInv, EndsStopped, LifeStates, Workers, ConnRecord
  <2>5. SetupInv'
    BY DEF ReadsPaired, SetupInv, LifeInv, ConnRecord, OutsideRecord
  <2>6. CodeInv'
    BY Transitions DEF LifeInv, SetupInv, CodeInv, ConnRecord, OutsideRecord
  <2> QED
    BY <2>3, <2>4, <2>5, <2>6
<1>13. CASE Iterate
  <2> USE <1>13 DEF Iterate, Proceed
  <2>1. conn' \in ConnRecord
    BY DEF ConnRecord
  <2>2. outside' \in OutsideRecord
    BY ZeroCounts DEF OutsideRecord
  <2>3. TypeOK'
    <3>1. life' \in LifeStates
      BY TransitionTypes
    <3> QED
      BY <2>1, <2>2, <3>1, DBusAssumption DEF Workers, Breaks
  <2>4. ReadsPaired' /\ LifeInv' /\ EndsStopped'
    BY Transitions DEF ReadsPaired, LifeInv, SetupInv, EndsStopped, LifeStates, Workers, ConnRecord
  <2>5. SetupInv'
    BY DEF ReadsPaired, SetupInv, LifeInv, ConnRecord, OutsideRecord
  <2>6. CodeInv'
    <3>1. CASE life # "Running"
      BY <3>1 DEF LifeInv, CodeInv
    <3>2. CASE life = "Running" /\ ~(conn.unsent /\ ~outside.alive)
      BY <3>2 DEF LifeInv, CodeInv
    <3>3. CASE life = "Running" /\ conn.unsent /\ ~outside.alive
      <4>1. /\ conn'.lost /\ code' = 1 /\ at' = "wait" /\ reported' = reported /\ broke' = broke
            /\ life' = "Stopping"
        BY <3>3, Transitions DEF ConnRecord
      <4> QED
        BY <4>1, <3>3 DEF CodeInv
    <3> QED
      BY <3>1, <3>2, <3>3
  <2> QED
    BY <2>3, <2>4, <2>5, <2>6
<1>14. CASE Dispatch
  <2> USE <1>14 DEF Dispatch, Handle, Ready
  <2>1. conn' \in ConnRecord
    BY DEF ConnRecord
  <2>2. outside' \in OutsideRecord
    BY ZeroCounts, Zenon DEF OutsideRecord
  <2>3. TypeOK'
    <3>1. life' \in LifeStates
      BY TransitionTypes
    <3> QED
      BY <2>1, <2>2, <3>1, DBusAssumption DEF Workers, Breaks
  <2>4. ReadsPaired' /\ LifeInv' /\ EndsStopped'
    BY Transitions DEF ReadsPaired, LifeInv, SetupInv, EndsStopped, LifeStates, Workers, ConnRecord
  <2>5. SetupInv'
    BY DEF ReadsPaired, SetupInv, LifeInv, ConnRecord, OutsideRecord
  <2>6. CodeInv'
    BY Transitions DEF LifeInv, SetupInv, CodeInv, ConnRecord, OutsideRecord
  <2> QED
    BY <2>3, <2>4, <2>5, <2>6
<1>23. CASE PollFails
  <2> USE <1>23 DEF PollFails, Proceed
  <2>1. conn' \in ConnRecord
    BY DEF ConnRecord
  <2>2. outside' \in OutsideRecord
    BY ZeroCounts, Zenon DEF OutsideRecord
  <2>3. TypeOK'
    <3>1. life' \in LifeStates
      BY TransitionTypes
    <3> QED
      BY <2>1, <2>2, <3>1, DBusAssumption DEF Workers, Breaks
  <2>4. ReadsPaired' /\ LifeInv' /\ EndsStopped'
    BY Transitions DEF ReadsPaired, LifeInv, SetupInv, EndsStopped, LifeStates, Workers, ConnRecord
  <2>5. SetupInv'
    BY DEF ReadsPaired, SetupInv, LifeInv, ConnRecord, OutsideRecord
  <2>6. CodeInv'
    BY Transitions DEF LifeInv, SetupInv, CodeInv, ConnRecord, OutsideRecord
  <2> QED
    BY <2>3, <2>4, <2>5, <2>6
<1>24. CASE CallbackThrows
  <2> USE <1>24 DEF CallbackThrows, Handle, Throw
  <2>1. conn' \in ConnRecord
    BY DEF ConnRecord
  <2>2. outside' \in OutsideRecord
    BY ZeroCounts, Zenon DEF OutsideRecord
  <2>3. TypeOK'
    <3>1. life' \in LifeStates
      BY TransitionTypes
    <3> QED
      BY <2>1, <2>2, <3>1, DBusAssumption DEF Workers, Breaks
  <2>4. ReadsPaired' /\ LifeInv' /\ EndsStopped'
    BY Transitions DEF ReadsPaired, LifeInv, SetupInv, EndsStopped, LifeStates, Workers, ConnRecord
  <2>5. SetupInv'
    BY DEF ReadsPaired, SetupInv, LifeInv, ConnRecord, OutsideRecord
  <2>6. CodeInv'
    BY Transitions DEF LifeInv, SetupInv, CodeInv, ConnRecord, OutsideRecord
  <2> QED
    BY <2>3, <2>4, <2>5, <2>6
<1>15. CASE Shutdown
  <2> USE <1>15 DEF Shutdown, Proceed
  <2>1. conn' \in ConnRecord
    BY DEF ConnRecord
  <2>2. outside' \in OutsideRecord
    BY ZeroCounts DEF OutsideRecord
  <2>3. TypeOK'
    <3>1. life' \in LifeStates
      BY TransitionTypes
    <3> QED
      BY <2>1, <2>2, <3>1, DBusAssumption DEF Workers, Breaks
  <2>4. ReadsPaired' /\ LifeInv' /\ EndsStopped'
    BY Transitions DEF ReadsPaired, LifeInv, SetupInv, EndsStopped, LifeStates, Workers, ConnRecord
  <2>5. SetupInv'
    BY DEF ReadsPaired, SetupInv, LifeInv, ConnRecord, OutsideRecord
  <2>6. CodeInv'
    BY Transitions DEF LifeInv, SetupInv, CodeInv, ConnRecord, OutsideRecord
  <2> QED
    BY <2>3, <2>4, <2>5, <2>6
<1>16. CASE Release
  <2> USE <1>16 DEF Release, Proceed
  <2>1. conn' \in ConnRecord
    BY DEF ConnRecord
  <2>2. outside' \in OutsideRecord
    BY ZeroCounts, Zenon DEF OutsideRecord
  <2>3. TypeOK'
    <3>1. life' \in LifeStates
      BY TransitionTypes
    <3> QED
      BY <2>1, <2>2, <3>1, DBusAssumption DEF Workers, Breaks
  <2>4. ReadsPaired' /\ LifeInv' /\ EndsStopped'
    BY Transitions DEF ReadsPaired, LifeInv, SetupInv, EndsStopped, LifeStates, Workers, ConnRecord
  <2>5. SetupInv'
    BY DEF ReadsPaired, SetupInv, LifeInv, ConnRecord, OutsideRecord
  <2>6. CodeInv'
    BY Transitions DEF LifeInv, SetupInv, CodeInv, ConnRecord, OutsideRecord
  <2> QED
    BY <2>3, <2>4, <2>5, <2>6
<1>17. CASE WorkerStep
  <2> USE <1>17 DEF WorkerStep
  <2>1. conn' \in ConnRecord
    BY DEF ConnRecord
  <2>2. outside' \in OutsideRecord
    BY ZeroCounts DEF OutsideRecord
  <2>3. TypeOK'
    <3>1. life' \in LifeStates
      BY TransitionTypes
    <3> QED
      BY <2>1, <2>2, <3>1, DBusAssumption DEF Workers, Breaks
  <2>4. ReadsPaired' /\ LifeInv' /\ EndsStopped'
    BY Transitions DEF ReadsPaired, LifeInv, SetupInv, EndsStopped, LifeStates, Workers, ConnRecord
  <2>5. SetupInv'
    BY DEF ReadsPaired, SetupInv, LifeInv, ConnRecord, OutsideRecord
  <2>6. CodeInv'
    BY Transitions DEF LifeInv, SetupInv, CodeInv, ConnRecord, OutsideRecord
  <2> QED
    BY <2>3, <2>4, <2>5, <2>6
<1>18. CASE CompositorSends
  <2> USE <1>18 DEF CompositorSends
  <2>1. conn' \in ConnRecord
    BY DEF ConnRecord
  <2>2. outside' \in OutsideRecord
    BY MaxEventsAssumption DEF OutsideRecord, Counts
  <2>3. TypeOK'
    <3>1. life' \in LifeStates
      BY TransitionTypes
    <3> QED
      BY <2>1, <2>2, <3>1, DBusAssumption DEF Workers, Breaks
  <2>4. ReadsPaired' /\ LifeInv' /\ EndsStopped'
    BY Transitions DEF ReadsPaired, LifeInv, SetupInv, EndsStopped, LifeStates, Workers, ConnRecord
  <2>5. SetupInv'
    BY DEF ReadsPaired, SetupInv, LifeInv, ConnRecord, OutsideRecord
  <2>6. CodeInv'
    BY Transitions DEF LifeInv, SetupInv, CodeInv, ConnRecord, OutsideRecord
  <2> QED
    BY <2>3, <2>4, <2>5, <2>6
<1>19. CASE CompositorDies
  <2> USE <1>19 DEF CompositorDies
  <2>1. conn' \in ConnRecord
    BY DEF ConnRecord
  <2>2. outside' \in OutsideRecord
    BY MaxEventsAssumption DEF OutsideRecord, Counts
  <2>3. TypeOK'
    <3>1. life' \in LifeStates
      BY TransitionTypes
    <3> QED
      BY <2>1, <2>2, <3>1, DBusAssumption DEF Workers, Breaks
  <2>4. ReadsPaired' /\ LifeInv' /\ EndsStopped'
    BY Transitions DEF ReadsPaired, LifeInv, SetupInv, EndsStopped, LifeStates, Workers, ConnRecord
  <2>5. SetupInv'
    BY DEF ReadsPaired, SetupInv, LifeInv, ConnRecord, OutsideRecord
  <2>6. CodeInv'
    BY Transitions DEF LifeInv, SetupInv, CodeInv, ConnRecord, OutsideRecord
  <2> QED
    BY <2>3, <2>4, <2>5, <2>6
<1>20. CASE ApplicationRequests
  <2> USE <1>20 DEF ApplicationRequests
  <2>1. conn' \in ConnRecord
    BY DEF ConnRecord
  <2>2. outside' \in OutsideRecord
    BY MaxEventsAssumption DEF OutsideRecord, Counts
  <2>3. TypeOK'
    <3>1. life' \in LifeStates
      BY TransitionTypes
    <3> QED
      BY <2>1, <2>2, <3>1, DBusAssumption DEF Workers, Breaks
  <2>4. ReadsPaired' /\ LifeInv' /\ EndsStopped'
    BY Transitions DEF ReadsPaired, LifeInv, SetupInv, EndsStopped, LifeStates, Workers, ConnRecord
  <2>5. SetupInv'
    BY DEF ReadsPaired, SetupInv, LifeInv, ConnRecord, OutsideRecord
  <2>6. CodeInv'
    BY Transitions DEF LifeInv, SetupInv, CodeInv, ConnRecord, OutsideRecord
  <2> QED
    BY <2>3, <2>4, <2>5, <2>6
<1>21. CASE ManagerSignals
  <2> USE <1>21 DEF ManagerSignals
  <2>1. conn' \in ConnRecord
    BY DEF ConnRecord
  <2>2. outside' \in OutsideRecord
    BY MaxEventsAssumption DEF OutsideRecord, Counts
  <2>3. TypeOK'
    <3>1. life' \in LifeStates
      BY TransitionTypes
    <3> QED
      BY <2>1, <2>2, <3>1, DBusAssumption DEF Workers, Breaks
  <2>4. ReadsPaired' /\ LifeInv' /\ EndsStopped'
    BY Transitions DEF ReadsPaired, LifeInv, SetupInv, EndsStopped, LifeStates, Workers, ConnRecord
  <2>5. SetupInv'
    BY DEF ReadsPaired, SetupInv, LifeInv, ConnRecord, OutsideRecord
  <2>6. CodeInv'
    BY Transitions DEF LifeInv, SetupInv, CodeInv, ConnRecord, OutsideRecord
  <2> QED
    BY <2>3, <2>4, <2>5, <2>6
<1>22. CASE UNCHANGED vars
  BY <1>22 DEF vars, ReadsPaired, LifeInv, SetupInv, CodeInv, EndsStopped
<1> QED
  BY <1>1, <1>2, <1>3, <1>4, <1>5, <1>6, <1>7, <1>8, <1>9, <1>10, <1>11, <1>12, <1>13, <1>14, <1>15, <1>16, <1>17, <1>18, <1>19, <1>20, <1>21, <1>22, <1>23, <1>24 DEF Next, MainStep, InitStep, WorldStep

\* Every reachable state satisfies what the stages take for granted.
THEOREM Invariance == Spec => []Inv
BY InitInv, NextInv, PTL DEF Spec

\* The values of the state, whatever fails and in whichever order.
THEOREM TypeCorrect == Spec => []TypeOK
BY Invariance, PTL DEF Inv

\* The exit status says what happened: Application::request_shutdown and main.
THEOREM ExitStatusHonest == Spec => []ExitStatusExplained
<1>1. Inv => ExitStatusExplained
  BY DEF Inv, CodeInv, ExitStatusExplained
<1> QED
  BY <1>1, Invariance, PTL

\* perform_shutdown ends in STOPPED after every kind of failure, with the worker joined.
THEOREM AlwaysStopped == Spec => []EndsStopped
BY Invariance, PTL DEF Inv

\* Reads of the connection are prepared and used or cancelled in pairs.
THEOREM ReadsArePaired == Spec => []ReadsPaired
BY Invariance, PTL DEF Inv

\* LDDM is told of a ready desktop only when the desktop is up.
THEOREM ReadinessHonest == Spec => ReadyMeansUp
<1>1. Inv /\ [Next]_vars =>
        [reported' # reported =>
           /\ life' = "Ready"
           /\ conn.open /\ ~conn.lost
           /\ "signals" \in attached]_vars
  <2> SUFFICES ASSUME Inv, Next, reported' # reported
               PROVE  /\ life' = "Ready"
                      /\ conn.open /\ ~conn.lost
                      /\ "signals" \in attached
    BY DEF vars
  <2>1. EstablishReadiness /\ ValidTransition(life, "Ready")
    BY DEF Next, MainStep, InitStep, WorldStep, ParseArguments, ReadEnvironment, SetupEventLoop, ConnectWayland,
      BindComponents, Roundtrip, VerifyGlobals, Resync, InitializeShell, StartServices, EstablishReadiness, Run,
      Iterate, Dispatch, Handle, PollFails, CallbackThrows, Throw, Shutdown, Release, WorkerStep, CompositorSends, CompositorDies, ApplicationRequests,
      ManagerSignals
  <2>2. ~conn.lost
    BY <2>1, Transitions DEF EstablishReadiness, Inv, LifeInv
  <2> QED
    BY <2>1, <2>2 DEF EstablishReadiness, Proceed, Inv, SetupInv
<1> QED
  BY <1>1, Invariance, PTL DEF Spec, ReadyMeansUp
===============================================================================

-------------------------- MODULE DurableSettings --------------------------
(***************************************************************************)
(* What the settings promise to the user, whatever happens to the process  *)
(* or to the machine ("zero file corruption during power cuts or guest     *)
(* container crashes", docs/settings_architecture.md:67): the file always  *)
(* holds one complete earlier state of the settings, never a mixture.  A   *)
(* process that was told to read another file, or finds no home, starts    *)
(* from something else; the second never touches the file.                 *)
(***************************************************************************)
CONSTANTS Snapshots,   \* the states the settings can be in
          Loaded(_)    \* what the program makes of a snapshot it reads

VARIABLES running,     \* a process has the settings in memory
          own,         \* it started from the file
          keeps,       \* it saves to the file
          live,        \* the settings in memory
          saved,       \* what a process that starts now would read
          durable      \* what would be read after a power cut

dvars == <<running, own, keeps, live, saved, durable>>

Init == /\ running = TRUE /\ own \in BOOLEAN /\ keeps \in BOOLEAN
        /\ live \in Snapshots
        /\ saved \in Snapshots /\ durable = saved

\* Settings change in memory only.
Change == running /\ live' \in Snapshots /\ UNCHANGED <<running, own, keeps, saved, durable>>

\* The whole of what is in memory replaces the file; the medium has it, or
\* still the file that was there, or the one it had.
Persist == /\ running /\ keeps /\ saved' = live
           /\ durable' \in {durable, saved, live}
           /\ UNCHANGED <<running, own, keeps, live>>

\* The kernel writes the file back.
Sync == durable' = saved /\ UNCHANGED <<running, own, keeps, live, saved>>

\* The process dies, and another starts from the file.
Die == running /\ running' = FALSE /\ UNCHANGED <<own, keeps, live, saved, durable>>
Start == /\ ~running /\ running' = TRUE
         /\ own' \in BOOLEAN /\ keeps' \in BOOLEAN
         /\ live' \in Snapshots /\ (own' => live' = Loaded(saved))
         /\ UNCHANGED <<saved, durable>>

\* The machine loses power.
PowerCut == ~running /\ saved' = durable /\ UNCHANGED <<running, own, keeps, live, durable>>

\* The user edits the file while no process runs.
Edit == ~running /\ saved' \in Snapshots /\ durable' = saved' /\ UNCHANGED <<running, own, keeps, live>>

Next == Change \/ Persist \/ Sync \/ Die \/ Start \/ PowerCut \/ Edit

Spec == Init /\ [][Next]_dvars
=============================================================================

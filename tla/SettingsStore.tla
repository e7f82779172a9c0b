---------------------------- MODULE SettingsStore ----------------------------
(***************************************************************************)
(* The settings of a session in memory (SettingsStore over Config), staged *)
(* in transactions, told to observers, and written to the user's file      *)
(* through a temporary file, fsync and rename, while the process may be    *)
(* killed, the machine may lose power, and each call of the system may     *)
(* fail.  A process that starts reads its file the way                     *)
(* Config::load_with_precedence does: the user's, another one named with   *)
(* --config, or none when the environment names no home.  What it saves    *)
(* always goes to the user's file, and nowhere when there is no home.      *)
(*                                                                         *)
(* Config::values_ and a file are functions from keys to texts.  A file    *)
(* that a user edited may have a malformed line: the keys in its cut come  *)
(* after it and are not read.                                              *)
(***************************************************************************)
EXTENDS SettingsSchema, FiniteSets

CONSTANTS Changes,     \* pairs <<key, value>> that callers try to set
          Edits,       \* pairs <<key, text>> a user may write into the file
          Customs,     \* the files that --config may name
          MaxFaults    \* bound on failures, kills, power cuts and edits

\* A value of the kind a setting has: what its type is read back as, or a
\* number that prints like it.
Fits(def, value) ==
  CASE def.type = "Bool"   -> value \in [bool : BOOLEAN] \cup [int : {0, 1}]
    [] def.type = "Int"    -> value \in [int : Int]
    [] def.type = "Double" -> value \in [dbl : Int] \cup [int : Int]
    [] def.type \in {"String", "Enum"} -> value \in [str : STRING]

ASSUME StoreAssumption ==
  /\ \A c \in Changes : c[1] \in Keys /\ (Validates(Find(c[1]), c[2]) => Fits(Find(c[1]), c[2]))
  /\ \A e \in Edits : e[1] \in Keys
  /\ \A f \in Customs : DOMAIN f.texts = Keys /\ f.cut \subseteq Keys
  /\ MaxFaults \in Nat

VARIABLES
  up,        \* the process is running
  run,       \* how it was started: with --config, with a home to save to
  values,    \* Config::values_ on Keys
  open,      \* SettingsStore::in_transaction_
  staged,    \* SettingsStore::staging_values_: a set of pairs
  told,      \* what observers were last told of each key
  saving,    \* the call of the system save_to_file makes next, or "idle"
  temp,      \* the temporary file: "none", "empty", "written" or "synced"
  status,    \* how the last save of this process ended: "none", "ok", "error"
  disk,      \* the file a process would read now
  medium,    \* the file the medium holds
  faults

store == <<values, open, staged, told>>
file == <<disk, medium>>
vars == <<up, run, values, open, staged, told, saving, temp, status, disk, medium, faults>>

Untold == [untold |-> TRUE]
DefaultValues == [k \in Keys |-> DefaultText(k)]
File(texts, cut) == [texts |-> texts, cut |-> cut]

\* What load_with_precedence leaves in values_: the defaults, overridden by
\* every line that comes before a malformed one.
Loaded(f) == [k \in Keys |-> IF k \in f.cut THEN DefaultText(k) ELSE f.texts[k]]

ScaleFactor == <<"display", "scale", "factor">>

\* Config::validate refuses a scale outside (0, 10].
Loadable(texts) ==
  \A k \in Keys : k = ScaleFactor /\ Has(texts[k], "num") => texts[k].num \in 1 .. 1000

\* The bounds of the schema for it are narrower.
ASSUME ScaleAssumption ==
  /\ Find(ScaleFactor).type = "Double" /\ Find(ScaleFactor).default = [dbl |-> 1000]
  /\ Find(ScaleFactor).lo = 500 /\ Find(ScaleFactor).hi = 3000
  /\ DefaultText(ScaleFactor) = Num(100)

(* The files that a process may read, and whether it starts from one: a    *)
(* malformed line only ends the reading of the user's file, and the start  *)
(* of a process that was told to read the file.                            *)
Runs == [custom : BOOLEAN, home : BOOLEAN]
Source(r) == IF r.custom THEN Customs
             ELSE IF r.home THEN {disk} ELSE {File(DefaultValues, {})}
StartsFrom(r, f) == (r.custom => f.cut = {}) /\ Loadable(Loaded(f))

StagedFor(k) == {p \in staged : p[1] = k}
Get(k) == IF open /\ StagedFor(k) # {} THEN (CHOOSE p \in StagedFor(k) : TRUE)[2]
          ELSE Read(k, values[k])

Written(pairs) ==
  [k \in Keys |-> IF \E p \in pairs : p[1] = k
                  THEN Printed((CHOOSE p \in pairs : p[1] = k)[2]) ELSE values[k]]
Announced(pairs) ==
  [k \in Keys |-> IF \E p \in pairs : p[1] = k
                  THEN (CHOOSE p \in pairs : p[1] = k)[2] ELSE told[k]]

-----------------------------------------------------------------------------
Init ==
  /\ up = TRUE /\ run \in Runs
  /\ open = FALSE /\ staged = {} /\ told = [k \in Keys |-> Untold]
  /\ saving = "idle" /\ temp = "none" /\ status = "none"
  /\ disk = File(DefaultValues, {}) /\ medium = disk
  /\ \E f \in Source(run) : StartsFrom(run, f) /\ values = Loaded(f)
  /\ faults = 0

Idle == up /\ saving = "idle"
Fault == faults < MaxFaults /\ faults' = faults + 1

\* The save starts; without a home there is none, and the caller is told ok.
Persist ==
  /\ saving' = IF run.home THEN "mkstemp" ELSE "idle"
  /\ status' = IF run.home THEN status ELSE "ok"

\* The values are in memory and the observers told before the save starts.
ApplyAndSave(pairs) ==
  /\ values' = Written(pairs) /\ told' = Announced(pairs)
  /\ Persist
  /\ UNCHANGED <<up, run, temp, file, faults>>

Set(k, v) ==
  /\ Idle /\ Validates(Find(k), v)
  /\ IF open
     THEN /\ staged' = (staged \ StagedFor(k)) \cup {<<k, v>>}
          /\ UNCHANGED <<up, run, values, open, told, saving, temp, status, file, faults>>
     ELSE ApplyAndSave({<<k, v>>}) /\ UNCHANGED <<open, staged>>

\* Seeded fault: the values are reset without telling the observers.
ResetUntold(keys) ==
  /\ Idle /\ ~open
  /\ values' = Written({<<k, Find(k).default>> : k \in keys}) /\ Persist
  /\ UNCHANGED <<up, run, open, staged, told, temp, file, faults>>

\* reset_all and reset_category: set every default, then one save, which
\* writes the file even when the values were only staged.
Reset(keys) ==
  LET defaults == {<<k, Find(k).default>> : k \in keys} IN
  /\ Idle
  /\ IF open
     THEN /\ staged' = {p \in staged : p[1] \notin keys} \cup defaults
          /\ Persist
          /\ UNCHANGED <<up, run, values, open, told, temp, file, faults>>
     ELSE ApplyAndSave(defaults) /\ UNCHANGED <<open, staged>>

ResetAll == Reset(Keys)
ResetCategory(c) == Reset({k \in Keys : \E i \in DOMAIN InCategory(c) : InCategory(c)[i].key = k})

BeginTransaction ==
  /\ Idle /\ open' = TRUE /\ staged' = {}
  /\ UNCHANGED <<up, run, values, told, saving, temp, status, file, faults>>

Commit ==
  /\ Idle /\ open
  /\ open' = FALSE /\ staged' = {}
  /\ ApplyAndSave(staged)

Rollback ==
  /\ Idle /\ open' = FALSE /\ staged' = {}
  /\ UNCHANGED <<up, run, values, told, saving, temp, status, file, faults>>

-----------------------------------------------------------------------------
(* Config::save_to_file, one call of the system at a time. *)

Calls == <<"mkstemp", "write", "fsync", "rename">>

Mkstemp ==
  /\ up /\ saving = "mkstemp"
  /\ temp' = "empty" /\ saving' = "write"
  /\ UNCHANGED <<up, run, store, status, file, faults>>

\* Seeded fault: the file is renamed without fsync.
WriteUnsynced ==
  /\ up /\ saving = "write"
  /\ temp' = "written" /\ saving' = "rename"
  /\ UNCHANGED <<up, run, store, status, file, faults>>

Write ==
  /\ up /\ saving = "write"
  /\ temp' = "written" /\ saving' = "fsync"
  /\ UNCHANGED <<up, run, store, status, file, faults>>

Fsync ==
  /\ up /\ saving = "fsync"
  /\ temp' = "synced" /\ saving' = "rename"
  /\ UNCHANGED <<up, run, store, status, file, faults>>

\* What a reader of the temporary file finds in it.
InTemp == IF temp = "empty" THEN File(DefaultValues, Keys) ELSE File(values, {})

\* The renamed file is what a reader finds; after a power cut it may be a
\* file of before, and its content only if it was synced.
Rename ==
  /\ up /\ saving = "rename"
  /\ disk' = InTemp
  /\ medium' \in {medium, disk, IF temp = "synced" THEN InTemp ELSE File(DefaultValues, Keys)}
  /\ temp' = "none" /\ saving' = "idle" /\ status' = "ok"
  /\ UNCHANGED <<up, run, store, faults>>

\* Seeded fault: the failure is not reported.
SaveFailsQuietly ==
  /\ up /\ saving # "idle" /\ Fault
  /\ temp' = "none" /\ saving' = "idle" /\ status' = "ok"
  /\ UNCHANGED <<up, run, store, file>>

\* A call fails: the temporary file is removed and the caller gets an error.
SaveFails ==
  /\ up /\ saving # "idle" /\ Fault
  /\ temp' = "none" /\ saving' = "idle" /\ status' = "error"
  /\ UNCHANGED <<up, run, store, file>>

-----------------------------------------------------------------------------
(* The world: the kernel writes back, processes are killed, power is cut,  *)
(* users edit the file.                                                    *)

Writeback ==
  /\ medium # disk /\ medium' = disk
  /\ UNCHANGED <<up, run, store, saving, temp, status, disk, faults>>

Kill ==
  /\ up /\ Fault /\ up' = FALSE
  /\ saving' = "idle" /\ temp' = "none" /\ status' = "none"
  /\ open' = FALSE /\ staged' = {}
  /\ told' = [k \in Keys |-> Untold]
  /\ UNCHANGED <<run, values, file>>

PowerCut ==
  /\ ~up /\ disk # medium /\ disk' = medium
  /\ UNCHANGED <<up, run, store, saving, temp, status, medium, faults>>

EditFile ==
  /\ ~up /\ Fault
  /\ \E e \in Edits, cut \in SUBSET Keys :
       disk' = File([disk.texts EXCEPT ![e[1]] = e[2]], cut)
  /\ medium' = disk'
  /\ UNCHANGED <<up, run, store, saving, temp, status>>

\* A file Config::validate refuses makes the program exit at once.
Start ==
  /\ ~up
  /\ \E r \in Runs : \E f \in Source(r) :
       StartsFrom(r, f) /\ up' = TRUE /\ run' = r /\ values' = Loaded(f)
  /\ UNCHANGED <<open, staged, told, saving, temp, status, file, faults>>

-----------------------------------------------------------------------------
CallerStep ==
  \/ \E c \in Changes : Set(c[1], c[2])
  \/ ResetAll
  \/ \E i \in DOMAIN Categories : ResetCategory(Categories[i])
  \/ BeginTransaction \/ Commit \/ Rollback
SaveStep == Mkstemp \/ Write \/ Fsync \/ Rename \/ SaveFails
WorldStep == Writeback \/ Kill \/ PowerCut \/ EditFile \/ Start
Next == CallerStep \/ SaveStep \/ WorldStep

Spec == Init /\ [][Next]_vars

-----------------------------------------------------------------------------
Texts == [Keys -> {DefaultText(k) : k \in Keys} \cup {Printed(c[2]) : c \in Changes}
                  \cup {e[2] : e \in Edits} \cup {Printed(Find(k).default) : k \in Keys}
                  \cup {f.texts[k] : f \in Customs, k \in Keys}]
Files == [texts : Texts, cut : SUBSET Keys]

TypeOK ==
  /\ up \in BOOLEAN /\ run \in Runs /\ open \in BOOLEAN
  /\ values \in Texts /\ disk \in Files /\ medium \in Files
  /\ saving \in ToSet(Calls) \cup {"idle"}
  /\ temp \in {"none", "empty", "written", "synced"}
  /\ status \in {"none", "ok", "error"}
  /\ faults \in 0 .. MaxFaults

(* The store and the file implement the promise: whatever call fails and   *)
(* whenever the process dies or the power is cut, the file holds one       *)
(* complete earlier state of the settings                                  *)
(* (docs/settings_architecture.md:67).                                     *)
Reloaded(f) == File(Loaded(f), {})
Durable == INSTANCE DurableSettings WITH
             Snapshots <- Files, Loaded <- Reloaded, running <- up,
             own <- run.home /\ ~run.custom, keeps <- run.home,
             live <- File(values, {}), saved <- disk, durable <- medium
ImplementsDurable == Durable!Spec

(* An operation that returned success has reached the user's file: as long *)
(* as no later operation failed, that file holds what is in memory now,    *)
(* and a process started without --config finds it.  Only a process that   *)
(* has no home saves nothing and is told ok all the same.                  *)
OkIsSaved ==
  up /\ saving = "idle" /\ status = "ok" /\ run.home => Loaded(disk) = values

(* What users would like: the same command, started again, finds what was  *)
(* reported ok.  It does not when it reads a file with --config, or has no *)
(* home.                                                                   *)
OkSurvives ==
  up /\ saving = "idle" /\ status = "ok" => \E f \in Source(run) : Loaded(f) = values

(* Observers were told what a read returns now, to the precision of the    *)
(* file, for every key announced since the program started; a staged value *)
(* is never announced.                                                     *)
ToldIsRead ==
  \A k \in Keys : told[k] # Untold =>
    Read(k, values[k]) \in Parsed(Find(k).type, Printed(told[k]))

(* Whatever is stored by the program makes a file that the program starts  *)
(* from: only a user's edit can keep it from starting.                     *)
OwnFileLoads == up => Loadable(values)
=============================================================================

--------------------------- MODULE SettingsProofs ---------------------------
(***************************************************************************)
(* That the settings store keeps its promises for every set of keys, every *)
(* value that callers of the right type pass, every edit of the file and   *)
(* any number of faults: what observers were told is what is read, what    *)
(* was reported saved is in the file, what the program writes it can start *)
(* from, and the store with its file implements DurableSettings.  And that *)
(* the Settings window, for every set of keys, whatever a search finds and *)
(* wherever fingers are, selects a row that is listed, takes no number off *)
(* its steps, whatever numbers a file gave it, and tests hits against the  *)
(* geometry of its mode.  The two specifications share the schema and the  *)
(* keys, no variable.                                                      *)
(***************************************************************************)
EXTENDS SettingsStore, SettingsWindow, FiniteSetTheorems, TLAPS

-----------------------------------------------------------------------------
(* Values.                                                                  *)

\* What can be set or staged: what callers pass and validation lets through,
\* and the defaults.
Settable ==
  {p \in {<<c[1], c[2]>> : c \in Changes} : Validates(Find(p[1]), p[2])}
    \cup {<<k, Find(k).default>> : k \in Keys}

\* Every key has a definition in the schema.
LEMMA Found ==
  ASSUME NEW k \in Keys
  PROVE  \E i \in DOMAIN AllSettings : Find(k) = AllSettings[i] /\ Find(k).key = k
<1>1. PICK i \in DOMAIN AllSettings : AllSettings[i].key = k
  BY KeysAssumption
<1> DEFINE at == CHOOSE j \in DOMAIN AllSettings : AllSettings[j].key = k
<1>2. at \in DOMAIN AllSettings /\ AllSettings[at].key = k
  BY <1>1
<1>3. Find(k) = AllSettings[at]
  BY DEF Find
<1>4. QED
  BY <1>2, <1>3

\* What fits a setting of a kind reads back from the file.
LEMMA FitsReadsBack ==
  ASSUME NEW def, NEW v, Fits(def, v), def.type \in {"Bool", "Int", "Double", "String", "Enum"}
  PROVE  Parsed(def.type, Printed(v)) # {}
<1>1. CASE def.type = "Bool"
  <2>1. v \in [bool : BOOLEAN] \cup [int : {0, 1}]
    BY <1>1 DEF Fits
  <2>2. CASE v \in [bool : BOOLEAN]
    <3>1. Printed(v) \in {On, Off}
      BY <2>2 DEF Printed, Has
    <3>2. ~Has(On, "none") /\ ~Has(Off, "none") /\ On \in Truthy /\ Off \in Falsy
      BY DEF Has, On, Off, Word, Truthy, Falsy
    <3>3. QED
      BY <1>1, <3>1, <3>2 DEF Parsed
  <2>3. CASE v \in [int : {0, 1}]
    <3>1. Printed(v) \in {Num(0), Num(100)}
      BY <2>3 DEF Printed, Has
    <3>2. ~Has(Num(0), "none") /\ ~Has(Num(100), "none") /\ Num(100) \in Truthy /\ Num(0) \in Falsy
      BY DEF Has, Num, Truthy, Falsy
    <3>3. QED
      BY <1>1, <3>1, <3>2 DEF Parsed
  <2>4. QED
    BY <2>1, <2>2, <2>3
<1>2. CASE def.type = "Int"
  <2>1. v \in [int : Int]
    BY <1>2 DEF Fits
  <2>2. Printed(v) = [num |-> 100 * v.int] /\ v.int \in Int
    BY <2>1 DEF Printed, Has, Num
  <2>3. (100 * v.int) % 100 = 0
    BY <2>2
  <2> DEFINE text == Printed(v)
  <2>4. ~Has(text, "none") /\ Has(text, "num") /\ text.num % 100 = 0
    BY <2>2, <2>3 DEF Has
  <2> HIDE DEF text
  <2>5. Parsed("Int", text) = {[int |-> text.num \div 100]}
    BY <2>4 DEF Parsed
  <2>6. QED
    BY <1>2, <2>5 DEF text
<1>3. CASE def.type = "Double"
  <2>1. v \in [dbl : Int] \cup [int : Int]
    BY <1>3 DEF Fits
  <2>2. \E n : Printed(v) = [num |-> n]
    BY <2>1 DEF Printed, Has, Num
  <2>3. QED
    BY <1>3, <2>2 DEF Parsed, Has
<1>4. CASE def.type \in {"String", "Enum"}
  <2>1. v \in [str : STRING]
    BY <1>4 DEF Fits
  <2>2. Printed(v) = [word |-> v.str]
    BY <2>1 DEF Printed, Has, Word
  <2>3. QED
    BY <1>4, <2>2 DEF Parsed, Has
<1>5. QED
  BY <1>1, <1>2, <1>3, <1>4

\* The scale a validated value prints stays far inside what Config accepts.
LEMMA ScalePrints ==
  ASSUME NEW v, Validates(Find(ScaleFactor), v), Fits(Find(ScaleFactor), v)
  PROVE  Printed(v).num \in 1 .. 1000
<1> DEFINE def == Find(ScaleFactor)
<1>1. def.type = "Double" /\ def.lo = 500 /\ def.hi = 3000
  BY ScaleAssumption
<1> HIDE DEF def
<1>2. v \in [dbl : Int] \cup [int : Int]
  BY <1>1 DEF Fits, def
<1>3. \E n \in AsDouble(v) : n \in Int /\ 500 <= n /\ n <= 3000
  <2>1. \E n \in AsDouble(v) : n \in def.lo .. def.hi
    BY <1>1 DEF Validates, def
  <2>2. \A n \in 500 .. 3000 : n \in Int /\ 500 <= n /\ n <= 3000
    OBVIOUS
  <2>3. QED
    BY <1>1, <2>1, <2>2
<1>4. CASE v \in [dbl : Int]
  <2>1. AsDouble(v) = {v.dbl} /\ Printed(v) = Num((v.dbl + 5) \div 10) /\ v.dbl \in Int
    BY <1>4 DEF AsDouble, Printed, Has
  <2>2. 500 <= v.dbl /\ v.dbl <= 3000
    BY <1>3, <2>1
  <2>3. (v.dbl + 5) \div 10 \in 1 .. 1000
    BY <2>1, <2>2
  <2>4. QED
    BY <2>1, <2>3 DEF Num
<1>5. CASE v \in [int : Int]
  <2>1. AsDouble(v) = {1000 * v.int} /\ Printed(v) = Num(100 * v.int) /\ v.int \in Int
    BY <1>5 DEF AsDouble, Printed, Has
  <2>2. 500 <= 1000 * v.int /\ 1000 * v.int <= 3000
    BY <1>3, <2>1
  <2>3. 100 * v.int \in 1 .. 1000
    BY <2>1, <2>2
  <2>4. QED
    BY <2>1, <2>3 DEF Num
<1>6. QED
  BY <1>2, <1>4, <1>5

\* The texts that a value may have.
SomeTexts == {DefaultText(k) : k \in Keys} \cup {Printed(c[2]) : c \in Changes}
               \cup {e[2] : e \in Edits} \cup {Printed(Find(k).default) : k \in Keys}
               \cup {f.texts[k] : f \in Customs, k \in Keys}

LEMMA TextsAre == Texts = [Keys -> SomeTexts]
BY DEF Texts, SomeTexts

\* What is settable names a key, prints to a text that reads back, and is a
\* scale the program starts with.
LEMMA SettableSound ==
  ASSUME NEW p \in Settable
  PROVE  /\ p = <<p[1], p[2]>> /\ p[1] \in Keys
         /\ Printed(p[2]) \in SomeTexts
         /\ Parsed(Find(p[1]).type, Printed(p[2])) # {}
         /\ p[1] = ScaleFactor => Printed(p[2]).num \in 1 .. 1000
<1> DEFINE def == Find(p[1])
<1>1. CASE p \in {q \in {<<c[1], c[2]>> : c \in Changes} : Validates(Find(q[1]), q[2])}
  <2>1. PICK c \in Changes : p = <<c[1], c[2]>> /\ Validates(Find(c[1]), c[2])
    BY <1>1
  <2>2. c[1] \in Keys /\ Fits(Find(c[1]), c[2])
    BY <2>1, StoreAssumption
  <2>3. Find(c[1]).type \in {"Bool", "Int", "Double", "String", "Enum"}
    BY <2>2, Found, SchemaIsSound
  <2>4. Parsed(Find(c[1]).type, Printed(c[2])) # {}
    BY <2>2, <2>3, FitsReadsBack
  <2>5. c[1] = ScaleFactor => Printed(c[2]).num \in 1 .. 1000
    BY <2>1, <2>2, ScalePrints
  <2>6. p[1] = c[1] /\ p[2] = c[2]
    BY <2>1
  <2>7. Printed(c[2]) \in SomeTexts
    BY DEF SomeTexts
  <2>8. QED
    BY <2>1, <2>2, <2>4, <2>5, <2>6, <2>7
<1>2. CASE p \in {<<k, Find(k).default>> : k \in Keys}
  <2>1. PICK k \in Keys : p = <<k, Find(k).default>>
    BY <1>2
  <2>2. Parsed(Find(k).type, Printed(Find(k).default)) = {Find(k).default}
    BY Found, SchemaIsSound
  <2>3. k = ScaleFactor => Printed(Find(k).default).num \in 1 .. 1000
    <3>1. Printed([dbl |-> 1000]) = Num(100)
      BY DEF Printed, Has
    <3>2. QED
      BY <3>1, ScaleAssumption DEF Num
  <2>4. p[1] = k /\ p[2] = Find(k).default
    BY <2>1
  <2>5. Printed(Find(k).default) \in SomeTexts
    BY DEF SomeTexts
  <2>6. QED
    BY <2>1, <2>2, <2>3, <2>4, <2>5
<1>3. QED
  BY <1>1, <1>2 DEF Settable

\* Writing settable pairs into the values keeps them texts the program starts
\* from, and what is announced of a key is what its text prints.
LEMMA WrittenSound ==
  ASSUME NEW pairs, pairs \subseteq Settable, values \in Texts
  PROVE  /\ Written(pairs) \in Texts
         /\ Loadable(values) => Loadable(Written(pairs))
         /\ \A k \in Keys :
              \/ /\ <<k, Announced(pairs)[k]>> \in Settable
                 /\ Written(pairs)[k] = Printed(Announced(pairs)[k])
              \/ Announced(pairs)[k] = told[k] /\ Written(pairs)[k] = values[k]
<1>1. ASSUME NEW k \in Keys
      PROVE  \/ /\ <<k, Announced(pairs)[k]>> \in Settable
                /\ Written(pairs)[k] = Printed(Announced(pairs)[k])
             \/ Announced(pairs)[k] = told[k] /\ Written(pairs)[k] = values[k]
  <2>1. CASE \E p \in pairs : p[1] = k
    <3> DEFINE q == CHOOSE p \in pairs : p[1] = k
    <3>1. q \in pairs /\ q[1] = k
      BY <2>1
    <3>2. Announced(pairs)[k] = q[2] /\ Written(pairs)[k] = Printed(q[2])
      BY <2>1 DEF Announced, Written
    <3> HIDE DEF q
    <3>3. q \in Settable /\ q = <<k, q[2]>>
      BY <3>1, SettableSound
    <3>4. QED
      BY <3>2, <3>3
  <2>2. CASE ~ \E p \in pairs : p[1] = k
    BY <2>2 DEF Announced, Written
  <2>3. QED
    BY <2>1, <2>2
<1>2. ASSUME NEW k \in Keys
      PROVE  Written(pairs)[k] \in SomeTexts
  <2>1. values[k] \in SomeTexts
    BY TextsAre
  <2>2. CASE <<k, Announced(pairs)[k]>> \in Settable /\ Written(pairs)[k] = Printed(Announced(pairs)[k])
    <3> DEFINE q == <<k, Announced(pairs)[k]>>
    <3>1. Printed(q[2]) \in SomeTexts
      BY <2>2, SettableSound
    <3>2. QED
      BY <2>2, <3>1
  <2>3. QED
    BY <1>1, <2>1, <2>2
<1>3. Written(pairs) \in Texts
  <2>1. Written(pairs) \in [Keys -> SomeTexts]
    BY <1>2 DEF Written
  <2>2. QED
    BY <2>1, TextsAre
<1>4. ASSUME Loadable(values)
      PROVE  Loadable(Written(pairs))
  <2> SUFFICES ASSUME ScaleFactor \in Keys, Has(Written(pairs)[ScaleFactor], "num")
               PROVE  Written(pairs)[ScaleFactor].num \in 1 .. 1000
    BY DEF Loadable
  <2> DEFINE k == ScaleFactor
             q == <<k, Announced(pairs)[k]>>
  <2>1. CASE q \in Settable /\ Written(pairs)[k] = Printed(q[2])
    <3>1. q[1] = ScaleFactor
      OBVIOUS
    <3> HIDE DEF q
    <3>2. QED
      BY <2>1, <3>1, SettableSound
  <2>2. CASE Written(pairs)[k] = values[k]
    BY <1>4, <2>2 DEF Loadable
  <2>3. QED
    BY <1>1, <2>1, <2>2
<1>5. QED
  BY <1>1, <1>3, <1>4

\* The files that reading and writing make are files.
LEMMA FilesSound ==
  /\ DefaultValues \in Texts /\ Loadable(DefaultValues)
  /\ \A texts \in Texts, cut \in SUBSET Keys : File(texts, cut) \in Files
  /\ \A f \in Files : Loaded(f) \in Texts
  /\ \A texts \in Texts : Loaded(File(texts, {})) = texts
  /\ \A f \in Customs : Loaded(f) \in Texts
<1>1. \A k \in Keys : DefaultText(k) \in SomeTexts
  BY DEF SomeTexts
<1>2. DefaultValues \in Texts
  BY <1>1, TextsAre DEF DefaultValues
<1>3. Loadable(DefaultValues)
  BY ScaleAssumption DEF Loadable, DefaultValues, Num
<1>4. \A texts \in Texts, cut \in SUBSET Keys : File(texts, cut) \in Files
  BY DEF File, Files
<1>5. \A f \in Files : Loaded(f) \in Texts
  BY <1>1, TextsAre DEF Loaded, Files
<1>6. \A texts \in Texts : Loaded(File(texts, {})) = texts
  BY TextsAre DEF Loaded, File
<1>7. ASSUME NEW f \in Customs PROVE Loaded(f) \in Texts
  <2>1. \A k \in Keys : f.texts[k] \in SomeTexts
    BY DEF SomeTexts
  <2> QED BY <1>1, <2>1, TextsAre DEF Loaded
<1>8. QED
  BY <1>2, <1>3, <1>4, <1>5, <1>6, <1>7

\* What a process starts from is values it accepts.
LEMMA SourcesSound ==
  ASSUME disk \in Files, NEW r, NEW f \in Source(r)
  PROVE  Loaded(f) \in Texts
<1>1. CASE f \in Customs
  BY <1>1, FilesSound
<1>2. CASE f = disk
  BY <1>2, FilesSound
<1>3. CASE f = File(DefaultValues, {})
  BY <1>3, FilesSound
<1> QED BY <1>1, <1>2, <1>3 DEF Source

-----------------------------------------------------------------------------
(* The invariant.                                                           *)

\* What is in memory: only settable pairs are staged and told, and a key that
\* observers were told of holds the text of what they were told.
MemorySound ==
  /\ staged \subseteq Settable
  /\ up => Loadable(values)
  /\ \A k \in Keys : told[k] # Untold => <<k, told[k]>> \in Settable /\ values[k] = Printed(told[k])

\* A process that is not there has told nothing and saves nothing.
DownIsSilent ==
  ~up => saving = "idle" /\ status = "none" /\ \A k \in Keys : told[k] = Untold

\* The temporary file is as far as the save is: it is synced when it is renamed.
TempFollows ==
  temp = CASE saving = "write"  -> "empty"
           [] saving = "fsync"  -> "written"
           [] saving = "rename" -> "synced"
           [] OTHER             -> "none"

\* Only a process with a home saves.
HomeToSave == saving # "idle" => run.home

IInv == TypeOK /\ MemorySound /\ DownIsSilent /\ TempFollows /\ HomeToSave /\ OkIsSaved

\* The calls a save is in.
LEMMA CallsAre == ToSet(Calls) = {"mkstemp", "write", "fsync", "rename"}
BY DEF ToSet, Calls

LEMMA InitInv == Init => IInv
<1> SUFFICES ASSUME Init PROVE IInv
  OBVIOUS
<1>1. TypeOK
  <2>1. File(DefaultValues, {}) \in Files
    BY FilesSound
  <2>2. faults \in 0 .. MaxFaults
    BY StoreAssumption DEF Init
  <2>3. values \in Texts /\ disk \in Files /\ medium \in Files
    BY <2>1, SourcesSound DEF Init
  <2>4. QED
    BY <2>2, <2>3 DEF Init, TypeOK
<1>2. MemorySound /\ DownIsSilent /\ TempFollows /\ HomeToSave /\ OkIsSaved
  BY DEF Init, StartsFrom, MemorySound, DownIsSilent, TempFollows, OkIsSaved, HomeToSave
<1>3. QED
  BY <1>1, <1>2 DEF IInv

\* Values and what was told of them change together: from settable pairs.
LEMMA ApplyPreserves ==
  ASSUME IInv, NEW pairs, pairs \subseteq Settable, ApplyAndSave(pairs), up, saving = "idle",
         staged' \subseteq Settable, open' \in BOOLEAN
  PROVE  IInv'
<1>1. values \in Texts
  BY DEF IInv, TypeOK
<1>2. /\ values' = Written(pairs) /\ told' = Announced(pairs)
      /\ saving' = (IF run.home THEN "mkstemp" ELSE "idle")
      /\ status' = (IF run.home THEN status ELSE "ok")
      /\ UNCHANGED <<up, run, temp, disk, medium, faults>>
  BY DEF ApplyAndSave, Persist, file
<1>3. TypeOK'
  <2>1. values' \in Texts
    BY <1>1, <1>2, WrittenSound
  <2>2. QED
    BY <1>2, <2>1, CallsAre DEF IInv, TypeOK
<1>4. MemorySound'
  <2>1. Loadable(values')
    BY <1>1, <1>2, WrittenSound DEF IInv, MemorySound
  <2>2. ASSUME NEW k \in Keys, told'[k] # Untold
        PROVE  <<k, told'[k]>> \in Settable /\ values'[k] = Printed(told'[k])
    BY <1>1, <1>2, <2>2, WrittenSound DEF IInv, MemorySound
  <2>3. QED
    BY <2>1, <2>2 DEF MemorySound
<1>5. DownIsSilent' /\ HomeToSave' /\ OkIsSaved'
  BY <1>2 DEF DownIsSilent, HomeToSave, OkIsSaved
<1>6. TempFollows'
  BY <1>2 DEF IInv, TempFollows
<1>7. QED
  BY <1>3, <1>4, <1>5, <1>6 DEF IInv

LEMMA CallerPreserves ==
  ASSUME IInv, CallerStep
  PROVE  IInv'
<1>1. staged \subseteq Settable
  BY DEF IInv, MemorySound
\* A change of what is staged alone, which may come with a save of what there is.
<1>2. ASSUME up, saving = "idle", staged' \subseteq Settable, open' \in BOOLEAN,
             UNCHANGED <<up, run, values, told, temp, file, faults>>,
             UNCHANGED <<saving, status>> \/ Persist
      PROVE  IInv'
  <2>1. TypeOK'
    BY <1>2, CallsAre DEF IInv, TypeOK, file, Persist
  <2>2. MemorySound'
    BY <1>2 DEF IInv, MemorySound
  <2>3. DownIsSilent' /\ TempFollows' /\ HomeToSave'
    BY <1>2 DEF IInv, DownIsSilent, TempFollows, HomeToSave, Persist
  <2>4. OkIsSaved'
    BY <1>2 DEF IInv, OkIsSaved, file, Persist
  <2>5. QED
    BY <2>1, <2>2, <2>3, <2>4 DEF IInv
<1>3. ASSUME NEW c \in Changes, Set(c[1], c[2])
      PROVE  IInv'
  <2>1. <<c[1], c[2]>> \in Settable
    <3>1. Validates(Find(c[1]), c[2])
      BY <1>3 DEF Set
    <3>2. QED
      BY <3>1 DEF Settable
  <2>2. CASE open
    <3>1. staged' \subseteq Settable
      BY <1>1, <1>3, <2>1, <2>2 DEF Set
    <3>2. QED
      BY <1>2, <1>3, <2>2, <3>1 DEF Set, Idle, IInv, TypeOK
  <2>3. CASE ~open
    BY <1>1, <1>3, <2>1, <2>3, ApplyPreserves DEF Set, Idle, IInv, TypeOK
  <2>4. QED
    BY <2>2, <2>3
<1>4. ASSUME NEW keys \in SUBSET Keys, Reset(keys)
      PROVE  IInv'
  <2> DEFINE defaults == {<<k, Find(k).default>> : k \in keys}
  <2>1. defaults \subseteq Settable
    BY DEF Settable
  <2>2. CASE open
    BY <1>1, <1>2, <1>4, <2>1, <2>2 DEF Reset, Idle, IInv, TypeOK
  <2>3. CASE ~open
    BY <1>1, <1>4, <2>1, <2>3, ApplyPreserves DEF Reset, Idle, IInv, TypeOK
  <2>4. QED
    BY <2>2, <2>3
<1>5. CASE ResetAll
  BY <1>4, <1>5 DEF ResetAll
<1>6. CASE \E i \in DOMAIN Categories : ResetCategory(Categories[i])
  BY <1>4, <1>6 DEF ResetCategory
<1>7. CASE BeginTransaction
  BY <1>2, <1>7 DEF BeginTransaction, Idle
<1>8. CASE Commit
  BY <1>1, <1>8, ApplyPreserves DEF Commit, Idle
<1>9. CASE Rollback
  BY <1>2, <1>9 DEF Rollback, Idle
<1>10. QED
  BY <1>3, <1>5, <1>6, <1>7, <1>8, <1>9 DEF CallerStep

\* A failure is counted up to its bound.
LEMMA FaultCounted == IInv /\ Fault => faults' \in 0 .. MaxFaults
BY StoreAssumption DEF IInv, TypeOK, Fault

LEMMA SavePreserves ==
  ASSUME IInv, SaveStep
  PROVE  IInv'
<1> USE CallsAre DEF IInv, TypeOK, MemorySound, DownIsSilent, TempFollows, HomeToSave, store, file
<1>1. CASE Mkstemp
  BY <1>1 DEF Mkstemp, OkIsSaved
<1>2. CASE Write
  BY <1>2 DEF Write, OkIsSaved
<1>3. CASE Fsync
  BY <1>3 DEF Fsync, OkIsSaved
<1>4. CASE Rename
  <2>1. temp = "synced" /\ InTemp = File(values, {}) /\ InTemp \in Files
    BY <1>4, FilesSound DEF Rename, InTemp
  <2>2. medium' \in Files /\ disk' = InTemp
    BY <1>4, <2>1 DEF Rename
  <2>3. Loaded(disk') = values
    BY <2>1, <2>2, FilesSound
  <2>4. QED
    BY <1>4, <2>1, <2>2, <2>3 DEF Rename, OkIsSaved
<1>5. CASE SaveFails
  <2>1. faults' \in 0 .. MaxFaults
    BY <1>5, FaultCounted DEF SaveFails
  <2>2. QED
    BY <1>5, <2>1 DEF SaveFails, OkIsSaved
<1>6. QED
  BY <1>1, <1>2, <1>3, <1>4, <1>5 DEF SaveStep

LEMMA WorldPreserves ==
  ASSUME IInv, WorldStep
  PROVE  IInv'
<1> USE CallsAre DEF IInv, TypeOK, MemorySound, DownIsSilent, TempFollows, HomeToSave, store, file
<1>1. CASE Writeback
  BY <1>1 DEF Writeback, OkIsSaved
<1>2. CASE Kill
  <2>1. faults' \in 0 .. MaxFaults
    BY <1>2, FaultCounted DEF Kill
  <2>2. QED
    BY <1>2, <2>1 DEF Kill, OkIsSaved
<1>3. CASE PowerCut
  BY <1>3 DEF PowerCut, OkIsSaved
<1>4. CASE EditFile
  <2>1. PICK e \in Edits, cut \in SUBSET Keys : disk' = File([disk.texts EXCEPT ![e[1]] = e[2]], cut)
    BY <1>4 DEF EditFile
  <2>2. disk.texts \in [Keys -> SomeTexts]
    BY TextsAre DEF Files
  <2>3. e[2] \in SomeTexts
    BY DEF SomeTexts
  <2>4. [disk.texts EXCEPT ![e[1]] = e[2]] \in Texts
    BY <2>2, <2>3, TextsAre
  <2>5. disk' \in Files
    BY <2>1, <2>4, FilesSound
  <2>6. faults' \in 0 .. MaxFaults
    BY <1>4, FaultCounted DEF EditFile
  <2>7. medium' = disk' /\ ~up /\ UNCHANGED <<up, run, store, saving, temp, status>>
    BY <1>4 DEF EditFile
  <2>8. QED
    BY <2>5, <2>6, <2>7 DEF OkIsSaved
<1>5. CASE Start
  <2>0. PICK r \in Runs :
          \E f \in Source(r) : StartsFrom(r, f) /\ up' = TRUE /\ run' = r /\ values' = Loaded(f)
    BY <1>5 DEF Start
  <2>1. PICK f \in Source(r) : StartsFrom(r, f) /\ up' = TRUE /\ run' = r /\ values' = Loaded(f)
    BY <2>0
  <2>2. values' \in Texts /\ Loadable(values')
    BY <2>1, SourcesSound DEF StartsFrom
  <2>3. UNCHANGED <<open, staged, told, saving, temp, status, disk, medium, faults>> /\ ~up
    BY <1>5 DEF Start
  <2>4. QED
    BY <2>1, <2>2, <2>3 DEF OkIsSaved
<1>6. QED
  BY <1>1, <1>2, <1>3, <1>4, <1>5 DEF WorldStep

\* The inductive invariant of the store.  OkIsSaved alone is not inductive: that
\* a rename leaves the values in the file needs the temporary file to be written by
\* then, and ToldIsRead needs every value that was told to be one that reads back.
THEOREM Invariance == Spec => []IInv
<1>1. IInv /\ UNCHANGED vars => IInv'
  BY DEF IInv, TypeOK, MemorySound, DownIsSilent, TempFollows, HomeToSave, OkIsSaved, vars
<1>2. IInv /\ [Next]_vars => IInv'
  BY <1>1, CallerPreserves, SavePreserves, WorldPreserves DEF Next
<1>3. QED
  BY InitInv, <1>2, PTL DEF Spec

\* Type correctness of the store, its file and the save.
THEOREM TypeCorrect == Spec => []TypeOK
<1>1. IInv => TypeOK
  BY DEF IInv
<1>2. QED
  BY <1>1, Invariance, PTL

\* What was reported as saved is what a restart finds (SettingsStore::save,
\* Config::save_to_file), whatever fails in between.
THEOREM SavedIsThere == Spec => []OkIsSaved
<1>1. IInv => OkIsSaved
  BY DEF IInv
<1>2. QED
  BY <1>1, Invariance, PTL

\* Observers know what a read returns (SettingsStore::notify_changed).
THEOREM ToldHonestly == Spec => []ToldIsRead
<1>1. ASSUME IInv, NEW k \in Keys, told[k] # Untold
      PROVE  Read(k, values[k]) \in Parsed(Find(k).type, Printed(told[k]))
  <2> DEFINE p == <<k, told[k]>>
  <2>1. p \in Settable /\ p[1] = k /\ p[2] = told[k] /\ values[k] = Printed(told[k])
    BY <1>1 DEF IInv, MemorySound
  <2> HIDE DEF p
  <2>2. Parsed(Find(k).type, values[k]) # {}
    BY <2>1, SettableSound
  <2>3. Read(k, values[k]) \in Parsed(Find(k).type, values[k])
    BY <2>2 DEF Read
  <2>4. QED
    BY <2>1, <2>3
<1>2. IInv => ToldIsRead
  BY <1>1 DEF ToldIsRead
<1>3. QED
  BY <1>2, Invariance, PTL

\* The program starts from any file it wrote (Config::validate).
THEOREM RestartsFromOwnFile == Spec => []OwnFileLoads
<1>1. IInv => OwnFileLoads
  BY DEF IInv, MemorySound, OwnFileLoads
<1>2. QED
  BY <1>1, Invariance, PTL

-----------------------------------------------------------------------------
(* The refinement.                                                          *)

\* Each step of the store is one of DurableSettings, or none: changes in memory and
\* the calls before the rename are a change or a stutter, the rename persists.
LEMMA StepImplements ==
  ASSUME IInv, IInv', [Next]_vars
  PROVE  [Durable!Next]_(Durable!dvars)
<1> USE DEF Durable!Next, Durable!dvars, store, file
<1>1. /\ values' \in Texts /\ File(values', {}) \in Files /\ medium' \in Files /\ disk' \in Files
      /\ run'.home \in BOOLEAN /\ run'.custom \in BOOLEAN
  BY FilesSound DEF IInv, TypeOK, Runs
<1>2. ASSUME up, UNCHANGED <<up, run, disk, medium>>
      PROVE  Durable!Change
  BY <1>1, <1>2 DEF Durable!Change
<1>3. CASE CallerStep
  <2>1. up /\ UNCHANGED <<up, run, disk, medium>>
    BY <1>3 DEF CallerStep, Set, ResetAll, ResetCategory, Reset, BeginTransaction, Commit, Rollback,
                ApplyAndSave, Idle
  <2>2. QED
    BY <1>2, <2>1
<1>4. CASE Mkstemp \/ Write \/ Fsync \/ SaveFails
  <2>1. up /\ UNCHANGED <<up, run, disk, medium>>
    BY <1>4 DEF Mkstemp, Write, Fsync, SaveFails
  <2>2. QED
    BY <1>2, <2>1
<1>5. CASE Rename
  <2>1. InTemp = File(values, {}) /\ temp = "synced" /\ run.home
    BY <1>5 DEF Rename, InTemp, IInv, TempFollows, HomeToSave
  <2>2. Durable!Persist
    BY <1>5, <2>1 DEF Rename, Durable!Persist
  <2>3. QED
    BY <2>2
<1>6. CASE Writeback
  BY <1>6 DEF Writeback, Durable!Sync
<1>7. CASE Kill
  BY <1>7 DEF Kill, Durable!Die
<1>8. CASE PowerCut
  BY <1>8 DEF PowerCut, Durable!PowerCut
<1>9. CASE EditFile
  BY <1>1, <1>9 DEF EditFile, Durable!Edit
<1>10. CASE Start
  <2>0. PICK r \in Runs :
          \E f \in Source(r) : StartsFrom(r, f) /\ up' = TRUE /\ run' = r /\ values' = Loaded(f)
    BY <1>10 DEF Start
  <2>1. PICK f \in Source(r) : StartsFrom(r, f) /\ up' = TRUE /\ run' = r /\ values' = Loaded(f)
    BY <2>0
  <2>2. r.home /\ ~r.custom => f = disk
    BY <2>1 DEF Source
  <2>3. ~up /\ UNCHANGED <<disk, medium>>
    BY <1>10 DEF Start
  <2>4. Durable!Start
    BY <1>1, <2>1, <2>2, <2>3 DEF Durable!Start, Reloaded
  <2> QED BY <2>4
<1>11. CASE UNCHANGED vars
  BY <1>11 DEF vars
<1>12. QED
  BY <1>3, <1>4, <1>5, <1>6, <1>7, <1>8, <1>9, <1>10, <1>11 DEF Next, SaveStep, WorldStep

\* The store and its file implement the promise of DurableSettings, step by step:
\* the file always holds one complete earlier state of the settings.
THEOREM Refinement == Spec => ImplementsDurable
<1>1. Init => Durable!Init
  <2> SUFFICES ASSUME Init PROVE Durable!Init
    OBVIOUS
  <2>1. disk = File(DefaultValues, {}) /\ medium = disk /\ up = TRUE /\ disk \in Files
    BY FilesSound DEF Init
  <2>2. values \in Texts /\ run \in Runs
    BY <2>1, SourcesSound DEF Init
  <2>3. File(values, {}) \in Files /\ run.home \in BOOLEAN /\ run.custom \in BOOLEAN
    BY <2>2, FilesSound DEF Runs
  <2> QED BY <2>1, <2>3 DEF Durable!Init
<1>2. IInv /\ IInv' /\ [Next]_vars => [Durable!Next]_(Durable!dvars)
  BY StepImplements
<1>3. QED
  BY <1>1, <1>2, Invariance, PTL DEF Spec, Durable!Spec, ImplementsDurable

-----------------------------------------------------------------------------
(* The Settings window: numbers.                                            *)

IsNumber(k) == Find(k).type \in {"Int", "Double"}

\* The whole numbers of steps within the bounds of a setting, and its values.
OnGrid(k, n) == n \in Find(k).lo .. Find(k).hi /\ \E q \in Int : n = q * Find(k).step
GridValue(k, v) == \E n \in Int : OnGrid(k, n) /\ v = Numeric(k, n)

\* What a file may say of a number that reads back: any number of its type.
TypedValue(k, v) == \E n \in Int : v = Numeric(k, n)

\* A multiple of a step leaves no remainder.
LEMMA Multiples ==
  ASSUME NEW q \in Int, NEW d \in Int, d > 0
  PROVE  (q * d) % d = 0
OBVIOUS

\* One step up or down from a multiple.
LEMMA Distributes ==
  ASSUME NEW q \in Int, NEW d \in Int, NEW s \in {1, -1}
  PROVE  q * d + s * d = (q + s) * d
<1>1. s \in Int
  OBVIOUS
<1> QED BY <1>1

\* Rounding gives a whole number of steps.
LEMMA QuotientIsWhole == ASSUME NEW n \in Int, NEW d \in Int, d > 0 PROVE n \div d \in Int
OBVIOUS

\* What the schema has for a number.
LEMMA NumberFound ==
  ASSUME NEW k \in Keys, IsNumber(k)
  PROVE  /\ Find(k).lo \in Int /\ Find(k).hi \in Int /\ Find(k).lo <= Find(k).hi
         /\ Find(k).step \in Int /\ Find(k).step > 0
         /\ OnGrid(k, Find(k).lo) /\ OnGrid(k, Find(k).hi)
         /\ GridValue(k, Find(k).default)
         /\ Widget(k) # "Toggle"
<1> DEFINE def == Find(k)
<1>1. PICK i \in DOMAIN AllSettings : def = AllSettings[i] /\ def.key = k
  BY Found
<1>2. def.type \in {"Int", "Double"}
  BY DEF IsNumber
<1> HIDE DEF def
<1>3. /\ def.lo \in Int /\ def.hi \in Int /\ def.lo <= def.hi
      /\ def.step \in Int /\ def.step > 0
      /\ \E n \in def.lo .. def.hi :
           /\ def.default = IF def.type = "Int" THEN [int |-> n] ELSE [dbl |-> n]
           /\ \A m \in {def.lo, n, def.hi} : m = (m \div def.step) * def.step
      /\ Widget(def.key) # "Toggle"
  <2>1. {def.lo, def.hi} \subseteq Int
    BY <1>1, <1>2, NumbersAreSound
  <2> QED BY <1>1, <1>2, <2>1, NumbersAreSound
<1>4. PICK n \in def.lo .. def.hi :
        /\ def.default = IF def.type = "Int" THEN [int |-> n] ELSE [dbl |-> n]
        /\ \A m \in {def.lo, n, def.hi} : m = (m \div def.step) * def.step
  BY <1>3
<1>5. ASSUME NEW m \in {def.lo, n, def.hi} PROVE m \in def.lo .. def.hi /\ \E q \in Int : m = q * def.step
  <2>1. m \in def.lo .. def.hi /\ m \in Int
    BY <1>3, <1>4
  <2>2. m \div def.step \in Int
    BY <2>1, <1>3, QuotientIsWhole
  <2> QED BY <2>1, <2>2, <1>4, <1>5
<1>6. OnGrid(k, def.lo) /\ OnGrid(k, n) /\ OnGrid(k, def.hi)
  BY <1>5 DEF OnGrid, def
<1>7. def.default = Numeric(k, n) /\ n \in Int
  BY <1>3, <1>4 DEF Numeric, def
<1> QED BY <1>1, <1>3, <1>6, <1>7 DEF GridValue, def

\* A multiple of the step stays one when it is brought within the bounds.
LEMMA ClampedOnGrid ==
  ASSUME NEW k \in Keys, IsNumber(k), NEW q \in Int
  PROVE  GridValue(k, Numeric(k, Clamped(k, q * Find(k).step)))
<1> DEFINE lo == Find(k).lo
           hi == Find(k).hi
           n == q * Find(k).step
           c == Clamped(k, n)
<1>1. /\ lo \in Int /\ hi \in Int /\ lo <= hi /\ Find(k).step \in Int
      /\ OnGrid(k, lo) /\ OnGrid(k, hi)
  BY NumberFound
<1>2. n \in Int
  BY <1>1
<1>3. c = IF n < lo THEN lo ELSE IF n > hi THEN hi ELSE n
  BY DEF Clamped
<1> HIDE DEF c
<1>4. CASE n < lo
  BY <1>1, <1>3, <1>4 DEF GridValue, c
<1>5. CASE ~(n < lo) /\ n > hi
  BY <1>1, <1>3, <1>5 DEF GridValue, c
<1>6. CASE ~(n < lo) /\ ~(n > hi)
  <2>1. c = n /\ n \in lo .. hi
    BY <1>1, <1>2, <1>3, <1>6
  <2>2. OnGrid(k, n)
    BY <2>1 DEF OnGrid
  <2> QED BY <1>2, <2>1, <2>2 DEF GridValue, c
<1> QED BY <1>4, <1>5, <1>6

\* Wherever the finger is on a slider.
LEMMA SliderOnGrid ==
  ASSUME NEW k \in Keys, IsNumber(k), NEW f \in Fractions
  PROVE  GridValue(k, SliderValue(k, f))
<1> DEFINE def == Find(k)
           raw == def.lo + (f * (def.hi - def.lo)) \div 100
           q == (2 * raw + def.step) \div (2 * def.step)
<1>1. def.lo \in Int /\ def.hi \in Int /\ def.step \in Int /\ def.step > 0 /\ f \in Int
  BY NumberFound, WindowAssumption
<1>2. raw \in Int
  <2>1. f * (def.hi - def.lo) \in Int
    BY <1>1
  <2> QED BY <1>1, <2>1
<1>3. q \in Int
  <2>1. 2 * raw + def.step \in Int /\ 2 * def.step \in Int /\ 2 * def.step > 0
    BY <1>1, <1>2
  <2> HIDE DEF raw
  <2> QED BY <2>1, QuotientIsWhole
<1>4. SliderValue(k, f) = Numeric(k, Clamped(k, q * Find(k).step))
  BY DEF SliderValue
<1> HIDE DEF q
<1> QED BY <1>3, <1>4, ClampedOnGrid

\* What the remainder is.
LEMMA QuotientAndRemainder ==
  ASSUME NEW n \in Int, NEW d \in Int, d > 0, NEW q \in Int, q = n \div d
  PROVE  n % d = n - q * d /\ 0 <= n % d /\ n % d < d
OBVIOUS

LEMMA RemainderIsUnique ==
  ASSUME NEW n \in Int, NEW d \in Int, d > 0, NEW q \in Int, NEW r \in Int, n = q * d + r, 0 <= r, r < d
  PROVE  n % d = r
OBVIOUS

\* One divisor more or less leaves the same remainder.
LEMMA SameRemainder ==
  ASSUME NEW n \in Int, NEW d \in Int, d > 0, NEW s \in {1, -1}
  PROVE  (n + s * d) % d = n % d
<1> DEFINE q == n \div d
           r == n % d
           m == n + s * d
<1>1. q \in Int /\ s \in Int /\ m \in Int
  BY QuotientIsWhole
<1>2. r = n - q * d /\ 0 <= r /\ r < d /\ r \in Int
  <2>1. r = n - q * d /\ 0 <= r /\ r < d
    BY <1>1, QuotientAndRemainder
  <2> HIDE DEF q, r
  <2> QED BY <1>1, <2>1
<1>3. m = (q + s) * d + r
  <2>1. q * d + s * d = (q + s) * d
    BY <1>1, Distributes
  <2> HIDE DEF q, r
  <2> QED BY <1>1, <1>2, <2>1
<1> DEFINE p == q + s
<1>4. p \in Int /\ m = p * d + r
  BY <1>1, <1>3
<1> HIDE DEF m, p, q, r
<1>5. m % d = r
  BY <1>1, <1>2, <1>4, RemainderIsUnique
<1> QED BY <1>5 DEF m, r

\* An arrow key moves a number by one step, or to a bound; when the result is valid
\* it is within the bounds and on its steps, or as far off them as it was.
LEMMA StepKeeps ==
  ASSUME NEW k \in Keys, IsNumber(k), TypedValue(k, current[k]), NEW sign \in {1, -1}
  PROVE  LET v == Numeric(k, Stepped(k, sign))
         IN  /\ TypedValue(k, v)
             /\ NumberOf(v) = Stepped(k, sign)
             /\ \/ Stepped(k, sign) % Find(k).step = 0
                \/ Stepped(k, sign) % Find(k).step = NumberOf(current[k]) % Find(k).step
<1> DEFINE lo == Find(k).lo
           hi == Find(k).hi
           d == Find(k).step
           old == NumberOf(current[k])
           n == old + sign * d
           new == Stepped(k, sign)
<1>1. lo \in Int /\ hi \in Int /\ d \in Int /\ d > 0 /\ lo % d = 0 /\ hi % d = 0
  <2>1. lo \in Int /\ hi \in Int /\ d \in Int /\ d > 0 /\ OnGrid(k, lo) /\ OnGrid(k, hi)
    BY NumberFound
  <2>2. ASSUME NEW m, OnGrid(k, m) PROVE m % d = 0
    BY <2>1, <2>2, Multiples DEF OnGrid
  <2> QED BY <2>1, <2>2
<1>2. old \in Int
  BY DEF TypedValue, Numeric, NumberOf, Has
<1>3. new \in {n, lo, hi}
  BY DEF Stepped
<1>4. n \in Int /\ n % d = old % d
  <2> HIDE DEF old, d
  <2>1. n \in Int
    BY <1>1, <1>2
  <2> QED BY <1>1, <1>2, <2>1, SameRemainder
<1>5. new \in Int /\ (new % d = 0 \/ new % d = old % d)
  <2> HIDE DEF new, n, lo, hi, d, old
  <2> QED BY <1>1, <1>3, <1>4
<1>6. TypedValue(k, Numeric(k, new)) /\ NumberOf(Numeric(k, new)) = new
  <2> HIDE DEF new
  <2> QED BY <1>5 DEF TypedValue, Numeric, NumberOf, Has
<1> QED BY <1>5, <1>6

\* A value on its grid is within the bounds and leaves no remainder.
LEMMA GridNumber ==
  ASSUME NEW k \in Keys, IsNumber(k), NEW v, GridValue(k, v)
  PROVE  NumberOf(v) \in Find(k).lo .. Find(k).hi /\ NumberOf(v) % Find(k).step = 0
<1>1. PICK n \in Int : OnGrid(k, n) /\ v = Numeric(k, n)
  BY DEF GridValue
<1>2. PICK q \in Int : n = q * Find(k).step
  BY <1>1 DEF OnGrid
<1>3. NumberOf(v) = n
  BY <1>1 DEF Numeric, NumberOf, Has
<1> QED BY <1>1, <1>2, <1>3, NumberFound, Multiples DEF OnGrid

-----------------------------------------------------------------------------
(* The Settings window: its invariant.                                      *)

NavType == [category : ToSet(Categories), detail : BOOLEAN, query : DOMAIN Finds \cup {0}, index : Nat]

\* The values that the store returns: numbers are of their type.
ValuesInv ==
  /\ DOMAIN current = Keys
  /\ \A k \in Keys : IsNumber(k) => TypedValue(k, current[k])

\* A number that is on its grid is of its type.
LEMMA GridTyped == ASSUME NEW k, NEW v, GridValue(k, v) PROVE TypedValue(k, v)
BY DEF GridValue, TypedValue

WindowInv ==
  /\ mode \in Modes /\ portrait \in BOOLEAN
  /\ nav \in NavType
  /\ SelectionInRange
  /\ touch.drags \in {"nothing", "slider", "scroll"}
  /\ LayoutFollowsMode
  /\ ValuesInv

\* A list of settings has a length.
LEMMA VisibleCounted == ASSUME NEW n \in NavType PROVE Len(Visible(n)) \in Nat
<1>1. CASE Searching(n)
  <2>1. n.query \in DOMAIN Finds
    BY <1>1 DEF NavType, Searching
  <2>2. Finds[n.query] \in Seq(Keys)
    BY <2>1, WindowAssumption
  <2> QED BY <1>1, <2>2 DEF Visible
<1>2. CASE ~Searching(n)
  <2> DEFINE all == InCategory(n.category)
             ours == {i \in DOMAIN all : all[i].key \in Keys}
             Nth(p) == all[CHOOSE i \in ours : Cardinality({j \in ours : j <= i}) = p].key
             N == Cardinality(ours)
  <2>1. \E m \in Nat : DOMAIN all = 1 .. m
    <3>1. n.category \in ToSet(Categories)
      BY DEF NavType
    <3>2. n.category \in {"Appearance", "Display", "Windows", "Desktop", "Dock", "Launcher", "Input",
                          "Notifications", "SystemUI", "About"}
      BY <3>1 DEF ToSet, Categories
    <3>3. /\ DOMAIN Appearance = 1 .. 5 /\ DOMAIN Display = 1 .. 2 /\ DOMAIN Windows = 1 .. 4
          /\ DOMAIN Desktop = 1 .. 3 /\ DOMAIN Dock = 1 .. 4 /\ DOMAIN Launcher = 1 .. 3
          /\ DOMAIN Input = 1 .. 4 /\ DOMAIN Notifications = 1 .. 4 /\ DOMAIN SystemUI = 1 .. 6
          /\ DOMAIN About = 1 .. 2
      BY DEF Appearance, Display, Windows, Desktop, Dock, Launcher, Input, Notifications, SystemUI, About
    <3> QED BY <3>2, <3>3 DEF InCategory
  <2>2. IsFiniteSet(ours)
    <3>1. PICK m \in Nat : DOMAIN all = 1 .. m
      BY <2>1
    <3>2. IsFiniteSet(1 .. m)
      BY <3>1, FS_Interval
    <3>3. ours \subseteq 1 .. m
      BY <3>1
    <3> QED BY <3>2, <3>3, FS_Subset
  <2>3. N \in Nat
    BY <2>2, FS_CardinalityType
  <2>4. Visible(n) = [p \in 1 .. N |-> Nth(p)]
    BY <1>2 DEF Visible
  <2> HIDE DEF N, Nth
  <2> QED BY <2>3, <2>4
<1> QED BY <1>1, <1>2

\* A selection that a place leaves alone or puts back to the first row is in range,
\* since what is listed depends on the category and the query only.
LEMMA SameList ==
  ASSUME NEW n, NEW m, n.category = m.category, n.query = m.query
  PROVE  Visible(n) = Visible(m)
BY DEF Visible, Searching

\* A value that is stored is of the type of its number, if it is one and the value
\* validates.
LEMMA StoredKeeps ==
  ASSUME ValuesInv, NEW key, NEW v, Stored(key, v),
         key \in Keys /\ IsNumber(key) /\ Validates(Find(key), v) => TypedValue(key, v)
  PROVE  ValuesInv'
<1>1. CASE current' = current
  BY <1>1 DEF ValuesInv, IsNumber, TypedValue, Numeric
<1>2. CASE Validates(Find(key), v) /\ current' = [current EXCEPT ![key] = v]
  <2>1. DOMAIN current' = Keys /\ \A k \in Keys : current'[k] = IF k = key THEN v ELSE current[k]
    BY <1>2 DEF ValuesInv
  <2>2. \A k \in Keys : IsNumber(k) => TypedValue(k, current'[k])
    BY <1>2, <2>1 DEF ValuesInv
  <2> QED BY <2>1, <2>2 DEF ValuesInv
<1> QED BY <1>1, <1>2 DEF Stored

\* A switch or a word does not validate for a number.
LEMMA NotANumber ==
  ASSUME NEW k, IsNumber(k), NEW x
  PROVE  ~Validates(Find(k), [str |-> x])
BY DEF IsNumber, Validates, AsInt, AsDouble, Has

\* What is drawn after a handler has the mode and the direction of the window.
LEMMA RenderedFollows ==
  ASSUME LayoutFollowsMode, NEW n, Rendered(mode, n), mode' = mode, portrait' = portrait
  PROVE  LayoutFollowsMode'
<1>1. view' = view \/ (IsOpen /\ view' = Snapshot(n, mode = "Maximized", portrait))
  BY DEF Rendered, IsOpen
<1>2. CASE view' = view
  BY <1>2 DEF LayoutFollowsMode, IsOpen
<1>3. CASE view' = Snapshot(n, mode = "Maximized", portrait)
  BY <1>3 DEF LayoutFollowsMode, Snapshot, IsOpen
<1> QED BY <1>1, <1>2, <1>3

\* Opening, closing and the buttons of the title bar.
LEMMA ModeFollows ==
  ASSUME WindowInv, UNCHANGED <<nav, portrait, current>>, touch'.drags \in {"nothing", "slider", "scroll"},
         CloseWindow \/ Minimize \/ Maximize \/ Restore \/ (mode' = "Normal" /\ view' = Snapshot(nav, FALSE, portrait))
  PROVE  WindowInv'
<1>1. LayoutFollowsMode' /\ mode' \in Modes
  <2>1. CASE mode' \in {"Closed", "Minimized"} /\ view' = view
    BY <2>1 DEF WindowInv, LayoutFollowsMode, IsOpen, Modes
  <2>2. CASE mode' = "Maximized" /\ view' = Snapshot(nav, TRUE, portrait)
    BY <2>2 DEF LayoutFollowsMode, Snapshot, IsOpen, Modes
  <2>3. CASE mode' = "Normal" /\ view' = Snapshot(nav, FALSE, portrait)
    BY <2>3 DEF LayoutFollowsMode, Snapshot, IsOpen, Modes
  <2> QED BY <2>1, <2>2, <2>3 DEF CloseWindow, Minimize, Maximize, Restore
<1> QED BY <1>1 DEF WindowInv, NavType, SelectionInRange, ValuesInv, IsNumber, TypedValue, Numeric

\* Going to another place, or selecting a row.
LEMMA NavFollows ==
  ASSUME WindowInv, UNCHANGED <<mode, portrait, current>>, touch'.drags \in {"nothing", "slider", "scroll"},
         nav' \in NavType, nav'.index = 0 \/ nav'.index < Len(Visible(nav')), Rendered(mode, nav')
  PROVE  WindowInv'
<1>1. LayoutFollowsMode'
  BY RenderedFollows DEF WindowInv
<1> QED BY <1>1 DEF WindowInv, SelectionInRange, ValuesInv, IsNumber, TypedValue, Numeric

\* Changing a value.
LEMMA ValueFollows ==
  ASSUME WindowInv, ValuesInv', UNCHANGED <<mode, portrait, nav>>,
         touch'.drags \in {"nothing", "slider", "scroll"}, Rendered(mode, nav)
  PROVE  WindowInv'
<1>1. LayoutFollowsMode'
  BY RenderedFollows DEF WindowInv
<1> QED BY <1>1 DEF WindowInv, NavType, SelectionInRange

\* Nothing but the touch changes.
LEMMA TouchFollows ==
  ASSUME WindowInv, UNCHANGED <<mode, nav, view, portrait, current>>,
         touch'.drags \in {"nothing", "slider", "scroll"}
  PROVE  WindowInv'
BY DEF WindowInv, NavType, SelectionInRange, LayoutFollowsMode, IsOpen, ValuesInv, IsNumber, TypedValue, Numeric

\* Where a finger can be that is on a switch or on a category.
LEMMA TargetFacts ==
  ASSUME NEW v, NEW t \in Targets(v) \cup {Outside}
  PROVE  /\ t.kind = "Toggle" => Widget(t.on) = "Toggle"
         /\ t.kind = "Category" => t.on[1] \in Tabs
<1>1. t \in Targets(v) => \/ t.kind \in {"Close", "Maximize", "Minimize", "Titlebar", "Clear", "SearchBar", "Content", "Back"}
                          \/ t.kind = "Category" /\ \E c \in Tabs : t.on = <<c>>
                          \/ \E k : t \in RowTargets(k)
  BY DEF Targets, Target
<1>2. ASSUME NEW k, t \in RowTargets(k)
      PROVE  \/ t.kind = Widget(k) /\ t.on = k
             \/ t.kind \in {"Action", "Option"}
  BY <1>2 DEF RowTargets, Target, Option
<1>3. \A k : Widget(k) # "Category"
  BY DEF Widget
<1>4. t = Outside => t.kind = "None"
  BY DEF Outside, Target
<1>5. t.kind = "Toggle" => Widget(t.on) = "Toggle"
  BY <1>1, <1>2, <1>4
<1>6. t.kind = "Category" => t.on[1] \in Tabs
  BY <1>1, <1>2, <1>3, <1>4
<1> QED BY <1>5, <1>6

\* Going back selects the first row, where there is something to go back from.
LEMMA BackIs ==
  ASSUME nav \in NavType
  PROVE  /\ NavClear \in NavType /\ NavClear.index = 0
         /\ NavBack = nav \/ (NavBack \in NavType /\ NavBack.index = 0)
<1>1. NavClear \in NavType /\ NavClear.index = 0
  BY DEF NavType, NavClear
<1> DEFINE shut == [nav EXCEPT !.detail = FALSE, !.index = 0]
<1>2. shut \in NavType /\ shut.index = 0
  BY DEF NavType
<1>3. NavBack \in {NavClear, shut, nav}
  BY DEF NavBack
<1> HIDE DEF shut
<1> QED BY <1>1, <1>2, <1>3

\* The end of a touch that did not scroll.
LEMMA TapFollows ==
  ASSUME WindowInv, NEW t \in Targets(view) \cup {Outside}, Tap(t), UNCHANGED portrait, touch' = NoTouch
  PROVE  WindowInv'
<1>1. touch'.drags \in {"nothing", "slider", "scroll"}
  BY DEF NoTouch
<1>2. CASE UNCHANGED <<mode, nav, view, current>>
  BY <1>1, <1>2, TouchFollows
<1>3. CASE UNCHANGED <<nav, current>> /\ (CloseWindow \/ Minimize \/ Maximize \/ Restore)
  BY <1>1, <1>3, ModeFollows
<1>4. ASSUME t.kind \in {"Back", "Clear", "Category"}, Rendered(mode, nav'), UNCHANGED <<mode, current>>,
             CASE t.kind = "Back" -> nav' = NavBack
               [] t.kind = "Clear" -> nav' = NavClear
               [] t.kind = "Category" -> IF view.portrait THEN DrillDown(t.on[1]) ELSE SelectCategory(t.on[1])
      PROVE  WindowInv'
  <2>1. t.kind = "Category" => t.on[1] \in ToSet(Categories)
    BY TargetFacts, WindowAssumption
  <2>2. nav \in NavType
    BY DEF WindowInv
  <2>3. nav' = nav \/ (nav' \in NavType /\ nav'.index = 0)
    <3>0. NavClear \in NavType /\ NavClear.index = 0
      BY <2>2, BackIs
    <3>1. CASE t.kind = "Back"
      <4>1. nav' = NavBack
        BY <1>4, <3>1
      <4> QED BY <2>2, <3>0, <4>1, BackIs
    <3>2. CASE t.kind = "Clear"
      <4>1. nav' = NavClear
        BY <1>4, <3>2
      <4> QED BY <3>0, <4>1
    <3>3. CASE t.kind = "Category"
      <4>1. DrillDown(t.on[1]) \/ SelectCategory(t.on[1])
        BY <1>4, <3>3
      <4> DEFINE c == t.on[1]
      <4>2. c \in ToSet(Categories)
        BY <2>1, <3>3
      <4> HIDE DEF c
      <4>3. CASE DrillDown(c)
        BY <2>2, <4>2, <4>3 DEF NavType, DrillDown
      <4>4. CASE SelectCategory(c)
        BY <2>2, <4>2, <4>4 DEF NavType, SelectCategory
      <4> QED BY <4>1, <4>3, <4>4 DEF c
    <3> QED BY <1>4, <3>1, <3>2, <3>3
  <2>4. nav' \in NavType /\ (nav'.index = 0 \/ nav'.index < Len(Visible(nav')))
    BY <2>2, <2>3 DEF WindowInv, SelectionInRange
  <2> QED BY <1>1, <1>4, <2>4, NavFollows
<1>5. ASSUME UNCHANGED <<mode, nav>>, Rendered(mode, nav), ValuesInv' PROVE WindowInv'
  BY <1>1, <1>5, ValueFollows
<1>6. ASSUME t.kind = "Toggle", Stored(t.on, Flipped(t.on)) PROVE ValuesInv'
  <2>1. t.on \in Keys => ~IsNumber(t.on)
    BY <1>6, TargetFacts, NumberFound
  <2> QED BY <1>6, <2>1, StoredKeeps DEF WindowInv
<1>7. ASSUME t.kind = "Option", Stored(t.on, [str |-> Find(t.on).options[t.nth]]) PROVE ValuesInv'
  BY <1>7, NotANumber, StoredKeeps DEF WindowInv
<1>8. ASSUME current' = [k \in Keys |-> Find(k).default] PROVE ValuesInv'
  <2>1. \A k \in Keys : IsNumber(k) => TypedValue(k, current'[k])
    BY <1>8, NumberFound, GridTyped
  <2> QED BY <1>8, <2>1 DEF ValuesInv
<1>9. ASSUME t.kind \in {"Close", "Minimize", "Maximize"}, UNCHANGED <<nav, current>>,
             CASE t.kind = "Close" -> CloseWindow
               [] t.kind = "Minimize" -> Minimize
               [] t.kind = "Maximize" -> IF mode = "Maximized" THEN Restore ELSE Maximize
      PROVE  WindowInv'
  BY <1>3, <1>9
<1>10. ASSUME t.kind \in {"Toggle", "Option"} \/ (t.kind = "Action" /\ nav.category = "About"),
              CASE t.kind = "Toggle" -> Stored(t.on, Flipped(t.on))
                [] t.kind = "Option" -> Stored(t.on, [str |-> Find(t.on).options[t.nth]])
                [] t.kind = "Action" -> current' = [k \in Keys |-> Find(k).default]
       PROVE  ValuesInv'
  BY <1>6, <1>7, <1>8, <1>10
<1> QED BY <1>2, <1>4, <1>5, <1>9, <1>10 DEF Tap

\* Fingers.
LEMMA FingersFollow == ASSUME WindowInv, FingerStep PROVE WindowInv'
<1>1. touch.drags \in {"nothing", "slider", "scroll"} /\ ValuesInv
  BY DEF WindowInv
<1>2. ASSUME NEW k, NEW f \in Fractions, Stored(k, SliderValue(k, f)) PROVE ValuesInv'
  BY <1>1, <1>2, SliderOnGrid, GridTyped, StoredKeeps
<1>3. ASSUME NEW t, TouchDown(t) PROVE WindowInv'
  <2>1. CASE t = Outside
    <3>1. UNCHANGED windowVars
      BY <1>3, <2>1 DEF TouchDown
    <3> QED BY <1>1, <3>1, TouchFollows DEF windowVars
  <2>2. CASE t # Outside /\ t.kind = "Slider"
    <3>1. /\ touch' = [active |-> TRUE, drags |-> "slider", from |-> t]
          /\ \E f \in Fractions : Stored(t.on, SliderValue(t.on, f))
          /\ Rendered(mode, nav) /\ UNCHANGED <<mode, nav, portrait>>
      BY <1>3, <2>2 DEF TouchDown
    <3>2. ValuesInv'
      BY <1>2, <3>1
    <3>3. touch'.drags = "slider"
      BY <3>1
    <3> QED BY <3>1, <3>2, <3>3, ValueFollows
  <2>3. CASE t # Outside /\ t.kind # "Slider"
    <3>1. touch' = [active |-> TRUE, drags |-> "nothing", from |-> t]
      BY <1>3, <2>3 DEF TouchDown
    <3>2. touch'.drags = "nothing" /\ UNCHANGED <<mode, nav, view, portrait, current>>
      BY <1>3, <2>3, <3>1 DEF TouchDown
    <3> QED BY <3>2, TouchFollows
  <2> QED BY <2>1, <2>2, <2>3
<1>4. ASSUME DragSlider PROVE WindowInv'
  <2>1. ValuesInv' /\ UNCHANGED <<mode, nav, portrait, touch>> /\ Rendered(mode, nav)
    BY <1>2, <1>4 DEF DragSlider
  <2> QED BY <1>1, <2>1, ValueFollows
<1>5. ASSUME Scroll PROVE WindowInv'
  <2>1. /\ UNCHANGED <<mode, nav, portrait, current>> /\ Rendered(mode, nav)
        /\ touch' = [touch EXCEPT !.drags = IF touch.drags = "slider" THEN "slider" ELSE "scroll"]
    BY <1>5 DEF Scroll
  <2>2. ValuesInv'
    BY <1>1, <2>1 DEF ValuesInv, IsNumber, TypedValue, Numeric
  <2>3. WindowInv'
    <3>1. LayoutFollowsMode'
      BY <2>1, RenderedFollows DEF WindowInv
    <3>2. touch'.drags \in {"nothing", "slider", "scroll"}
      BY <1>1, <2>1
    <3> QED BY <2>1, <2>2, <3>1, <3>2 DEF WindowInv, NavType, SelectionInRange
  <2> QED BY <2>3
<1>6. ASSUME TouchUp PROVE WindowInv'
  <2>1. touch' = NoTouch /\ UNCHANGED portrait
    BY <1>6 DEF TouchUp
  <2>2. LiftTargets \subseteq Targets(view) \cup {Outside}
    BY DEF LiftTargets
  <2>3. CASE touch.drags = "nothing"
    BY <1>6, <2>1, <2>2, <2>3, TapFollows DEF TouchUp
  <2>4. CASE touch.drags # "nothing"
    <3>1. touch'.drags = "nothing"
      BY <2>1 DEF NoTouch
    <3> QED BY <1>6, <2>1, <2>4, <3>1, TouchFollows DEF TouchUp
  <2> QED BY <2>3, <2>4
<1>7. ASSUME TouchCancel PROVE WindowInv'
  <2>1. touch'.drags = "nothing" /\ UNCHANGED <<mode, nav, view, portrait, current>>
    BY <1>7 DEF TouchCancel, NoTouch
  <2> QED BY <2>1, TouchFollows
<1> QED BY <1>3, <1>4, <1>5, <1>6, <1>7 DEF FingerStep, TouchMotion

\* The arrows up and down go round the list.
LEMMA ArrowFollows == ASSUME WindowInv, NEW back \in BOOLEAN, Arrow(back), UNCHANGED <<portrait, touch>> PROVE WindowInv'
<1> DEFINE len == Len(Visible(nav))
           at == (nav.index + IF back THEN len - 1 ELSE 1) % len
<1>1. nav \in NavType /\ touch'.drags \in {"nothing", "slider", "scroll"}
  BY DEF WindowInv
<1>2. len \in Nat /\ len > 0
  BY <1>1, VisibleCounted DEF Arrow
<1>3. /\ nav' = [nav EXCEPT !.index = at]
      /\ Rendered(mode, nav') /\ UNCHANGED <<mode, current>>
  BY DEF Arrow
<1>4. at \in Nat /\ at < len
  <2>1. nav.index \in Nat
    BY <1>1 DEF NavType
  <2> HIDE DEF len
  <2>2. nav.index + (IF back THEN len - 1 ELSE 1) \in Nat
    BY <1>2, <2>1
  <2> QED BY <1>2, <2>2
<1> HIDE DEF at
<1>5. nav' \in NavType /\ nav'.index = at /\ nav'.category = nav.category /\ nav'.query = nav.query
  BY <1>1, <1>3, <1>4 DEF NavType
<1>6. Visible(nav') = Visible(nav)
  BY <1>5, SameList
<1>7. nav'.index < Len(Visible(nav'))
  BY <1>4, <1>5, <1>6
<1> QED BY <1>1, <1>3, <1>5, <1>7, NavFollows

\* A query that grows, shrinks or is cleared selects the first row.
LEMMA TypeFollows == ASSUME WindowInv, NEW n, Type(n), UNCHANGED <<portrait, touch>> PROVE WindowInv'
<1>1. nav \in NavType /\ touch'.drags \in {"nothing", "slider", "scroll"}
  BY DEF WindowInv
<1>2. /\ n \in DOMAIN Finds \cup {0}
      /\ nav' = [nav EXCEPT !.query = n, !.index = 0]
      /\ Rendered(mode, nav') /\ UNCHANGED <<mode, current>>
  BY DEF Type
<1>3. nav' \in NavType /\ nav'.index = 0
  BY <1>1, <1>2 DEF NavType
<1> QED BY <1>1, <1>2, <1>3, NavFollows

\* The keys of the window.
LEMMA KeysFollow == ASSUME WindowInv, Key PROVE WindowInv'
<1>1. nav \in NavType /\ touch'.drags \in {"nothing", "slider", "scroll"} /\ UNCHANGED <<portrait, touch>> /\ ValuesInv
  BY DEF WindowInv, Key
<1>2. ASSUME Escape PROVE WindowInv'
  <2>1. CASE nav' \in {NavClear, NavBack} /\ Rendered(mode, nav') /\ UNCHANGED <<mode, current>>
    <3>1. nav' \in NavType /\ (nav'.index = 0 \/ nav' = nav)
      BY <1>1, <2>1, BackIs
    <3>2. nav'.index = 0 \/ nav'.index < Len(Visible(nav'))
      BY <3>1 DEF WindowInv, SelectionInRange
    <3> QED BY <1>1, <2>1, <3>1, <3>2, NavFollows
  <2>2. CASE CloseWindow /\ UNCHANGED <<nav, current>>
    BY <1>1, <2>2, ModeFollows
  <2> QED BY <1>2, <2>1, <2>2 DEF Escape
<1>3. ASSUME Activate PROVE WindowInv'
  <2>1. PICK k \in OfType({"Bool", "Enum"}) :
          Stored(k, IF Find(k).type = "Bool" THEN Flipped(k) ELSE NextOption(k))
    BY <1>3 DEF Activate
  <2>2. ~IsNumber(k)
    BY DEF OfType, IsNumber
  <2>3. ValuesInv'
    BY <1>1, <2>1, <2>2, StoredKeeps
  <2>4. Rendered(mode, nav) /\ UNCHANGED <<mode, nav>>
    BY <1>3 DEF Activate
  <2> QED BY <1>1, <2>3, <2>4, ValueFollows
<1>4. ASSUME Space PROVE WindowInv'
  <2>1. Activate \/ Type(nav.query + 1)
    BY <1>4 DEF Space
  <2> QED BY <1>1, <1>3, <2>1, TypeFollows
<1>5. ASSUME NEW sign \in {1, -1}, Step(sign) PROVE WindowInv'
  <2>1. PICK k \in OfType({"Int", "Double"}) : Stored(k, Numeric(k, Stepped(k, sign)))
    BY <1>5 DEF Step
  <2>2. ASSUME k \in Keys, IsNumber(k) PROVE TypedValue(k, Numeric(k, Stepped(k, sign)))
    BY <1>1, <2>2, StepKeeps DEF ValuesInv
  <2>3. ValuesInv'
    BY <1>1, <2>1, <2>2, StoredKeeps
  <2>4. Rendered(mode, nav) /\ UNCHANGED <<mode, nav>>
    BY <1>5 DEF Step
  <2> QED BY <1>1, <2>3, <2>4, ValueFollows
<1>6. ASSUME NEW back \in BOOLEAN, Arrow(back) PROVE WindowInv'
  BY <1>1, <1>6, ArrowFollows
<1>7. ASSUME NEW n, Type(n) PROVE WindowInv'
  BY <1>1, <1>7, TypeFollows
<1>8. Backspace => Type(nav.query - 1)
  BY DEF Backspace
<1> QED BY <1>2, <1>3, <1>4, <1>5, <1>6, <1>7, <1>8 DEF Key

\* Before the window has been opened.
LEMMA WindowStarts == ASSUME WindowInit PROVE WindowInv
<1>1. mode = "Closed" /\ nav = Home /\ touch = NoTouch /\ portrait \in BOOLEAN /\ view = Snapshot(Home, FALSE, portrait)
  BY DEF WindowInit
<1>2. Home \in NavType /\ Home.index = 0
  <2>1. "Appearance" \in ToSet(Categories)
    <3>1. Categories[1] = "Appearance" /\ 1 \in DOMAIN Categories
      BY DEF Categories
    <3> QED BY <3>1 DEF ToSet
  <2> QED BY <2>1 DEF Home, NavType
<1>3. LayoutFollowsMode
  BY <1>1 DEF LayoutFollowsMode, IsOpen, Snapshot
<1>4. ValuesInv
  <2>1. PICK edited \in SUBSET FromFile :
          current = [k \in Keys |-> IF \E p \in edited : p[1] = k
                                   THEN (CHOOSE p \in edited : p[1] = k)[2] ELSE Find(k).default]
    BY DEF WindowInit
  <2>2. ASSUME NEW k \in Keys, IsNumber(k) PROVE TypedValue(k, current[k])
    <3>1. CASE \E p \in edited : p[1] = k
      <4> DEFINE p == CHOOSE q \in edited : q[1] = k
      <4>1. p \in edited /\ p[1] = k
        BY <3>1
      <4>2. current[k] = p[2]
        BY <2>1, <3>1
      <4> HIDE DEF p
      <4>3. /\ (Find(k).type = "Int" => p[2] \in [int : Int])
            /\ (Find(k).type = "Double" => p[2] \in [dbl : Int])
        BY <4>1, WindowAssumption
      <4>4. CASE Find(k).type = "Int"
        <5>1. PICK n \in Int : p[2] = [int |-> n]
          BY <4>3, <4>4
        <5> QED BY <4>2, <4>4, <5>1 DEF TypedValue, Numeric
      <4>5. CASE Find(k).type = "Double"
        <5>1. PICK n \in Int : p[2] = [dbl |-> n]
          BY <4>3, <4>5
        <5> QED BY <4>2, <4>5, <5>1 DEF TypedValue, Numeric
      <4> QED BY <2>2, <4>4, <4>5 DEF IsNumber
    <3>2. CASE ~ \E p \in edited : p[1] = k
      <4>1. current[k] = Find(k).default
        BY <2>1, <3>2
      <4> QED BY <2>2, <4>1, NumberFound, GridTyped
    <3> QED BY <3>1, <3>2
  <2> QED BY <2>1, <2>2 DEF ValuesInv
<1>5. mode \in Modes /\ touch.drags = "nothing"
  BY <1>1 DEF Modes, NoTouch
<1> QED BY <1>1, <1>2, <1>3, <1>4, <1>5 DEF WindowInv, SelectionInRange

\* Every step of the Settings window, the manager's and the display's included.
LEMMA WindowStep == ASSUME WindowInv, [WindowNext]_windowVars PROVE WindowInv'
<1>1. touch.drags \in {"nothing", "slider", "scroll"}
  BY DEF WindowInv
<1>2. CASE Open
  <2>1. mode' = "Normal" /\ view' = Snapshot(nav, FALSE, portrait) /\ UNCHANGED <<nav, portrait, touch, current>>
    BY <1>2 DEF Open
  <2> QED BY <1>1, <2>1, ModeFollows
<1>3. CASE DisplayChanges
  <2>1. /\ portrait' \in BOOLEAN /\ UNCHANGED <<mode, nav, touch, current>>
        /\ view' = Snapshot(nav, mode = "Maximized", portrait')
    BY <1>3 DEF DisplayChanges
  <2>2. LayoutFollowsMode'
    BY <2>1 DEF LayoutFollowsMode, Snapshot, IsOpen
  <2> QED BY <2>1, <2>2 DEF WindowInv, NavType, SelectionInRange, ValuesInv, IsNumber, TypedValue, Numeric
<1>4. CASE UNCHANGED windowVars
  BY <1>1, <1>4, TouchFollows DEF windowVars
<1> QED BY <1>2, <1>3, <1>4, FingersFollow, KeysFollow DEF WindowNext

\* The invariant of the Settings window: the invariants its run checks, with the
\* place it is at, what a finger drags, and the types of its numbers.
THEOREM WindowInvariance == WindowSpec => []WindowInv
<1>1. WindowInit => WindowInv
  BY WindowStarts
<1>2. WindowInv /\ [WindowNext]_windowVars => WindowInv'
  BY WindowStep
<1> QED BY <1>1, <1>2, PTL DEF WindowSpec

\* The state of the Settings window has its type, for every set of settings and
\* whatever the searches find.
THEOREM WindowTypeCorrect == WindowSpec => []WindowTypeOK
<1>1. WindowInv => WindowTypeOK
  BY DEF WindowInv, WindowTypeOK, NavType, ValuesInv
<1> QED BY <1>1, WindowInvariance, PTL

\* The row that the keys act on is one of those that are listed, whatever was typed,
\* cleared, opened or left since it was selected.
THEOREM SelectionStays == WindowSpec => []SelectionInRange
<1>1. WindowInv => SelectionInRange
  BY DEF WindowInv
<1> QED BY <1>1, WindowInvariance, PTL

\* What a step may do to a number.
KeepsSteps(k) ==
  /\ NumberOf(current'[k]) \in Find(k).lo .. Find(k).hi
  /\ \/ NumberOf(current'[k]) % Find(k).step = 0
     \/ /\ Key
        /\ NumberOf(current'[k]) % Find(k).step = NumberOf(current[k]) % Find(k).step

\* A number that changes is the one whose value was stored, and the value was valid.
LEMMA StoredOnly ==
  ASSUME ValuesInv, NEW key, NEW v, Stored(key, v), NEW k \in Keys, current'[k] # current[k]
  PROVE  k = key /\ current'[k] = v /\ Validates(Find(k), v)
BY DEF Stored, ValuesInv

\* What validates for a number of its type is within its bounds.
LEMMA ValidInBounds ==
  ASSUME NEW k \in Keys, IsNumber(k), NEW v, TypedValue(k, v), Validates(Find(k), v)
  PROVE  NumberOf(v) \in Find(k).lo .. Find(k).hi
<1>1. CASE Find(k).type = "Int"
  <2>1. PICK n \in Int : v = [int |-> n]
    BY <1>1 DEF TypedValue, Numeric
  <2>2. \E m \in AsInt(v) : m \in Find(k).lo .. Find(k).hi
    BY <1>1 DEF Validates
  <2>3. AsInt(v) = {n} /\ NumberOf(v) = n
    BY <2>1 DEF AsInt, NumberOf, Has
  <2> QED BY <2>2, <2>3
<1>2. CASE Find(k).type = "Double"
  <2>1. PICK n \in Int : v = [dbl |-> n]
    BY <1>2 DEF TypedValue, Numeric
  <2>2. \E m \in AsDouble(v) : m \in Find(k).lo .. Find(k).hi
    BY <1>2 DEF Validates
  <2>3. AsDouble(v) = {n} /\ NumberOf(v) = n
    BY <2>1 DEF AsDouble, NumberOf, Has
  <2> QED BY <2>2, <2>3
<1> QED BY <1>1, <1>2 DEF IsNumber

\* A number that a step of the window changes.
LEMMA StepsKept ==
  ASSUME WindowInv, WindowNext, NEW k \in Keys, IsNumber(k), current'[k] # current[k]
  PROVE  KeepsSteps(k)
<1>1. ValuesInv
  BY DEF WindowInv
<1>2. ASSUME GridValue(k, current'[k]) PROVE KeepsSteps(k)
  BY <1>2, GridNumber DEF KeepsSteps
<1>3. ASSUME NEW key, NEW f \in Fractions, Stored(key, SliderValue(key, f)) PROVE KeepsSteps(k)
  <2>1. k = key /\ current'[k] = SliderValue(key, f)
    BY <1>1, <1>3, StoredOnly
  <2> QED BY <1>2, <2>1, SliderOnGrid
<1>4. ASSUME NEW key, ~IsNumber(key), NEW v, Stored(key, v) PROVE FALSE
  BY <1>1, <1>4, StoredOnly
<1>5. CASE FingerStep
  <2>1. ASSUME NEW t, TouchDown(t) PROVE KeepsSteps(k)
    BY <1>3, <2>1 DEF TouchDown, windowVars
  <2>2. CASE DragSlider
    BY <1>3, <2>2 DEF DragSlider
  <2>3. CASE Scroll \/ TouchCancel
    BY <2>3 DEF Scroll, TouchCancel
  <2>4. CASE TouchUp
    <3>1. PICK t \in Targets(view) \cup {Outside} : Tap(t)
      BY <2>4 DEF TouchUp, LiftTargets
    <3>2. \/ t.kind = "Toggle" /\ Stored(t.on, Flipped(t.on))
          \/ t.kind = "Option" /\ Stored(t.on, [str |-> Find(t.on).options[t.nth]])
          \/ t.kind = "Action" /\ current' = [x \in Keys |-> Find(x).default]
      BY <3>1 DEF Tap
    <3>3. CASE t.kind = "Toggle" /\ Stored(t.on, Flipped(t.on))
      <4>1. t.on = k
        BY <1>1, <3>3, StoredOnly
      <4> QED BY <3>3, <4>1, TargetFacts, NumberFound
    <3>4. CASE t.kind = "Option" /\ Stored(t.on, [str |-> Find(t.on).options[t.nth]])
      <4>1. t.on = k /\ Validates(Find(k), [str |-> Find(t.on).options[t.nth]])
        BY <1>1, <3>4, StoredOnly
      <4> QED BY <4>1, NotANumber
    <3>5. CASE current' = [x \in Keys |-> Find(x).default]
      BY <1>2, <3>5, NumberFound
    <3> QED BY <3>2, <3>3, <3>4, <3>5
  <2> QED BY <1>5, <2>1, <2>2, <2>3, <2>4 DEF FingerStep, TouchMotion
<1>6. CASE Key
  <2>1. CASE UNCHANGED current
    BY <2>1
  <2>2. CASE Activate
    BY <1>4, <2>2 DEF Activate, OfType, IsNumber
  <2>3. ASSUME NEW sign \in {1, -1}, Step(sign) PROVE KeepsSteps(k)
    <3> DEFINE v == Numeric(k, Stepped(k, sign))
    <3>1. PICK key \in OfType({"Int", "Double"}) : Stored(key, Numeric(key, Stepped(key, sign)))
      BY <2>3 DEF Step
    <3>2. key = k /\ current'[k] = v /\ Validates(Find(k), v)
      <4> DEFINE w == Numeric(key, Stepped(key, sign))
      <4>1. Stored(key, w)
        BY <3>1
      <4> HIDE DEF w
      <4>2. k = key /\ current'[k] = w /\ Validates(Find(k), w)
        BY <1>1, <4>1, StoredOnly
      <4> QED BY <4>2 DEF w
    <3>3. TypedValue(k, current[k])
      BY <1>1 DEF ValuesInv
    <3>4. /\ TypedValue(k, v) /\ NumberOf(v) = Stepped(k, sign)
          /\ \/ Stepped(k, sign) % Find(k).step = 0
             \/ Stepped(k, sign) % Find(k).step = NumberOf(current[k]) % Find(k).step
      BY <3>3, StepKeeps
    <3> HIDE DEF v
    <3>5. NumberOf(v) \in Find(k).lo .. Find(k).hi
      BY <3>2, <3>4, ValidInBounds
    <3> QED BY <1>6, <3>2, <3>4, <3>5 DEF KeepsSteps
  <2>4. UNCHANGED current \/ Activate \/ Step(1) \/ Step(-1)
    BY <1>6 DEF Key, Escape, Backspace, Space, Type, Arrow
  <2> QED BY <2>1, <2>2, <2>3, <2>4
<1>7. CASE Open \/ DisplayChanges
  BY <1>7 DEF Open, DisplayChanges
<1> QED BY <1>5, <1>6, <1>7 DEF WindowNext

\* Whatever numbers a file edited by hand gave the window, no control leaves one out
\* of its bounds, a finger puts it on a whole number of steps, and a key takes none
\* off them.
THEOREM NumbersStayOnSteps == WindowSpec => NumbersKeepSteps
<1> DEFINE Kept == \A k \in Keys :
             current'[k] # current[k] /\ Find(k).type \in {"Int", "Double"} => KeepsSteps(k)
<1>1. WindowInv /\ [WindowNext]_windowVars => [Kept]_windowVars
  BY StepsKept DEF IsNumber
<1>2. WindowSpec => [][Kept]_windowVars
  BY <1>1, WindowInvariance, PTL DEF WindowSpec
<1> QED BY <1>2 DEF NumbersKeepSteps, KeepsSteps

\* The hit tests of an open window use the geometry of its mode and of the display.
THEOREM LayoutStays == WindowSpec => []LayoutFollowsMode
<1>1. WindowInv => LayoutFollowsMode
  BY DEF WindowInv
<1> QED BY <1>1, WindowInvariance, PTL

=============================================================================

------------------------------ MODULE Catalog --------------------------------
(***************************************************************************)
(* Application discovery: the desktop files on disk, the catalog that is    *)
(* read from them, and the inotify watch that has it read again.            *)
(*                                                                          *)
(* The main thread reads one file at a time, and other programs install,    *)
(* edit and remove files between any two of its reads.  The kernel records  *)
(* an event for a change only in a directory that is watched: not in its    *)
(* subdirectories, not in a directory that appeared after the start, and    *)
(* not for a change of permissions.  A file that cannot be read, is half     *)
(* written or is not that of an application is a content like any other.    *)
(* A directory that cannot be opened is passed over; a subdirectory that was *)
(* listed and is gone when its turn comes makes the iterator throw, which    *)
(* nothing catches before main() does, where the process ends.               *)
(***************************************************************************)
EXTENDS DesktopEntry

CONSTANTS
  Places,     \* the paths at which there may be a desktop file
  DirOf,      \* the search directory of each, as its priority: 0 comes first
  IdOf,       \* the application id that the path below that directory makes
  Nested,     \* the places that are in a subdirectory, each in one of its own
  Contents,   \* the names of what a desktop file may be
  FileOf,     \* for each, whether read_file succeeds, and the lines
  Absent,     \* the content of a place without a file
  Installed,  \* what there may be when the program starts
  Builtin,    \* the id under which the Settings window registers itself
  Settings,   \* and the content that it registers
  MaxChanges  \* bound: changes on disk, and directories that cannot be opened

ASSUME CatalogAssumption ==
  /\ IsFiniteSet(Places) /\ DirOf \in [Places -> Nat]
  /\ Nested \subseteq Places
  /\ Absent \in Contents /\ Settings \in Contents \ {Absent}
  /\ Installed \subseteq Contents \ {Settings}
  /\ \A c \in Contents \ {Absent} : FileOf[c].readable \in BOOLEAN
  /\ MaxChanges \in Nat

VARIABLES
  disk,     \* the content at each place
  exists,   \* the search directories that exist
  subs,     \* the nested places whose subdirectory exists
  watched,  \* those with a watch
  events,   \* the inotify descriptor is readable with an event that counts
  phase,    \* where the main thread is
  todo,     \* the places that the scan has not come to
  listed,   \* the nested ones of which it has seen the subdirectory's name
  found,    \* discovered: the application for each id so far
  catalog,  \* applications_: the application for each id, or Absent
  unseen,   \* ghost: ids with a change since the last scan began that raised no event,
            \* or with a place in a directory that this scan could not open
  changes

cvars == <<disk, exists, subs, watched, events, phase, todo, listed, found, catalog, unseen, changes>>

Dirs == {DirOf[p] : p \in Places}
Ids == {IdOf[p] : p \in Places} \cup {Builtin}
Empty == [id \in Ids |-> Absent]

\* The contents that a file on disk may have.
OnDisk == Contents \ {Settings}

\* The contents that make an application, and what the catalog keeps of them.
Entry(c) == Parse(FileOf[c].lines)
Applications == {c \in Contents \ {Absent} : FileOf[c].readable /\ Valid(Entry(c))}
Meta == [c \in Applications |-> Metadata(Entry(c))]

IsApplication(c) == c \in Applications

\* The main thread is in the event loop, between two callbacks.
Idle == phase = "Idle"
Scanning == phase \in {"Scan", "Rescan"}

-----------------------------------------------------------------------------
(* The other programs.                                                       *)

\* What the kernel makes of a change at the places P.  What happens after the
\* process has ended is left out.
Noticed(P, seen) ==
  /\ phase # "Ended"
  /\ changes < MaxChanges
  /\ changes' = changes + 1
  /\ events' = (events \/ seen)
  /\ unseen' = IF seen THEN unseen ELSE unseen \cup {IdOf[p] : p \in P}

\* A file is created, written, moved or removed; its directory is made if need be.
Write(p, c) ==
  /\ c \in OnDisk \ {disk[p]}
  /\ disk' = [disk EXCEPT ![p] = c]
  /\ exists' = exists \cup {DirOf[p]}
  /\ subs' = IF c = Absent THEN subs ELSE subs \cup ({p} \cap Nested)
  /\ Noticed({p}, DirOf[p] \in watched /\ p \notin Nested)
  /\ UNCHANGED <<watched, phase, todo, listed, found, catalog>>

\* The permissions of a file change, which is not among the events asked for.
Chmod(p, c) ==
  /\ disk[p] # Absent /\ c \in OnDisk \ {Absent}
  /\ FileOf[c].lines = FileOf[disk[p]].lines /\ FileOf[c].readable # FileOf[disk[p]].readable
  /\ disk' = [disk EXCEPT ![p] = c]
  /\ Noticed({p}, FALSE)
  /\ UNCHANGED <<exists, subs, watched, phase, todo, listed, found, catalog>>

\* A subdirectory is removed with what is in it, or when that is gone.
RemoveSub(p) ==
  /\ p \in subs
  /\ disk' = [disk EXCEPT ![p] = Absent]
  /\ subs' = subs \ {p}
  /\ Noticed({p}, FALSE)
  /\ UNCHANGED <<exists, watched, phase, todo, listed, found, catalog>>

\* A directory is removed with what is in it.  Its watch goes with it, which
\* is an event without a name.
RemoveDir(d) ==
  /\ d \in exists
  /\ disk' = [p \in Places |-> IF DirOf[p] = d THEN Absent ELSE disk[p]]
  /\ exists' = exists \ {d}
  /\ subs' = {p \in subs : DirOf[p] # d}
  /\ watched' = watched \ {d}
  /\ Noticed({p \in Places : DirOf[p] = d}, d \in watched)
  /\ UNCHANGED <<phase, todo, listed, found, catalog>>

Disk == \/ \E p \in Places, c \in OnDisk : Write(p, c) \/ Chmod(p, c)
        \/ \E p \in Nested : RemoveSub(p)
        \/ \E d \in Dirs : RemoveDir(d)

-----------------------------------------------------------------------------
(* ApplicationDiscovery::scan_and_refresh                                    *)

BeginScan ==
  /\ todo' = Places /\ listed' = {}
  /\ found' = Empty
  /\ unseen' = {}

\* The first file of an id that makes an application is the one; one that does
\* not make an application leaves the id to the next.
Found(p) ==
  IF found[IdOf[p]] = Absent /\ IsApplication(disk[p])
  THEN [found EXCEPT ![IdOf[p]] = disk[p]] ELSE found

\* Directories come by their priority, the files of one in any order.
Turn(p) == Scanning /\ p \in todo /\ \A q \in todo : DirOf[p] <= DirOf[q]

\* The iterator comes to the name of a subdirectory, which it is to open next.
List(p) ==
  /\ Turn(p) /\ p \in subs \ listed
  /\ listed' = listed \cup {p}
  /\ UNCHANGED <<disk, exists, subs, watched, events, phase, todo, found, catalog, unseen, changes>>

Read(p) ==
  /\ Turn(p)
  /\ p \in subs <=> p \in listed
  /\ todo' = todo \ {p} /\ listed' = listed \ {p}
  /\ found' = Found(p)
  /\ UNCHANGED <<disk, exists, subs, watched, events, phase, catalog, unseen, changes>>

\* The iterator is to open a subdirectory that is gone: its ++ throws, and main()
\* returns 1.
Throw(p) ==
  /\ Turn(p) /\ p \in listed \ subs
  /\ phase' = "Ended"
  /\ UNCHANGED <<disk, exists, subs, watched, events, todo, listed, found, catalog, unseen, changes>>

\* A search directory cannot be opened, for want of a descriptor, say.
PassOver(d) ==
  LET P == {p \in Places : DirOf[p] = d}
  IN  /\ d \in exists
      /\ P \subseteq todo \ listed /\ \A p \in P : Turn(p)
      /\ todo' = todo \ P
      /\ unseen' = unseen \cup {IdOf[p] : p \in P}
      /\ changes < MaxChanges /\ changes' = changes + 1
      /\ UNCHANGED <<disk, exists, subs, watched, events, phase, listed, found, catalog>>

\* Seeded fault: what events have come meanwhile are read with the others.
UpdateDrained ==
  /\ Scanning /\ todo = {}
  /\ catalog' = found
  /\ found' = Empty
  /\ phase' = IF phase = "Scan" THEN "Scanned" ELSE "Idle"
  /\ events' = FALSE
  /\ UNCHANGED <<disk, exists, subs, watched, todo, listed, unseen, changes>>

\* ApplicationCatalog::update_applications replaces what there was.
Update ==
  /\ Scanning /\ todo = {}
  /\ catalog' = found
  /\ found' = Empty
  /\ phase' = IF phase = "Scan" THEN "Scanned" ELSE "Idle"
  /\ UNCHANGED <<disk, exists, subs, watched, events, todo, listed, unseen, changes>>

-----------------------------------------------------------------------------
(* ApplicationChangeMonitor                                                  *)

\* The directories that exist are watched, except where the kernel refuses;
\* if inotify cannot be had, or is off, none is.
StartMonitor ==
  /\ phase = "Scanned"
  /\ \E W \in SUBSET exists : watched' = W
  /\ phase' = "Watching"
  /\ UNCHANGED <<disk, exists, subs, events, todo, listed, found, catalog, unseen, changes>>

\* SettingsManager::register_desktop_entry gives the catalog a list of one,
\* so that all other applications leave it.
Register ==
  /\ phase = "Watching"
  /\ catalog' = [Empty EXCEPT ![Builtin] = Settings]
  /\ unseen' = Ids
  /\ phase' = "Idle"
  /\ UNCHANGED <<disk, exists, subs, watched, events, todo, listed, found, changes>>

\* All events are read, and then the scan begins.
HandleInotify ==
  /\ Idle /\ events
  /\ events' = FALSE
  /\ BeginScan
  /\ phase' = "Rescan"
  /\ UNCHANGED <<disk, exists, subs, watched, catalog, changes>>

Scan == \/ \E p \in Places : List(p) \/ Read(p) \/ Throw(p)
        \/ \E d \in Dirs : PassOver(d)
        \/ Update

Main == Scan \/ StartMonitor \/ Register \/ HandleInotify

\* Directories may be there or not, with what the system was installed with.
CInit ==
  /\ exists \in SUBSET Dirs
  /\ disk \in [Places -> Installed]
  /\ \A p \in Places : disk[p] # Absent => DirOf[p] \in exists
  /\ subs \in SUBSET {p \in Nested : DirOf[p] \in exists}
  /\ \A p \in Nested : disk[p] # Absent => p \in subs
  /\ watched = {} /\ events = FALSE
  /\ phase = "Scan" /\ todo = Places /\ listed = {} /\ found = Empty
  /\ catalog = Empty /\ unseen = {} /\ changes = 0

CNext == Main \/ Disk

CSpec == CInit /\ [][CNext]_cvars /\ WF_cvars(Main)

-----------------------------------------------------------------------------
(* Properties.                                                               *)

\* What a scan of the disk as it is would give for id.  Two files of one id
\* in one directory (a-b.desktop, and b.desktop in a/) come in any order.
Best(id) ==
  LET V == {p \in Places : IdOf[p] = id /\ IsApplication(disk[p])}
  IN  IF V = {} THEN {Absent}
      ELSE {disk[p] : p \in {q \in V : \A r \in V : DirOf[q] <= DirOf[r]}}

CatalogTypeOK ==
  /\ disk \in [Places -> OnDisk]
  /\ exists \in SUBSET Dirs /\ watched \in SUBSET exists
  /\ subs \in SUBSET Nested /\ listed \in SUBSET Nested
  /\ events \in BOOLEAN
  /\ phase \in {"Scan", "Scanned", "Watching", "Idle", "Rescan", "Ended"}
  /\ todo \in SUBSET Places
  /\ found \in [Ids -> OnDisk] /\ catalog \in [Ids -> Contents]
  /\ unseen \in SUBSET Ids
  /\ changes \in 0 .. MaxChanges

\* When the program waits for input and no event is pending, the catalog has
\* for every id the application of the first directory that has one, except
\* for changes that no event told of and for directories that could not be
\* opened - whatever changed while the last scan was reading
\* (ApplicationChangeMonitor::handle_inotify_event, which reads the events
\* before it scans).  A scan may also end the process: see SurvivesScan.
CatalogFresh == Idle /\ ~events => \A id \in Ids \ unseen : catalog[id] \in Best(id)

\* The catalog has the installed applications when the shell is up, if none
\* was installed or removed meanwhile (docs/application-discovery.md,
\* "authoritative in-memory registry of installed applications").
StartsComplete == Idle /\ changes = 0 => \A id \in Ids \ {Builtin} : catalog[id] \in Best(id)

\* docs/application-discovery.md:60, "High resilience against corrupt files,
\* permission errors, and disappearing files during scanning".  Refuted
\* (LauncherScan.cfg): a directory that disappears while it is scanned ends the
\* process.
SurvivesScan == phase # "Ended"
=============================================================================

---------------------------- MODULE FrontendFiles ----------------------------
(***************************************************************************)
(* The files a front end keeps for its user: the list of recent projects   *)
(* in the preferences file, and the window arrangement that the Dear ImGui *)
(* front end stages while it is edited and saves with a project.  Writing  *)
(* may fail, the process may die, and projects come and go on the disk.    *)
(***************************************************************************)
EXTENDS Naturals, Sequences, SequencesExt

CONSTANTS
    Known,          \* projects, by their normalized path
    Created,        \* of these, the ones that exist from the start
    Fading,         \* bound: projects whose disk comes and goes
    Arranged,       \* bound: projects in which the user moves windows
    FoundPreferences,   \* bound: preferences files at the start
    MaxRecent,      \* maximum_recent_projects (8 in the code)
    Stock,          \* the arrangement shipped with the program
    Nowhere         \* no project, no file, nothing staged or pending

\* Projects and arrangements are told apart from what stands for their absence, and a
\* preferences file that is found lists paths, empty ones too, or cannot be parsed.
FrontendAssumption ==
    /\ Created \cup Fading \cup Arranged \subseteq Known
    /\ MaxRecent \in Nat \ {0}
    /\ Nowhere \notin Known /\ Stock \notin {Nowhere, <<"unreadable">>}
    /\ {Nowhere, Stock, <<"unreadable">>} \cap {<<project>> : project \in Known} = {}
    /\ FoundPreferences \subseteq {Nowhere, <<"damaged">>} \cup {"list"} \X Seq({<<>>} \cup Known \X Nat)
    /\ Nowhere \notin {"list"} \X Seq(Known \X Nat)
ASSUME FrontendAssumption

VARIABLES
    recent,         \* the list of the running process: [file, available]
    preferences,    \* the preferences file: Nowhere, <<"damaged">> or <<"list", paths>>
    reachable,      \* projects whose project.json can be read now
    opened,         \* the active project
    arrangement,    \* GuiLayoutStore, what ImGui holds and what it will load
    layoutFiles,    \* the layout file of every project
    lineage,        \* history: projects whose arrangement a project may carry
    persisted       \* history: the list was loaded, or written without an error

frontendVars == <<recent, preferences, reachable, opened, arrangement, layoutFiles, lineage, persisted>>

-----------------------------------------------------------------------------
(* Recent projects. *)

\* A path as written is <<project, spelling>>, or <<>> when it is empty; the code writes
\* the normalized spelling, 1.
Normal(path) == path[1]

Shortened(list) == SubSeq(list, 1, IF Len(list) > MaxRecent THEN MaxRecent ELSE Len(list))

\* Faulty variant: a project that is listed already stays where it is.
KeptListed(list, project) == list

\* The entries of the other projects, in their order.
Removed(list, project) ==
    LET kept[n \in 0 .. Len(list)] ==
            IF n = 0 THEN <<>>
            ELSE IF list[n].file = project THEN kept[n - 1] ELSE Append(kept[n - 1], list[n])
    IN  kept[Len(list)]

Recorded(list, project, readable) ==
    Shortened(<<[file |-> project, available |-> project \in readable]>> \o Removed(list, project))

Refreshed(list) == [i \in DOMAIN list |-> [list[i] EXCEPT !.available = list[i].file \in reachable]]

\* load_recent_projects: the first MaxRecent paths, added from the oldest to the latest.
LoadedRecents(file, readable) ==
    IF file = Nowhere \/ file[1] = "damaged" THEN <<>>
    ELSE LET paths == Shortened(file[2])
             added[n \in 0 .. Len(paths)] ==
                 IF n = 0 THEN <<>>
                 ELSE Recorded(added[n - 1], Normal(paths[Len(paths) + 1 - n]), readable)
         IN  IF <<>> \in ToSet(paths) THEN <<>> ELSE added[Len(paths)]

\* save_recent_projects writes a temporary file and renames it.
SavedRecents(list) == <<"list", [i \in DOMAIN list |-> <<list[i].file, 1>>]>>

PersistRecents(list) ==
    /\ recent' = list
    /\ \/ preferences' = SavedRecents(list) /\ persisted' = TRUE
       \/ preferences' = preferences /\ persisted' = FALSE

-----------------------------------------------------------------------------
(* Window arrangements: Stock, or <<project>> when edited while that project was open. *)

Dirty(a) == a.current # a.saved

\* record_current: staged when it differs from the saved one, else nothing stays staged.
\* When the temporary file cannot be written, an exception leaves the old one.
Staged(a) == IF Dirty(a) THEN {[a EXCEPT !.staged = a.current], a} ELSE {[a EXCEPT !.staged = Nowhere]}

LayoutSettings(file) == IF file \in {Nowhere, <<"unreadable">>} THEN Stock ELSE file

\* activate: the pending arrangement reaches ImGui with the next frame.
Activated(a, file) ==
    [a EXCEPT !.saved = LayoutSettings(file), !.current = LayoutSettings(file), !.staged = Nowhere, !.pending = LayoutSettings(file)]

\* capture_current_imgui_layout.
Captured(a) == IF a.pending # Nowhere THEN {a} ELSE Staged([a EXCEPT !.current = a.live])

\* write_current_to_project: the shipped arrangement is kept as no file at all.
LayoutFile(a) == IF a.current = Stock THEN Nowhere ELSE a.current

-----------------------------------------------------------------------------
(* Steps. *)

\* open_project, create_project and save_project_as end the same way.
Enters(project) ==
    /\ opened' = project
    /\ PersistRecents(Recorded(recent, project, reachable'))

OpenKnown(project) ==
    /\ project \in reachable
    /\ UNCHANGED <<reachable, layoutFiles, lineage>>
    /\ Enters(project)
    /\ arrangement' = Activated(arrangement, layoutFiles[project])

\* The Home screen offers the entries it last found available; a project that is gone since
\* cannot be opened.
OpenRecent(i) ==
    /\ opened = Nowhere /\ recent[i].available
    /\ \/ OpenKnown(recent[i].file)
       \/ recent[i].file \notin reachable /\ UNCHANGED frontendVars

RemoveRecent(i) ==
    /\ opened = Nowhere
    /\ PersistRecents(Removed(recent, recent[i].file))
    /\ UNCHANGED <<reachable, opened, arrangement, layoutFiles, lineage>>

ShowHome ==
    /\ opened = Nowhere /\ recent' = Refreshed(recent)
    /\ UNCHANGED <<preferences, reachable, opened, arrangement, layoutFiles, lineage, persisted>>

\* Save As: the arrangement is written into the new project before it is activated.
SaveKnownAs(project) ==
    /\ opened # Nowhere /\ lineage[project] = {}
    /\ lineage' = [lineage EXCEPT ![project] = lineage[opened] \cup {project}]
    /\ reachable' = reachable \cup {project}
    /\ Enters(project)
    /\ \E a \in Captured(arrangement) :
           /\ layoutFiles' = [layoutFiles EXCEPT ![project] = LayoutFile(a)]
           /\ arrangement' = Activated(a, LayoutFile(a))

\* save_active_imgui_layout after the project itself was saved; the write may fail.
SaveKnown ==
    /\ opened # Nowhere
    /\ \E a \in Captured(arrangement) :
           \/ /\ opened \in reachable
              /\ layoutFiles' = [layoutFiles EXCEPT ![opened] = LayoutFile(a)]
              /\ arrangement' = [a EXCEPT !.saved = a.current, !.staged = Nowhere]
           \/ arrangement' = a /\ UNCHANGED layoutFiles
    /\ UNCHANGED <<recent, preferences, reachable, opened, lineage, persisted>>

CloseKnown ==
    /\ opened # Nowhere /\ opened' = Nowhere
    /\ arrangement' = Activated(arrangement, Nowhere)
    /\ UNCHANGED <<recent, preferences, reachable, layoutFiles, lineage, persisted>>

\* draw_frame starts with apply_pending_imgui_layout.
DrawFrame ==
    /\ arrangement.pending # Nowhere
    /\ arrangement' = [arrangement EXCEPT !.live = arrangement.pending, !.pending = Nowhere]
    /\ UNCHANGED <<recent, preferences, reachable, opened, layoutFiles, lineage, persisted>>

\* The user moves windows; ImGui asks for its settings to be saved some time later.
EditArrangement ==
    /\ opened \in Arranged /\ arrangement.pending = Nowhere
    /\ arrangement' = [arrangement EXCEPT !.live = <<opened>>]
    /\ UNCHANGED <<recent, preferences, reachable, opened, layoutFiles, lineage, persisted>>

UpdatePersistence ==
    /\ arrangement' \in Captured(arrangement)
    /\ UNCHANGED <<recent, preferences, reachable, opened, layoutFiles, lineage, persisted>>

RestoreDefault ==
    /\ \E a \in Staged([arrangement EXCEPT !.current = Stock]) :
           arrangement' = [a EXCEPT !.pending = Stock]
    /\ UNCHANGED <<recent, preferences, reachable, opened, layoutFiles, lineage, persisted>>

FreshArrangement == [saved |-> Stock, current |-> Stock, staged |-> Nowhere, pending |-> Stock, live |-> Stock]

\* The process ends, orderly or not, and starts again: load_recent_history.
Relaunch ==
    /\ recent' = LoadedRecents(preferences, reachable)
    /\ opened' = Nowhere
    /\ arrangement' = FreshArrangement
    /\ persisted' = TRUE
    /\ UNCHANGED <<preferences, reachable, layoutFiles, lineage>>

\* External: a project directory is unmounted or comes back.
DiskChanges ==
    /\ \E project \in {known \in Fading : lineage[known] # {}} :
           reachable' = IF project \in reachable THEN reachable \ {project} ELSE reachable \cup {project}
    /\ UNCHANGED <<recent, preferences, opened, arrangement, layoutFiles, lineage, persisted>>

FrontendInit ==
    /\ reachable = Created
    /\ preferences \in FoundPreferences
    /\ recent = LoadedRecents(preferences, reachable)
    /\ opened = Nowhere
    /\ arrangement = FreshArrangement
    /\ \E file \in {Nowhere, <<"unreadable">>} :
           layoutFiles = [project \in Known |-> IF project \in Created THEN file ELSE Nowhere]
    /\ lineage = [project \in Known |-> IF project \in Created THEN {project} ELSE {}]
    /\ persisted = TRUE

FrontendNext ==
    \/ \E project \in Known : OpenKnown(project) \/ SaveKnownAs(project)
    \/ \E i \in DOMAIN recent : OpenRecent(i) \/ RemoveRecent(i)
    \/ ShowHome \/ SaveKnown \/ CloseKnown \/ DrawFrame \/ EditArrangement
    \/ UpdatePersistence \/ RestoreDefault \/ Relaunch \/ DiskChanges

-----------------------------------------------------------------------------
RecentFiles(list) == [i \in DOMAIN list |-> list[i].file]

\* The list never names a project twice, starts with the project that is open, and is the one
\* the next start loads unless writing it failed.  An arrangement a user made is saved only with
\* the project it was made in, or a copy of that project; the store's idea of the saved one is what
\* opening the project again would give, and nothing stays staged without a change
\* (RecentProjects, GuiLayoutStore, GuiApplication).
FrontendFilesSound ==
    /\ IsInjective(RecentFiles(recent)) /\ Len(recent) <= MaxRecent
    /\ opened # Nowhere => recent # <<>> /\ recent[1].file = opened
    /\ persisted => RecentFiles(LoadedRecents(preferences, reachable)) = RecentFiles(recent)
    /\ \A project \in Known :
           /\ layoutFiles[project] # Stock
           /\ \A origin \in Known : layoutFiles[project] = <<origin>> => origin \in lineage[project]
    /\ opened # Nowhere => arrangement.saved = LayoutSettings(layoutFiles[opened])
    /\ ~ Dirty(arrangement) => arrangement.staged = Nowhere
=============================================================================

---------------------------- MODULE ProjectStore ----------------------------
(***************************************************************************)
(* A project is a directory of several files.  Create and Save As build a  *)
(* new directory and write project.json last; Save replaces four files one *)
(* after the other; each file is staged beside its place and renamed.  A   *)
(* write may fail and the process may die between any two steps.           *)
(***************************************************************************)
EXTENDS Naturals, Sequences, SequencesExt

CONSTANTS
    Roots,          \* project directories below one parent
    Systems, Plans, \* serialized systems and run plans
    Compatible,     \* the pairs <<system, plan>> that build_run_plan accepts
    Workspaces,     \* normalized workspaces
    Defaults,       \* the default workspace, a member of Workspaces
    Kinds,          \* scenario kinds
    Missing,        \* no such file or project
    Damaged,        \* text that its loader refuses
    MaxAttempts     \* bound: saves that may be attempted on one directory

ASSUME StoreAssumption == /\ Compatible \subseteq Systems \X Plans
                          /\ Defaults \in Workspaces /\ Damaged \notin Workspaces
                          /\ Missing \notin Kinds
                          /\ {"directory", "settings"} \cap {Missing, Damaged} = {}
                          /\ MaxAttempts \in Nat \ {0}

VARIABLES
    disk,       \* the directories there are, and what each holds by file
    project,    \* the active project, or Missing
    operation,  \* the file operation in progress
    attempts    \* history: per directory, the snapshot last completed and those attempted since

storeVars == <<disk, project, operation, attempts>>

Files == {"results", "system", "plan", "workspace", "scenario", "metadata"}
Absent == [f \in Files |-> Missing]
Idle == [kind |-> "idle"]

Snapshot(p) == [system |-> p.system, plan |-> p.plan, workspace |-> p.workspace]
Contents == [system : Systems, plan : Plans, workspace : Workspaces, kind : Kinds]
ValidContents == {c \in Contents : <<c.system, c.plan>> \in Compatible}

ProjectAt(root, c) == [root |-> root, system |-> c.system, plan |-> c.plan, kind |-> c.kind, workspace |-> c.workspace]

Exists(root) == root \in DOMAIN disk
Complete(root) == Exists(root) /\ disk[root].metadata # Missing

\* The text of each file, from the project or the contents that are written.
Text(c, file) ==
    CASE file = "results" -> "directory"
      [] file = "system" -> c.system
      [] file = "plan" -> c.plan
      [] file = "workspace" -> c.workspace
      [] file = "scenario" -> "settings"
      [] file = "metadata" -> c.kind

-----------------------------------------------------------------------------
(* Loading: the whole directory is read in one call. *)

\* load_project: metadata, the results directory and the scenario file are required, the
\* plan is validated against the system, a workspace that cannot be read is replaced.
Loadable(root) ==
    /\ Exists(root)
    /\ disk[root].metadata \in Kinds /\ disk[root].results # Missing
    /\ disk[root].metadata = "bosch" => disk[root].scenario \notin {Missing, Damaged}
    /\ <<disk[root].system, disk[root].plan>> \in Compatible

Loaded(root) ==
    LET files == disk[root]
    IN  [root |-> root, system |-> files.system, plan |-> files.plan, kind |-> files.metadata,
         workspace |-> IF files.workspace \in Workspaces THEN files.workspace ELSE Defaults]

Load(root) ==
    /\ operation = Idle /\ Loadable(root)
    /\ project' = Loaded(root)
    /\ UNCHANGED <<disk, operation, attempts>>

-----------------------------------------------------------------------------
(* The writing operations. *)

\* Faulty variant of CreateWrites: the project file is written before the parts it names.
MetadataFirst(k) ==
    IF k = "bosch" THEN <<"metadata", "results", "system", "plan", "workspace", "scenario">>
    ELSE <<"metadata", "results", "system", "plan", "workspace">>

CreateWrites(k) ==
    IF k = "bosch" THEN <<"results", "system", "plan", "workspace", "scenario", "metadata">>
    ELSE <<"results", "system", "plan", "workspace", "metadata">>

SaveWrites == <<"system", "plan", "workspace", "metadata">>

Begin(kind, root, writes, contents) ==
    operation' = [kind |-> kind, root |-> root, writes |-> writes, done |-> 0, staged |-> FALSE,
                  contents |-> contents]

WithDirectory(root, files) == [r \in DOMAIN disk \cup {root} |-> IF r = root THEN files ELSE disk[r]]
WithoutDirectory(root) == [r \in DOMAIN disk \ {root} |-> disk[r]]

\* create_project: everything is serialized first; an existing directory is refused.
Create(root, c) ==
    /\ operation = Idle /\ c \in ValidContents /\ ~ Exists(root)
    /\ disk' = WithDirectory(root, Absent)
    /\ Begin("create", root, CreateWrites(c.kind), ProjectAt(root, c))
    /\ attempts' = [attempts EXCEPT ![root] = <<Snapshot(c)>>]
    /\ UNCHANGED project

\* save_project_as: every entry but project.json is copied, then the specifications are
\* rewritten from the session.
SaveFilesAs(target) ==
    /\ operation = Idle /\ project # Missing /\ ~ Exists(target) /\ Exists(project.root)
    /\ disk' = WithDirectory(target, [disk[project.root] EXCEPT !.metadata = Missing])
    /\ Begin("save_as", target, SaveWrites, project)
    /\ attempts' = [attempts EXCEPT ![target] = <<Snapshot(project)>>]
    /\ UNCHANGED project

\* save_project, of the active project or of the replacement that Apply and save built
\* (resolve_unapplied_system_changes), which becomes active once it is on disk.
SaveFiles(replacement) ==
    /\ operation = Idle /\ project # Missing /\ Exists(project.root)
    /\ Len(attempts[project.root]) <= MaxAttempts
    /\ Begin("save", project.root, SaveWrites, replacement)
    /\ attempts' = [attempts EXCEPT ![project.root] = Append(@, Snapshot(replacement))]
    /\ UNCHANGED <<disk, project>>

Replacements == {project} \cup {[project EXCEPT !.system = c.system, !.plan = c.plan] : c \in ValidContents}

Writing == operation.kind # "idle"
AllWritten == operation.done = Len(operation.writes)
NextWrite == operation.writes[operation.done + 1]

\* write_text_atomically: first the temporary file beside the target, which no loader reads
\* and which is whole unless the write fails visibly (the stream is tested before its last
\* flush), ...
Stage ==
    /\ Writing /\ ~ AllWritten /\ ~ operation.staged
    /\ operation' = [operation EXCEPT !.staged = TRUE]
    /\ UNCHANGED <<disk, project, attempts>>

\* ... then the rename over it.
Rename ==
    /\ Writing /\ operation.staged
    /\ disk' = [disk EXCEPT ![operation.root][NextWrite] = Text(operation.contents, NextWrite)]
    /\ operation' = [operation EXCEPT !.staged = FALSE, !.done = @ + 1]
    /\ UNCHANGED <<project, attempts>>

\* Everything is written: a created context becomes active, a copy is loaded first.
Finish ==
    /\ Writing /\ AllWritten
    /\ operation.kind = "save_as" => Loadable(operation.root)
    /\ project' = IF operation.kind = "save_as" THEN Loaded(operation.root) ELSE operation.contents
    /\ attempts' = [attempts EXCEPT ![operation.root] = <<Last(@)>>]
    /\ operation' = Idle
    /\ UNCHANGED disk

\* Any step may throw.  A new directory is removed again (the removal itself may fail); a
\* failed save leaves the files as they are.
Fail ==
    /\ Writing
    /\ operation.kind # "save_as" => ~ AllWritten
    /\ disk' \in IF operation.kind = "save" THEN {disk}
                 ELSE {WithoutDirectory(operation.root), disk}
    /\ operation' = Idle
    /\ UNCHANGED <<project, attempts>>

\* The process dies; what was renamed stays.
Crash ==
    /\ project # Missing \/ Writing
    /\ project' = Missing /\ operation' = Idle
    /\ UNCHANGED <<disk, attempts>>

-----------------------------------------------------------------------------
(* In memory, and other programs. *)

\* apply_system_project_draft: system and plan are replaced together.
ApplyDraft(c) ==
    /\ operation = Idle /\ project # Missing /\ c \in ValidContents
    /\ project' = [project EXCEPT !.system = c.system, !.plan = c.plan]
    /\ UNCHANGED <<disk, operation, attempts>>

\* ProjectContext::set_workspace.
SetWorkspace(w) ==
    /\ operation = Idle /\ project # Missing
    /\ project' = [project EXCEPT !.workspace = w]
    /\ UNCHANGED <<disk, operation, attempts>>

Close ==
    /\ operation = Idle /\ project # Missing
    /\ project' = Missing
    /\ UNCHANGED <<disk, operation, attempts>>

\* Another program rewrites the workspace file.
DamageWorkspace(root) ==
    /\ operation = Idle /\ Complete(root)
    /\ disk' = [disk EXCEPT ![root].workspace = Damaged]
    /\ UNCHANGED <<project, operation, attempts>>

StoreInit ==
    /\ disk = [r \in {} |-> Absent] /\ project = Missing /\ operation = Idle
    /\ attempts = [r \in Roots |-> <<>>]

StoreNext ==
    \/ \E r \in Roots : Load(r) \/ SaveFilesAs(r) \/ DamageWorkspace(r)
    \/ \E r \in Roots, c \in ValidContents : Create(r, c)
    \/ project # Missing /\ \E replacement \in Replacements : SaveFiles(replacement)
    \/ Stage \/ Rename \/ Finish \/ Fail \/ Crash
    \/ \E c \in ValidContents : ApplyDraft(c)
    \/ \E w \in Workspaces : SetWorkspace(w)
    \/ Close

-----------------------------------------------------------------------------
\* A directory with a project file has every part, whatever failed or died before (the
\* order of create_project and save_project_as).
ProjectFileIsLast ==
    \A r \in Roots : Complete(r) =>
        /\ disk[r].metadata \in Kinds /\ disk[r].results # Missing
        /\ disk[r].metadata = "bosch" => disk[r].scenario \notin {Missing, Damaged}

\* Its parts come from the snapshot last completed or from the saves attempted since, never
\* a newer plan with an older system or a newer workspace with an older plan (save_project).
PartsFollowSaves ==
    \A r \in Roots : Complete(r) =>
        LET past == attempts[r]
        IN  \E i, j, k \in DOMAIN past :
                /\ i >= j /\ j >= k
                /\ disk[r].system = past[i].system /\ disk[r].plan = past[j].plan
                /\ disk[r].workspace \in {past[k].workspace, Damaged}

\* A completed operation left exactly its snapshot, so the project opens with it; a damaged
\* workspace costs the workspace only (load_project).
CompletedProjectsLoad ==
    \A r \in Roots :
        LET past == attempts[r]
        IN  Complete(r) /\ Len(past) = 1 /\ ~ (Writing /\ operation.root = r) =>
                /\ Loadable(r)
                /\ Loaded(r).system = past[1].system /\ Loaded(r).plan = past[1].plan
                /\ Loaded(r).workspace \in {past[1].workspace, Defaults}

\* The active project is on the disk and its plan fits its system, even when another
\* directory is being written or taken away (ProjectContext).
ActiveProjectSound ==
    project # Missing => /\ <<project.system, project.plan>> \in Compatible
                         /\ Complete(project.root)

\* Whatever fails or dies between two file operations, a directory with a project file is one
\* whole snapshot or the mixture of two saves in the order of their files (create_project,
\* save_project, save_project_as, write_text_atomically).
FilesSound == ProjectFileIsLast /\ PartsFollowSaves /\ CompletedProjectsLoad /\ ActiveProjectSound
=============================================================================

------------------------ MODULE ProjectFilesProofs ------------------------
(***************************************************************************)
(* Project directories stay sound for any directories, systems, plans and  *)
(* workspaces, an exported run is whole for any result names, outcomes and *)
(* temporary directories, and the front end's own files agree with what it *)
(* shows for any projects: whatever sequence of operations, failures and   *)
(* crashes, and however often an export or a start is tried again.         *)
(***************************************************************************)
EXTENDS ProjectStore, RunResults, FrontendFiles, SequenceTheorems, WellFoundedInduction, TLAPS

-----------------------------------------------------------------------------
(* Project directories. *)

StoreSpec == StoreInit /\ [][StoreNext]_storeVars

Snapshots == [system : Systems, plan : Plans, workspace : Workspaces]
Projects == [root : Roots, system : Systems, plan : Plans, kind : Kinds, workspace : Workspaces]
Fits(c) == <<c.system, c.plan>> \in Compatible

Directories == DOMAIN disk \subseteq Roots /\ \A r \in DOMAIN disk : DOMAIN disk[r] = Files

Attempts ==
    /\ DOMAIN attempts = Roots
    /\ \A r \in Roots :
           /\ attempts[r] \in Seq(Snapshots)
           /\ \A i \in 1 .. Len(attempts[r]) : Fits(attempts[r][i])

\* The active project is on the disk, as the kind it was loaded as.
Active ==
    project # Missing =>
        /\ project \in Projects /\ Fits(project)
        /\ Complete(project.root) /\ disk[project.root].metadata = project.kind

\* The operation in progress: what it writes, and how far it is.
OperationShape ==
    \/ operation = Idle
    \/ /\ DOMAIN operation = {"kind", "root", "writes", "done", "staged", "contents"}
       /\ operation.kind \in {"create", "save", "save_as"}
       /\ operation.root \in DOMAIN disk
       /\ operation.contents \in Projects /\ Fits(operation.contents)
       /\ operation.writes = IF operation.kind = "create" THEN CreateWrites(operation.contents.kind) ELSE SaveWrites
       /\ operation.done \in 0 .. Len(operation.writes)
       /\ operation.staged \in BOOLEAN /\ (operation.staged => ~ AllWritten)
       /\ Last(attempts[operation.root]) = Snapshot(operation.contents)

\* The files that have been renamed into place.
FilesInPlace ==
    Writing => \A i \in 1 .. operation.done :
                   disk[operation.root][operation.writes[i]] = Text(operation.contents, operation.writes[i])

\* Everything that is written is in place.
AllIn(files, c, w) == \A i \in 1 .. Len(w) : files[w[i]] = Text(c, w[i])

SaveInProgress ==
    operation.kind = "save" =>
        /\ project # Missing /\ project.root = operation.root
        /\ operation.contents.root = project.root /\ operation.contents.kind = project.kind
        /\ Len(attempts[operation.root]) > 1

\* A directory in the making is nobody's project, and has no project file but at the very end.
NewDirectory ==
    operation.kind \in {"create", "save_as"} =>
        /\ Len(attempts[operation.root]) = 1
        /\ project # Missing => project.root # operation.root
        /\ ~ AllWritten => disk[operation.root].metadata = Missing
        /\ operation.kind = "create" => operation.contents.root = operation.root
        /\ operation.kind = "save_as" =>
               /\ disk[operation.root].results # Missing
               /\ operation.contents.kind = "bosch" => disk[operation.root].scenario \notin {Missing, Damaged}

StoreInv ==
    /\ Directories /\ Attempts /\ Active /\ OperationShape /\ FilesInPlace /\ SaveInProgress /\ NewDirectory
    /\ ProjectFileIsLast /\ PartsFollowSaves

-----------------------------------------------------------------------------
(* The files that the operations write, in order. *)

LEMMA SaveOrder ==
    /\ Len(SaveWrites) = 4
    /\ SaveWrites[1] = "system" /\ SaveWrites[2] = "plan"
    /\ SaveWrites[3] = "workspace" /\ SaveWrites[4] = "metadata"
  BY DEF SaveWrites

LEMMA CreateOrder ==
    ASSUME NEW k
    PROVE  LET w == CreateWrites(k)
           IN  /\ Len(w) = IF k = "bosch" THEN 6 ELSE 5
               /\ w[1] = "results" /\ w[2] = "system" /\ w[3] = "plan" /\ w[4] = "workspace"
               /\ w[Len(w)] = "metadata" /\ (k = "bosch" => w[5] = "scenario")
  BY DEF CreateWrites

\* Every file is written once, the project file last.
LEMMA EachFileOnce ==
    ASSUME NEW k, NEW w, w = SaveWrites \/ w = CreateWrites(k)
    PROVE  /\ Len(w) \in {4, 5, 6}
           /\ \A i \in 1 .. Len(w) : w[i] \in Files
           /\ \A i, j \in 1 .. Len(w) : w[i] = w[j] => i = j
           /\ \A i \in 1 .. Len(w) : w[i] = "metadata" <=> i = Len(w)
  <1>1. CASE w = SaveWrites
    BY <1>1, SaveOrder DEF Files
  <1>2. CASE w = CreateWrites(k) /\ k = "bosch"
    BY <1>2, CreateOrder DEF Files
  <1>3. CASE w = CreateWrites(k) /\ k # "bosch"
    BY <1>3, CreateOrder DEF Files
  <1> QED
    BY <1>1, <1>2, <1>3

\* The last of a sequence, and the sequence of the last alone.
LEMMA LastOf ==
    ASSUME NEW s \in Seq(Snapshots), s # <<>>, \A i \in 1 .. Len(s) : Fits(s[i])
    PROVE  /\ Last(s) = s[Len(s)] /\ Last(s) \in Snapshots /\ Fits(Last(s))
           /\ <<Last(s)>> \in Seq(Snapshots) /\ Len(<<Last(s)>>) = 1 /\ <<Last(s)>>[1] = Last(s)
  BY EmptySeq DEF Last

\* A directory that has only known one snapshot opens with it.
LEMMA CompletedLoad == StoreInv => CompletedProjectsLoad
  <1> SUFFICES ASSUME StoreInv, NEW r \in Roots, Complete(r), Len(attempts[r]) = 1
               PROVE  /\ Loadable(r)
                      /\ Loaded(r).system = attempts[r][1].system /\ Loaded(r).plan = attempts[r][1].plan
                      /\ Loaded(r).workspace \in {attempts[r][1].workspace, Defaults}
    BY DEF CompletedProjectsLoad
  <1>1. attempts[r] \in Seq(Snapshots) /\ DOMAIN attempts[r] = {1} /\ Fits(attempts[r][1])
    <2>1. attempts[r] \in Seq(Snapshots) /\ \A i \in 1 .. Len(attempts[r]) : Fits(attempts[r][i])
      BY DEF StoreInv, Attempts
    <2> QED
      BY <2>1, LenProperties
  <1>2. attempts[r][1] \in Snapshots
    BY <1>1
  <1>3. /\ disk[r].system = attempts[r][1].system /\ disk[r].plan = attempts[r][1].plan
        /\ disk[r].workspace \in {attempts[r][1].workspace, Damaged}
    BY <1>1 DEF StoreInv, PartsFollowSaves
  <1>4. Loadable(r)
    BY <1>1, <1>3 DEF StoreInv, ProjectFileIsLast, Loadable, Complete, Fits
  <1> QED
    BY <1>2, <1>3, <1>4, StoreAssumption DEF Loaded, Snapshots

-----------------------------------------------------------------------------
(* One lemma per operation, for the invariant. *)

LEMMA InitStore == StoreInit => StoreInv
  BY EmptySeq DEF StoreInit, StoreInv, Directories, Attempts, Active, OperationShape, FilesInPlace, SaveInProgress,
                  NewDirectory, ProjectFileIsLast, PartsFollowSaves, Complete, Exists, Writing, Idle

\* Between operations, only the directories, the active project and the history count.
LEMMA IdleParts ==
    ASSUME operation = Idle
    PROVE  OperationShape /\ FilesInPlace /\ SaveInProgress /\ NewDirectory
  BY DEF OperationShape, FilesInPlace, SaveInProgress, NewDirectory, Writing, Idle

\* What is loaded is a project whose plan fits its system.
LEMMA LoadedIsProject ==
    ASSUME NEW r \in Roots, Loadable(r)
    PROVE  /\ Loaded(r) \in Projects /\ Fits(Loaded(r)) /\ Loaded(r).root = r
           /\ Complete(r) /\ disk[r].metadata = Loaded(r).kind
  BY StoreAssumption DEF Loadable, Loaded, Projects, Fits, Complete

\* Steps that change neither the directories, the operation nor the history.
LEMMA OnlyProject ==
    ASSUME StoreInv, operation = Idle, UNCHANGED <<disk, operation, attempts>>, Active'
    PROVE  StoreInv'
  BY IdleParts DEF StoreInv, Directories, Attempts, OperationShape, FilesInPlace, SaveInProgress, NewDirectory,
                   ProjectFileIsLast, PartsFollowSaves, Complete, Exists, Writing, Idle

LEMMA LoadKeeps == ASSUME StoreInv, NEW r \in Roots, Load(r) PROVE StoreInv'
  <1>1. Active'
    BY LoadedIsProject DEF Load, Active, Complete, Exists
  <1> QED
    BY <1>1, OnlyProject DEF Load

LEMMA MemoryKeeps ==
    ASSUME StoreInv,
           \/ \E c \in ValidContents : ApplyDraft(c)
           \/ \E w \in Workspaces : SetWorkspace(w)
           \/ Close
    PROVE  StoreInv'
  <1>1. CASE \E c \in ValidContents : ApplyDraft(c)
    <2>1. Active'
      BY <1>1 DEF ApplyDraft, StoreInv, Active, ValidContents, Contents, Projects, Fits, Complete, Exists
    <2> QED
      BY <1>1, <2>1, OnlyProject DEF ApplyDraft
  <1>2. CASE \E w \in Workspaces : SetWorkspace(w)
    <2>1. Active'
      BY <1>2 DEF SetWorkspace, StoreInv, Active, Projects, Fits, Complete, Exists
    <2> QED
      BY <1>2, <2>1, OnlyProject DEF SetWorkspace
  <1>3. CASE Close
    <2>1. Active'
      BY <1>3 DEF Close, Active
    <2> QED
      BY <1>3, <2>1, OnlyProject DEF Close
  <1> QED
    BY <1>1, <1>2, <1>3

LEMMA DamageKeeps == ASSUME StoreInv, NEW root \in Roots, DamageWorkspace(root) PROVE StoreInv'
  <1>1. /\ operation = Idle /\ operation' = Idle /\ project' = project /\ attempts' = attempts
        /\ root \in DOMAIN disk /\ DOMAIN disk[root] = Files
        /\ disk' = [disk EXCEPT ![root].workspace = Damaged]
    BY DEF DamageWorkspace, Complete, Exists, StoreInv, Directories
  <1>2. /\ DOMAIN disk' = DOMAIN disk
        /\ \A r \in DOMAIN disk : DOMAIN disk'[r] = DOMAIN disk[r]
        /\ \A r \in DOMAIN disk : \A f \in Files \ {"workspace"} : disk'[r][f] = disk[r][f]
        /\ \A r \in DOMAIN disk : disk'[r].workspace \in {disk[r].workspace, Damaged}
    BY <1>1 DEF Files, StoreInv, Directories
  <1>3. {"results", "system", "plan", "scenario", "metadata"} = Files \ {"workspace"}
    BY DEF Files
  <1>4. Directories' /\ Attempts'
    BY <1>1, <1>2 DEF StoreInv, Directories, Attempts
  <1>5. Active' /\ ProjectFileIsLast'
    BY <1>1, <1>2, <1>3 DEF StoreInv, Active, ProjectFileIsLast, Complete, Exists
  <1>6. PartsFollowSaves'
    BY <1>1, <1>2, <1>3 DEF StoreInv, PartsFollowSaves, Complete, Exists
  <1>7. (OperationShape /\ FilesInPlace /\ SaveInProgress /\ NewDirectory)'
    BY <1>1 DEF OperationShape, FilesInPlace, SaveInProgress, NewDirectory, Writing, Idle
  <1> QED
    BY <1>4, <1>5, <1>6, <1>7 DEF StoreInv

LEMMA CrashKeeps == ASSUME StoreInv, Crash PROVE StoreInv'
  <1>1. operation' = Idle /\ project' = Missing /\ disk' = disk /\ attempts' = attempts
    BY DEF Crash
  <1>2. (OperationShape /\ FilesInPlace /\ SaveInProgress /\ NewDirectory)'
    BY <1>1 DEF OperationShape, FilesInPlace, SaveInProgress, NewDirectory, Writing, Idle
  <1> QED
    BY <1>1, <1>2 DEF StoreInv, Directories, Attempts, Active, ProjectFileIsLast, PartsFollowSaves, Complete, Exists

\* A snapshot of a project, alone or after what was saved before.
LEMMA OneSnapshot ==
    ASSUME NEW c, c.system \in Systems, c.plan \in Plans, c.workspace \in Workspaces, Fits(c)
    PROVE  /\ Snapshot(c) \in Snapshots /\ Fits(Snapshot(c))
           /\ <<Snapshot(c)>> \in Seq(Snapshots) /\ Len(<<Snapshot(c)>>) = 1
           /\ <<Snapshot(c)>>[1] = Snapshot(c) /\ Last(<<Snapshot(c)>>) = Snapshot(c)
  BY DEF Snapshot, Snapshots, Fits, Last

\* An operation as Begin leaves it.
LEMMA BegunShape ==
    ASSUME NEW k \in {"create", "save", "save_as"}, NEW root, NEW writes, NEW c,
           Begin(k, root, writes, c),
           writes = IF k = "create" THEN CreateWrites(c.kind) ELSE SaveWrites,
           c \in Projects, Fits(c), root \in DOMAIN disk', Last(attempts'[root]) = Snapshot(c)
    PROVE  /\ OperationShape' /\ FilesInPlace' /\ ~ AllWritten'
           /\ operation'.kind = k /\ operation'.root = root /\ operation'.contents = c
  <1>1. /\ operation' = [kind |-> k, root |-> root, writes |-> writes, done |-> 0, staged |-> FALSE, contents |-> c]
    BY DEF Begin
  <1>2. Len(writes) \in {4, 5, 6}
    BY EachFileOnce
  <1>3. /\ DOMAIN operation' = {"kind", "root", "writes", "done", "staged", "contents"}
        /\ operation'.kind = k /\ operation'.root = root /\ operation'.writes = writes /\ operation'.done = 0
        /\ operation'.staged = FALSE /\ operation'.contents = c
    BY <1>1
  <1>4. ~ AllWritten'
    <2>1. AllWritten' <=> operation'.done = Len(operation'.writes)
      BY DEF AllWritten
    <2>2. 0 # Len(writes)
      BY <1>2
    <2> QED
      BY <1>3, <2>1, <2>2
  <1>5. OperationShape'
    <2>1. operation'.done \in 0 .. Len(operation'.writes)
      BY <1>2, <1>3
    <2>2. operation'.staged \in BOOLEAN /\ (operation'.staged => ~ AllWritten')
      BY <1>3
    <2> QED
      BY <1>3, <2>1, <2>2 DEF OperationShape
  <1>6. FilesInPlace'
    BY <1>3 DEF FilesInPlace
  <1> QED
    BY <1>3, <1>4, <1>5, <1>6

\* A new directory with its first snapshot disturbs no other directory.
LEMMA NewDirectoryKeeps ==
    ASSUME StoreInv, operation = Idle, NEW root \in Roots, ~ Exists(root), NEW files, DOMAIN files = Files,
           files.metadata = Missing, NEW c, c.system \in Systems, c.plan \in Plans, c.workspace \in Workspaces,
           Fits(c), disk' = WithDirectory(root, files), attempts' = [attempts EXCEPT ![root] = <<Snapshot(c)>>],
           project' = project
    PROVE  /\ (Directories /\ Attempts /\ Active /\ ProjectFileIsLast /\ PartsFollowSaves)'
           /\ disk'[root] = files /\ root \in DOMAIN disk' /\ attempts'[root] = <<Snapshot(c)>>
           /\ project # Missing => project.root # root
  <1>1. /\ DOMAIN disk' = DOMAIN disk \cup {root} /\ disk'[root] = files
        /\ \A r \in DOMAIN disk : r # root /\ disk'[r] = disk[r]
    BY DEF WithDirectory, Exists
  <1>2. /\ DOMAIN attempts' = Roots /\ attempts'[root] = <<Snapshot(c)>>
        /\ \A r \in Roots \ {root} : attempts'[r] = attempts[r]
    BY DEF StoreInv, Attempts
  <1>3. \A r \in Roots : Complete(r)' <=> Complete(r)
    BY <1>1 DEF Complete, Exists
  <1>4. Directories'
    BY <1>1 DEF StoreInv, Directories
  <1>5. Attempts'
    <2>1. attempts'[root] \in Seq(Snapshots) /\ \A i \in 1 .. Len(attempts'[root]) : Fits(attempts'[root][i])
      BY <1>2, OneSnapshot
    <2> QED
      BY <1>2, <2>1 DEF StoreInv, Attempts
  <1>6. Active' /\ (project # Missing => project.root # root)
    BY <1>1, <1>3 DEF StoreInv, Active, Complete, Exists, Projects
  <1>7. ProjectFileIsLast'
    BY <1>1, <1>3 DEF StoreInv, ProjectFileIsLast, Complete, Exists
  <1>8. PartsFollowSaves'
    BY <1>1, <1>2, <1>3 DEF StoreInv, PartsFollowSaves, Complete, Exists
  <1> QED
    BY <1>1, <1>2, <1>4, <1>5, <1>6, <1>7, <1>8

LEMMA CreateKeeps ==
    ASSUME StoreInv, NEW root \in Roots, NEW c \in ValidContents, Create(root, c)
    PROVE  StoreInv'
  <1> DEFINE p == ProjectAt(root, c)
  <1>1. p \in Projects /\ Fits(p) /\ Fits(c) /\ p.root = root /\ p.kind = c.kind /\ Snapshot(p) = Snapshot(c)
    BY DEF ProjectAt, Projects, Fits, Snapshot, ValidContents, Contents
  <1>2. c.system \in Systems /\ c.plan \in Plans /\ c.workspace \in Workspaces
    BY DEF ValidContents, Contents
  <1>3. DOMAIN Absent = Files /\ Absent.metadata = Missing
    BY DEF Absent, Files
  <1>4. /\ (Directories /\ Attempts /\ Active /\ ProjectFileIsLast /\ PartsFollowSaves)'
        /\ disk'[root] = Absent /\ root \in DOMAIN disk' /\ attempts'[root] = <<Snapshot(c)>>
        /\ project # Missing => project.root # root
    BY <1>1, <1>2, <1>3, NewDirectoryKeeps DEF Create
  <1>5. Begin("create", root, CreateWrites(p.kind), p) /\ project' = project
    BY <1>1 DEF Create
  <1>6. Last(attempts'[root]) = Snapshot(p) /\ Len(attempts'[root]) = 1
    BY <1>1, <1>2, <1>4, OneSnapshot
  <1> HIDE DEF p
  <1>7. /\ OperationShape' /\ FilesInPlace'
        /\ operation'.kind = "create" /\ operation'.root = root /\ operation'.contents = p
    BY <1>1, <1>4, <1>5, <1>6, BegunShape
  <1>8. SaveInProgress'
    BY <1>7 DEF SaveInProgress
  <1>9. NewDirectory'
    BY <1>1, <1>3, <1>4, <1>5, <1>6, <1>7 DEF NewDirectory
  <1> QED
    BY <1>4, <1>7, <1>8, <1>9 DEF StoreInv

LEMMA SaveAsKeeps ==
    ASSUME StoreInv, NEW target \in Roots, SaveFilesAs(target)
    PROVE  StoreInv'
  <1> DEFINE files == [disk[project.root] EXCEPT !.metadata = Missing]
  <1>1. /\ project # Missing /\ project \in Projects /\ Fits(project) /\ Complete(project.root)
        /\ disk[project.root].metadata = project.kind /\ DOMAIN disk[project.root] = Files
    BY DEF SaveFilesAs, StoreInv, Active, Directories, Complete, Exists
  <1>2. project.system \in Systems /\ project.plan \in Plans /\ project.workspace \in Workspaces /\ project.root \in Roots
    BY <1>1 DEF Projects
  <1>3. DOMAIN files = Files /\ files.metadata = Missing
    BY <1>1 DEF Files
  <1>4. files.results # Missing /\ (project.kind = "bosch" => files.scenario \notin {Missing, Damaged})
    BY <1>1, <1>2 DEF Files, StoreInv, ProjectFileIsLast
  <1>5. /\ (Directories /\ Attempts /\ Active /\ ProjectFileIsLast /\ PartsFollowSaves)'
        /\ disk'[target] = files /\ target \in DOMAIN disk' /\ attempts'[target] = <<Snapshot(project)>>
        /\ project.root # target
    <2>1. /\ operation = Idle /\ ~ Exists(target) /\ disk' = WithDirectory(target, files) /\ project' = project
          /\ attempts' = [attempts EXCEPT ![target] = <<Snapshot(project)>>]
      BY DEF SaveFilesAs
    <2> HIDE DEF files
    <2> QED
      BY <1>1, <1>2, <1>3, <2>1, NewDirectoryKeeps
  <1>6. Begin("save_as", target, SaveWrites, project) /\ project' = project
    BY DEF SaveFilesAs
  <1>7. Last(attempts'[target]) = Snapshot(project) /\ Len(attempts'[target]) = 1
    BY <1>1, <1>2, <1>5, OneSnapshot
  <1> HIDE DEF files
  <1>8. /\ OperationShape' /\ FilesInPlace'
        /\ operation'.kind = "save_as" /\ operation'.root = target /\ operation'.contents = project
    BY <1>1, <1>5, <1>6, <1>7, BegunShape
  <1>9. SaveInProgress' /\ NewDirectory'
    BY <1>3, <1>4, <1>5, <1>6, <1>7, <1>8 DEF SaveInProgress, NewDirectory
  <1> QED
    BY <1>5, <1>8, <1>9 DEF StoreInv

LEMMA ReplacementsAreProjects ==
    ASSUME StoreInv, project # Missing, NEW p \in Replacements
    PROVE  p \in Projects /\ Fits(p) /\ p.root = project.root /\ p.kind = project.kind
  BY DEF StoreInv, Active, Replacements, ValidContents, Contents, Projects, Fits

LEMMA SaveKeeps ==
    ASSUME StoreInv, project # Missing, NEW p \in Replacements, SaveFiles(p)
    PROVE  StoreInv'
  <1> DEFINE root == project.root
             past == attempts[root]
  <1>1. /\ p \in Projects /\ Fits(p) /\ p.root = root /\ p.kind = project.kind
        /\ project \in Projects /\ root \in Roots /\ Complete(root)
    BY ReplacementsAreProjects DEF StoreInv, Active, Projects
  <1>2. /\ past \in Seq(Snapshots) /\ \A i \in 1 .. Len(past) : Fits(past[i])
    BY <1>1 DEF StoreInv, Attempts
  <1>3. Snapshot(p) \in Snapshots /\ Fits(Snapshot(p))
    BY <1>1, OneSnapshot DEF Projects
  <1>4. Len(past) \in Nat \ {0}
    BY <1>1, <1>2, LenProperties DEF StoreInv, PartsFollowSaves
  <1>5. /\ Append(past, Snapshot(p)) \in Seq(Snapshots) /\ Len(Append(past, Snapshot(p))) = Len(past) + 1
        /\ \A i \in 1 .. Len(past) : Append(past, Snapshot(p))[i] = past[i]
        /\ Append(past, Snapshot(p))[Len(past) + 1] = Snapshot(p)
    BY <1>2, <1>3, AppendProperties
  <1>6. /\ DOMAIN attempts' = Roots /\ attempts'[root] = Append(past, Snapshot(p))
        /\ \A r \in Roots \ {root} : attempts'[r] = attempts[r]
        /\ disk' = disk /\ project' = project
    BY <1>1 DEF SaveFiles, StoreInv, Attempts
  <1>7. Begin("save", root, SaveWrites, p) /\ past = attempts[root]
    BY DEF SaveFiles
  <1> HIDE DEF past, root
  <1>8. Attempts'
    <2>1. \A i \in 1 .. Len(attempts'[root]) : Fits(attempts'[root][i])
      <3> SUFFICES ASSUME NEW i \in 1 .. Len(past) + 1 PROVE Fits(Append(past, Snapshot(p))[i])
        BY <1>5, <1>6
      <3>1. CASE i \in 1 .. Len(past)
        BY <1>2, <1>5, <3>1
      <3>2. CASE i = Len(past) + 1
        BY <1>3, <1>5, <3>2
      <3> QED
        BY <1>4, <3>1, <3>2
    <2>2. attempts'[root] \in Seq(Snapshots)
      BY <1>5, <1>6
    <2> QED
      BY <1>6, <2>1, <2>2 DEF StoreInv, Attempts
  <1>9. PartsFollowSaves'
    <2> SUFFICES ASSUME NEW r \in Roots, Complete(r)
                 PROVE  \E i, j, k \in DOMAIN attempts'[r] :
                            /\ i >= j /\ j >= k
                            /\ disk[r].system = attempts'[r][i].system /\ disk[r].plan = attempts'[r][j].plan
                            /\ disk[r].workspace \in {attempts'[r][k].workspace, Damaged}
      BY <1>6 DEF PartsFollowSaves, Complete, Exists
    <2>1. PICK i, j, k \in DOMAIN attempts[r] :
              /\ i >= j /\ j >= k
              /\ disk[r].system = attempts[r][i].system /\ disk[r].plan = attempts[r][j].plan
              /\ disk[r].workspace \in {attempts[r][k].workspace, Damaged}
      BY DEF StoreInv, PartsFollowSaves
    <2>2. CASE r # root
      BY <1>6, <2>1, <2>2
    <2>3. CASE r = root
      <3> DEFINE longer == Append(past, Snapshot(p))
      <3>1. attempts[r] = past /\ attempts'[r] = longer
        BY <1>6, <1>7, <2>3
      <3>2. DOMAIN past = 1 .. Len(past) /\ DOMAIN longer = 1 .. Len(past) + 1
        <4>1. DOMAIN past = 1 .. Len(past)
          BY <1>2, LenProperties
        <4>2. DOMAIN longer = 1 .. Len(longer)
          BY <1>5, LenProperties
        <4> QED
          BY <1>5, <4>1, <4>2
      <3>3. \A n \in DOMAIN past : n \in DOMAIN longer /\ longer[n] = past[n]
        BY <1>4, <1>5, <3>2
      <3> HIDE DEF longer
      <3>4. i \in DOMAIN longer /\ j \in DOMAIN longer /\ k \in DOMAIN longer
        BY <2>1, <3>1, <3>3
      <3> QED
        BY <2>1, <3>1, <3>3, <3>4
    <2> QED
      BY <2>2, <2>3
  <1>10. Last(attempts'[root]) = Snapshot(p)
    BY <1>5, <1>6 DEF Last
  <1>11. /\ OperationShape' /\ FilesInPlace'
         /\ operation'.kind = "save" /\ operation'.root = root /\ operation'.contents = p
    <2>1. root \in DOMAIN disk'
      BY <1>1, <1>6 DEF Complete, Exists
    <2> QED
      BY <1>1, <1>7, <1>10, <2>1, BegunShape
  <1>12. SaveInProgress' /\ NewDirectory'
    BY <1>1, <1>4, <1>5, <1>6, <1>11 DEF SaveInProgress, NewDirectory, root
  <1> QED
    BY <1>6, <1>8, <1>9, <1>11, <1>12
    DEF StoreInv, Directories, Active, ProjectFileIsLast, Complete, Exists

LEMMA StageKeeps == ASSUME StoreInv, Stage PROVE StoreInv'
  <1>1. /\ operation # Idle /\ operation' = [operation EXCEPT !.staged = TRUE] /\ ~ AllWritten
        /\ disk' = disk /\ project' = project /\ attempts' = attempts
    BY DEF Stage, Writing, Idle
  <1>2. /\ DOMAIN operation' = DOMAIN operation /\ operation'.staged = TRUE
        /\ operation'.kind = operation.kind /\ operation'.root = operation.root /\ operation'.done = operation.done
        /\ operation'.writes = operation.writes /\ operation'.contents = operation.contents
    BY <1>1 DEF StoreInv, OperationShape
  <1>3. ~ AllWritten'
    BY <1>1, <1>2 DEF AllWritten
  <1>4. OperationShape'
    BY <1>1, <1>2, <1>3 DEF StoreInv, OperationShape
  <1>5. FilesInPlace' /\ SaveInProgress' /\ NewDirectory'
    BY <1>1, <1>2, <1>3 DEF StoreInv, FilesInPlace, SaveInProgress, NewDirectory, Writing
  <1> QED
    BY <1>1, <1>4, <1>5
    DEF StoreInv, Directories, Attempts, Active, ProjectFileIsLast, PartsFollowSaves, Complete, Exists

\* Files that hold all that an operation writes are those of its contents.
LEMMA AllInPlace ==
    ASSUME NEW files, NEW c, NEW operationKind, NEW w,
           operationKind = "create" => w = CreateWrites(c.kind), operationKind # "create" => w = SaveWrites,
           AllIn(files, c, w)
    PROVE  /\ files.system = c.system /\ files.plan = c.plan /\ files.workspace = c.workspace
           /\ files.metadata = c.kind
           /\ operationKind = "create" => files.results = "directory" /\ (c.kind = "bosch" => files.scenario = "settings")
  <1>1. CASE operationKind = "create"
    <2>1. w = CreateWrites(c.kind)
      BY <1>1
    <2>2. /\ files["results"] = Text(c, "results") /\ files["system"] = Text(c, "system")
          /\ files["plan"] = Text(c, "plan") /\ files["workspace"] = Text(c, "workspace")
          /\ files["metadata"] = Text(c, "metadata")
          /\ (c.kind = "bosch" => files["scenario"] = Text(c, "scenario"))
      BY <2>1, CreateOrder DEF AllIn
    <2> QED
      BY <2>2 DEF Text
  <1>2. CASE operationKind # "create"
    <2>1. /\ \A i \in 1 .. 4 : files[w[i]] = Text(c, w[i])
          /\ w[1] = "system" /\ w[2] = "plan" /\ w[3] = "workspace" /\ w[4] = "metadata"
      BY <1>2, SaveOrder DEF AllIn
    <2>2. 1 \in 1 .. 4 /\ 2 \in 1 .. 4 /\ 3 \in 1 .. 4 /\ 4 \in 1 .. 4
      OBVIOUS
    <2>3. /\ files["system"] = Text(c, "system") /\ files["plan"] = Text(c, "plan")
          /\ files["workspace"] = Text(c, "workspace") /\ files["metadata"] = Text(c, "metadata")
      BY <2>1, <2>2
    <2> QED
      BY <1>2, <2>3 DEF Text
  <1> QED
    BY <1>1, <1>2

\* Once everything is written, a directory is complete and holds what was written.
LEMMA WrittenIsComplete ==
    ASSUME StoreInv, Writing, AllWritten
    PROVE  /\ Complete(operation.root) /\ disk[operation.root].metadata = operation.contents.kind
           /\ disk[operation.root].system = operation.contents.system
           /\ disk[operation.root].plan = operation.contents.plan
           /\ disk[operation.root].workspace = operation.contents.workspace
  <1> DEFINE w == operation.writes
             c == operation.contents
             files == disk[operation.root]
  <1>1. /\ \A i \in 1 .. Len(w) : files[w[i]] = Text(c, w[i])
        /\ w = IF operation.kind = "create" THEN CreateWrites(c.kind) ELSE SaveWrites
        /\ c.kind \in Kinds /\ operation.root \in DOMAIN disk
    BY DEF StoreInv, FilesInPlace, OperationShape, AllWritten, Projects, Writing, Idle
  <1> HIDE DEF w, c, files
  <1>2. /\ files.system = c.system /\ files.plan = c.plan /\ files.workspace = c.workspace /\ files.metadata = c.kind
    <2> DEFINE operationKind == operation.kind
    <2>1. (operationKind = "create" => w = CreateWrites(c.kind)) /\ (operationKind # "create" => w = SaveWrites)
      BY <1>1
    <2>2. AllIn(files, c, w)
      BY <1>1 DEF AllIn
    <2> HIDE DEF operationKind
    <2> QED
      BY <2>1, <2>2, AllInPlace
  <1> QED
    BY <1>1, <1>2, StoreAssumption DEF Complete, Exists, files, c

LEMMA FinishKeeps == ASSUME StoreInv, Finish PROVE StoreInv'
  <1> DEFINE root == operation.root
             past == attempts[root]
  <1>1. /\ Writing /\ AllWritten /\ operation' = Idle /\ disk' = disk
        /\ attempts' = [attempts EXCEPT ![root] = <<Last(past)>>]
    BY DEF Finish
  <1>2. /\ operation.kind \in {"create", "save", "save_as"} /\ root \in DOMAIN disk /\ root \in Roots
        /\ operation.contents \in Projects /\ Fits(operation.contents)
        /\ Last(past) = Snapshot(operation.contents)
    BY <1>1 DEF StoreInv, OperationShape, Writing, Idle, Directories
  <1>3. /\ Complete(root) /\ disk[root].metadata = operation.contents.kind
        /\ disk[root].system = Last(past).system /\ disk[root].plan = Last(past).plan
        /\ disk[root].workspace = Last(past).workspace
    BY <1>1, <1>2, WrittenIsComplete DEF Snapshot
  <1>4. /\ <<Last(past)>> \in Seq(Snapshots) /\ Len(<<Last(past)>>) = 1 /\ <<Last(past)>>[1] = Last(past)
        /\ Fits(<<Last(past)>>[1])
    BY <1>2, OneSnapshot DEF Projects
  <1>5. /\ DOMAIN attempts' = Roots /\ attempts'[root] = <<Last(past)>>
        /\ \A r \in Roots \ {root} : attempts'[r] = attempts[r]
    BY <1>1, <1>2 DEF StoreInv, Attempts
  <1> HIDE DEF past
  <1>6. Attempts'
    <2>1. \A i \in 1 .. Len(attempts'[root]) : i = 1
      BY <1>4, <1>5
    <2>2. attempts'[root] \in Seq(Snapshots) /\ \A i \in 1 .. Len(attempts'[root]) : Fits(attempts'[root][i])
      BY <1>4, <1>5, <2>1
    <2> QED
      BY <1>5, <2>2 DEF StoreInv, Attempts
  <1>7. Active'
    <2>1. CASE operation.kind = "save_as"
      BY <1>1, <1>2, <2>1, LoadedIsProject DEF Finish, Active, Complete, Exists
    <2>2. CASE operation.kind # "save_as"
      <3>1. project' = operation.contents
        BY <2>2 DEF Finish
      <3>2. operation.contents.root = root
        BY <1>2, <2>2 DEF StoreInv, SaveInProgress, NewDirectory
      <3> QED
        BY <1>1, <1>2, <1>3, <3>1, <3>2 DEF Active, Complete, Exists
    <2> QED
      BY <2>1, <2>2
  <1>8. PartsFollowSaves'
    <2> SUFFICES ASSUME NEW r \in Roots, Complete(r)
                 PROVE  \E i, j, k \in DOMAIN attempts'[r] :
                            /\ i >= j /\ j >= k
                            /\ disk[r].system = attempts'[r][i].system /\ disk[r].plan = attempts'[r][j].plan
                            /\ disk[r].workspace \in {attempts'[r][k].workspace, Damaged}
      BY <1>1 DEF PartsFollowSaves, Complete, Exists
    <2>1. CASE r # root
      BY <1>5, <2>1 DEF StoreInv, PartsFollowSaves
    <2>2. CASE r = root
      <3>1. attempts'[r] = <<Last(past)>> /\ 1 \in DOMAIN attempts'[r] /\ attempts'[r][1] = Last(past)
        BY <1>4, <1>5, <2>2, LenProperties
      <3> QED
        BY <1>3, <2>2, <3>1
    <2> QED
      BY <2>1, <2>2
  <1>9. (OperationShape /\ FilesInPlace /\ SaveInProgress /\ NewDirectory)'
    BY <1>1 DEF OperationShape, FilesInPlace, SaveInProgress, NewDirectory, Writing, Idle
  <1> QED
    BY <1>1, <1>6, <1>7, <1>8, <1>9 DEF StoreInv, Directories, ProjectFileIsLast, Complete, Exists

LEMMA FailKeeps == ASSUME StoreInv, Fail PROVE StoreInv'
  <1>1. /\ Writing /\ operation' = Idle /\ project' = project /\ attempts' = attempts
        /\ disk' = disk \/ (operation.kind # "save" /\ disk' = WithoutDirectory(operation.root))
    BY DEF Fail
  <1>2. (OperationShape /\ FilesInPlace /\ SaveInProgress /\ NewDirectory)'
    BY <1>1 DEF OperationShape, FilesInPlace, SaveInProgress, NewDirectory, Writing, Idle
  <1>3. CASE disk' = disk
    BY <1>1, <1>2, <1>3
    DEF StoreInv, Directories, Attempts, Active, ProjectFileIsLast, PartsFollowSaves, Complete, Exists
  <1>4. CASE operation.kind # "save" /\ disk' = WithoutDirectory(operation.root)
    <2>1. project # Missing => project.root # operation.root
      BY <1>1, <1>4 DEF StoreInv, NewDirectory, OperationShape, Writing, Idle
    <2>2. /\ DOMAIN disk' = DOMAIN disk \ {operation.root}
          /\ \A r \in DOMAIN disk' : disk'[r] = disk[r]
      BY <1>4 DEF WithoutDirectory
    <2>3. \A r \in Roots : Complete(r)' => Complete(r) /\ disk'[r] = disk[r]
      BY <2>2 DEF Complete, Exists
    <2>4. Directories' /\ Attempts'
      BY <1>1, <2>2 DEF StoreInv, Directories, Attempts
    <2>5. Active'
      BY <1>1, <2>1, <2>2 DEF StoreInv, Active, Complete, Exists
    <2>6. ProjectFileIsLast'
      BY <2>3 DEF StoreInv, ProjectFileIsLast
    <2>7. PartsFollowSaves'
      BY <1>1, <2>3 DEF StoreInv, PartsFollowSaves
    <2> QED
      BY <1>2, <2>4, <2>5, <2>6, <2>7 DEF StoreInv
  <1> QED
    BY <1>1, <1>3, <1>4

\* A rename puts one file into place.
LEMMA RenamedFile ==
    ASSUME StoreInv, Rename
    PROVE  LET root == operation.root
               next == NextWrite
               c == operation.contents
           IN  /\ root \in DOMAIN disk /\ next \in Files /\ operation.done + 1 \in 1 .. Len(operation.writes)
               /\ DOMAIN disk' = DOMAIN disk /\ DOMAIN disk'[root] = Files /\ disk'[root][next] = Text(c, next)
               /\ \A f \in Files \ {next} : disk'[root][f] = disk[root][f]
               /\ \A r \in DOMAIN disk \ {root} : disk'[r] = disk[r]
               /\ operation'.done = operation.done + 1 /\ operation'.staged = FALSE
               /\ DOMAIN operation' = DOMAIN operation
               /\ operation'.kind = operation.kind /\ operation'.root = root
               /\ operation'.writes = operation.writes /\ operation'.contents = c
               /\ operation # Idle /\ project' = project /\ attempts' = attempts
  <1>1. operation # Idle
    BY DEF Rename, Writing, Idle
  <1>2. /\ operation.root \in DOMAIN disk /\ operation.done \in 0 .. Len(operation.writes)
        /\ DOMAIN operation = {"kind", "root", "writes", "done", "staged", "contents"}
        /\ ~ AllWritten
        /\ operation.writes = SaveWrites \/ operation.writes = CreateWrites(operation.contents.kind)
    BY <1>1 DEF StoreInv, OperationShape, Rename
  <1>3. Len(operation.writes) \in {4, 5, 6} /\ \A i \in 1 .. Len(operation.writes) : operation.writes[i] \in Files
    BY <1>2, EachFileOnce
  <1>4. operation.done + 1 \in 1 .. Len(operation.writes)
    BY <1>2, <1>3 DEF AllWritten
  <1>5. NextWrite \in Files
    BY <1>3, <1>4 DEF NextWrite
  <1>6. /\ disk' = [disk EXCEPT ![operation.root][NextWrite] = Text(operation.contents, NextWrite)]
        /\ operation' = [operation EXCEPT !.staged = FALSE, !.done = @ + 1]
        /\ project' = project /\ attempts' = attempts
    BY DEF Rename
  <1>7. DOMAIN disk[operation.root] = Files
    BY <1>2 DEF StoreInv, Directories
  <1>8. /\ DOMAIN operation' = DOMAIN operation /\ operation'.done = operation.done + 1 /\ operation'.staged = FALSE
        /\ operation'.kind = operation.kind /\ operation'.root = operation.root
        /\ operation'.writes = operation.writes /\ operation'.contents = operation.contents
    BY <1>2, <1>6
  <1> QED
    BY <1>1, <1>2, <1>4, <1>5, <1>6, <1>7, <1>8

LEMMA RenameKeeps == ASSUME StoreInv, Rename PROVE StoreInv'
  <1> DEFINE root == operation.root
             next == NextWrite
             c == operation.contents
             w == operation.writes
             n == operation.done
  <1>1. /\ root \in DOMAIN disk /\ next \in Files /\ n + 1 \in 1 .. Len(w) /\ next = w[n + 1]
        /\ DOMAIN disk' = DOMAIN disk /\ DOMAIN disk'[root] = Files /\ disk'[root][next] = Text(c, next)
        /\ \A f \in Files \ {next} : disk'[root][f] = disk[root][f]
        /\ \A r \in DOMAIN disk \ {root} : disk'[r] = disk[r]
    BY RenamedFile DEF NextWrite
  <1>2. /\ operation'.done = n + 1 /\ operation'.staged = FALSE /\ DOMAIN operation' = DOMAIN operation
        /\ operation'.kind = operation.kind /\ operation'.root = root /\ operation'.writes = w
        /\ operation'.contents = c /\ operation # Idle /\ project' = project /\ attempts' = attempts
    BY RenamedFile
  <1>3. /\ operation.kind \in {"create", "save", "save_as"} /\ root \in Roots
        /\ c \in Projects /\ Fits(c) /\ n \in 0 .. Len(w)
        /\ w = (IF operation.kind = "create" THEN CreateWrites(c.kind) ELSE SaveWrites)
        /\ Last(attempts[root]) = Snapshot(c)
        /\ DOMAIN operation = {"kind", "root", "writes", "done", "staged", "contents"}
    BY <1>1, <1>2 DEF StoreInv, OperationShape, Directories
  <1>4. /\ Len(w) \in {4, 5, 6}
        /\ \A i \in 1 .. Len(w) : w[i] \in Files
        /\ \A i, j \in 1 .. Len(w) : w[i] = w[j] => i = j
        /\ \A i \in 1 .. Len(w) : w[i] = "metadata" <=> i = Len(w)
    BY <1>3, EachFileOnce
  <1>5. Writing /\ Writing' /\ (AllWritten' <=> n + 1 = Len(w)) /\ ~ AllWritten
    BY <1>1, <1>2, <1>3, <1>4 DEF Writing, AllWritten
  <1>6. \A i \in 1 .. n : disk[root][w[i]] = Text(c, w[i])
    BY <1>5 DEF StoreInv, FilesInPlace
  <1> HIDE DEF root, next, c, w, n
  <1>7. Directories' /\ Attempts'
    BY <1>1, <1>2 DEF StoreInv, Directories, Attempts
  <1>8. OperationShape'
    <2>1. operation'.done \in 0 .. Len(operation'.writes) /\ operation'.root \in DOMAIN disk'
      BY <1>1, <1>2, <1>3, <1>4
    <2>2. /\ operation'.kind \in {"create", "save", "save_as"} /\ operation'.contents \in Projects
          /\ Fits(operation'.contents) /\ operation'.staged \in BOOLEAN /\ ~ operation'.staged
          /\ DOMAIN operation' = {"kind", "root", "writes", "done", "staged", "contents"}
      BY <1>2, <1>3
    <2>3. /\ operation'.writes = IF operation'.kind = "create" THEN CreateWrites(operation'.contents.kind) ELSE SaveWrites
          /\ Last(attempts'[operation'.root]) = Snapshot(operation'.contents)
      BY <1>2, <1>3
    <2> QED
      BY <2>1, <2>2, <2>3 DEF OperationShape
  <1>9. FilesInPlace'
    <2> SUFFICES ASSUME NEW i \in 1 .. n + 1 PROVE disk'[root][w[i]] = Text(c, w[i])
      BY <1>2 DEF FilesInPlace
    <2>1. CASE i = n + 1
      BY <1>1, <2>1
    <2>2. CASE i # n + 1
      <3>1. i \in 1 .. n /\ i \in 1 .. Len(w) /\ n + 1 \in 1 .. Len(w)
        BY <1>1, <1>3, <1>4, <2>2
      <3>2. w[i] \in Files \ {next}
        BY <1>1, <1>4, <2>2, <3>1
      <3> QED
        BY <1>1, <1>6, <3>1, <3>2
    <2> QED
      BY <2>1, <2>2
  <1>10. (next = "metadata" <=> AllWritten') /\ (next = "metadata" => disk'[root].metadata = c.kind)
    BY <1>1, <1>4, <1>5 DEF Text
  <1>11. SaveInProgress'
    BY <1>2, <1>3 DEF StoreInv, SaveInProgress, root, c
  <1>12. (next = "results" => disk'[root].results = "directory")
         /\ (next = "scenario" => disk'[root].scenario = "settings")
    BY <1>1 DEF Text
  <1>13. /\ next # "metadata" => disk'[root].metadata = disk[root].metadata
         /\ next # "results" => disk'[root].results = disk[root].results
         /\ next # "scenario" => disk'[root].scenario = disk[root].scenario
         /\ next # "system" => disk'[root].system = disk[root].system
         /\ next # "plan" => disk'[root].plan = disk[root].plan
         /\ next # "workspace" => disk'[root].workspace = disk[root].workspace
    BY <1>1 DEF Files
  <1>14. NewDirectory'
    <2> SUFFICES ASSUME operation.kind \in {"create", "save_as"} PROVE NewDirectory'
      BY <1>2 DEF NewDirectory
    <2>1. /\ Len(attempts[root]) = 1
          /\ project # Missing => project.root # root
          /\ disk[root].metadata = Missing
          /\ operation.kind = "create" => c.root = root
          /\ operation.kind = "save_as" =>
                 /\ disk[root].results # Missing
                 /\ c.kind = "bosch" => disk[root].scenario \notin {Missing, Damaged}
      BY <1>5 DEF StoreInv, NewDirectory, root, c
    <2>2. ~ AllWritten' => disk'[root].metadata = Missing
      BY <1>10, <1>13, <2>1
    <2>3. operation.kind = "save_as" =>
                 /\ disk'[root].results # Missing
                 /\ c.kind = "bosch" => disk'[root].scenario \notin {Missing, Damaged}
      BY <1>12, <1>13, <2>1, StoreAssumption
    <2> QED
      BY <1>2, <2>1, <2>2, <2>3 DEF NewDirectory
  <1>15. ASSUME NEW r \in Roots, Complete(r)', ~ Complete(r)
         PROVE  r = root /\ operation.kind # "save" /\ AllWritten' /\ disk'[root].metadata = c.kind
    <2>1. r = root
      BY <1>1, <1>15 DEF Complete, Exists
    <2>2. next = "metadata"
      BY <1>1, <1>13, <1>15, <2>1 DEF Complete, Exists
    <2>3. operation.kind # "save"
      BY <1>15, <2>1 DEF StoreInv, SaveInProgress, Active, root
    <2> QED
      BY <1>10, <2>1, <2>2, <2>3
  <1>16. Active'
    <2> SUFFICES ASSUME project # Missing
                 PROVE  Complete(project.root)' /\ disk'[project.root].metadata = project.kind
      BY <1>2 DEF StoreInv, Active
    <2>1. Complete(project.root) /\ disk[project.root].metadata = project.kind /\ project.kind \in Kinds
      BY DEF StoreInv, Active, Projects
    <2>2. CASE project.root # root
      <3>1. project.root \in DOMAIN disk' /\ disk'[project.root] = disk[project.root]
        BY <1>1, <2>1, <2>2 DEF Complete, Exists
      <3> QED
        BY <1>2, <2>1, <3>1 DEF Complete, Exists
    <2>3. CASE project.root = root
      <3>1. operation.kind = "save" /\ c.kind = project.kind
        BY <1>3, <2>3 DEF StoreInv, NewDirectory, SaveInProgress, root, c
      <3>2. disk'[root].metadata = project.kind
        BY <1>10, <1>13, <2>1, <2>3, <3>1
      <3> QED
        BY <1>1, <1>2, <2>1, <2>3, <3>2, StoreAssumption DEF Complete, Exists
    <2> QED
      BY <2>2, <2>3
  <1>17. operation.kind = "save" => next \notin {"results", "scenario"}
    <2> SUFFICES ASSUME operation.kind = "save" PROVE next \notin {"results", "scenario"}
      OBVIOUS
    <2>1. w = SaveWrites
      BY <1>3
    <2>2. n + 1 \in {1, 2, 3, 4}
      BY <1>1, <2>1, SaveOrder
    <2> QED
      BY <1>1, <2>1, <2>2, SaveOrder
  <1>18. AllWritten' => /\ disk'[root].system = c.system /\ disk'[root].plan = c.plan
                        /\ disk'[root].workspace = c.workspace
                        /\ operation.kind = "create" =>
                               disk'[root].results = "directory" /\ (c.kind = "bosch" => disk'[root].scenario = "settings")
    <2> SUFFICES ASSUME AllWritten'
                 PROVE  /\ disk'[root].system = c.system /\ disk'[root].plan = c.plan
                        /\ disk'[root].workspace = c.workspace
                        /\ operation.kind = "create" =>
                               disk'[root].results = "directory" /\ (c.kind = "bosch" => disk'[root].scenario = "settings")
      OBVIOUS
    <2> DEFINE operationKind == operation.kind
    <2>1. (operationKind = "create" => w = CreateWrites(c.kind)) /\ (operationKind # "create" => w = SaveWrites)
      BY <1>3
    <2> DEFINE files == disk'[root]
    <2>2. AllIn(files, c, w)
      BY <1>2, <1>5, <1>9 DEF FilesInPlace, AllIn
    <2> HIDE DEF operationKind, files
    <2>3. /\ files.system = c.system /\ files.plan = c.plan /\ files.workspace = c.workspace
          /\ operationKind = "create" => files.results = "directory" /\ (c.kind = "bosch" => files.scenario = "settings")
      BY <2>1, <2>2, AllInPlace
    <2> QED
      BY <2>3 DEF operationKind, files
  <1>19. ProjectFileIsLast'
    <2> SUFFICES ASSUME NEW r \in Roots, Complete(r)'
                 PROVE  /\ disk'[r].metadata \in Kinds /\ disk'[r].results # Missing
                        /\ disk'[r].metadata = "bosch" => disk'[r].scenario \notin {Missing, Damaged}
      BY DEF ProjectFileIsLast
    <2>1. CASE ~ Complete(r)
      <3>1. /\ r = root /\ AllWritten' /\ disk'[root].metadata = c.kind
            /\ operation.kind \in {"create", "save_as"}
        BY <1>3, <1>15, <2>1
      <3>2. operation.kind = "save_as" =>
                /\ disk'[root].results # Missing
                /\ c.kind = "bosch" => disk'[root].scenario \notin {Missing, Damaged}
        BY <1>2, <1>14 DEF NewDirectory
      <3> QED
        BY <1>3, <1>18, <3>1, <3>2, StoreAssumption DEF Projects
    <2>2. CASE Complete(r) /\ r # root
      BY <1>1, <2>2 DEF StoreInv, ProjectFileIsLast, Complete, Exists
    <2>3. CASE Complete(r) /\ r = root
      <3>1. /\ disk[root].metadata \in Kinds /\ disk[root].results # Missing
            /\ disk[root].metadata = "bosch" => disk[root].scenario \notin {Missing, Damaged}
        BY <2>3 DEF StoreInv, ProjectFileIsLast
      <3>2. operation.kind = "save"
        BY <1>3, <1>5, <2>3 DEF StoreInv, NewDirectory, Complete, root
      <3>3. c.kind = disk[root].metadata
        BY <3>2 DEF StoreInv, SaveInProgress, Active, root, c
      <3>4. disk'[root].metadata = disk[root].metadata
        BY <1>10, <1>13, <3>3
      <3> QED
        BY <1>13, <1>17, <2>3, <3>1, <3>2, <3>4
    <2> QED
      BY <2>1, <2>2, <2>3
  <1>20. PartsFollowSaves'
    <2> DEFINE past == attempts[root]
               m == Len(past)
    <2>1. /\ past \in Seq(Snapshots) /\ DOMAIN past = 1 .. m /\ m \in Nat
      BY <1>3, LenProperties DEF StoreInv, Attempts
    <2>2. past[m] = Snapshot(c)
      BY <1>3 DEF Last
    <2>3. past[m].system = c.system /\ past[m].plan = c.plan /\ past[m].workspace = c.workspace
      BY <2>2 DEF Snapshot
    <2>4. attempts' = attempts /\ past = attempts[root]
      BY <1>2
    <2> HIDE DEF past, m
    <2> SUFFICES ASSUME NEW r \in Roots, Complete(r)'
                 PROVE  \E i, j, k \in DOMAIN attempts[r] :
                            /\ i >= j /\ j >= k
                            /\ disk'[r].system = attempts[r][i].system /\ disk'[r].plan = attempts[r][j].plan
                            /\ disk'[r].workspace \in {attempts[r][k].workspace, Damaged}
      BY <1>2 DEF PartsFollowSaves
    <2>5. CASE r # root
      BY <1>1, <2>5 DEF StoreInv, PartsFollowSaves, Complete, Exists
    <2>6. CASE r = root /\ ~ Complete(r)
      <3>1. AllWritten' /\ operation.kind \in {"create", "save_as"}
        BY <1>3, <1>15, <2>6
      <3>2. m = 1
        BY <3>1 DEF StoreInv, NewDirectory, root, past, m
      <3> QED
        BY <1>18, <2>1, <2>3, <2>4, <2>6, <3>1, <3>2
    <2>7. CASE r = root /\ Complete(r)
      <3>1. PICK i, j, k \in 1 .. m :
                /\ i >= j /\ j >= k
                /\ disk[root].system = past[i].system /\ disk[root].plan = past[j].plan
                /\ disk[root].workspace \in {past[k].workspace, Damaged}
        BY <2>1, <2>4, <2>7 DEF StoreInv, PartsFollowSaves
      <3>2. m \in 1 .. m /\ m >= i /\ m >= j /\ m >= k
        BY <2>1, <3>1
      <3>3. operation.kind = "save" /\ w = SaveWrites
        BY <1>3, <1>5, <2>7 DEF StoreInv, NewDirectory, Complete, root
      <3>4. n \in {0, 1, 2, 3} /\ next = SaveWrites[n + 1]
        <4>1. n \in 0 .. 4 /\ n + 1 \in 1 .. 4
          <5>1. Len(w) = 4
            BY <3>3, SaveOrder
          <5>2. n \in 0 .. Len(w) /\ n + 1 \in 1 .. Len(w)
            BY <1>1, <1>3
          <5> QED
            BY <5>1, <5>2
        <4> QED
          BY <1>1, <3>3, <4>1
      <3>5. \A p \in 1 .. n : disk[root][SaveWrites[p]] = Text(c, SaveWrites[p])
        BY <1>6, <3>3
      <3>6. /\ n >= 1 => disk[root].system = c.system
            /\ n >= 2 => disk[root].plan = c.plan
        BY <3>4, <3>5, SaveOrder DEF Text
      <3>7. next = "system" => disk'[root].system = c.system
        BY <1>1 DEF Text
      <3>8. next = "plan" => disk'[root].plan = c.plan
        BY <1>1 DEF Text
      <3>9. next = "workspace" => disk'[root].workspace = c.workspace
        BY <1>1 DEF Text
      <3>10. \E x, y, z \in 1 .. m :
                 /\ x >= y /\ y >= z
                 /\ disk'[root].system = past[x].system /\ disk'[root].plan = past[y].plan
                 /\ disk'[root].workspace \in {past[z].workspace, Damaged}
        <4>1. CASE n = 0
          <5>1. disk'[root].system = past[m].system /\ disk'[root].plan = past[j].plan
                /\ disk'[root].workspace \in {past[k].workspace, Damaged}
            BY <1>13, <2>3, <3>1, <3>4, <3>7, <4>1, SaveOrder
          <5> QED
            BY <3>1, <3>2, <5>1
        <4>2. CASE n = 1
          <5>1. disk'[root].system = past[m].system /\ disk'[root].plan = past[m].plan
                /\ disk'[root].workspace \in {past[k].workspace, Damaged}
            BY <1>13, <2>3, <3>1, <3>4, <3>6, <3>8, <4>2, SaveOrder
          <5> QED
            BY <3>1, <3>2, <5>1
        <4>3. CASE n = 2
          <5>1. disk'[root].system = past[m].system /\ disk'[root].plan = past[m].plan
                /\ disk'[root].workspace = past[m].workspace
            BY <1>13, <2>3, <3>4, <3>6, <3>9, <4>3, SaveOrder
          <5> QED
            BY <3>2, <5>1
        <4>4. CASE n = 3
          BY <1>13, <3>1, <3>4, <4>4, SaveOrder
        <4> QED
          BY <3>4, <4>1, <4>2, <4>3, <4>4
      <3> QED
        BY <2>1, <2>4, <2>7, <3>10
    <2> QED
      BY <2>5, <2>6, <2>7
  <1> QED
    BY <1>7, <1>8, <1>9, <1>11, <1>14, <1>16, <1>19, <1>20 DEF StoreInv

-----------------------------------------------------------------------------
LEMMA NextStore == StoreInv /\ [StoreNext]_storeVars => StoreInv'
  <1> SUFFICES ASSUME StoreInv, [StoreNext]_storeVars PROVE StoreInv'
    OBVIOUS
  <1>1. CASE UNCHANGED storeVars
    BY <1>1 DEF storeVars, StoreInv, Directories, Attempts, Active, OperationShape, FilesInPlace, SaveInProgress,
                NewDirectory, ProjectFileIsLast, PartsFollowSaves, Complete, Exists, Writing, AllWritten
  <1>2. CASE \E r \in Roots : Load(r) \/ SaveFilesAs(r) \/ DamageWorkspace(r)
    BY <1>2, LoadKeeps, SaveAsKeeps, DamageKeeps
  <1>3. CASE \E r \in Roots, c \in ValidContents : Create(r, c)
    BY <1>3, CreateKeeps
  <1>4. CASE project # Missing /\ \E p \in Replacements : SaveFiles(p)
    BY <1>4, SaveKeeps
  <1>5. CASE Stage \/ Rename \/ Finish \/ Fail \/ Crash
    BY <1>5, StageKeeps, RenameKeeps, FinishKeeps, FailKeeps, CrashKeeps
  <1>6. CASE (\E c \in ValidContents : ApplyDraft(c)) \/ (\E s \in Workspaces : SetWorkspace(s)) \/ Close
    BY <1>6, MemoryKeeps
  <1> QED
    BY <1>1, <1>2, <1>3, <1>4, <1>5, <1>6 DEF StoreNext

\* Whatever operations, failures and crashes there were: a directory with a project file has
\* every part, its parts follow the order of the saves, a completed operation left its
\* snapshot, and the active project is there (create_project, save_project, save_project_as).
THEOREM ProjectsStaySound == StoreSpec => []FilesSound
  <1>1. StoreInv => FilesSound
    BY CompletedLoad DEF StoreInv, FilesSound, Active, ActiveProjectSound, Fits
  <1> QED
    BY <1>1, InitStore, NextStore, PTL DEF StoreSpec

-----------------------------------------------------------------------------
(* Exported runs. *)

ExportSpec == ExportInit /\ [][ExportNext]_exportVars

\* The exports in progress, and what each has written after so many steps.
InProgress ==
    [step : 1 .. Len(ResultFiles) + 1, id : RunIds, suffix : 0 .. MaxSuffix, outcome : Outcomes]

Written(export) == [i \in 1 .. export.step - 1 |-> <<ResultFiles[i], export.outcome>>]

\* The directories are there to be filled, an export in progress fills one of its own whose
\* name is still free, and only published runs have a first outcome.
ExportInv ==
    /\ published \in [RunIds -> {None} \cup {Whole(o) : o \in Outcomes}]
    /\ DOMAIN exported = RunIds
    /\ DOMAIN temporary = RunIds
    /\ \A id \in RunIds : DOMAIN temporary[id] = 0 .. MaxSuffix
    /\ \A id \in RunIds : published[id] = None => exported[id] = None
    /\ exporting # NotExporting =>
           /\ exporting \in InProgress
           /\ published[exporting.id] = None
           /\ InTemporary = Written(exporting)
    /\ ExportsComplete

LEMMA FileCount == Len(ResultFiles) = 8 /\ DOMAIN ResultFiles = 1 .. 8
  BY DEF ResultFiles

\* One more file of an outcome extends the prefix that is written.
LEMMA OneMore ==
    ASSUME NEW export \in InProgress, export.step \in DOMAIN ResultFiles
    PROVE  /\ [export EXCEPT !.step = @ + 1] \in InProgress
           /\ Append(Written(export), <<ResultFiles[export.step], export.outcome>>)
                  = Written([export EXCEPT !.step = @ + 1])
  <1> DEFINE n == export.step
             next == [export EXCEPT !.step = @ + 1]
             row(i) == <<ResultFiles[i], export.outcome>>
  <1>1. n \in 1 .. 8 /\ next.step = n + 1 /\ next.outcome = export.outcome
    BY FileCount DEF InProgress
  <1>2. next \in InProgress
    BY <1>1, FileCount DEF InProgress
  <1>3. Written(export) = [i \in 1 .. n - 1 |-> row(i)] /\ Written(next) = [i \in 1 .. n |-> row(i)]
    BY <1>1 DEF Written
  <1>4. Append([i \in 1 .. n - 1 |-> row(i)], row(n)) = [i \in 1 .. n |-> row(i)]
    <2> HIDE DEF row
    <2> DEFINE rows == {row(i) : i \in 1 .. n}
               before == [i \in 1 .. n - 1 |-> row(i)]
               after == [i \in 1 .. n |-> row(i)]
    <2>1. before \in Seq(rows) /\ Len(before) = n - 1 /\ \A i \in 1 .. n - 1 : before[i] = row(i)
      BY <1>1, IsASeq
    <2>2. after \in Seq(rows) /\ Len(after) = n /\ \A i \in 1 .. n : after[i] = row(i)
      BY <1>1, IsASeq
    <2>3. row(n) \in rows
      BY <1>1
    <2> HIDE DEF rows, before, after
    <2>4. /\ Append(before, row(n)) \in Seq(rows) /\ Len(Append(before, row(n))) = n
          /\ \A i \in 1 .. n : Append(before, row(n))[i] = row(i)
      BY <1>1, <2>1, <2>3, AppendProperties
    <2>5. Append(before, row(n)) = after
      BY <2>2, <2>4, SeqEqual
    <2> QED BY <2>5 DEF before, after
  <1> QED
    BY <1>2, <1>3, <1>4

LEMMA InitExport == ExportInit => ExportInv
  BY DEF ExportInit, ExportInv, ExportsComplete, NotExporting

LEMMA BeginExportKeeps == ExportInv /\ BeginExport => ExportInv'
  <1> SUFFICES ASSUME ExportInv, BeginExport PROVE ExportInv'
    OBVIOUS
  <1>1. PICK id \in RunIds, outcome \in Outcomes, suffix \in 0 .. MaxSuffix :
            /\ published[id] = None
            /\ exporting' = [step |-> 1, id |-> id, suffix |-> suffix, outcome |-> outcome]
            /\ temporary' = [temporary EXCEPT ![id][suffix] = <<>>]
    BY DEF BeginExport
  <1>2. published' = published /\ exported' = exported
    BY DEF BeginExport
  <1>3. exporting' \in InProgress
    BY <1>1, FileCount DEF InProgress
  <1>4. Written(exporting)' = <<>>
    BY <1>1 DEF Written
  <1>5. InTemporary' = <<>>
    BY <1>1 DEF InTemporary, ExportInv
  <1>6. /\ DOMAIN temporary' = RunIds
        /\ \A r \in RunIds : DOMAIN temporary'[r] = 0 .. MaxSuffix
    BY <1>1 DEF ExportInv
  <1> QED
    BY <1>1, <1>2, <1>3, <1>4, <1>5, <1>6 DEF ExportInv, ExportsComplete

LEMMA WriteFileKeeps == ExportInv /\ WriteFile => ExportInv'
  <1> SUFFICES ASSUME ExportInv, WriteFile PROVE ExportInv'
    OBVIOUS
  <1>1. /\ exporting # NotExporting /\ exporting.step \in DOMAIN ResultFiles
        /\ exporting' = [exporting EXCEPT !.step = @ + 1]
        /\ published' = published /\ exported' = exported
    BY FileCount DEF WriteFile, NotExporting
  <1>2. /\ exporting \in InProgress /\ published[exporting.id] = None
        /\ InTemporary = Written(exporting)
    BY <1>1 DEF ExportInv
  <1>3. exporting' \in InProgress /\ exporting'.id = exporting.id /\ exporting'.suffix = exporting.suffix
    BY <1>1, <1>2, OneMore DEF InProgress
  <1>4. InTemporary' = Append(InTemporary, <<ResultFiles[exporting.step], exporting.outcome>>)
    BY <1>2, <1>3 DEF WriteFile, InTemporary, InProgress, ExportInv
  <1>5. InTemporary' = Written(exporting)'
    BY <1>1, <1>2, <1>4, OneMore DEF Written
  <1>6. /\ DOMAIN temporary' = RunIds
        /\ \A r \in RunIds : DOMAIN temporary'[r] = 0 .. MaxSuffix
    BY DEF WriteFile, ExportInv
  <1> QED
    BY <1>1, <1>2, <1>3, <1>5, <1>6 DEF ExportInv, ExportsComplete

LEMMA ExportFailureKeeps == ExportInv /\ (ExportFails \/ ProcessDies) => ExportInv'
  BY DEF ExportInv, ExportFails, ProcessDies, ExportsComplete

LEMMA RenameResultKeeps == ExportInv /\ RenameResult => ExportInv'
  <1> SUFFICES ASSUME ExportInv, RenameResult PROVE ExportInv'
    OBVIOUS
  <1>1. exporting # NotExporting
    BY FileCount DEF RenameResult, NotExporting
  <1>2. /\ exporting \in InProgress /\ published[exporting.id] = None
        /\ InTemporary = Written(exporting) /\ exported[exporting.id] = None
    BY <1>1 DEF ExportInv, InProgress
  <1>3. InTemporary = Whole(exporting.outcome)
    BY <1>2, FileCount DEF RenameResult, Written, Whole
  <1>4. /\ exporting.id \in RunIds /\ exporting.outcome \in Outcomes
        /\ published' = [published EXCEPT ![exporting.id] = Whole(exporting.outcome)]
        /\ exported' = [exported EXCEPT ![exporting.id] = exporting.outcome]
        /\ exporting' = NotExporting
    BY <1>2, <1>3 DEF RenameResult, InProgress, ExportInv
  <1>5. Whole(exporting.outcome) # None
    BY <1>4, ExportAssumption
  <1>6. /\ DOMAIN temporary' = RunIds
        /\ \A r \in RunIds : DOMAIN temporary'[r] = 0 .. MaxSuffix
    BY DEF RenameResult, ExportInv
  <1> HIDE DEF Whole
  <1> QED
    BY <1>4, <1>5, <1>6 DEF ExportInv, ExportsComplete

\* A result directory never holds part of an export, or parts of two, and is never written a
\* second time (export_run_result).
THEOREM ExportsAreWhole == ExportSpec => []ExportsComplete
  <1>1. ExportInv /\ [ExportNext]_exportVars => ExportInv'
    <2> SUFFICES ASSUME ExportInv, [ExportNext]_exportVars PROVE ExportInv'
      OBVIOUS
    <2>1. CASE UNCHANGED exportVars
      BY <2>1 DEF exportVars, ExportInv, ExportsComplete, InTemporary, Written
    <2> QED
      BY <2>1, BeginExportKeeps, WriteFileKeeps, ExportFailureKeeps, RenameResultKeeps DEF ExportNext
  <1>2. ExportInv => ExportsComplete
    BY DEF ExportInv
  <1> QED
    BY <1>1, <1>2, InitExport, PTL DEF ExportSpec

-----------------------------------------------------------------------------
(* Lists of recent projects. *)

FrontendSpec == FrontendInit /\ [][FrontendNext]_frontendVars

Entries == [file : Known, available : BOOLEAN]
Distinct(list) == \A i, j \in 1 .. Len(list) : list[i].file = list[j].file => i = j
Recents == {list \in Seq(Entries) : Distinct(list) /\ Len(list) <= MaxRecent}

\* Two lists name the same projects in the same order.
Alike(a, b) == Len(a) = Len(b) /\ \A i \in 1 .. Len(a) : a[i].file = b[i].file

\* A nonempty set of natural numbers has a least element.
LEMMA LeastNumber ==
  ASSUME NEW D \in SUBSET Nat, D # {}
  PROVE  \E n \in D : \A m \in D : n <= m
  <1>1. \E n \in D : \A m \in D : ~ (<<m, n>> \in OpToRel(<, Nat))
    BY NatLessThanWellFounded, WFMin
  <1>2. PICK n \in D : \A m \in D : ~ (<<m, n>> \in OpToRel(<, Nat))
    BY <1>1
  <1>3. ASSUME NEW m \in D PROVE n <= m
    <2>1. m \in Nat /\ n \in Nat
      OBVIOUS
    <2>2. ~ (m < n)
      BY <1>2, <2>1 DEF OpToRel
    <2> QED
      BY <2>1, <2>2
  <1> QED
    BY <1>3

\* A set that contains 0 and with a number below N the next one contains all of them.
LEMMA Counting ==
  ASSUME NEW N \in Nat, NEW S, 0 \in S, \A n \in 1 .. N : n - 1 \in S => n \in S
  PROVE  0 .. N \subseteq S
  <1> DEFINE T == (0 .. N) \ S
  <1>1. SUFFICES ASSUME T # {} PROVE FALSE
    OBVIOUS
  <1>2. PICK m \in T : \A n \in T : m <= n
    <2>1. T \in SUBSET Nat
      OBVIOUS
    <2> HIDE DEF T
    <2> QED
      BY <1>1, <2>1, LeastNumber
  <1>3. m \in 0 .. N /\ m \notin S /\ m # 0
    OBVIOUS
  <1>4. m - 1 \in 0 .. N /\ m - 1 \notin S
    BY <1>3
  <1> QED
    BY <1>2, <1>3, <1>4

\* The function f holds the results of the first k steps.
Steps(f, start, step, k) == f[0] = start /\ \A n \in 1 .. k : f[n] = step[n][f[n - 1]]

\* Whatever each step does to the values of V, the results of the first N steps are a function.
LEMMA Built ==
  ASSUME NEW V, NEW N \in Nat, NEW start \in V, NEW step \in [1 .. N -> [V -> V]]
  PROVE  \E f \in [0 .. N -> V] : Steps(f, start, step, N)
  <1> DEFINE S == {k \in 0 .. N : \E f \in [0 .. k -> V] : Steps(f, start, step, k)}
  <1>1. 0 \in S
    <2> DEFINE f == [k \in 0 .. 0 |-> start]
    <2>1. f \in [0 .. 0 -> V] /\ Steps(f, start, step, 0)
      BY DEF Steps
    <2> HIDE DEF f
    <2> QED
      BY <2>1
  <1>2. ASSUME NEW n \in 1 .. N, n - 1 \in S PROVE n \in S
    <2>1. PICK f \in [0 .. n - 1 -> V] : Steps(f, start, step, n - 1)
      BY <1>2
    <2> DEFINE g == [k \in 0 .. n |-> IF k = n THEN step[n][f[n - 1]] ELSE f[k]]
    <2>2. n - 1 \in 0 .. n - 1 /\ f[n - 1] \in V /\ step[n][f[n - 1]] \in V
      BY <2>1
    <2>3. g \in [0 .. n -> V]
      BY <2>1, <2>2
    <2>4. g[0] = start
      BY <2>1 DEF Steps
    <2>5. ASSUME NEW k \in 1 .. n PROVE g[k] = step[k][g[k - 1]]
      <3>1. g[k - 1] = f[k - 1]
        OBVIOUS
      <3>2. CASE k = n
        BY <3>1, <3>2
      <3>3. CASE k # n
        BY <2>1, <3>1, <3>3 DEF Steps
      <3> QED
        BY <3>2, <3>3
    <2> HIDE DEF g
    <2>6. Steps(g, start, step, n)
      BY <2>4, <2>5 DEF Steps
    <2> QED
      BY <2>3, <2>6
  <1>3. 0 .. N \subseteq S
    <2> HIDE DEF S
    <2> QED
      BY <1>1, <1>2, Counting
  <1>4. N \in S
    BY <1>3
  <1> QED
    BY <1>4

\* The definition of Removed by the list it builds entry by entry.
LEMMA RemovedMeans ==
  ASSUME NEW list \in Seq(Entries), NEW known
  PROVE  \E kept \in [0 .. Len(list) -> Seq(Entries)] :
             /\ kept[0] = <<>>
             /\ \A n \in 1 .. Len(list) :
                    kept[n] = IF list[n].file = known THEN kept[n - 1] ELSE Append(kept[n - 1], list[n])
             /\ Removed(list, known) = kept[Len(list)]
  <1> DEFINE N == Len(list)
             V == Seq(Entries)
             Next(f) == [n \in 0 .. N |->
                           IF n = 0 THEN <<>>
                           ELSE IF list[n].file = known THEN f[n - 1] ELSE Append(f[n - 1], list[n])]
             step == [n \in 1 .. N |->
                        [v \in V |-> IF list[n].file = known THEN v ELSE Append(v, list[n])]]
  <1>1. N \in Nat /\ <<>> \in V /\ step \in [1 .. N -> [V -> V]]
    OBVIOUS
  <1>2. PICK f \in [0 .. N -> V] : Steps(f, <<>>, step, N)
    <2> HIDE DEF N, V, step
    <2> QED
      BY <1>1, Built
  <1>3. ASSUME NEW n \in 1 .. N
        PROVE  f[n] = IF list[n].file = known THEN f[n - 1] ELSE Append(f[n - 1], list[n])
    <2>1. n - 1 \in 0 .. N
      BY <1>1
    <2>2. f[n - 1] \in V /\ f[n] = step[n][f[n - 1]]
      BY <1>2, <2>1 DEF Steps
    <2> QED
      BY <2>2
  <1>4. f[0] = <<>> /\ DOMAIN f = 0 .. N
    BY <1>2 DEF Steps
  <1>5. f = Next(f)
    <2>1. ASSUME NEW n \in 0 .. N PROVE f[n] = Next(f)[n]
      <3>1. CASE n = 0
        BY <1>4, <3>1
      <3>2. CASE n # 0
        <4>1. n \in 1 .. N
          BY <1>1, <3>2
        <4> HIDE DEF N
        <4> QED
          BY <1>3, <3>2, <4>1
      <3> QED
        BY <3>1, <3>2
    <2> HIDE DEF N
    <2> QED
      BY <1>4, <2>1
  <1> DEFINE kept == CHOOSE g : g = Next(g)
  <1>6. Removed(list, known) = kept[N]
    BY DEF Removed
  <1>7. kept = Next(kept)
    <2> HIDE DEF Next
    <2> QED
      BY <1>5
  <1>8. DOMAIN kept = 0 .. N /\ kept[0] = <<>>
    <2> HIDE DEF kept
    <2> QED
      BY <1>1, <1>7
  <1>9. ASSUME NEW n \in 1 .. N
        PROVE  kept[n] = IF list[n].file = known THEN kept[n - 1] ELSE Append(kept[n - 1], list[n])
    <2> HIDE DEF kept
    <2>1. n \in 0 .. N /\ n # 0
      OBVIOUS
    <2> HIDE DEF N
    <2> QED
      BY <1>7, <2>1
  <1> HIDE DEF N, V, step, kept
  <1>10. kept = f
    <2> DEFINE S == {n \in 0 .. N : kept[n] = f[n]}
    <2>1. 0 \in S
      BY <1>1, <1>4, <1>8
    <2>2. ASSUME NEW n \in 1 .. N, n - 1 \in S PROVE n \in S
      BY <1>3, <1>9, <2>2
    <2>3. 0 .. N \subseteq S
      <3> HIDE DEF S
      <3> QED
        BY <1>1, <2>1, <2>2, Counting
    <2> QED
      BY <1>2, <1>7, <1>8, <2>3
  <1> QED
    BY <1>2, <1>3, <1>4, <1>6, <1>10 DEF N, V

\* What is left are entries of the list, in their order, and none of the project's.
Remains(rest, list, n, known) ==
    \E place \in [1 .. Len(rest) -> 1 .. n] :
        /\ \A i \in 1 .. Len(rest) : rest[i] = list[place[i]] /\ rest[i].file # known
        /\ \A i, j \in 1 .. Len(rest) : i < j => place[i] < place[j]

LEMMA RemovedRemains ==
  ASSUME NEW list \in Seq(Entries), NEW known
  PROVE  Removed(list, known) \in Seq(Entries) /\ Remains(Removed(list, known), list, Len(list), known)
  <1>1. PICK kept \in [0 .. Len(list) -> Seq(Entries)] :
             /\ kept[0] = <<>>
             /\ \A n \in 1 .. Len(list) :
                    kept[n] = IF list[n].file = known THEN kept[n - 1] ELSE Append(kept[n - 1], list[n])
             /\ Removed(list, known) = kept[Len(list)]
    BY RemovedMeans
  <1> DEFINE S == {n \in 0 .. Len(list) : Remains(kept[n], list, n, known)}
  <1>2. Len(list) \in Nat
    OBVIOUS
  <1>3. 0 \in S
    <2> DEFINE place == [i \in 1 .. 0 |-> i]
    <2>1. place \in [1 .. Len(<<>>) -> 1 .. 0] /\ Len(<<>>) = 0
      OBVIOUS
    <2> HIDE DEF place
    <2>2. Remains(<<>>, list, 0, known)
      BY <2>1 DEF Remains
    <2> QED
      BY <1>1, <1>2, <2>2
  <1>4. ASSUME NEW n \in 1 .. Len(list), n - 1 \in S PROVE n \in S
    <2> DEFINE old == kept[n - 1]
    <2>1. /\ n - 1 \in 0 .. Len(list) /\ n \in 0 .. Len(list)
          /\ old \in Seq(Entries) /\ kept[n] \in Seq(Entries)
          /\ list[n] \in Entries
          /\ kept[n] = IF list[n].file = known THEN old ELSE Append(old, list[n])
      <3>1. n - 1 \in 0 .. Len(list) /\ n \in 0 .. Len(list)
        BY <1>2
      <3>2. list[n] \in Entries
        BY <1>2
      <3> QED
        BY <1>1, <3>1, <3>2
    <2>2. PICK place \in [1 .. Len(old) -> 1 .. n - 1] :
              /\ \A i \in 1 .. Len(old) : old[i] = list[place[i]] /\ old[i].file # known
              /\ \A i, j \in 1 .. Len(old) : i < j => place[i] < place[j]
      BY <1>4 DEF Remains
    <2> HIDE DEF old
    <2>3. CASE list[n].file = known
      <3>1. place \in [1 .. Len(old) -> 1 .. n]
        BY <1>2, <2>1, <2>2
      <3>2. Remains(old, list, n, known)
        BY <2>2, <3>1 DEF Remains
      <3> QED
        BY <2>1, <2>3, <3>2
    <2>4. CASE list[n].file # known
      <3> DEFINE new == Append(old, list[n])
                 more == [i \in 1 .. Len(new) |-> IF i = Len(new) THEN n ELSE place[i]]
      <3>1. /\ Len(new) = Len(old) + 1 /\ Len(old) \in Nat
            /\ new[Len(new)] = list[n]
            /\ \A i \in 1 .. Len(old) : new[i] = old[i]
        BY <2>1
      <3> HIDE DEF new
      <3>2. more \in [1 .. Len(new) -> 1 .. n]
        BY <1>2, <2>2, <3>1
      <3>3. ASSUME NEW i \in 1 .. Len(new) PROVE new[i] = list[more[i]] /\ new[i].file # known
        <4>1. CASE i = Len(new)
          BY <2>4, <3>1, <4>1
        <4>2. CASE i # Len(new)
          BY <2>2, <3>1, <4>2
        <4> QED
          BY <4>1, <4>2
      <3>4. ASSUME NEW i \in 1 .. Len(new), NEW j \in 1 .. Len(new), i < j PROVE more[i] < more[j]
        <4>1. i \in 1 .. Len(old) /\ more[i] = place[i]
          BY <3>1, <3>4
        <4>2. CASE j = Len(new)
          <5>1. place[i] \in 1 .. n - 1 /\ more[j] = n
            BY <2>2, <4>1, <4>2
          <5> QED
            BY <1>2, <4>1, <5>1
        <4>3. CASE j # Len(new)
          <5>1. j \in 1 .. Len(old) /\ more[j] = place[j]
            BY <3>1, <4>3
          <5> QED
            BY <2>2, <3>4, <4>1, <5>1
        <4> QED
          BY <4>2, <4>3
      <3> HIDE DEF more
      <3>5. Remains(new, list, n, known)
        BY <3>2, <3>3, <3>4 DEF Remains
      <3> QED
        BY <2>1, <2>4, <3>5 DEF new
    <2> QED
      BY <2>3, <2>4
  <1>5. 0 .. Len(list) \subseteq S
    <2> HIDE DEF S
    <2> QED
      BY <1>2, <1>3, <1>4, Counting
  <1> QED
    BY <1>1, <1>2, <1>5

\* Removing a project from a list leaves at most as many entries, all of other projects and
\* no project twice.
LEMMA RemovedKeeps ==
  ASSUME NEW list \in Recents, NEW known
  PROVE  /\ Removed(list, known) \in Recents
         /\ Len(Removed(list, known)) <= Len(list)
         /\ \A i \in 1 .. Len(Removed(list, known)) : Removed(list, known)[i].file # known
  <1> DEFINE rest == Removed(list, known)
  <1>1. list \in Seq(Entries) /\ Distinct(list) /\ Len(list) <= MaxRecent /\ Len(list) \in Nat
    BY DEF Recents
  <1>2. rest \in Seq(Entries) /\ Remains(rest, list, Len(list), known)
    BY <1>1, RemovedRemains
  <1> HIDE DEF rest
  <1>3. PICK place \in [1 .. Len(rest) -> 1 .. Len(list)] :
            /\ \A i \in 1 .. Len(rest) : rest[i] = list[place[i]] /\ rest[i].file # known
            /\ \A i, j \in 1 .. Len(rest) : i < j => place[i] < place[j]
    BY <1>2 DEF Remains
  <1>4. Len(rest) \in Nat
    BY <1>2
  <1>5. Distinct(rest)
    <2> SUFFICES ASSUME NEW i \in 1 .. Len(rest), NEW j \in 1 .. Len(rest), rest[i].file = rest[j].file, i # j
                 PROVE  FALSE
      BY DEF Distinct
    <2>1. place[i] \in 1 .. Len(list) /\ place[j] \in 1 .. Len(list)
      BY <1>3
    <2>2. place[i] = place[j]
      BY <1>1, <1>3, <2>1 DEF Distinct
    <2>3. i < j \/ j < i
      BY <1>4
    <2> QED
      BY <1>1, <1>3, <2>1, <2>2, <2>3
  <1>6. Len(rest) <= Len(list)
    <2> DEFINE S == {n \in 0 .. Len(rest) : n = 0 \/ n <= place[n]}
    <2>1. 0 \in S
      BY <1>4
    <2>2. ASSUME NEW n \in 1 .. Len(rest), n - 1 \in S PROVE n \in S
      <3>1. place[n] \in 1 .. Len(list)
        BY <1>3
      <3>2. CASE n = 1
        BY <1>1, <3>1, <3>2
      <3>3. CASE n # 1
        <4>1. n - 1 \in 1 .. Len(rest) /\ n - 1 < n
          BY <1>4, <3>3
        <4>2. place[n - 1] < place[n] /\ place[n - 1] \in 1 .. Len(list) /\ n - 1 <= place[n - 1]
          BY <1>3, <2>2, <3>3, <4>1
        <4> QED
          BY <1>1, <3>1, <4>2
      <3> QED
        BY <3>2, <3>3
    <2>3. 0 .. Len(rest) \subseteq S
      <3> HIDE DEF S
      <3> QED
        BY <1>4, <2>1, <2>2, Counting
    <2>4. Len(rest) \in S
      BY <1>4, <2>3
    <2>5. CASE Len(rest) = 0
      BY <1>1, <2>5
    <2>6. CASE Len(rest) # 0
      <3>1. Len(rest) <= place[Len(rest)] /\ place[Len(rest)] \in 1 .. Len(list)
        BY <1>3, <1>4, <2>4, <2>6
      <3> QED
        BY <1>1, <1>4, <3>1
    <2> QED
      BY <2>5, <2>6
  <1>7. rest \in Recents
    BY <1>1, <1>2, <1>4, <1>5, <1>6, FrontendAssumption DEF Recents, FrontendAssumption
  <1> QED
    BY <1>3, <1>6, <1>7 DEF rest

\* Removing a project that is not listed changes nothing.
LEMMA RemovedAbsent ==
  ASSUME NEW list \in Seq(Entries), NEW known, \A i \in 1 .. Len(list) : list[i].file # known
  PROVE  Removed(list, known) = list
  <1>1. PICK kept \in [0 .. Len(list) -> Seq(Entries)] :
             /\ kept[0] = <<>>
             /\ \A n \in 1 .. Len(list) :
                    kept[n] = IF list[n].file = known THEN kept[n - 1] ELSE Append(kept[n - 1], list[n])
             /\ Removed(list, known) = kept[Len(list)]
    BY RemovedMeans
  <1> DEFINE S == {n \in 0 .. Len(list) : Len(kept[n]) = n /\ \A i \in 1 .. n : kept[n][i] = list[i]}
  <1>2. Len(list) \in Nat
    OBVIOUS
  <1>3. 0 \in S
    BY <1>1, <1>2
  <1>4. ASSUME NEW n \in 1 .. Len(list), n - 1 \in S PROVE n \in S
    <2>1. n - 1 \in 0 .. Len(list) /\ list[n] \in Entries
      BY <1>2
    <2>2. kept[n] = Append(kept[n - 1], list[n]) /\ kept[n - 1] \in Seq(Entries)
      BY <1>1, <2>1
    <2>3. Len(kept[n - 1]) = n - 1 /\ \A i \in 1 .. n - 1 : kept[n - 1][i] = list[i]
      BY <1>4
    <2>4. Len(kept[n]) = n
      BY <2>1, <2>2, <2>3
    <2>5. \A i \in 1 .. n : kept[n][i] = list[i]
      BY <2>1, <2>2, <2>3
    <2> QED
      BY <1>2, <2>4, <2>5
  <1>5. 0 .. Len(list) \subseteq S
    <2> HIDE DEF S
    <2> QED
      BY <1>2, <1>3, <1>4, Counting
  <1>6. Len(list) \in 0 .. Len(list) /\ kept[Len(list)] \in Seq(Entries)
    BY <1>1, <1>2
  <1>7. Len(kept[Len(list)]) = Len(list) /\ \A i \in 1 .. Len(list) : kept[Len(list)][i] = list[i]
    BY <1>5, <1>6
  <1> QED
    BY <1>1, <1>6, <1>7, SeqEqual

\* Which projects are left, and in which order, depends only on the projects listed.
LEMMA RemovedAlike ==
  ASSUME NEW a \in Seq(Entries), NEW b \in Seq(Entries), NEW known, Alike(a, b)
  PROVE  Alike(Removed(a, known), Removed(b, known))
  <1>1. PICK f \in [0 .. Len(a) -> Seq(Entries)] :
             /\ f[0] = <<>>
             /\ \A n \in 1 .. Len(a) : f[n] = IF a[n].file = known THEN f[n - 1] ELSE Append(f[n - 1], a[n])
             /\ Removed(a, known) = f[Len(a)]
    BY RemovedMeans
  <1>2. PICK g \in [0 .. Len(b) -> Seq(Entries)] :
             /\ g[0] = <<>>
             /\ \A n \in 1 .. Len(b) : g[n] = IF b[n].file = known THEN g[n - 1] ELSE Append(g[n - 1], b[n])
             /\ Removed(b, known) = g[Len(b)]
    BY RemovedMeans
  <1> DEFINE S == {n \in 0 .. Len(a) : Alike(f[n], g[n])}
  <1>3. Len(a) \in Nat /\ Len(b) = Len(a)
    BY DEF Alike
  <1>4. 0 \in S
    BY <1>1, <1>2, <1>3 DEF Alike
  <1>5. ASSUME NEW n \in 1 .. Len(a), n - 1 \in S PROVE n \in S
    <2>1. /\ n - 1 \in 0 .. Len(a) /\ n - 1 \in 0 .. Len(b) /\ n \in 1 .. Len(b)
          /\ a[n] \in Entries /\ b[n] \in Entries
          /\ a[n].file = b[n].file
      BY <1>3 DEF Alike
    <2>2. f[n - 1] \in Seq(Entries) /\ g[n - 1] \in Seq(Entries)
      BY <1>1, <1>2, <2>1
    <2>3. Alike(f[n - 1], g[n - 1])
      BY <1>5
    <2>4. CASE a[n].file = known
      <3>1. f[n] = f[n - 1] /\ g[n] = g[n - 1]
        BY <1>1, <1>2, <2>1, <2>4
      <3> QED
        BY <2>3, <3>1
    <2>5. CASE a[n].file # known
      <3>1. f[n] = Append(f[n - 1], a[n]) /\ g[n] = Append(g[n - 1], b[n])
        BY <1>1, <1>2, <2>1, <2>5
      <3>2. Alike(f[n], g[n])
        BY <2>1, <2>2, <2>3, <3>1 DEF Alike
      <3> QED
        BY <1>3, <3>2
    <2> QED
      BY <2>4, <2>5
  <1>6. 0 .. Len(a) \subseteq S
    <2> HIDE DEF S
    <2> QED
      BY <1>3, <1>4, <1>5, Counting
  <1>7. Len(a) \in S
    BY <1>3, <1>6
  <1> QED
    BY <1>1, <1>2, <1>3, <1>7

\* A project that is recorded comes first and is listed once; the list stays within its bound.
LEMMA RecordedKeeps ==
  ASSUME NEW list \in Recents, NEW known \in Known, NEW readable
  PROVE  /\ Recorded(list, known, readable) \in Recents
         /\ Recorded(list, known, readable) # <<>>
         /\ Recorded(list, known, readable)[1].file = known
  <1> DEFINE rest == Removed(list, known)
             entry == [file |-> known, available |-> known \in readable]
             all == <<entry>> \o rest
             size == IF Len(all) > MaxRecent THEN MaxRecent ELSE Len(all)
  <1>1. /\ rest \in Seq(Entries) /\ Distinct(rest)
        /\ \A i \in 1 .. Len(rest) : rest[i].file # known
    BY RemovedKeeps DEF Recents
  <1>2. entry \in Entries /\ entry.file = known
    BY DEF Entries
  <1> HIDE DEF rest, entry
  <1>3. /\ all \in Seq(Entries) /\ Len(all) = Len(rest) + 1 /\ Len(rest) \in Nat
        /\ all[1] = entry /\ \A i \in 2 .. Len(all) : all[i] = rest[i - 1] /\ i - 1 \in 1 .. Len(rest)
    BY <1>1, <1>2
  <1> HIDE DEF all
  <1>4. Distinct(all)
    <2> SUFFICES ASSUME NEW i \in 1 .. Len(all), NEW j \in 1 .. Len(all), all[i].file = all[j].file, i # j
                 PROVE  FALSE
      BY DEF Distinct
    <2>1. CASE i = 1
      BY <1>1, <1>2, <1>3, <2>1
    <2>2. CASE j = 1
      BY <1>1, <1>2, <1>3, <2>2
    <2>3. CASE i # 1 /\ j # 1
      <3>1. i \in 2 .. Len(all) /\ j \in 2 .. Len(all)
        BY <1>3, <2>3
      <3> QED
        BY <1>1, <1>3, <3>1 DEF Distinct
    <2> QED
      BY <2>1, <2>2, <2>3
  <1>5. size \in 1 .. Len(all) /\ size <= MaxRecent /\ MaxRecent \in Nat
    BY <1>3, FrontendAssumption DEF FrontendAssumption
  <1> HIDE DEF size
  <1>6. /\ SubSeq(all, 1, size) \in Seq(Entries) /\ Len(SubSeq(all, 1, size)) = size
        /\ \A i \in 1 .. size : SubSeq(all, 1, size)[i] = all[i]
    BY <1>3, <1>5
  <1>7. Distinct(SubSeq(all, 1, size))
    BY <1>3, <1>4, <1>5, <1>6 DEF Distinct
  <1>8. Recorded(list, known, readable) = SubSeq(all, 1, size)
    BY DEF Recorded, Shortened, all, rest, entry, size
  <1> DEFINE short == SubSeq(all, 1, size)
  <1>9. short[1].file = known /\ short # <<>>
    BY <1>2, <1>3, <1>5, <1>6
  <1> HIDE DEF short
  <1>10. short \in Recents
    BY <1>5, <1>6, <1>7 DEF short, Recents
  <1> QED
    BY <1>8, <1>9, <1>10 DEF short

\* The projects listed after one is recorded do not depend on which of them can be read.
LEMMA RecordedAlike ==
  ASSUME NEW a \in Recents, NEW b \in Recents, NEW known \in Known, NEW r, NEW s, Alike(a, b)
  PROVE  Alike(Recorded(a, known, r), Recorded(b, known, s))
  <1> DEFINE ra == Removed(a, known)
             rb == Removed(b, known)
             ea == [file |-> known, available |-> known \in r]
             eb == [file |-> known, available |-> known \in s]
             la == <<ea>> \o ra
             lb == <<eb>> \o rb
             size == IF Len(la) > MaxRecent THEN MaxRecent ELSE Len(la)
  <1>1. a \in Seq(Entries) /\ b \in Seq(Entries)
    BY DEF Recents
  <1>2. ra \in Seq(Entries) /\ rb \in Seq(Entries) /\ Alike(ra, rb)
    BY <1>1, RemovedAlike, RemovedKeeps DEF Recents
  <1>3. ea \in Entries /\ eb \in Entries /\ ea.file = eb.file
    BY DEF Entries
  <1> HIDE DEF ra, rb, ea, eb
  <1>4. la \in Seq(Entries) /\ lb \in Seq(Entries) /\ Alike(la, lb) /\ Len(la) \in Nat \ {0}
    <2>1. /\ la \in Seq(Entries) /\ Len(la) = Len(ra) + 1 /\ Len(ra) \in Nat
          /\ la[1] = ea /\ \A i \in 2 .. Len(la) : la[i] = ra[i - 1] /\ i - 1 \in 1 .. Len(ra)
      BY <1>2, <1>3
    <2>2. /\ lb \in Seq(Entries) /\ Len(lb) = Len(rb) + 1 /\ Len(rb) \in Nat
          /\ lb[1] = eb /\ \A i \in 2 .. Len(lb) : lb[i] = rb[i - 1] /\ i - 1 \in 1 .. Len(rb)
      BY <1>2, <1>3
    <2> HIDE DEF la, lb
    <2>3. Len(la) = Len(lb)
      BY <1>2, <2>1, <2>2 DEF Alike
    <2>4. ASSUME NEW i \in 1 .. Len(la) PROVE la[i].file = lb[i].file
      <3>1. CASE i = 1
        BY <1>3, <2>1, <2>2, <3>1
      <3>2. CASE i # 1
        <4>1. i \in 2 .. Len(la) /\ i \in 2 .. Len(lb)
          BY <2>1, <2>3, <3>2
        <4> QED
          BY <1>2, <2>1, <2>2, <4>1 DEF Alike
      <3> QED
        BY <3>1, <3>2
    <2> QED
      BY <2>1, <2>2, <2>3, <2>4 DEF Alike
  <1> HIDE DEF la, lb
  <1>5. size \in 1 .. Len(la)
    BY <1>4, FrontendAssumption DEF FrontendAssumption
  <1>6. Recorded(a, known, r) = SubSeq(la, 1, size) /\ Recorded(b, known, s) = SubSeq(lb, 1, size)
    BY <1>4 DEF Recorded, Shortened, la, lb, ra, rb, ea, eb, Alike
  <1> HIDE DEF size
  <1>7. Alike(SubSeq(la, 1, size), SubSeq(lb, 1, size))
    BY <1>4, <1>5 DEF Alike
  <1> QED
    BY <1>6, <1>7

\* Recording a project that is not listed puts it before the others, where there is room.
LEMMA RecordedAbsent ==
  ASSUME NEW list \in Recents, NEW known \in Known, NEW readable,
         \A i \in 1 .. Len(list) : list[i].file # known, Len(list) < MaxRecent
  PROVE  LET added == Recorded(list, known, readable)
         IN  /\ Len(added) = Len(list) + 1 /\ added[1].file = known
             /\ \A i \in 1 .. Len(list) : added[i + 1] = list[i]
  <1> DEFINE entry == [file |-> known, available |-> known \in readable]
             all == <<entry>> \o list
  <1>1. list \in Seq(Entries) /\ Removed(list, known) = list /\ Len(list) \in Nat
    BY RemovedAbsent DEF Recents
  <1>2. entry \in Entries /\ entry.file = known
    BY DEF Entries
  <1> HIDE DEF entry
  <1>3. /\ all \in Seq(Entries) /\ Len(all) = Len(list) + 1 /\ all[1] = entry
        /\ \A i \in 1 .. Len(list) : all[i + 1] = list[i]
    BY <1>1, <1>2
  <1> HIDE DEF all
  <1>4. Recorded(list, known, readable) = SubSeq(all, 1, Len(all))
    BY <1>1, <1>3, FrontendAssumption DEF Recorded, Shortened, all, entry, FrontendAssumption
  <1>5. SubSeq(all, 1, Len(all)) = all
    <2>1. /\ SubSeq(all, 1, Len(all)) \in Seq(Entries) /\ Len(SubSeq(all, 1, Len(all))) = Len(all)
          /\ \A i \in 1 .. Len(all) : SubSeq(all, 1, Len(all))[i] = all[i]
      BY <1>1, <1>3
    <2> QED
      BY <1>3, <2>1, SeqEqual
  <1> QED
    BY <1>2, <1>3, <1>4, <1>5

-----------------------------------------------------------------------------
(* The preferences file. *)

PathLists == Seq({<<>>} \cup Known \X Nat)
PreferenceFiles == {Nowhere, <<"damaged">>} \cup {"list"} \X PathLists

\* The paths that are read: the first ones, as many as the list may hold.
LEMMA ShortenedPaths ==
  ASSUME NEW S, NEW paths \in Seq(S)
  PROVE  /\ Shortened(paths) \in Seq(S) /\ Len(Shortened(paths)) <= MaxRecent
         /\ Len(paths) <= MaxRecent => Len(Shortened(paths)) = Len(paths)
         /\ \A i \in 1 .. Len(Shortened(paths)) : Shortened(paths)[i] = paths[i]
  <1> DEFINE size == IF Len(paths) > MaxRecent THEN MaxRecent ELSE Len(paths)
  <1>1. size \in 0 .. Len(paths) /\ size <= MaxRecent /\ (Len(paths) <= MaxRecent => size = Len(paths))
    BY FrontendAssumption DEF FrontendAssumption
  <1>2. Shortened(paths) = SubSeq(paths, 1, size)
    BY DEF Shortened
  <1> HIDE DEF size
  <1> QED
    BY <1>1, <1>2

\* The definition of LoadedRecents by the list it builds path by path.
LEMMA LoadedMeans ==
  ASSUME NEW paths \in PathLists, NEW readable,
         <<"list", paths>> # Nowhere, <<>> \notin ToSet(Shortened(paths))
  PROVE  LET read == Shortened(paths)
         IN  \E added \in [0 .. Len(read) -> Recents] :
                 /\ added[0] = <<>>
                 /\ \A n \in 1 .. Len(read) :
                        /\ Normal(read[Len(read) + 1 - n]) \in Known
                        /\ added[n] = Recorded(added[n - 1], Normal(read[Len(read) + 1 - n]), readable)
                 /\ LoadedRecents(<<"list", paths>>, readable) = added[Len(read)]
  <1> DEFINE read == Shortened(paths)
             N == Len(read)
             at(n) == Normal(read[N + 1 - n])
             V == Recents
             Next(f) == [n \in 0 .. N |-> IF n = 0 THEN <<>> ELSE Recorded(f[n - 1], at(n), readable)]
             step == [n \in 1 .. N |-> [v \in V |-> Recorded(v, at(n), readable)]]
  <1>1. read \in PathLists /\ N \in Nat
    BY ShortenedPaths DEF PathLists
  <1>2. ASSUME NEW n \in 1 .. N PROVE at(n) \in Known
    <2>1. N + 1 - n \in 1 .. N
      BY <1>1
    <2>2. read[N + 1 - n] \in {<<>>} \cup Known \X Nat
      BY <1>1, <2>1 DEF PathLists
    <2>3. read[N + 1 - n] # <<>>
      BY <1>1, <2>1 DEF ToSet, PathLists
    <2> QED
      BY <2>2, <2>3 DEF Normal
  <1>3. <<>> \in V
    BY FrontendAssumption DEF Recents, Distinct, FrontendAssumption
  <1>4. step \in [1 .. N -> [V -> V]]
    <2> HIDE DEF N, read
    <2> QED
      BY <1>2, RecordedKeeps
  <1>5. PICK f \in [0 .. N -> V] : Steps(f, <<>>, step, N)
    <2> HIDE DEF N, V, step
    <2> QED
      BY <1>1, <1>3, <1>4, Built
  <1>6. ASSUME NEW n \in 1 .. N PROVE f[n] = Recorded(f[n - 1], at(n), readable)
    <2> HIDE DEF read
    <2>1. n - 1 \in 0 .. N
      BY <1>1
    <2>2. f[n - 1] \in V /\ f[n] = step[n][f[n - 1]]
      BY <1>5, <2>1 DEF Steps
    <2> HIDE DEF N, at
    <2> QED
      BY <2>2
  <1>7. f[0] = <<>> /\ DOMAIN f = 0 .. N
    BY <1>5 DEF Steps
  <1>8. f = Next(f)
    <2> HIDE DEF at
    <2>1. ASSUME NEW n \in 0 .. N PROVE f[n] = Next(f)[n]
      <3> HIDE DEF read
      <3>1. CASE n = 0
        BY <1>7, <3>1
      <3>2. CASE n # 0
        <4>1. n \in 1 .. N
          BY <1>1, <3>2
        <4> HIDE DEF N
        <4> QED
          BY <1>6, <3>2, <4>1
      <3> QED
        BY <3>1, <3>2
    <2> HIDE DEF N
    <2> QED
      BY <1>7, <2>1
  <1> DEFINE added == CHOOSE g : g = Next(g)
  <1>9. LoadedRecents(<<"list", paths>>, readable) = added[N]
    BY DEF LoadedRecents
  <1>10. added = Next(added)
    <2> HIDE DEF Next
    <2> QED
      BY <1>8
  <1>11. DOMAIN added = 0 .. N /\ added[0] = <<>>
    <2> HIDE DEF added, read
    <2> QED
      BY <1>1, <1>10
  <1>12. ASSUME NEW n \in 1 .. N PROVE added[n] = Recorded(added[n - 1], at(n), readable)
    <2> HIDE DEF added, at, read
    <2>1. n \in 0 .. N /\ n # 0
      OBVIOUS
    <2> HIDE DEF N
    <2> QED
      BY <1>10, <2>1
  <1> HIDE DEF N, V, step, added, at, read
  <1>13. added = f
    <2> DEFINE S == {n \in 0 .. N : added[n] = f[n]}
    <2>1. 0 \in S
      BY <1>1, <1>7, <1>11
    <2>2. ASSUME NEW n \in 1 .. N, n - 1 \in S PROVE n \in S
      BY <1>6, <1>12, <2>2
    <2>3. 0 .. N \subseteq S
      <3> HIDE DEF S
      <3> QED
        BY <1>1, <2>1, <2>2, Counting
    <2> QED
      BY <1>5, <1>10, <1>11, <2>3
  <1> QED
    BY <1>2, <1>5, <1>6, <1>7, <1>9, <1>13 DEF N, V, at, read

\* A list that is loaded is one the program could have built, and which projects are in it does
\* not depend on which of them can be read.
LEMMA LoadedAlike ==
  ASSUME NEW file \in PreferenceFiles, NEW r, NEW s
  PROVE  /\ LoadedRecents(file, r) \in Recents /\ LoadedRecents(file, s) \in Recents
         /\ Alike(LoadedRecents(file, r), LoadedRecents(file, s))
  <1>1. <<>> \in Recents /\ Alike(<<>>, <<>>)
    BY FrontendAssumption DEF Recents, Distinct, Alike, FrontendAssumption
  <1>2. CASE file \in {Nowhere, <<"damaged">>}
    BY <1>1, <1>2 DEF LoadedRecents
  <1>3. CASE file # Nowhere /\ file # <<"damaged">>
    <2>1. PICK paths \in PathLists : file = <<"list", paths>>
      BY <1>3 DEF PreferenceFiles
    <2> DEFINE read == Shortened(paths)
               N == Len(read)
               at(n) == Normal(read[N + 1 - n])
    <2>2. CASE <<>> \in ToSet(read)
      BY <1>1, <1>3, <2>1, <2>2 DEF LoadedRecents
    <2>3. CASE <<>> \notin ToSet(read)
      <3>1. PICK f \in [0 .. N -> Recents] :
                /\ f[0] = <<>>
                /\ \A n \in 1 .. N : at(n) \in Known /\ f[n] = Recorded(f[n - 1], at(n), r)
                /\ LoadedRecents(file, r) = f[N]
        BY <1>3, <2>1, <2>3, LoadedMeans
      <3>2. PICK g \in [0 .. N -> Recents] :
                /\ g[0] = <<>>
                /\ \A n \in 1 .. N : at(n) \in Known /\ g[n] = Recorded(g[n - 1], at(n), s)
                /\ LoadedRecents(file, s) = g[N]
        BY <1>3, <2>1, <2>3, LoadedMeans
      <3>3. N \in Nat
        BY ShortenedPaths DEF PathLists
      <3> HIDE DEF N, at, read
      <3> DEFINE S == {n \in 0 .. N : Alike(f[n], g[n])}
      <3>4. 0 \in S
        BY <1>1, <3>1, <3>2, <3>3
      <3>5. ASSUME NEW n \in 1 .. N, n - 1 \in S PROVE n \in S
        <4>1. f[n - 1] \in Recents /\ g[n - 1] \in Recents /\ Alike(f[n - 1], g[n - 1]) /\ n \in 0 .. N
          BY <3>1, <3>2, <3>3, <3>5
        <4>2. Alike(Recorded(f[n - 1], at(n), r), Recorded(g[n - 1], at(n), s))
          BY <3>1, <4>1, RecordedAlike
        <4> QED
          BY <3>1, <3>2, <4>1, <4>2
      <3>6. 0 .. N \subseteq S
        <4> HIDE DEF S
        <4> QED
          BY <3>3, <3>4, <3>5, Counting
      <3>7. N \in S /\ N \in 0 .. N
        BY <3>3, <3>6
      <3> QED
        BY <3>1, <3>2, <3>7
    <2> QED
      BY <2>2, <2>3
  <1> QED
    BY <1>2, <1>3 DEF PreferenceFiles

\* A list that is saved loads as itself.
LEMMA SavedReadsBack ==
  ASSUME NEW list \in Recents, NEW readable
  PROVE  SavedRecents(list) \in PreferenceFiles /\ Alike(LoadedRecents(SavedRecents(list), readable), list)
  <1> DEFINE paths == [i \in DOMAIN list |-> <<list[i].file, 1>>]
             read == Shortened(paths)
             N == Len(list)
  <1>1. /\ list \in Seq(Entries) /\ Distinct(list) /\ Len(list) <= MaxRecent /\ N \in Nat
        /\ DOMAIN list = 1 .. N /\ \A i \in 1 .. N : list[i].file \in Known
    <2>1. list \in Seq(Entries) /\ Distinct(list) /\ Len(list) <= MaxRecent
      BY DEF Recents
    <2>2. \A i \in 1 .. N : list[i] \in Entries
      BY <2>1
    <2> QED
      BY <2>1, <2>2 DEF Entries
  <1>2. paths \in Seq(Known \X Nat) /\ Len(paths) = N /\ \A i \in 1 .. N : paths[i] = <<list[i].file, 1>>
    <2> DEFINE named == [i \in 1 .. N |-> <<list[i].file, 1>>]
    <2>1. named \in Seq(Known \X Nat) /\ Len(named) = N
      BY <1>1
    <2> QED
      BY <1>1, <2>1
  <1> HIDE DEF paths
  <1>3. /\ read \in Seq(Known \X Nat) /\ Len(read) = N /\ \A i \in 1 .. N : read[i] = paths[i]
    BY <1>1, <1>2, ShortenedPaths
  <1>4. paths \in PathLists
    BY <1>2 DEF PathLists
  <1>5. SavedRecents(list) = <<"list", paths>> /\ <<"list", paths>> # Nowhere
    <2>1. <<"list", paths>> \in {"list"} \X Seq(Known \X Nat)
      BY <1>2
    <2>2. <<"list", paths>> # Nowhere
      BY <2>1, FrontendAssumption DEF FrontendAssumption
    <2> QED
      BY <2>2 DEF SavedRecents, paths
  <1> HIDE DEF read
  <1>6. <<>> \notin ToSet(read)
    <2>1. ASSUME NEW i \in 1 .. Len(read) PROVE read[i] # <<>>
      <3>1. read[i] = <<list[i].file, 1>>
        BY <1>2, <1>3, <2>1
      <3>2. <<list[i].file, 1>> # <<>>
        OBVIOUS
      <3> QED
        BY <3>1, <3>2
    <2> QED
      BY <1>3, <2>1 DEF ToSet
  <1>7. PICK added \in [0 .. N -> Recents] :
            /\ added[0] = <<>>
            /\ \A n \in 1 .. N :
                   added[n] = Recorded(added[n - 1], Normal(read[N + 1 - n]), readable)
            /\ LoadedRecents(<<"list", paths>>, readable) = added[N]
    <2>1. Len(Shortened(paths)) = N /\ <<>> \notin ToSet(Shortened(paths))
      BY <1>3, <1>6 DEF read
    <2> HIDE DEF N
    <2>2. \E added \in [0 .. Len(Shortened(paths)) -> Recents] :
              /\ added[0] = <<>>
              /\ \A n \in 1 .. Len(Shortened(paths)) :
                     added[n] = Recorded(added[n - 1], Normal(Shortened(paths)[Len(Shortened(paths)) + 1 - n]), readable)
              /\ LoadedRecents(<<"list", paths>>, readable) = added[Len(Shortened(paths))]
      BY <1>4, <1>5, <2>1, LoadedMeans
    <2> QED
      BY <2>1, <2>2 DEF read
  \* After n paths the last n projects of the list are there.
  <1> DEFINE S == {n \in 0 .. N : /\ Len(added[n]) = n
                                  /\ \A i \in 1 .. n : added[n][i].file = list[N - n + i].file}
  <1> HIDE DEF N
  <1>8. 0 \in S
    BY <1>1, <1>7
  <1>9. ASSUME NEW n \in 1 .. N, n - 1 \in S PROVE n \in S
    <2> DEFINE old == added[n - 1]
               known == list[N + 1 - n].file
    <2>1. n - 1 \in 0 .. N /\ n \in 0 .. N /\ N + 1 - n \in 1 .. N
      BY <1>1
    <2>2. old \in Recents /\ known \in Known
      BY <1>1, <1>7, <2>1
    <2>3. Len(old) = n - 1 /\ \A i \in 1 .. n - 1 : old[i].file = list[N - (n - 1) + i].file
      BY <1>9
    <2>4. added[n] = Recorded(old, known, readable)
      BY <1>2, <1>3, <1>7, <2>1 DEF Normal
    <2> HIDE DEF old
    <2>5. ASSUME NEW i \in 1 .. Len(old) PROVE old[i].file # known
      <3>1. N - (n - 1) + i \in 1 .. N /\ N - (n - 1) + i # N + 1 - n
        BY <1>1, <2>3
      <3> QED
        BY <1>1, <2>1, <2>3, <3>1 DEF Distinct, N
    <2>6. Len(old) < MaxRecent
      BY <1>1, <2>3, FrontendAssumption DEF N, FrontendAssumption
    <2>7. /\ Len(added[n]) = Len(old) + 1 /\ added[n][1].file = known
          /\ \A i \in 1 .. Len(old) : added[n][i + 1] = old[i]
      BY <2>2, <2>4, <2>5, <2>6, RecordedAbsent
    <2>8. ASSUME NEW i \in 1 .. n PROVE added[n][i].file = list[N - n + i].file
      <3>1. CASE i = 1
        <4>1. N - n + i = N + 1 - n
          BY <1>1, <3>1
        <4> QED
          BY <2>7, <3>1, <4>1
      <3>2. CASE i # 1
        <4>1. i - 1 \in 1 .. n - 1 /\ i - 1 \in 1 .. Len(old) /\ (i - 1) + 1 = i /\ N - (n - 1) + (i - 1) = N - n + i
          BY <1>1, <2>3, <3>2
        <4> QED
          BY <2>3, <2>7, <4>1
      <3> QED
        BY <3>1, <3>2
    <2> QED
      BY <1>1, <2>1, <2>3, <2>7, <2>8
  <1>10. 0 .. N \subseteq S
    <2> HIDE DEF S
    <2> QED
      BY <1>1, <1>8, <1>9, Counting
  <1>11. N \in S
    BY <1>1, <1>10
  <1>12. Len(added[N]) = N /\ \A i \in 1 .. N : added[N][i].file = list[i].file
    <2>1. \A i \in 1 .. N : N - N + i = i
      BY <1>1
    <2> QED
      BY <1>11, <2>1
  <1> QED
    BY <1>4, <1>5, <1>7, <1>12 DEF PreferenceFiles, Alike, N

-----------------------------------------------------------------------------
(* The front end's files. *)

Layouts == {Stock} \cup {<<known>> : known \in Known}
Arrangements ==
  [saved : Layouts, current : Layouts, staged : Layouts \cup {Nowhere},
   pending : Layouts \cup {Nowhere}, live : Layouts]

\* An arrangement that may be carried by the open project, or by none.
Own(layout) ==
  IF opened = Nowhere THEN layout = Stock ELSE \A origin \in Known : layout = <<origin>> => origin \in lineage[opened]

FrontendTypeOK ==
  /\ recent \in Recents
  /\ preferences \in PreferenceFiles
  /\ reachable \subseteq Known
  /\ opened \in Known \cup {Nowhere}
  /\ arrangement \in Arrangements
  /\ layoutFiles \in [Known -> (Layouts \ {Stock}) \cup {Nowhere, <<"unreadable">>}]
  /\ lineage \in [Known -> SUBSET Known]
  /\ persisted \in BOOLEAN

\* A project that was ever there carries its own arrangements.
LineageSound ==
  /\ \A known \in Known : lineage[known] # {} => known \in lineage[known]
  /\ \A known \in reachable : known \in lineage[known]
  /\ opened # Nowhere => opened \in lineage[opened]

\* What ImGui holds, and what it will load, belongs to the open project: the arrangement on the
\* screen may be another's only until the next frame.
ScreenSound ==
  /\ Own(arrangement.current)
  /\ arrangement.pending # Nowhere => Own(arrangement.pending)
  /\ arrangement.pending = Nowhere => Own(arrangement.live)

\* What FrontendFilesSound says of the list, in the terms of the lemmas above.
ListSound ==
  /\ opened # Nowhere => recent # <<>> /\ recent[1].file = opened
  /\ persisted => Alike(LoadedRecents(preferences, reachable), recent)

\* And what it says of the window arrangements.
LayoutsSound ==
  /\ \A known \in Known :
         \A origin \in Known : layoutFiles[known] = <<origin>> => origin \in lineage[known]
  /\ opened # Nowhere => arrangement.saved = LayoutSettings(layoutFiles[opened])
  /\ ~ Dirty(arrangement) => arrangement.staged = Nowhere

FrontendInv == FrontendTypeOK /\ LineageSound /\ ScreenSound /\ ListSound /\ LayoutsSound

\* No arrangement looks like the absence of one, and none that a user made like the stock one.
LEMMA LayoutsDiffer ==
  /\ Nowhere \notin Layouts /\ <<"unreadable">> \notin Layouts
  /\ \A known \in Known : <<known>> # Stock
  BY FrontendAssumption DEF FrontendAssumption, Layouts

\* The names in a list, where it is one the program builds.
LEMMA NamesOf ==
  ASSUME NEW a \in Recents, NEW b \in Recents
  PROVE  /\ Alike(a, b) <=> RecentFiles(a) = RecentFiles(b)
         /\ IsInjective(RecentFiles(a)) /\ Len(a) <= MaxRecent
  <1>1. /\ a \in Seq(Entries) /\ b \in Seq(Entries) /\ Len(a) \in Nat /\ Len(b) \in Nat
        /\ DOMAIN a = 1 .. Len(a) /\ DOMAIN b = 1 .. Len(b)
        /\ Distinct(a) /\ Len(a) <= MaxRecent
    BY DEF Recents
  <1>2. Alike(a, b) => RecentFiles(a) = RecentFiles(b)
    BY <1>1 DEF RecentFiles, Alike
  <1>3. ASSUME RecentFiles(a) = RecentFiles(b) PROVE Alike(a, b)
    <2>1. DOMAIN RecentFiles(a) = 1 .. Len(a) /\ DOMAIN RecentFiles(b) = 1 .. Len(b)
      BY <1>1 DEF RecentFiles
    <2>2. Len(a) = Len(b)
      <3>1. ASSUME NEW m \in Nat, NEW n \in Nat, 1 .. m = 1 .. n PROVE m <= n
        <4>1. CASE m = 0
          BY <4>1
        <4>2. CASE m # 0
          <5>1. m \in 1 .. m
            BY <4>2
          <5> QED
            BY <3>1, <5>1
        <4> QED
          BY <4>1, <4>2
      <3>2. 1 .. Len(a) = 1 .. Len(b)
        BY <1>3, <2>1
      <3>3. Len(a) <= Len(b) /\ Len(b) <= Len(a)
        BY <1>1, <3>1, <3>2
      <3>4. Len(a) \in Nat /\ Len(b) \in Nat
        BY <1>1
      <3> QED
        BY <3>3, <3>4
    <2>3. \A i \in 1 .. Len(a) : RecentFiles(a)[i] = a[i].file /\ RecentFiles(b)[i] = b[i].file
      BY <1>1, <2>2 DEF RecentFiles
    <2> QED
      BY <1>3, <2>2, <2>3 DEF Alike
  <1>4. IsInjective(RecentFiles(a))
    BY <1>1 DEF RecentFiles, IsInjective, Distinct
  <1> QED
    BY <1>1, <1>2, <1>3, <1>4

LEMMA InvariantMeansSound == FrontendInv => FrontendFilesSound
  <1> SUFFICES ASSUME FrontendInv PROVE FrontendFilesSound
    OBVIOUS
  <1> USE DEF FrontendInv
  <1>1. recent \in Recents /\ LoadedRecents(preferences, reachable) \in Recents
    BY LoadedAlike DEF FrontendTypeOK
  <1>2. \A known \in Known : layoutFiles[known] # Stock
    BY FrontendAssumption DEF FrontendTypeOK, FrontendAssumption
  <1> QED
    BY <1>1, <1>2, NamesOf DEF FrontendFilesSound, ListSound, LayoutsSound

\* Steps that leave the list, the preferences and the projects on the disk alone.
LEMMA ListKept ==
  ASSUME FrontendInv, UNCHANGED <<recent, preferences, reachable, persisted>>, opened' \in {opened, Nowhere}
  PROVE  ListSound'
  BY DEF FrontendInv, ListSound

\* The list is written, or writing it fails.
LEMMA ListPersisted ==
  ASSUME FrontendInv, NEW list \in Recents, PersistRecents(list),
         opened' # Nowhere => list # <<>> /\ list[1].file = opened'
  PROVE  ListSound' /\ recent' \in Recents /\ preferences' \in PreferenceFiles /\ persisted' \in BOOLEAN
  <1>1. SavedRecents(list) \in PreferenceFiles /\ Alike(LoadedRecents(SavedRecents(list), reachable'), list)
    BY SavedReadsBack
  <1>2. recent' = list
    BY DEF PersistRecents
  <1>3. CASE preferences' = SavedRecents(list) /\ persisted' = TRUE
    BY <1>1, <1>2, <1>3 DEF ListSound
  <1>4. CASE preferences' = preferences /\ persisted' = FALSE
    BY <1>2, <1>4 DEF ListSound, FrontendInv, FrontendTypeOK
  <1> QED
    BY <1>3, <1>4 DEF PersistRecents

\* What the front end does to an arrangement keeps it one, of the same project.
LEMMA ActivatedSound ==
  ASSUME NEW a \in Arrangements, NEW file \in (Layouts \ {Stock}) \cup {Nowhere, <<"unreadable">>}
  PROVE  /\ LayoutSettings(file) \in Layouts
         /\ Activated(a, file) \in Arrangements
         /\ Activated(a, file).saved = LayoutSettings(file)
         /\ Activated(a, file).current = LayoutSettings(file)
         /\ Activated(a, file).staged = Nowhere
         /\ Activated(a, file).pending = LayoutSettings(file)
         /\ Activated(a, file).live = a.live
  <1> DEFINE settings == LayoutSettings(file)
  <1>1. settings \in Layouts
    BY DEF LayoutSettings, Layouts
  <1> DEFINE Updated(s) == [a EXCEPT !.saved = s, !.current = s, !.staged = Nowhere, !.pending = s]
  <1>2. Activated(a, file) = Updated(settings)
    BY DEF Activated
  <1> HIDE DEF settings
  <1>3. ASSUME NEW s \in Layouts
        PROVE  /\ Updated(s) \in Arrangements
               /\ Updated(s).saved = s /\ Updated(s).current = s /\ Updated(s).pending = s
               /\ Updated(s).staged = Nowhere /\ Updated(s).live = a.live
    BY DEF Arrangements
  <1> HIDE DEF Updated
  <1> QED
    BY <1>1, <1>2, <1>3 DEF settings

\* What is staged is what is current, and nothing stays staged without a change.
LEMMA StagedSound ==
  ASSUME NEW a \in Arrangements, NEW b \in Staged(a)
  PROVE  /\ b \in Arrangements
         /\ b.saved = a.saved /\ b.current = a.current /\ b.pending = a.pending /\ b.live = a.live
         /\ ~ Dirty(b) => b.staged = Nowhere
  BY DEF Staged, Dirty, Arrangements

\* Capturing takes what is on the screen, unless that is still another project's.
LEMMA CapturedSound ==
  ASSUME FrontendInv, NEW b \in Captured(arrangement)
  PROVE  /\ b \in Arrangements
         /\ b.saved = arrangement.saved /\ b.pending = arrangement.pending /\ b.live = arrangement.live
         /\ Own(b.current)
         /\ ~ Dirty(b) => b.staged = Nowhere
  <1>1. arrangement \in Arrangements
    BY DEF FrontendInv, FrontendTypeOK
  <1>2. CASE arrangement.pending # Nowhere
    BY <1>1, <1>2 DEF Captured, FrontendInv, ScreenSound, LayoutsSound
  <1>3. CASE arrangement.pending = Nowhere
    <2> DEFINE c == [arrangement EXCEPT !.current = arrangement.live]
    <2>1. /\ c \in Arrangements /\ c.saved = arrangement.saved /\ c.pending = arrangement.pending
          /\ c.live = arrangement.live /\ c.current = arrangement.live
      BY <1>1 DEF Arrangements
    <2>2. b \in Staged(c)
      BY <1>3 DEF Captured
    <2> HIDE DEF c
    <2> QED
      BY <1>3, <2>1, <2>2, StagedSound DEF FrontendInv, ScreenSound
  <1> QED
    BY <1>2, <1>3

\* A file that is written gives back what was written.
LEMMA WrittenLayout ==
  ASSUME NEW a \in Arrangements
  PROVE  /\ LayoutFile(a) \in (Layouts \ {Stock}) \cup {Nowhere, <<"unreadable">>}
         /\ LayoutSettings(LayoutFile(a)) = a.current
         /\ \A origin \in Known : LayoutFile(a) = <<origin>> => a.current = <<origin>>
  BY LayoutsDiffer DEF LayoutFile, LayoutSettings, Arrangements, Layouts

LEMMA OpenKnownKeeps == ASSUME FrontendInv, NEW known \in Known, OpenKnown(known) PROVE FrontendInv'
  <1> DEFINE file == layoutFiles[known]
             list == Recorded(recent, known, reachable')
  <1>1. /\ recent \in Recents /\ arrangement \in Arrangements
        /\ file \in (Layouts \ {Stock}) \cup {Nowhere, <<"unreadable">>}
    BY DEF FrontendInv, FrontendTypeOK
  <1>2. list \in Recents /\ list # <<>> /\ list[1].file = known
    BY <1>1, RecordedKeeps
  <1>3. /\ opened' = known /\ known # Nowhere /\ PersistRecents(list)
        /\ UNCHANGED <<reachable, layoutFiles, lineage>>
        /\ arrangement' = Activated(arrangement, file)
    BY FrontendAssumption DEF OpenKnown, Enters, FrontendAssumption
  <1> HIDE DEF list
  <1>4. ListSound' /\ recent' \in Recents /\ preferences' \in PreferenceFiles /\ persisted' \in BOOLEAN
    BY <1>2, <1>3, ListPersisted
  <1>5. FrontendTypeOK'
    BY <1>1, <1>3, <1>4, ActivatedSound DEF FrontendInv, FrontendTypeOK
  <1>6. known \in lineage[known]
    BY DEF OpenKnown, FrontendInv, LineageSound
  <1>7. LineageSound'
    BY <1>3, <1>6 DEF FrontendInv, LineageSound
  <1>8. \A origin \in Known : LayoutSettings(file) = <<origin>> => origin \in lineage[known]
    BY LayoutsDiffer DEF FrontendInv, LayoutsSound, LayoutSettings
  <1>9. /\ arrangement'.current = LayoutSettings(file) /\ arrangement'.pending = LayoutSettings(file)
        /\ arrangement'.saved = LayoutSettings(file) /\ arrangement'.staged = Nowhere
        /\ LayoutSettings(file) # Nowhere
    BY <1>1, <1>3, ActivatedSound, LayoutsDiffer
  <1>10. ScreenSound'
    BY <1>3, <1>8, <1>9 DEF ScreenSound, Own
  <1>11. LayoutsSound'
    BY <1>3, <1>9 DEF FrontendInv, LayoutsSound
  <1> QED
    BY <1>4, <1>5, <1>7, <1>10, <1>11 DEF FrontendInv

LEMMA SaveKnownAsKeeps == ASSUME FrontendInv, NEW known \in Known, SaveKnownAs(known) PROVE FrontendInv'
  <1> DEFINE list == Recorded(recent, known, reachable')
  <1>1. recent \in Recents /\ arrangement \in Arrangements /\ opened \in Known /\ lineage \in [Known -> SUBSET Known]
    BY DEF FrontendInv, FrontendTypeOK, SaveKnownAs
  <1>2. list \in Recents /\ list # <<>> /\ list[1].file = known
    BY <1>1, RecordedKeeps
  <1>3. PICK a \in Captured(arrangement) :
            /\ layoutFiles' = [layoutFiles EXCEPT ![known] = LayoutFile(a)]
            /\ arrangement' = Activated(a, LayoutFile(a))
    BY DEF SaveKnownAs
  <1>4. /\ opened # Nowhere /\ lineage[known] = {} /\ known # Nowhere
        /\ lineage' = [lineage EXCEPT ![known] = lineage[opened] \cup {known}]
        /\ reachable' = reachable \cup {known}
        /\ opened' = known /\ PersistRecents(list)
    BY FrontendAssumption DEF SaveKnownAs, Enters, FrontendAssumption
  <1> HIDE DEF list
  <1>5. ListSound' /\ recent' \in Recents /\ preferences' \in PreferenceFiles /\ persisted' \in BOOLEAN
    BY <1>2, <1>4, ListPersisted
  <1>6. a \in Arrangements /\ Own(a.current)
    BY <1>3, CapturedSound
  <1>7. /\ LayoutFile(a) \in (Layouts \ {Stock}) \cup {Nowhere, <<"unreadable">>}
        /\ LayoutSettings(LayoutFile(a)) = a.current
        /\ \A origin \in Known : LayoutFile(a) = <<origin>> => a.current = <<origin>>
    BY <1>6, WrittenLayout
  <1>8. /\ arrangement' \in Arrangements
        /\ arrangement'.current = a.current /\ arrangement'.pending = a.current
        /\ arrangement'.saved = a.current /\ arrangement'.staged = Nowhere
    BY <1>3, <1>6, <1>7, ActivatedSound
  <1>9. /\ lineage'[known] = lineage[opened] \cup {known}
        /\ \A other \in Known \ {known} : lineage'[other] = lineage[other]
        /\ lineage' \in [Known -> SUBSET Known]
    BY <1>1, <1>4
  <1>10. FrontendTypeOK'
    BY <1>3, <1>4, <1>5, <1>7, <1>8, <1>9 DEF FrontendInv, FrontendTypeOK
  <1>11. LineageSound'
    BY <1>4, <1>9 DEF FrontendInv, LineageSound
  <1>12. \A origin \in Known : a.current = <<origin>> => origin \in lineage'[known]
    BY <1>4, <1>6, <1>9 DEF Own
  <1>13. ScreenSound'
    <2>1. a.current # Nowhere
      BY <1>6, LayoutsDiffer DEF Arrangements
    <2> QED
      BY <1>4, <1>8, <1>12, <2>1 DEF ScreenSound, Own
  <1>14. LayoutsSound'
    <2>1. layoutFiles'[known] = LayoutFile(a) /\ \A other \in Known \ {known} : layoutFiles'[other] = layoutFiles[other]
      BY <1>3 DEF FrontendInv, FrontendTypeOK
    <2>2. ASSUME NEW p \in Known, NEW origin \in Known, layoutFiles'[p] = <<origin>> PROVE origin \in lineage'[p]
      <3>1. CASE p = known
        BY <1>7, <1>12, <2>1, <2>2, <3>1
      <3>2. CASE p # known
        BY <1>9, <2>1, <2>2, <3>2 DEF FrontendInv, LayoutsSound
      <3> QED
        BY <3>1, <3>2
    <2> QED
      BY <1>4, <1>7, <1>8, <2>1, <2>2 DEF LayoutsSound
  <1> QED
    BY <1>5, <1>10, <1>11, <1>13, <1>14 DEF FrontendInv

LEMMA OpenRecentKeeps == ASSUME FrontendInv, NEW i \in DOMAIN recent, OpenRecent(i) PROVE FrontendInv'
  <1>1. recent[i].file \in Known
    <2>1. recent \in Seq(Entries)
      BY DEF FrontendInv, FrontendTypeOK, Recents
    <2>2. recent[i] \in Entries
      BY <2>1
    <2> QED
      BY <2>2 DEF Entries
  <1>2. CASE OpenKnown(recent[i].file)
    BY <1>1, <1>2, OpenKnownKeeps
  <1>3. CASE UNCHANGED frontendVars
    BY <1>3 DEF frontendVars, FrontendInv, FrontendTypeOK, LineageSound, ScreenSound, Own, ListSound, LayoutsSound
  <1> QED
    BY <1>2, <1>3 DEF OpenRecent

LEMMA RemoveRecentKeeps == ASSUME FrontendInv, NEW i \in DOMAIN recent, RemoveRecent(i) PROVE FrontendInv'
  <1> DEFINE list == Removed(recent, recent[i].file)
  <1>1. list \in Recents
    BY RemovedKeeps DEF FrontendInv, FrontendTypeOK
  <1>2. /\ opened = Nowhere /\ PersistRecents(list)
        /\ UNCHANGED <<reachable, opened, arrangement, layoutFiles, lineage>>
    BY DEF RemoveRecent
  <1> HIDE DEF list
  <1>3. ListSound' /\ recent' \in Recents /\ preferences' \in PreferenceFiles /\ persisted' \in BOOLEAN
    BY <1>1, <1>2, ListPersisted
  <1> QED
    BY <1>2, <1>3 DEF FrontendInv, FrontendTypeOK, LineageSound, ScreenSound, Own, LayoutsSound

LEMMA ShowHomeKeeps == ASSUME FrontendInv, ShowHome PROVE FrontendInv'
  <1>1. /\ recent \in Seq(Entries) /\ Distinct(recent) /\ Len(recent) <= MaxRecent /\ Len(recent) \in Nat
        /\ LoadedRecents(preferences, reachable) \in Recents
    BY LoadedAlike DEF FrontendInv, FrontendTypeOK, Recents
  <1>2. /\ recent' = Refreshed(recent) /\ opened = Nowhere
        /\ UNCHANGED <<preferences, reachable, opened, arrangement, layoutFiles, lineage, persisted>>
    BY DEF ShowHome
  <1>3. /\ recent' \in Seq(Entries) /\ Len(recent') = Len(recent)
        /\ \A i \in 1 .. Len(recent) : recent'[i].file = recent[i].file
    <2>1. DOMAIN recent = 1 .. Len(recent) /\ \A i \in 1 .. Len(recent) : recent[i] \in Entries
      BY <1>1
    <2> DEFINE shown == [i \in 1 .. Len(recent) |-> [recent[i] EXCEPT !.available = recent[i].file \in reachable]]
    <2>2. recent' = shown
      BY <1>2, <2>1 DEF Refreshed
    <2>3. ASSUME NEW i \in 1 .. Len(recent) PROVE shown[i] \in Entries /\ shown[i].file = recent[i].file
      <3>1. recent[i] \in Entries /\ shown[i] = [recent[i] EXCEPT !.available = recent[i].file \in reachable]
        BY <2>1
      <3>2. ASSUME NEW e \in Entries, NEW flag \in BOOLEAN
            PROVE  [e EXCEPT !.available = flag] \in Entries /\ [e EXCEPT !.available = flag].file = e.file
        BY DEF Entries
      <3>3. (recent[i].file \in reachable) \in BOOLEAN
        OBVIOUS
      <3> HIDE DEF shown
      <3> QED
        BY <3>1, <3>2, <3>3
    <2>4. shown \in Seq(Entries) /\ Len(shown) = Len(recent)
      <3>1. shown \in [1 .. Len(recent) -> Entries]
        BY <2>3
      <3> HIDE DEF shown
      <3> QED
        BY <1>1, <3>1
    <2> HIDE DEF shown
    <2> QED
      BY <2>2, <2>3, <2>4
  <1>4. recent' \in Recents
    BY <1>1, <1>3 DEF Recents, Distinct
  <1>5. ListSound'
    BY <1>1, <1>2, <1>3 DEF FrontendInv, ListSound, Alike
  <1> QED
    BY <1>2, <1>4, <1>5 DEF FrontendInv, FrontendTypeOK, LineageSound, ScreenSound, Own, LayoutsSound

LEMMA SaveKnownKeeps == ASSUME FrontendInv, SaveKnown PROVE FrontendInv'
  <1>1. /\ opened # Nowhere /\ opened \in Known /\ arrangement \in Arrangements
        /\ UNCHANGED <<recent, preferences, reachable, opened, lineage, persisted>>
    BY DEF FrontendInv, FrontendTypeOK, SaveKnown
  <1>2. PICK a \in Captured(arrangement) :
            \/ /\ layoutFiles' = [layoutFiles EXCEPT ![opened] = LayoutFile(a)]
               /\ arrangement' = [a EXCEPT !.saved = a.current, !.staged = Nowhere]
            \/ arrangement' = a /\ UNCHANGED layoutFiles
    BY DEF SaveKnown
  <1>3. /\ a \in Arrangements /\ Own(a.current) /\ (~ Dirty(a) => a.staged = Nowhere)
        /\ a.saved = arrangement.saved /\ a.pending = arrangement.pending /\ a.live = arrangement.live
    BY <1>2, CapturedSound
  <1>4. ListSound'
    BY <1>1, ListKept
  <1>5. CASE /\ layoutFiles' = [layoutFiles EXCEPT ![opened] = LayoutFile(a)]
             /\ arrangement' = [a EXCEPT !.saved = a.current, !.staged = Nowhere]
    <2>1. /\ arrangement' \in Arrangements /\ arrangement'.current = a.current /\ arrangement'.saved = a.current
          /\ arrangement'.staged = Nowhere /\ arrangement'.pending = a.pending /\ arrangement'.live = a.live
      BY <1>3, <1>5 DEF Arrangements
    <2>2. /\ LayoutFile(a) \in (Layouts \ {Stock}) \cup {Nowhere, <<"unreadable">>}
          /\ LayoutSettings(LayoutFile(a)) = a.current
          /\ \A origin \in Known : LayoutFile(a) = <<origin>> => a.current = <<origin>>
      BY <1>3, WrittenLayout
    <2>3. /\ layoutFiles' \in [Known -> (Layouts \ {Stock}) \cup {Nowhere, <<"unreadable">>}]
          /\ layoutFiles'[opened] = LayoutFile(a)
          /\ \A other \in Known \ {opened} : layoutFiles'[other] = layoutFiles[other]
      BY <1>1, <1>5, <2>2 DEF FrontendInv, FrontendTypeOK
    <2>4. FrontendTypeOK' /\ LineageSound'
      BY <1>1, <2>1, <2>3 DEF FrontendInv, FrontendTypeOK, LineageSound
    <2>5. ScreenSound'
      BY <1>1, <1>3, <2>1 DEF FrontendInv, ScreenSound, Own
    <2>6. LayoutsSound'
      <3>1. ASSUME NEW p \in Known, NEW origin \in Known, layoutFiles'[p] = <<origin>> PROVE origin \in lineage'[p]
        <4>1. CASE p = opened
          BY <1>1, <1>3, <2>2, <2>3, <3>1, <4>1 DEF Own
        <4>2. CASE p # opened
          BY <1>1, <2>3, <3>1, <4>2 DEF FrontendInv, LayoutsSound
        <4> QED
          BY <4>1, <4>2
      <3> QED
        BY <1>1, <2>1, <2>2, <2>3, <3>1 DEF LayoutsSound
    <2> QED
      BY <1>4, <2>4, <2>5, <2>6 DEF FrontendInv
  <1>6. CASE arrangement' = a /\ UNCHANGED layoutFiles
    <2>1. FrontendTypeOK' /\ LineageSound'
      BY <1>1, <1>3, <1>6 DEF FrontendInv, FrontendTypeOK, LineageSound
    <2>2. ScreenSound'
      BY <1>1, <1>3, <1>6 DEF FrontendInv, ScreenSound, Own
    <2>3. LayoutsSound'
      BY <1>1, <1>3, <1>6 DEF FrontendInv, LayoutsSound, Dirty
    <2> QED
      BY <1>4, <2>1, <2>2, <2>3 DEF FrontendInv
  <1> QED
    BY <1>2, <1>5, <1>6

LEMMA CloseKnownKeeps == ASSUME FrontendInv, CloseKnown PROVE FrontendInv'
  <1>1. /\ opened' = Nowhere /\ arrangement' = Activated(arrangement, Nowhere)
        /\ UNCHANGED <<recent, preferences, reachable, layoutFiles, lineage, persisted>>
    BY DEF CloseKnown
  <1>2. arrangement \in Arrangements /\ LayoutSettings(Nowhere) = Stock
    BY DEF FrontendInv, FrontendTypeOK, LayoutSettings
  <1>3. /\ arrangement' \in Arrangements /\ arrangement'.current = Stock /\ arrangement'.pending = Stock
        /\ arrangement'.saved = Stock /\ arrangement'.staged = Nowhere
    BY <1>1, <1>2, ActivatedSound
  <1>4. ListSound'
    BY <1>1, ListKept
  <1>5. FrontendTypeOK' /\ LineageSound'
    BY <1>1, <1>3 DEF FrontendInv, FrontendTypeOK, LineageSound
  <1>6. ScreenSound'
    BY <1>1, <1>3, FrontendAssumption DEF ScreenSound, Own, FrontendAssumption
  <1>7. LayoutsSound'
    BY <1>1, <1>3 DEF FrontendInv, LayoutsSound
  <1> QED
    BY <1>4, <1>5, <1>6, <1>7 DEF FrontendInv

\* Steps that change the arrangement alone, and neither what was saved nor what is open.
LEMMA ArrangementKeeps ==
  ASSUME FrontendInv, UNCHANGED <<recent, preferences, reachable, opened, layoutFiles, lineage, persisted>>,
         arrangement' \in Arrangements, arrangement'.saved = arrangement.saved,
         Own(arrangement'.current),
         arrangement'.pending # Nowhere => Own(arrangement'.pending),
         arrangement'.pending = Nowhere => Own(arrangement'.live),
         ~ Dirty(arrangement') => arrangement'.staged = Nowhere
  PROVE  FrontendInv'
  <1>1. ListSound'
    BY ListKept
  <1>2. FrontendTypeOK' /\ LineageSound'
    BY DEF FrontendInv, FrontendTypeOK, LineageSound
  <1>3. ScreenSound'
    BY DEF ScreenSound, Own
  <1>4. LayoutsSound'
    BY DEF FrontendInv, LayoutsSound, Dirty
  <1> QED
    BY <1>1, <1>2, <1>3, <1>4 DEF FrontendInv

LEMMA DrawFrameKeeps == ASSUME FrontendInv, DrawFrame PROVE FrontendInv'
  <1>1. arrangement \in Arrangements /\ arrangement.pending # Nowhere
    BY DEF FrontendInv, FrontendTypeOK, DrawFrame
  <1>2. arrangement' = [arrangement EXCEPT !.live = arrangement.pending, !.pending = Nowhere]
    BY DEF DrawFrame
  <1>3. /\ arrangement' \in Arrangements /\ arrangement'.saved = arrangement.saved
        /\ arrangement'.current = arrangement.current /\ arrangement'.staged = arrangement.staged
        /\ arrangement'.pending = Nowhere /\ arrangement'.live = arrangement.pending
    BY <1>1, <1>2 DEF Arrangements
  <1>4. ~ Dirty(arrangement') => arrangement'.staged = Nowhere
    BY <1>3 DEF FrontendInv, LayoutsSound, Dirty
  <1> QED
    BY <1>1, <1>3, <1>4, ArrangementKeeps DEF DrawFrame, FrontendInv, ScreenSound

LEMMA EditArrangementKeeps == ASSUME FrontendInv, EditArrangement PROVE FrontendInv'
  <1>1. arrangement \in Arrangements /\ arrangement.pending = Nowhere /\ opened \in Known
    BY FrontendAssumption DEF FrontendInv, FrontendTypeOK, EditArrangement, FrontendAssumption
  <1>2. opened # Nowhere /\ opened \in lineage[opened]
    BY <1>1, FrontendAssumption DEF FrontendInv, LineageSound, FrontendAssumption
  <1>3. arrangement' = [arrangement EXCEPT !.live = <<opened>>]
    BY DEF EditArrangement
  <1>4. <<opened>> \in Layouts
    BY <1>1 DEF Layouts
  <1>5. /\ arrangement' \in Arrangements /\ arrangement'.saved = arrangement.saved
        /\ arrangement'.current = arrangement.current /\ arrangement'.staged = arrangement.staged
        /\ arrangement'.pending = Nowhere /\ arrangement'.live = <<opened>>
    BY <1>1, <1>3, <1>4 DEF Arrangements
  <1>6. ~ Dirty(arrangement') => arrangement'.staged = Nowhere
    BY <1>5 DEF FrontendInv, LayoutsSound, Dirty
  <1>7. Own(<<opened>>)
    BY <1>2 DEF Own
  <1> QED
    BY <1>5, <1>6, <1>7, ArrangementKeeps DEF EditArrangement, FrontendInv, ScreenSound

LEMMA UpdatePersistenceKeeps == ASSUME FrontendInv, UpdatePersistence PROVE FrontendInv'
  <1>1. /\ arrangement' \in Captured(arrangement)
        /\ UNCHANGED <<recent, preferences, reachable, opened, layoutFiles, lineage, persisted>>
    BY DEF UpdatePersistence
  <1>2. /\ arrangement' \in Arrangements
        /\ arrangement'.saved = arrangement.saved /\ arrangement'.pending = arrangement.pending
        /\ arrangement'.live = arrangement.live /\ Own(arrangement'.current)
        /\ (~ Dirty(arrangement') => arrangement'.staged = Nowhere)
    BY <1>1, CapturedSound
  <1> QED
    BY <1>1, <1>2, ArrangementKeeps DEF FrontendInv, ScreenSound

LEMMA RestoreDefaultKeeps == ASSUME FrontendInv, RestoreDefault PROVE FrontendInv'
  <1> DEFINE stock == [arrangement EXCEPT !.current = Stock]
  <1>1. PICK a \in Staged(stock) : arrangement' = [a EXCEPT !.pending = Stock]
    BY DEF RestoreDefault
  <1>2. stock \in Arrangements /\ stock.saved = arrangement.saved /\ stock.current = Stock
    BY DEF FrontendInv, FrontendTypeOK, Arrangements, Layouts
  <1> HIDE DEF stock
  <1>3. a \in Arrangements /\ a.saved = arrangement.saved /\ a.current = Stock /\ (~ Dirty(a) => a.staged = Nowhere)
    BY <1>1, <1>2, StagedSound
  <1>4. /\ arrangement' \in Arrangements /\ arrangement'.saved = arrangement.saved /\ arrangement'.current = Stock
        /\ arrangement'.pending = Stock /\ arrangement'.staged = a.staged
    BY <1>1, <1>3 DEF Arrangements, Layouts
  <1>5. ~ Dirty(arrangement') => arrangement'.staged = Nowhere
    BY <1>3, <1>4 DEF Dirty
  <1>6. Own(Stock) /\ Stock # Nowhere
    BY LayoutsDiffer, FrontendAssumption DEF Own, FrontendAssumption
  <1> QED
    BY <1>4, <1>5, <1>6, ArrangementKeeps DEF RestoreDefault

LEMMA FreshSound ==
  /\ FreshArrangement \in Arrangements
  /\ FreshArrangement.current = Stock /\ FreshArrangement.pending = Stock /\ FreshArrangement.staged = Nowhere
  BY DEF FreshArrangement, Arrangements, Layouts

LEMMA RelaunchKeeps == ASSUME FrontendInv, Relaunch PROVE FrontendInv'
  <1>1. /\ recent' = LoadedRecents(preferences, reachable) /\ opened' = Nowhere
        /\ arrangement' = FreshArrangement /\ persisted' = TRUE
        /\ UNCHANGED <<preferences, reachable, layoutFiles, lineage>>
    BY DEF Relaunch
  <1>2. recent' \in Recents /\ Alike(recent', recent')
    BY <1>1, LoadedAlike DEF FrontendInv, FrontendTypeOK, Alike
  <1>3. ListSound'
    BY <1>1, <1>2 DEF ListSound
  <1>4. FrontendTypeOK' /\ LineageSound'
    BY <1>1, <1>2, FreshSound DEF FrontendInv, FrontendTypeOK, LineageSound
  <1>5. ScreenSound'
    BY <1>1, FreshSound, FrontendAssumption DEF ScreenSound, Own, FrontendAssumption
  <1>6. LayoutsSound'
    BY <1>1, FreshSound DEF FrontendInv, LayoutsSound
  <1> QED
    BY <1>3, <1>4, <1>5, <1>6 DEF FrontendInv

LEMMA DiskChangesKeeps == ASSUME FrontendInv, DiskChanges PROVE FrontendInv'
  <1>1. PICK known \in Fading : /\ lineage[known] # {}
                                /\ reachable' = IF known \in reachable THEN reachable \ {known} ELSE reachable \cup {known}
    BY DEF DiskChanges
  <1>2. UNCHANGED <<recent, preferences, opened, arrangement, layoutFiles, lineage, persisted>>
    BY DEF DiskChanges
  <1>3. known \in Known /\ known \in lineage[known]
    BY <1>1, FrontendAssumption DEF FrontendInv, LineageSound, FrontendAssumption
  <1>4. FrontendTypeOK' /\ LineageSound'
    BY <1>1, <1>2, <1>3 DEF FrontendInv, FrontendTypeOK, LineageSound
  <1>5. Alike(LoadedRecents(preferences, reachable'), LoadedRecents(preferences, reachable))
    BY LoadedAlike DEF FrontendInv, FrontendTypeOK
  <1>6. ListSound'
    BY <1>2, <1>5 DEF FrontendInv, ListSound, Alike
  <1> QED
    BY <1>2, <1>4, <1>6 DEF FrontendInv, ScreenSound, Own, LayoutsSound

LEMMA InitFrontend == FrontendInit => FrontendInv
  <1> SUFFICES ASSUME FrontendInit PROVE FrontendInv
    OBVIOUS
  <1>1. /\ reachable = Created /\ preferences \in FoundPreferences /\ opened = Nowhere /\ persisted = TRUE
        /\ recent = LoadedRecents(preferences, reachable) /\ arrangement = FreshArrangement
        /\ lineage = [p \in Known |-> IF p \in Created THEN {p} ELSE {}]
    BY DEF FrontendInit
  <1>2. PICK file \in {Nowhere, <<"unreadable">>} : layoutFiles = [p \in Known |-> IF p \in Created THEN file ELSE Nowhere]
    BY DEF FrontendInit
  <1>3. preferences \in PreferenceFiles /\ Created \subseteq Known
    BY <1>1, FrontendAssumption DEF PreferenceFiles, PathLists, FrontendAssumption
  <1>4. recent \in Recents /\ Alike(recent, recent)
    BY <1>1, <1>3, LoadedAlike DEF Alike
  <1>5. layoutFiles \in [Known -> {Nowhere, <<"unreadable">>}]
    BY <1>2
  <1>6. {Nowhere, <<"unreadable">>} \cap Layouts = {}
    BY LayoutsDiffer
  <1>7. FrontendTypeOK
    <2>1. lineage \in [Known -> SUBSET Known]
      BY <1>1, <1>3
    <2>2. layoutFiles \in [Known -> (Layouts \ {Stock}) \cup {Nowhere, <<"unreadable">>}]
      BY <1>5
    <2> QED
      BY <1>1, <1>3, <1>4, <2>1, <2>2, FreshSound DEF FrontendTypeOK
  <1>8. LineageSound
    BY <1>1, <1>3 DEF LineageSound
  <1>9. ScreenSound
    BY <1>1, FreshSound, FrontendAssumption DEF ScreenSound, Own, FrontendAssumption
  <1>10. ListSound
    BY <1>1, <1>4 DEF ListSound
  <1>11. LayoutsSound
    BY <1>1, <1>5, <1>6, FreshSound DEF LayoutsSound, Layouts
  <1> QED
    BY <1>7, <1>8, <1>9, <1>10, <1>11 DEF FrontendInv

LEMMA NextFrontend == FrontendInv /\ [FrontendNext]_frontendVars => FrontendInv'
  <1> SUFFICES ASSUME FrontendInv, [FrontendNext]_frontendVars PROVE FrontendInv'
    OBVIOUS
  <1>1. CASE UNCHANGED frontendVars
    BY <1>1 DEF frontendVars, FrontendInv, FrontendTypeOK, LineageSound, ScreenSound, Own, ListSound, LayoutsSound
  <1> QED
    BY <1>1, OpenKnownKeeps, SaveKnownAsKeeps, OpenRecentKeeps, RemoveRecentKeeps, ShowHomeKeeps, SaveKnownKeeps,
       CloseKnownKeeps, DrawFrameKeeps, EditArrangementKeeps, UpdatePersistenceKeeps, RestoreDefaultKeeps,
       RelaunchKeeps, DiskChangesKeeps
       DEF FrontendNext

\* The list of recent projects names no project twice, starts with the open one and is what the
\* next start loads unless writing it failed; and no project is saved with an arrangement of its
\* windows that was made in another, however projects are opened, copied, closed and lost, frames
\* drawn and files not written (RecentProjects, GuiLayoutStore, GuiApplication).
THEOREM FrontendFilesStaySound == FrontendSpec => []FrontendFilesSound
  <1> QED
    BY InitFrontend, NextFrontend, InvariantMeansSound, PTL DEF FrontendSpec

=============================================================================

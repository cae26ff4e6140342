--------------------------- MODULE WorkspaceState ---------------------------
(***************************************************************************)
(* The presentation workspace of a project: scalar settings, the tabs of   *)
(* the two centre groups, and the positions and sizes dragged in the       *)
(* architecture view; and its file, which other versions of the program    *)
(* wrote or something damaged.  Ratios, thickness and zoom are in          *)
(* thousandths.                                                            *)
(***************************************************************************)
EXTENDS Integers, Sequences, SequencesExt

CONSTANTS
    Touched,        \* bound: the settings that the user changes and that get damaged
    RowIds,         \* tasks and resources with a dragged position
    MaxSettings,    \* bound: changes in one behaviour, all before the file is damaged
    NotFinite,      \* an infinity or a NaN
    Unset,          \* an optional value that is not there
    Broken          \* JSON of another type than the reader expects

VARIABLES
    workspace,          \* the workspace of the running application
    workspace_file,     \* the project's workspace file: its JSON, and history: what was saved and what became of it
    settings            \* history: changes so far

workspaceVars == <<workspace, workspace_file, settings>>

-----------------------------------------------------------------------------
(* The settings, by section of the file. *)

Sections == {"top", "panels", "splitters", "active_tabs", "execution", "visualizer", "event_filters",
             "event_columns", "architecture"}
Flags ==
    ({"panels"} \X {"explorer", "system_builder", "inspector", "architecture", "timeline", "signals", "results",
                    "resources", "events"})
    \cup ({"event_columns"} \X {"sequence", "tick", "time", "type", "phase", "task", "job", "resource", "message",
                                "vehicle", "cause"})
    \cup ({"visualizer"} \X {"auto_y", "grid", "legend", "markers", "bosch_thresholds", "bosch_critical_sections",
                             "bosch_deadline_misses", "selected_tick"})
Ratios == {"splitters"} \X {"left_sidebar", "right_sidebar", "center", "results_summary", "results_timing"}
\* Words; one that the reader does not know counts as 0, the first of its type.
Words == {<<"top", "theme">>, <<"execution", "mode">>, <<"execution", "batch_unit">>, <<"visualizer", "x_axis">>,
          <<"visualizer", "range">>, <<"architecture", "mode">>}
ActiveTabs == {"active_tabs"} \X {"upper", "lower"}
Counts == {"execution"} \X {"event_batch_size", "tick_batch_size"}
Ticks == {"visualizer"} \X {"custom_begin", "custom_end"}
Limits == {"visualizer"} \X {"y_min", "y_max"}
Pans == {"architecture"} \X {"pan_x", "pan_y"}
Filters == {"event_filters"} \X {"text", "type", "task", "resource", "vehicle"}
Thickness == <<"visualizer", "thickness">>
Zoom == <<"architecture", "zoom">>
AutoY == <<"visualizer", "auto_y">>
YMin == <<"visualizer", "y_min">>
YMax == <<"visualizer", "y_max">>

Settings == Flags \cup Ratios \cup Words \cup ActiveTabs \cup Counts \cup Ticks \cup Limits \cup Pans \cup Filters
            \cup {Thickness, Zoom}

UpperTabs == <<"architecture", "timeline", "signals", "results">>
LowerTabs == <<"resources", "events">>
AllTabs == UpperTabs \o LowerTabs

RatioFallback(f) ==
    CASE f[2] = "left_sidebar" -> 520
      [] f[2] = "right_sidebar" -> 480
      [] f[2] = "center" -> 620
      [] f[2] = "results_summary" -> 300
      [] f[2] = "results_timing" -> 420

\* GuiWorkspaceState{}.
DefaultSetting(f) ==
    CASE f \in Flags -> f # <<"visualizer", "markers">>
      [] f \in Ratios -> RatioFallback(f)
      [] f \in Counts -> 1000
      [] f \in Filters -> Unset
      [] f = <<"active_tabs", "upper">> -> "architecture"
      [] f = <<"active_tabs", "lower">> -> "resources"
      [] f = YMin -> -1
      [] f = YMax -> 1
      [] f = Thickness -> 1500
      [] f = Zoom -> 1000
      [] OTHER -> 0

Defaulted == [set |-> [f \in Settings |-> DefaultSetting(f)], upper |-> UpperTabs, lower |-> LowerTabs,
              tasks |-> <<>>, resources |-> <<>>]

-----------------------------------------------------------------------------
(* Normalization. *)

Clamped(v, low, high) == IF v < low THEN low ELSE IF v > high THEN high ELSE v
ClampedOr(v, low, high, fallback) == IF v = NotFinite THEN fallback ELSE Clamped(v, low, high)

\* normalize_workspace_state for one setting; the limits of y fall back together.
NormalSetting(set, f) ==
    LET v == set[f]
        flat == set[YMin] = NotFinite \/ set[YMax] = NotFinite \/ set[YMin] >= set[YMax]
    IN  CASE f \in Ratios -> ClampedOr(v, 50, 950, RatioFallback(f))
          [] f \in Counts -> IF v = 0 THEN 1000 ELSE v
          [] f \in Pans -> IF v = NotFinite THEN 0 ELSE v
          [] f = Zoom -> ClampedOr(v, 25, 2500, 1000)
          [] f = Thickness -> ClampedOr(v, 500, 8000, 1500)
          [] f \in Limits \cup {AutoY} -> IF flat THEN DefaultSetting(f) ELSE v
          [] OTHER -> v

\* The first occurrence of a tab, upper group first, stays; missing tabs join the upper group.
Unique(tabs) == FoldLeft(LAMBDA kept, t : IF t \in ToSet(kept) THEN kept ELSE Append(kept, t), <<>>, tabs)
Without(tabs, seen) == SelectSeq(tabs, LAMBDA t : t \notin seen)

UpperOf(w) == Unique(w.upper) \o Without(AllTabs, ToSet(w.upper) \cup ToSet(w.lower))
LowerOf(w) == Without(Unique(w.lower), ToSet(w.upper))
RepairedActive(group, active) == IF group # <<>> /\ active \notin ToSet(group) THEN group[1] ELSE active

\* normalize_architecture_workspace.
Finite(row) == row.position # NotFinite
Tall(row) == row.size # Unset /\ row.size >= 48
NormalResource(row) == [row EXCEPT !.position = IF @ = NotFinite THEN Unset ELSE @,
                                   !.size = IF Tall(row) THEN @ ELSE Unset]
Kept(row) == row.position # Unset \/ row.size # Unset

Normalized(w) ==
    LET set == [f \in Settings |-> NormalSetting(w.set, f)]
        upper == UpperOf(w)
        lower == LowerOf(w)
    IN  [set |-> [set EXCEPT ![<<"active_tabs", "upper">>] = RepairedActive(upper, @),
                             ![<<"active_tabs", "lower">>] = RepairedActive(lower, @)],
         upper |-> upper, lower |-> lower,
         tasks |-> SelectSeq(w.tasks, Finite),
         resources |-> SelectSeq([i \in DOMAIN w.resources |-> NormalResource(w.resources[i])], Kept)]

-----------------------------------------------------------------------------
(* The file. *)

\* serialize_project_workspace_json: settings without a value and the parts of a resource
\* row that are not there are left out; every number is finite after normalization.
Serialized(w) ==
    [version |-> 5, unknown |-> FALSE, sections |-> Sections \cup {"center_tabs"},
     set |-> [f \in {s \in Settings : w.set[s] # Unset} |-> w.set[f]],
     legacy |-> [center |-> Unset, upper |-> Unset],
     upper |-> w.upper, lower |-> w.lower, tasks |-> w.tasks, resources |-> w.resources]

\* Older files name the centre splitter and the upper active tab differently.
LegacySetting(doc, f) ==
    CASE f = <<"splitters", "center">> /\ doc.legacy.center # Unset -> doc.legacy.center
      [] f = <<"active_tabs", "upper">> /\ doc.legacy.upper # Unset -> doc.legacy.upper
      [] OTHER -> DefaultSetting(f)

\* A setting that is absent or of another type has its default, an unknown word its first.
ReadSetting(doc, f) ==
    CASE f[1] \notin doc.sections -> DefaultSetting(f)
      [] f \notin DOMAIN doc.set -> LegacySetting(doc, f)
      [] doc.set[f] = Broken -> LegacySetting(doc, f)
      [] OTHER -> doc.set[f]

Tabs(doc, group) == IF group = Broken THEN <<>> ELSE SelectSeq(group, LAMBDA t : t \in ToSet(AllTabs))

Refused(doc) == doc.version \notin 1 .. 5 \/ doc.unknown

\* parse_project_workspace_json; load_project puts the defaults in place of a refused file.
Parsed(doc) ==
    IF Refused(doc) \/ doc.version = 1 THEN Defaulted
    ELSE Normalized(
             [set |-> [f \in Settings |-> ReadSetting(doc, f)],
              upper |-> IF "center_tabs" \in doc.sections THEN Tabs(doc, doc.upper) ELSE UpperTabs,
              lower |-> IF "center_tabs" \in doc.sections THEN Tabs(doc, doc.lower) ELSE LowerTabs,
              tasks |-> IF "architecture" \in doc.sections THEN SelectSeq(doc.tasks, LAMBDA row : row # Broken) ELSE <<>>,
              resources |-> IF "architecture" \in doc.sections
                            THEN SelectSeq(doc.resources, LAMBDA row : row # Broken) ELSE <<>>])

-----------------------------------------------------------------------------
(* What the user does. *)

Values(f) ==
    CASE f \in Flags -> BOOLEAN
      [] f \in Ratios \cup {Zoom, Thickness} -> {1, 400, 9000, NotFinite}
      [] f \in Counts -> {0, 7}
      [] f \in Limits -> {-5, 0, 5, NotFinite}
      [] f \in Filters -> {Unset, 2}
      [] f \in ActiveTabs -> ToSet(AllTabs)
      [] OTHER -> {0, 1}

Change(w) == /\ settings < MaxSettings /\ w # workspace
             /\ workspace' = w /\ settings' = settings + 1
             /\ UNCHANGED workspace_file

Configure == \E f \in Touched \ ActiveTabs : \E v \in Values(f) : Change([workspace EXCEPT !.set[f] = v])

\* Only a tab of a group can be activated there.
Activate ==
    \/ \E t \in ToSet(workspace.upper) : Change([workspace EXCEPT !.set[<<"active_tabs", "upper">>] = t])
    \/ \E t \in ToSet(workspace.lower) : Change([workspace EXCEPT !.set[<<"active_tabs", "lower">>] = t])

\* move_center_tab: the tab becomes active where it goes; the group it leaves may be empty.
MoveTab(tab, to) ==
    LET from == IF to = "upper" THEN "lower" ELSE "upper"
        left == Without(workspace[from], {tab})
    IN  /\ tab \in ToSet(workspace[from])
        /\ Change([workspace EXCEPT ![from] = left, ![to] = Append(@, tab), !.set[<<"active_tabs", to>>] = tab,
                                    !.set[<<"active_tabs", from>>] = IF left # <<>> /\ @ = tab THEN left[1] ELSE @])

\* reset_center_tab_arrangement.
ResetTabs ==
    Change([workspace EXCEPT !.upper = UpperTabs, !.lower = LowerTabs, !.set[<<"splitters", "center">>] = 620,
                             !.set[<<"active_tabs", "upper">>] = "architecture",
                             !.set[<<"active_tabs", "lower">>] = "resources"])

\* set_task_layout_position, resource_override and the resets: at most one row for an id,
\* and no resource row that overrides nothing.
RowWith(rows, id, row) ==
    IF \E i \in DOMAIN rows : rows[i].id = id
    THEN [i \in DOMAIN rows |-> IF rows[i].id = id THEN row ELSE rows[i]]
    ELSE Append(rows, row)
RowOf(id) ==
    IF \E i \in DOMAIN workspace.resources : workspace.resources[i].id = id
    THEN workspace.resources[CHOOSE i \in DOMAIN workspace.resources : workspace.resources[i].id = id]
    ELSE [id |-> id, position |-> Unset, size |-> Unset]

DragTask(id) == Change([workspace EXCEPT !.tasks = RowWith(@, id, [id |-> id, position |-> 1])])
ResetTask(id) == Change([workspace EXCEPT !.tasks = SelectSeq(@, LAMBDA row : row.id # id)])
PlaceResource(row) == Change([workspace EXCEPT !.resources = SelectSeq(RowWith(@, row.id, row), Kept)])
DragResource(id) == \/ \E p \in {Unset, 1} : PlaceResource([RowOf(id) EXCEPT !.position = p])
                    \/ \E s \in {Unset, 48} : PlaceResource([RowOf(id) EXCEPT !.size = s])
AutoLayout == Change([workspace EXCEPT !.tasks = <<>>, !.resources = <<>>])
ResetLayout ==
    Change([workspace EXCEPT !.tasks = <<>>, !.resources = <<>>,
                             !.set = [f \in Settings |-> IF f[1] = "architecture" THEN DefaultSetting(f) ELSE @[f]]])

Undamaged == <<"file", "whole">>
Legacy == <<"file", "legacy">>

\* synchronize_project_workspace, and the file of save_project.
Persist ==
    /\ workspace' = Normalized(workspace)
    /\ workspace_file' = [doc |-> Serialized(workspace'), saved |-> workspace', damage |-> Undamaged]
    /\ UNCHANGED settings

\* While no project is open, another version of the program wrote the file, or something
\* damaged one place of it.
Damages(doc) ==
    {[damage |-> f, doc |-> [doc EXCEPT !.set[f] = Broken]] : f \in Touched \cap DOMAIN doc.set}
    \cup {[damage |-> <<s, "*">>, doc |-> [doc EXCEPT !.sections = @ \ {s}]] : s \in (Sections \ {"top"}) \cup {"center_tabs"}}
    \cup {[damage |-> <<"center_tabs", "upper">>, doc |-> [doc EXCEPT !.upper = Broken]],
          [damage |-> <<"center_tabs", "lower">>, doc |-> [doc EXCEPT !.lower = Broken]],
          [damage |-> <<"center_tabs", "names">>, doc |-> [doc EXCEPT !.upper = <<"events", "plots">> \o @, !.lower = @ \o @]],
          [damage |-> <<"file", "rows">>, doc |-> [doc EXCEPT !.tasks = <<Broken>> \o @, !.resources = Append(@, Broken)]],
          [damage |-> Legacy, doc |-> [doc EXCEPT !.version = 3, !.legacy = [center |-> 400, upper |-> "results"],
                                                     !.set = [f \in DOMAIN @ \ {<<"splitters", "center">>,
                                                                                <<"active_tabs", "upper">>} |-> @[f]]]],
          [damage |-> <<"file", "unknown">>, doc |-> [doc EXCEPT !.unknown = TRUE]],
          [damage |-> <<"file", "version">>, doc |-> [doc EXCEPT !.version = 1]],
          [damage |-> <<"file", "version">>, doc |-> [doc EXCEPT !.version = 6]]}

Spoil ==
    /\ workspace_file.damage = Undamaged /\ workspace = workspace_file.saved /\ settings <= MaxSettings
    /\ \E d \in Damages(workspace_file.doc) : workspace_file' = d @@ [saved |-> workspace_file.saved]
    /\ settings' = MaxSettings + 1
    /\ UNCHANGED workspace

\* load_workspace_state, at the next opening.
Reload ==
    /\ workspace_file.damage # Undamaged
    /\ workspace' = Parsed(workspace_file.doc)
    /\ UNCHANGED <<workspace_file, settings>>

WorkspaceInit ==
    /\ workspace = Defaulted /\ settings = 0
    /\ workspace_file = [doc |-> Serialized(Defaulted), saved |-> Defaulted, damage |-> Undamaged]

WorkspaceNext ==
    \/ Configure \/ Activate \/ ResetTabs \/ AutoLayout \/ ResetLayout
    \/ \E t \in ToSet(AllTabs), to \in {"upper", "lower"} : MoveTab(t, to)
    \/ \E id \in RowIds : DragTask(id) \/ ResetTask(id) \/ DragResource(id)
    \/ Persist \/ Spoil \/ Reload

-----------------------------------------------------------------------------
Refusals == {<<"file", "unknown">>, <<"file", "version">>}

\* What a damaged place may cost, apart from itself: the limits of y fall back together,
\* and an active tab follows its group.
Cost(damage) ==
    CASE damage \in Limits -> Limits \cup {AutoY}
      [] damage[2] = "*" -> {f \in Settings : f[1] = damage[1]} \cup (IF damage[1] = "center_tabs" THEN ActiveTabs ELSE {})
      [] damage[1] = "center_tabs" -> ActiveTabs
      [] damage = Legacy -> {<<"splitters", "center">>, <<"active_tabs", "upper">>}
      [] damage \in Refusals -> Settings
      [] OTHER -> {damage}

\* Whatever is moved, reset, saved or damaged, every tab is in exactly one group, and a
\* group that has tabs shows one of its own.  What was saved is read back exactly; one damaged place
\* costs that place and no other setting, and a file of another version or with an unknown
\* field is read as the defaults.  Reading never yields anything that is not normalized
\* (normalize_workspace_state, move_center_tab, parse_project_workspace_json).
WorkspaceSound ==
    LET read == Parsed(workspace_file.doc)
        saved == workspace_file.saved
        damage == workspace_file.damage
        shows(w, g) == w[g] # <<>> => w.set[<<"active_tabs", g>>] \in ToSet(w[g])
    IN  /\ \A w \in {workspace, read} :
               /\ Len(w.upper) + Len(w.lower) = Len(AllTabs)
               /\ ToSet(w.upper \o w.lower) = ToSet(AllTabs)
               /\ shows(w, "upper") /\ shows(w, "lower")
               /\ \A i, j \in DOMAIN w.resources : w.resources[i].id = w.resources[j].id => i = j
        /\ Normalized(read) = read
        /\ damage = Undamaged => read = saved
        /\ damage \in Refusals => read = Defaulted
        /\ damage = Legacy => read.set[<<"splitters", "center">>] = 400
        /\ \A f \in Settings \ Cost(damage) : read.set[f] = saved.set[f]
        /\ damage[1] # "center_tabs" /\ damage \notin Refusals =>
               read.upper = saved.upper /\ read.lower = saved.lower
        /\ damage # <<"architecture", "*">> /\ damage \notin Refusals =>
               read.tasks = saved.tasks /\ read.resources = saved.resources
=============================================================================

--------------------------- MODULE ProjectPanels ---------------------------
(***************************************************************************)
(* What one tab of the management frontend keeps from one project page to  *)
(* the next: the comments of a task, the dialog with the basemaps, and the *)
(* background of the map with the menu that switches it.                   *)
(*                                                                         *)
(* The lists live in the slice "project", which no page empties; whichever *)
(* answer comes last is shown.  The menu and the layers of the map are     *)
(* state of the page; each keeps its own record of what is visible.        *)
(***************************************************************************)
EXTENDS Naturals, Sequences, SequencesExt

CONSTANTS
    Project, NoProject,
    Area, NoArea,        \* tasks; NoArea: none is selected, or the id is undefined
    ProjectOf,           \* tasks.project_id
    Tiled,               \* the projects with custom_tms_url
    MaxSends, MaxOthers  \* bounds: requests the user causes, comments of other users

ASSUME PanelsAssumption ==
  /\ NoProject \notin Project /\ NoArea \notin Area
  /\ ProjectOf \in [Area -> Project]

VARIABLES
    here,                \* the project in the address; NoProject on other pages
    taskBoundries,       \* of the slice: the project whose tasks are there
    projectInfo,         \* of the slice: the project they describe
    taskModalStatus, viewState,
    selectedTask,
    log,                 \* the backend: per task its comments
    projectCommentsList, \* of the slice: the task they were asked for, and the comments shown
    tiles,               \* the dialog: open, whose tiles the list shows, loading
    customBasemapUrl,    \* of the slice: the project whose basemap was chosen to be viewed
    layers,              \* of the map: the base layer that is visible, and the custom one
    menu,                \* of LayerSwitchMenu: what it offers and marks as visible
    sends, sendings, others, \* requests without an answer; counters of the bounds
    mixed,               \* history: comments whose list and posts overlapped, or failed
    strayed              \* history: tiles of another project were under way, or none came

panelVars == <<here, taskBoundries, projectInfo, taskModalStatus, viewState, selectedTask, log,
               projectCommentsList, tiles, customBasemapUrl, layers, menu, sends, sendings,
               others, mixed, strayed>>

-----------------------------------------------------------------------------
Somewhere == Project \union {NoProject}
Selected == Area \union {NoArea}

Comment == [n : Nat, mine : BOOLEAN]

Base == {"OSM", "Satellite", "None", "TMS Layer"}

\* rows: what the backend answered; done: it has.
Sending == [n : Nat, kind : {"project", "comments", "post", "tiles", "generate"},
            project : Project, task : Selected, rows : Seq(Comment), done : BOOLEAN, ok : BOOLEAN]

PanelsTypeOK ==
  /\ here \in Somewhere /\ taskBoundries \in Somewhere /\ projectInfo \in Somewhere
  /\ taskModalStatus \in BOOLEAN
  /\ viewState \in {"project_info", "task_activity", "comments", "instructions"}
  /\ selectedTask \in Selected
  /\ log \in [Area -> Seq(Comment)]
  /\ projectCommentsList \in [of : Selected, rows : Seq(Comment)]
  /\ tiles \in [open : BOOLEAN, of : Somewhere, loading : BOOLEAN]
  /\ customBasemapUrl \in Somewhere
  /\ layers \in [base : Base \union {"nothing"}, custom : BOOLEAN]
  /\ menu \in [active : Base, tms : BOOLEAN, hasPMTile : BOOLEAN, tile : BOOLEAN]
  /\ sends \subseteq Sending
  /\ sendings \in Nat /\ others \in Nat
  /\ mixed \in BOOLEAN /\ strayed \in BOOLEAN

\* currentStatus.id: of the selected task among the tasks of the project in the address.
currentStatus(task, bounds, p) ==
  IF bounds = p /\ task \in Area /\ ProjectOf[task] = p THEN task ELSE NoArea

Send(k, kind, p, task) == [n |-> sendings + k, kind |-> kind, project |-> p, task |-> task,
                           rows |-> <<>>, done |-> FALSE, ok |-> TRUE]

AboutComments(as) == {a \in as : a.kind \in {"comments", "post"}}
AboutTiles(as) == {a \in as : a.kind \in {"tiles", "generate"}}

\* The effect of Comments, while it is mounted: whenever the task, the project or the id change.
CommentsEffect(as, k, changed) ==
  LET id == currentStatus(selectedTask', taskBoundries', here')
      asks == changed /\ here' # NoProject /\ viewState' = "comments" IN
  /\ sends' = IF asks THEN as \union {Send(k, "comments", here', id)} ELSE as
  /\ sendings' = IF asks THEN sendings + k ELSE sendings + k - 1
  /\ mixed' = IF asks THEN AboutComments(as) # {} ELSE mixed

-----------------------------------------------------------------------------
(* Pages. *)

\* The layers and the menu when they are mounted: the menu marks OSM whatever is visible.
Mounted(info) ==
  /\ layers' = [base |-> IF customBasemapUrl = NoProject THEN "OSM" ELSE "nothing",
                custom |-> customBasemapUrl # NoProject]
  /\ menu' = [active |-> "OSM", tms |-> info \in Tiled,
              hasPMTile |-> customBasemapUrl # NoProject, tile |-> customBasemapUrl # NoProject]

\* A new projectInfo: the TMS layer is taken away and put back invisible; the menu goes on
\* offering it.
InfoChanges(info) ==
  /\ layers' = [layers EXCEPT !.base = IF @ = "TMS Layer" THEN "nothing" ELSE @]
  /\ menu' = [menu EXCEPT !.tms = @ \/ info \in Tiled]

\* The page is opened, or the history of the browser changes the project under it.  The
\* details of another project make place for selectedProject, which nothing ever sets.
open_panels(p) ==
  /\ sendings < MaxSends
  /\ p # here
  /\ here' = p /\ taskBoundries' = NoProject
  /\ projectInfo' = IF projectInfo = p THEN p ELSE NoProject
  /\ IF here = NoProject
     THEN /\ taskModalStatus' = FALSE /\ viewState' = "project_info"
          /\ tiles' = [tiles EXCEPT !.open = FALSE]
          /\ Mounted(projectInfo') /\ strayed' = strayed
     ELSE /\ strayed' = TRUE
          /\ IF projectInfo' = projectInfo THEN UNCHANGED <<layers, menu>>
             ELSE InfoChanges(projectInfo')
          /\ UNCHANGED <<taskModalStatus, viewState, tiles>>
  /\ UNCHANGED <<selectedTask, log, projectCommentsList, customBasemapUrl, others>>
  /\ CommentsEffect(sends \union {Send(1, "project", p, NoArea)}, 2, TRUE)

leave_panels ==
  /\ here # NoProject /\ here' = NoProject
  /\ UNCHANGED <<taskBoundries, projectInfo, taskModalStatus, viewState, selectedTask, log,
                 projectCommentsList, tiles, customBasemapUrl, layers, menu, sends, sendings,
                 others, mixed, strayed>>

-----------------------------------------------------------------------------
(* The panel and the popup of a task. *)

OnPage == here # NoProject
MayAsk == sendings < MaxSends

\* A click on one of the tasks the map draws.
projectClickOnTaskArea(t) ==
  /\ OnPage /\ MayAsk /\ ~tiles.open
  /\ ProjectOf[t] = taskBoundries
  /\ selectedTask' = t /\ taskModalStatus' = TRUE
  /\ viewState' = IF taskModalStatus THEN viewState ELSE "task_activity"
  /\ UNCHANGED <<here, taskBoundries>>
  /\ CommentsEffect(sends, 1, t # selectedTask)
  /\ UNCHANGED <<projectInfo, log, projectCommentsList, tiles, customBasemapUrl,
                 layers, menu, others, strayed>>

\* The cross of the popup.
close_popup ==
  /\ OnPage /\ taskModalStatus /\ ~tiles.open
  /\ taskModalStatus' = FALSE /\ viewState' = "project_info" /\ selectedTask' = NoArea
  /\ UNCHANGED <<here, taskBoundries, projectInfo, log, projectCommentsList, tiles,
                 customBasemapUrl, layers, menu, sends, sendings, others, mixed, strayed>>

\* The buttons over the panel; Comments asks when it is mounted.
setViewState(v) ==
  /\ OnPage /\ MayAsk /\ v # viewState /\ ~tiles.open
  /\ v \in {"task_activity", "comments"} => taskModalStatus
  /\ v = "project_info" => ~taskModalStatus
  /\ viewState' = v
  /\ UNCHANGED <<here, taskBoundries, selectedTask>>
  /\ CommentsEffect(sends, 1, TRUE)
  /\ UNCHANGED <<projectInfo, taskModalStatus, log, projectCommentsList, tiles,
                 customBasemapUrl, layers, menu, others, strayed>>

\* handleComment: the button shows that it is loading while a comment is under way; the text
\* is cleared, whatever becomes of it.
PostProjectComments ==
  /\ OnPage /\ MayAsk /\ viewState = "comments" /\ ~tiles.open
  /\ ~\E a \in sends : a.kind = "post"
  /\ sends' = sends \union {Send(1, "post", here,
                                 currentStatus(selectedTask, taskBoundries, here))}
  /\ sendings' = sendings + 1
  /\ mixed' = (mixed \/ AboutComments(sends) # {})
  /\ UNCHANGED <<here, taskBoundries, projectInfo, taskModalStatus, viewState, selectedTask, log,
                 projectCommentsList, tiles, customBasemapUrl, layers, menu, others, strayed>>

-----------------------------------------------------------------------------
(* The dialog with the basemaps. *)

AskTiles(kind) ==
  /\ MayAsk
  /\ sends' = sends \union {Send(1, kind, here, NoArea)} /\ sendings' = sendings + 1
  /\ strayed' = \E a \in AboutTiles(sends) : a.project # here

\* Mutant of effect_open: only if there is none.
effect_first == IF tiles.of = NoProject THEN AskTiles("tiles")
                ELSE UNCHANGED <<sends, sendings>> /\ strayed' = FALSE

\* BASEMAPS, also in the popup of a task, which it closes: the list is asked for.
effect_open == AskTiles("tiles")

ToggleGenerateMbTilesModalStatus(popup) ==
  /\ OnPage /\ ~tiles.open
  /\ popup => taskModalStatus
  /\ tiles' = [tiles EXCEPT !.open = TRUE]
  /\ effect_open
  /\ IF popup THEN taskModalStatus' = FALSE /\ viewState' = "project_info"
     ELSE UNCHANGED <<taskModalStatus, viewState>>
  /\ UNCHANGED <<here, taskBoundries, projectInfo, selectedTask, log, projectCommentsList,
                 customBasemapUrl, layers, menu, others, mixed>>

close_dialog ==
  /\ OnPage /\ tiles.open
  /\ tiles' = [tiles EXCEPT !.open = FALSE]
  /\ UNCHANGED <<here, taskBoundries, projectInfo, taskModalStatus, viewState, selectedTask, log,
                 projectCommentsList, customBasemapUrl, layers, menu, sends, sendings, others,
                 mixed, strayed>>

\* Refresh, and Generate with a source and a format: no button while a basemap is requested.
RefreshTiles ==
  /\ OnPage /\ tiles.open /\ ~tiles.loading
  /\ AskTiles("tiles")
  /\ UNCHANGED <<here, taskBoundries, projectInfo, taskModalStatus, viewState, selectedTask, log,
                 projectCommentsList, tiles, customBasemapUrl, layers, menu, others, mixed>>

generateProjectTiles ==
  /\ OnPage /\ MayAsk /\ tiles.open /\ ~tiles.loading
  /\ tiles' = [tiles EXCEPT !.loading = TRUE]
  /\ sends' = sends \union {Send(1, "generate", here, NoArea)} /\ sendings' = sendings + 1
  /\ UNCHANGED <<here, taskBoundries, projectInfo, taskModalStatus, viewState, selectedTask, log,
                 projectCommentsList, customBasemapUrl, layers, menu, others, mixed, strayed>>

-----------------------------------------------------------------------------
(* The background of the map. *)

\* Mutant of viewed: the menu offers it without marking it.
viewed_offered == /\ layers' = [layers EXCEPT !.custom = TRUE]
                  /\ menu' = [menu EXCEPT !.hasPMTile = TRUE]

\* The eye of a finished basemap: a new address makes a new layer, which is visible, and the
\* menu marks it.
viewed == /\ layers' = [layers EXCEPT !.custom = TRUE]
          /\ menu' = [menu EXCEPT !.hasPMTile = TRUE, !.tile = TRUE]

SetPmtileBasemapUrl ==
  /\ OnPage /\ tiles.open /\ tiles.of # NoProject
  /\ customBasemapUrl' = tiles.of
  /\ IF tiles.of = customBasemapUrl THEN UNCHANGED <<layers, menu>> ELSE viewed
  /\ UNCHANGED <<here, taskBoundries, projectInfo, taskModalStatus, viewState, selectedTask, log,
                 projectCommentsList, tiles, sends, sendings, others, mixed, strayed>>

\* Every other base layer is hidden; the menu marks the one it finds.
changeBaseLayer(title) ==
  /\ OnPage /\ ~tiles.open
  /\ title = "TMS Layer" => menu.tms
  /\ IF title = "TMS Layer" /\ projectInfo \notin Tiled
     THEN layers' = [layers EXCEPT !.base = "nothing"] /\ menu' = menu
     ELSE layers' = [layers EXCEPT !.base = title] /\ menu' = [menu EXCEPT !.active = title]
  /\ UNCHANGED <<here, taskBoundries, projectInfo, taskModalStatus, viewState, selectedTask, log,
                 projectCommentsList, tiles, customBasemapUrl, sends, sendings, others, mixed,
                 strayed>>

toggleTileLayer ==
  /\ OnPage /\ ~tiles.open /\ menu.hasPMTile
  /\ layers' = [layers EXCEPT !.custom = ~@]
  /\ menu' = [menu EXCEPT !.tile = ~layers.custom]
  /\ UNCHANGED <<here, taskBoundries, projectInfo, taskModalStatus, viewState, selectedTask, log,
                 projectCommentsList, tiles, customBasemapUrl, sends, sendings, others, mixed,
                 strayed>>

-----------------------------------------------------------------------------
(* The backend: comments are listed and written; a request for no task is refused.  A comment *)
(* may be written and its answer lost.                                                        *)

serve(a, ok) ==
  /\ a \in AboutComments(sends) /\ ~a.done
  /\ a.task = NoArea => ~ok
  /\ sends' = (sends \ {a}) \union
              {[a EXCEPT !.done = TRUE, !.ok = ok,
                         !.rows = IF a.kind = "comments" /\ ok THEN log[a.task] ELSE <<>>]}
  /\ \/ /\ a.kind = "post" /\ a.task # NoArea
        /\ log' = [log EXCEPT ![a.task] = Append(@, [n |-> a.n, mine |-> TRUE])]
     \/ (a.kind = "post" => ~ok) /\ log' = log
  /\ UNCHANGED <<here, taskBoundries, projectInfo, taskModalStatus, viewState, selectedTask,
                 projectCommentsList, tiles, customBasemapUrl, layers, menu, sendings, others,
                 mixed, strayed>>

other_comments(t) ==
  /\ others < MaxOthers
  /\ log' = [log EXCEPT ![t] = Append(@, [n |-> others, mine |-> FALSE])]
  /\ others' = others + 1
  /\ UNCHANGED <<here, taskBoundries, projectInfo, taskModalStatus, viewState, selectedTask,
                 projectCommentsList, tiles, customBasemapUrl, layers, menu, sends, sendings,
                 mixed, strayed>>

-----------------------------------------------------------------------------
(* Answers. *)

\* ProjectById: the tasks and the details of the project that was asked for.
ProjectById(a, ok) ==
  /\ a.kind = "project"
  /\ UNCHANGED <<here, viewState, selectedTask>>
  /\ IF ok
     THEN /\ taskBoundries' = a.project /\ projectInfo' = a.project
          /\ IF OnPage THEN InfoChanges(a.project) ELSE UNCHANGED <<layers, menu>>
     ELSE UNCHANGED <<taskBoundries, projectInfo, layers, menu>>
  /\ CommentsEffect(sends \ {a}, 1, currentStatus(selectedTask, taskBoundries', here)
                                    # currentStatus(selectedTask, taskBoundries, here))
  /\ UNCHANGED <<taskModalStatus, log, projectCommentsList, tiles, customBasemapUrl, others,
                 strayed>>

GetProjectComments(a) ==
  /\ a.kind = "comments" /\ a.done
  /\ projectCommentsList' = IF a.ok THEN [of |-> a.task, rows |-> a.rows] ELSE projectCommentsList
  /\ mixed' = (mixed \/ ~a.ok)
  /\ sends' = sends \ {a}
  /\ UNCHANGED <<here, taskBoundries, projectInfo, taskModalStatus, viewState, selectedTask, log,
                 tiles, customBasemapUrl, layers, menu, sendings, others, strayed>>

\* Mutant of UpdateProjectCommentsList: the list is as it was.
comments_kept(a) == projectCommentsList.rows

\* Appended to the list there is, newest first as that may be.
UpdateProjectCommentsList(a) == Append(projectCommentsList.rows, [n |-> a.n, mine |-> TRUE])

CommentPosted(a) ==
  /\ a.kind = "post" /\ a.done
  /\ projectCommentsList' = IF a.ok THEN [projectCommentsList EXCEPT !.rows = UpdateProjectCommentsList(a)]
                            ELSE projectCommentsList
  /\ mixed' = (mixed \/ ~a.ok)
  /\ sends' = sends \ {a}
  /\ UNCHANGED <<here, taskBoundries, projectInfo, taskModalStatus, viewState, selectedTask, log,
                 tiles, customBasemapUrl, layers, menu, sendings, others, strayed>>

GetTilesList(a, ok) ==
  /\ a.kind = "tiles"
  /\ tiles' = IF ok THEN [tiles EXCEPT !.of = a.project] ELSE tiles
  /\ strayed' = (strayed \/ ~ok \/ a.project # here)
  /\ sends' = sends \ {a}
  /\ UNCHANGED <<here, taskBoundries, projectInfo, taskModalStatus, viewState, selectedTask, log,
                 projectCommentsList, customBasemapUrl, layers, menu, sendings, others, mixed>>

\* A list of the project the basemap was requested for follows.
GenerateProjectTiles(a, ok) ==
  /\ a.kind = "generate"
  /\ tiles' = [tiles EXCEPT !.loading = FALSE]
  /\ sends' = (sends \ {a}) \union
              (IF ok THEN {[a EXCEPT !.kind = "tiles"]} ELSE {})
  /\ UNCHANGED <<here, taskBoundries, projectInfo, taskModalStatus, viewState, selectedTask, log,
                 projectCommentsList, customBasemapUrl, layers, menu, sendings, others, mixed,
                 strayed>>

-----------------------------------------------------------------------------
PanelsInit ==
  /\ here = NoProject /\ taskBoundries = NoProject /\ projectInfo = NoProject
  /\ taskModalStatus = FALSE /\ viewState = "project_info" /\ selectedTask = NoArea
  /\ log = [t \in Area |-> <<>>]
  /\ projectCommentsList = [of |-> NoArea, rows |-> <<>>]
  /\ tiles = [open |-> FALSE, of |-> NoProject, loading |-> FALSE]
  /\ customBasemapUrl = NoProject
  /\ layers = [base |-> "OSM", custom |-> FALSE]
  /\ menu = [active |-> "OSM", tms |-> FALSE, hasPMTile |-> FALSE, tile |-> FALSE]
  /\ sends = {} /\ sendings = 0 /\ others = 0
  /\ mixed = FALSE /\ strayed = FALSE

PanelsNext ==
  \/ \E p \in Project : open_panels(p)
  \/ leave_panels
  \/ \E t \in Area : projectClickOnTaskArea(t) \/ other_comments(t)
  \/ close_popup
  \/ \E v \in {"project_info", "task_activity", "comments", "instructions"} : setViewState(v)
  \/ PostProjectComments
  \/ \E popup \in BOOLEAN : ToggleGenerateMbTilesModalStatus(popup)
  \/ close_dialog \/ RefreshTiles \/ generateProjectTiles
  \/ SetPmtileBasemapUrl \/ toggleTileLayer
  \/ \E title \in Base : changeBaseLayer(title)
  \/ \E a \in sends :
       \/ \E ok \in BOOLEAN : \/ serve(a, ok) \/ ProjectById(a, ok)
                              \/ GetTilesList(a, ok) \/ GenerateProjectTiles(a, ok)
       \/ GetProjectComments(a) \/ CommentPosted(a)

PanelsSpec == PanelsInit /\ [][PanelsNext]_panelVars

-----------------------------------------------------------------------------
(* Properties. *)

OwnOf(rows) == {rows[i].n : i \in {k \in DOMAIN rows : rows[k].mine}}

\* Once nothing is under way, the comments that are shown are comments of the selected task,
\* none twice and none of the user's own missing, unless a list and a comment were under way
\* together, or a request for comments failed since the list was asked for.
CommentsFit ==
  OnPage /\ viewState = "comments" /\ ~mixed /\ AboutComments(sends) = {} =>
    LET rows == projectCommentsList.rows IN
    /\ projectCommentsList.of = selectedTask /\ selectedTask \in Area
    /\ IsInjective(rows)
    /\ Range(rows) \subseteq Range(log[selectedTask])
    /\ OwnOf(rows) = OwnOf(log[selectedTask])

\* The dialog lists, to be viewed on the map, the basemaps of the project in the address once
\* nothing is under way, unless those of another project were, or the request failed, or the
\* project changed under the dialog.
TilesFit ==
  tiles.open /\ OnPage /\ ~strayed /\ AboutTiles(sends) = {} => tiles.of = here

\* The menu marks as visible what the map shows: the base layer if there is one, and the
\* custom layer.
MenuFits ==
  OnPage => /\ layers.base # "nothing" => menu.active = layers.base
            /\ menu.tile = layers.custom
=============================================================================

----------------------------- MODULE MapperPage -----------------------------
(***************************************************************************)
(* The map page of the mapper frontend: one browser, one project, from one *)
(* page load to the next.  A click on the map selects a task area and      *)
(* perhaps a feature, and opens the dialog of one of them; the dialogs     *)
(* lock the task, mark the feature as opened and hand over to ODK Collect; *)
(* a new feature is drawn between the same clicks; the features of the     *)
(* selected area and the offline basemap arrive from the network.          *)
(*                                                                         *)
(* What the streams say (the state of the selected task, MapperStore; the  *)
(* status of a feature, EntitySync) may change between any two steps: it   *)
(* is chosen where a dialog looks at it.  The walkthrough of the first     *)
(* visit, the layer switcher and what is only drawn are left out.          *)
(***************************************************************************)
EXTENDS Naturals, Sequences

CONSTANTS
    Task,       \* the areas of the project
    Entity,     \* its features
    TaskOf,     \* the area a feature belongs to: its centroid is inside
    Reach,      \* where else a feature can be clicked: the areas its outline reaches
    Around,     \* the features whose bounding box meets that of an area
    Basemap,    \* the pmtiles basemaps that can be downloaded
    Forced,     \* BOOLEAN: geo_restrict_force_error
    None,
    Blank,      \* a file without a basemap in it
    MaxLoads    \* bound: requests for the features of an area in flight

\* Outside of every area a click selects None.
ASSUME PageAssumption ==
  /\ None \notin Task \union Entity \union Basemap
  /\ "nothing" \notin Task \union {None}
  /\ Blank \notin Basemap \union {None}
  /\ TaskOf \in [Entity -> Task]
  /\ Reach \in [Entity -> SUBSET (Task \union {None})]
  /\ Forced \in BOOLEAN
  /\ MaxLoads \in Nat

\* A box holds what it bounds.
ASSUME AroundAssumption ==
  /\ Around \in [Task -> SUBSET Entity]
  /\ \A e \in Entity : \A a \in {TaskOf[e]} \union (Reach[e] \ {None}) : e \in Around[a]

VARIABLES
    page,       \* the stores and the state of the components, see Page
    loads,      \* the requests of the layer FlatGeobuf in flight, oldest first
    features,   \* the features that the map shows
    newest,     \* history: what became of the last request for features
    opfs,       \* the file basemap.pmtiles of the project; it survives the page
    pmtiles,    \* the contents behind projectPmtilesUrl
    downloads,  \* basemaps on their way to the file
    failed,     \* history: the last download that ended had failed, or was broken off
    sent        \* what the last step sent to the backend or to ODK Collect

vars == <<page, loads, features, newest, opfs, pmtiles, downloads, failed, sent>>

-----------------------------------------------------------------------------
Area == Task \union {None}

Page == [task : Area, entity : Entity \union {None},
         modal : {"entity-modal", "task-modal", None}, tab : {"map", "events", "other"},
         warn : BOOLEAN,                          \* the distance warning is open
         geo : {"off", "on", "located"}, navigate : BOOLEAN,
         draw : BOOLEAN, geom : Area \union {"nothing"},  \* the area a new feature was drawn in
         at : Area,                               \* history: where the map was last clicked
         moved : BOOLEAN]                         \* history: clicked or dragged since drawn

Message == [kind : {"none", "collect", "map", "new"}, what : Entity \union Area, task : Area]

TypeOK ==
  /\ page \in Page
  /\ loads \in Seq(Task)
  /\ features \subseteq Entity
  /\ newest \in {"flight", "shown", "other"}
  /\ opfs \in Basemap \union {None, Blank}
  /\ pmtiles \in Basemap \union {None, Blank}
  /\ downloads \subseteq Basemap
  /\ failed \in BOOLEAN
  /\ sent \in Message

Fresh == [task |-> None, entity |-> None, modal |-> None, tab |-> "map", warn |-> FALSE,
          geo |-> "off", navigate |-> FALSE, draw |-> FALSE, geom |-> "nothing",
          at |-> None, moved |-> FALSE]

Nothing == [kind |-> "none", what |-> None, task |-> None]

Init ==
  /\ page = Fresh
  /\ loads = <<>>
  /\ features = {}
  /\ newest = "shown"
  /\ opfs = None
  /\ pmtiles = None
  /\ downloads = {}
  /\ failed = FALSE
  /\ sent = Nothing

mapVars == <<loads, features, newest>>
fileVars == <<opfs, pmtiles, downloads, failed>>

-----------------------------------------------------------------------------
(***************************************************************************)
(* The features.  setSelectedTaskId changes the extent of the layer, whose *)
(* effect asks for the file's features in it; no area, no request: the     *)
(* layer is emptied at once.                                               *)
(***************************************************************************)
\* Mutant of updateGeoJSONData: without an area the layer is left as it is.
updateGeoJSONData_kept(extent) ==
  IF extent = None
  THEN UNCHANGED mapVars
  ELSE /\ Len(loads) < MaxLoads
       /\ loads' = Append(loads, extent) /\ newest' = "flight"
       /\ UNCHANGED features

updateGeoJSONData(extent) ==
  IF extent = None
  THEN features' = {} /\ newest' = "shown" /\ UNCHANGED loads
  ELSE /\ Len(loads) < MaxLoads
       /\ loads' = Append(loads, extent) /\ newest' = "flight"
       /\ UNCHANGED features

IsNewest(i) == newest = "flight" /\ i = Len(loads)

\* The requests in flight without the i-th.
Others(i) == SubSeq(loads, 1, i - 1) \o SubSeq(loads, i + 1, Len(loads))

FeaturesOf(t) == {e \in Entity : TaskOf[e] = t}

\* An answer is shown when it comes, whatever has been asked or shown since: of the features
\* around the area that was asked for, those of the area that is then selected, and all of them
\* if none is.
features_loaded(i) ==
  /\ features' = IF page.task = None THEN Around[loads[i]]
                 ELSE Around[loads[i]] \intersect FeaturesOf(page.task)
  /\ newest' = IF IsNewest(i) THEN "shown" ELSE IF newest = "flight" THEN "flight" ELSE "other"
  /\ loads' = Others(i)
  /\ sent' = Nothing /\ UNCHANGED <<page, fileVars>>

\* The request fails: the layer keeps what it shows.
features_failed(i) ==
  /\ newest' = IF IsNewest(i) THEN "other" ELSE newest
  /\ loads' = Others(i)
  /\ sent' = Nothing /\ UNCHANGED <<page, features, fileVars>>

\* New statuses from the stream: the layer is asked for again, to be coloured.
list_changed ==
  /\ updateGeoJSONData(page.task)
  /\ sent' = Nothing /\ UNCHANGED <<page, fileVars>>

-----------------------------------------------------------------------------
(***************************************************************************)
(* A click on the map: area a and, if one of the features shown is hit,    *)
(* feature e.  The handler of the component MapLibre deselects everything, *)
(* then handleMapClick selects what was hit.                               *)
(***************************************************************************)
Spot == Area \X (Entity \union {None})

\* A feature of the layer can be hit in its own area and where it reaches.
Hit(a, e) == e # None => e \in features /\ a \in Reach[e] \union {TaskOf[e]}

clicked(a, e) ==
  [page EXCEPT !.task = a, !.entity = e,
               !.modal = IF e # None THEN "entity-modal"
                         ELSE IF a # None THEN "task-modal" ELSE None,
               !.at = a, !.moved = TRUE]

handleMapClick(a, e) ==
  /\ Hit(a, e) /\ ~page.warn
  /\ page' = clicked(a, e)
  /\ updateGeoJSONData(a)
  /\ sent' = Nothing /\ UNCHANGED fileVars

\* The tab group and the bottom sheet.
show_tab(tab) ==
  /\ tab # page.tab /\ ~page.warn
  /\ page' = [page EXCEPT !.tab = tab]
  /\ sent' = Nothing /\ UNCHANGED <<mapVars, fileVars>>

\* Mutant of activities: all tasks, whatever is selected.
activities_all == Task

\* The tasks that have a row in the list of activities: the selected one, if there is one.
activities == IF page.task = None THEN Task ELSE {page.task}

zoomToTask(t) ==
  /\ page.tab = "events" /\ t \in activities
  /\ page' = [page EXCEPT !.task = t, !.tab = "map"]
  /\ updateGeoJSONData(t)
  /\ sent' = Nothing /\ UNCHANGED fileVars

close_dialog ==
  /\ page.modal # None /\ page.tab = "map" /\ ~page.warn
  /\ page' = [page EXCEPT !.modal = None]
  /\ sent' = Nothing /\ UNCHANGED <<mapVars, fileVars>>

-----------------------------------------------------------------------------
(* The dialog of a feature; s is its status in the page's list, st the state of the task. *)

TaskState == {"UNLOCKED_TO_MAP", "LOCKED_FOR_MAPPING", "OTHER"}
EntityStatus == {"READY", "OPENED_IN_ODK", "MARKED_BAD", "OTHER"}

entity_dialog == page.modal = "entity-modal" /\ page.tab = "map" /\ page.entity # None

\* On a phone: mark the feature, lock the selected task if it is free, open ODK Collect.
mapFeature(s, st) ==
  sent' = [kind |-> "collect", what |-> page.entity,
           task |-> IF s = "READY" /\ st = "UNLOCKED_TO_MAP" THEN page.task ELSE None]

\* MAP FEATURE IN ODK; far: beyond geo_restrict_distance_meters.
handleMapFeature(s, st, far) ==
  /\ entity_dialog /\ ~page.warn /\ s # "OTHER"
  /\ IF page.geo = "located" /\ far
     THEN /\ ~Forced
          /\ page' = [page EXCEPT !.warn = TRUE]
          /\ sent' = Nothing
     ELSE /\ Forced => page.geo = "located"
          /\ mapFeature(s, st)
          /\ UNCHANGED page
  /\ UNCHANGED <<mapVars, fileVars>>

\* YES or NO; meanwhile the list may have changed, or lost the feature.
answer_warning(yes, listed, s, st) ==
  /\ page.warn
  /\ page' = [page EXCEPT !.warn = FALSE]
  /\ IF yes /\ listed THEN mapFeature(s, st) ELSE sent' = Nothing
  /\ UNCHANGED <<mapVars, fileVars>>

navigateToEntity ==
  /\ entity_dialog /\ ~page.warn /\ page.geo # "off"
  /\ page' = [page EXCEPT !.navigate = TRUE]
  /\ sent' = Nothing /\ UNCHANGED <<mapVars, fileVars>>

exitNavigation == [page EXCEPT !.entity = None, !.navigate = FALSE]

exitNavigationMode ==
  /\ page.navigate /\ page.geo # "off" /\ ~page.warn
  /\ page' = exitNavigation
  /\ sent' = Nothing /\ UNCHANGED <<mapVars, fileVars>>

\* The button of the location, and the first position.
toggleGeolocation ==
  /\ ~page.warn
  /\ page' = IF page.geo = "off" THEN [page EXCEPT !.geo = "on"]
             ELSE [exitNavigation EXCEPT !.geo = "off"]
  /\ sent' = Nothing /\ UNCHANGED <<mapVars, fileVars>>

located ==
  /\ page.geo = "on"
  /\ page' = [page EXCEPT !.geo = "located"]
  /\ sent' = Nothing /\ UNCHANGED <<mapVars, fileVars>>

-----------------------------------------------------------------------------
(* The dialog of a task, and a new feature. *)

task_dialog(st) ==
  page.modal = "task-modal" /\ page.tab = "map" /\ page.task # None /\ st # "OTHER"

\* START MAPPING, CANCEL MAPPING, COMPLETE MAPPING.
task_event(st) ==
  /\ task_dialog(st) /\ ~page.warn
  /\ sent' = [kind |-> "map", what |-> None, task |-> page.task]
  /\ UNCHANGED <<page, mapVars, fileVars>>

clickMapNewFeature(st) ==
  /\ task_dialog(st) /\ ~page.warn
  /\ page' = [page EXCEPT !.modal = None, !.draw = TRUE]
  /\ sent' = Nothing /\ UNCHANGED <<mapVars, fileVars>>

\* The click that finishes the drawing is a click on the map too; the mode is then "select".
drawn(a, e) == [clicked(a, e) EXCEPT !.geom = a, !.moved = FALSE]

handleDrawnGeom(a, e) ==
  /\ page.draw
  /\ Hit(a, e) /\ ~page.warn
  /\ page' = drawn(a, e)
  /\ updateGeoJSONData(a)
  /\ sent' = Nothing /\ UNCHANGED fileVars

\* The drawn feature is dragged elsewhere: "finish" again, without a click.
drag_geom(a) ==
  /\ page.draw /\ page.geom # "nothing" /\ ~page.warn
  /\ page' = [page EXCEPT !.geom = a, !.moved = TRUE]
  /\ sent' = Nothing /\ UNCHANGED <<mapVars, fileVars>>

cancelled == [page EXCEPT !.draw = FALSE, !.geom = "nothing"]

\* CANCEL and PROCEED.
cancelMapNewFeatureInODK ==
  /\ page.geom # "nothing" /\ ~page.warn
  /\ page' = cancelled
  /\ sent' = Nothing /\ UNCHANGED <<mapVars, fileVars>>

mapNewFeatureInODK ==
  /\ page.geom # "nothing" /\ ~page.warn
  /\ page' = cancelled
  /\ sent' = [kind |-> "new", what |-> page.geom, task |-> page.task]
  /\ UNCHANGED <<mapVars, fileVars>>

-----------------------------------------------------------------------------
(* Basemaps. *)

loadOnlinePmtiles(b) ==
  /\ page.tab = "other"
  /\ pmtiles' = b
  /\ sent' = Nothing /\ UNCHANGED <<page, mapVars, opfs, downloads, failed>>

\* Store Offline: the button does not wait for the download before.
store_offline(b) ==
  /\ page.tab = "other"
  /\ downloads' = downloads \union {b}
  /\ sent' = Nothing /\ UNCHANGED <<page, mapVars, opfs, pmtiles, failed>>

\* Mutant of downloadBasemap: a body that breaks off is stored as far as it came.
downloadBasemap_unchecked(b, ok) == {b, Blank}

\* What a download comes to: the basemap, or no bytes when anything fails.
downloadBasemap(b, ok) == IF ok THEN {b} ELSE {Blank}

\* The file is replaced when the writer is closed, then shown.
writeOfflinePmtiles(b, ok) ==
  /\ b \in downloads
  /\ downloads' = downloads \ {b}
  /\ opfs' \in downloadBasemap(b, ok)
  /\ pmtiles' = opfs'
  /\ failed' = ~ok
  /\ sent' = Nothing /\ UNCHANGED <<page, mapVars>>

\* getFileHandle has created the file if there was none; it is replaced when it is closed.
broken_off == IF opfs = None THEN Blank ELSE opfs

\* No space: write() throws.
write_fails(b) ==
  /\ b \in downloads
  /\ downloads' = downloads \ {b}
  /\ opfs' = broken_off /\ failed' = TRUE
  /\ sent' = Nothing /\ UNCHANGED <<page, mapVars, pmtiles>>

\* The page is closed or reloaded; onMount shows the stored file if there is one.
reload ==
  /\ page' = Fresh
  /\ loads' = <<>> /\ features' = {} /\ newest' = "shown"
  /\ downloads' = {}
  /\ \/ UNCHANGED <<opfs, failed>>
     \/ downloads # {} /\ opfs' = broken_off /\ failed' = TRUE      \* in the middle of a write
  /\ pmtiles' = opfs'
  /\ sent' = Nothing

-----------------------------------------------------------------------------
Next ==
  \/ \E spot \in Spot : handleMapClick(spot[1], spot[2]) \/ handleDrawnGeom(spot[1], spot[2])
  \/ \E tab \in {"map", "events", "other"} : show_tab(tab)
  \/ \E t \in Task : zoomToTask(t)
  \/ close_dialog \/ list_changed
  \/ \E s \in EntityStatus, st \in TaskState :
       \/ \E far \in BOOLEAN : handleMapFeature(s, st, far)
       \/ \E yes, listed \in BOOLEAN : answer_warning(yes, listed, s, st)
  \/ navigateToEntity \/ exitNavigationMode \/ toggleGeolocation \/ located
  \/ \E st \in TaskState : task_event(st) \/ clickMapNewFeature(st)
  \/ \E a \in Area : drag_geom(a)
  \/ cancelMapNewFeatureInODK \/ mapNewFeatureInODK
  \/ \E i \in DOMAIN loads : features_loaded(i) \/ features_failed(i)
  \/ \E b \in Basemap : loadOnlinePmtiles(b) \/ store_offline(b) \/ write_fails(b)
  \/ \E b \in Basemap, ok \in BOOLEAN : writeOfflinePmtiles(b, ok)
  \/ reload

Spec == Init /\ [][Next]_vars

-----------------------------------------------------------------------------
(* Properties. *)

\* Whatever happened between the click on a feature and the press on MAP FEATURE or on YES,
\* the task that is locked along with it is the one the feature belongs to or one it reaches
\* into, never one that was only looked at; unless the click was outside of all tasks.
MapsItsTask ==
  LET e == sent.what IN
  sent.kind = "collect" /\ sent.task # None /\ page.at # None
    => sent.task \in Reach[e] \union {TaskOf[e]}

\* A new feature is sent to ODK Collect with the task it lies in, unless the user has
\* clicked the map or dragged the feature since drawing it, or drew it outside of all tasks.
NewFeatureTask ==
  page.geom \in Task /\ ~page.moved => page.task = page.geom

\* Both: the task a feature is opened or drawn in is the one the rest of the work is done in.
TaskOfFeature == MapsItsTask /\ NewFeatureTask

\* Once the last request for features has been answered, and nothing that was asked before
\* has been answered after it, the map shows all features of the selected area and none of
\* another one, and nothing if no area is selected.
FeaturesOfSelected == newest = "shown" => features = FeaturesOf(page.task)

\* The offline basemap is a whole one, across reloads, downloads that overlap and replace
\* each other, as long as the last one that ended had not failed or been broken off.
OfflineIsWhole == opfs = Blank => failed
=============================================================================

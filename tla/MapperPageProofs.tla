-------------------------- MODULE MapperPageProofs --------------------------
(***************************************************************************)
(* Proofs about MapperPage: type correctness, which task a feature is      *)
(* opened or drawn in, which features are shown, and the offline basemap.  *)
(* The first rests on TypeOK; the second on what the page remembers of the *)
(* last click (Remembers); the third on what the last request in flight    *)
(* asked for (Asked).                                                      *)
(***************************************************************************)
EXTENDS MapperPage, SequenceTheorems, TLAPS

-----------------------------------------------------------------------------
(* Sequences of requests. *)

LEMMA LastOfConcat ==
  ASSUME NEW S, NEW s \in Seq(S), NEW t \in Seq(S), t # <<>>
  PROVE  /\ s \o t \in Seq(S) /\ s \o t # <<>>
         /\ (s \o t)[Len(s \o t)] = t[Len(t)]
<1>1. Len(t) \in Nat \ {0} /\ Len(s) \in Nat
  OBVIOUS
<1>2. s \o t \in Seq(S) /\ Len(s \o t) = Len(s) + Len(t)
  OBVIOUS
<1>3. (s \o t)[Len(s) + Len(t)] = t[(Len(s) + Len(t)) - Len(s)]
  BY <1>1
<1>4. (Len(s) + Len(t)) - Len(s) = Len(t)
  BY <1>1
<1> QED
  BY <1>1, <1>2, <1>3, <1>4

LEMMA LastOfSubSeq ==
  ASSUME NEW S, NEW s \in Seq(S), NEW i \in 1..Len(s), i # Len(s),
         NEW t, t = SubSeq(s, i + 1, Len(s))
  PROVE  t \in Seq(S) /\ t # <<>> /\ t[Len(t)] = s[Len(s)]
<1>1. t \in Seq(S) /\ Len(t) = Len(s) - i
  OBVIOUS
<1>4. t # <<>>
  <2>1. Len(t) # 0 /\ Len(<<>>) = 0
    BY <1>1
  <2> QED
    BY <2>1
<1>2. t[Len(s) - i] = s[(Len(s) - i) + (i + 1) - 1]
  OBVIOUS
<1>3. (Len(s) - i) + (i + 1) - 1 = Len(s)
  OBVIOUS
<1> QED
  BY <1>1, <1>2, <1>3, <1>4

LEMMA OthersInFlight ==
  ASSUME loads \in Seq(Task), NEW i \in DOMAIN loads
  PROVE  /\ Others(i) \in Seq(Task)
         /\ i # Len(loads) => /\ Others(i) # <<>>
                              /\ Others(i)[Len(Others(i))] = loads[Len(loads)]
<1> DEFINE front == SubSeq(loads, 1, i - 1)
           back  == SubSeq(loads, i + 1, Len(loads))
<1>1. i \in 1..Len(loads) /\ front \in Seq(Task) /\ back \in Seq(Task)
  OBVIOUS
<1>2. Others(i) = front \o back
  BY DEF Others
<1>3. i # Len(loads) => back # <<>> /\ back[Len(back)] = loads[Len(loads)]
  BY <1>1, LastOfSubSeq
<1> HIDE DEF front, back
<1> QED
  BY <1>1, <1>2, <1>3, LastOfConcat

LEMMA Asking ==
  ASSUME loads \in Seq(Task), NEW a \in Task
  PROVE  /\ Append(loads, a) \in Seq(Task) /\ Append(loads, a) # <<>>
         /\ Append(loads, a)[Len(Append(loads, a))] = a
OBVIOUS

-----------------------------------------------------------------------------
(* Type correctness. *)

\* The pages a step leads to.
LEMMA PageTyped ==
  ASSUME page \in Page
  PROVE  /\ \A a \in Area, e \in Entity \union {None} :
              clicked(a, e) \in Page /\ drawn(a, e) \in Page
         /\ exitNavigation \in Page /\ [exitNavigation EXCEPT !.geo = "off"] \in Page
         /\ cancelled \in Page /\ Fresh \in Page
<1>1. ASSUME NEW a \in Area, NEW e \in Entity \union {None}
      PROVE  clicked(a, e) \in Page /\ drawn(a, e) \in Page
  <2>1. clicked(a, e) \in Page
    BY DEF Page, Area, clicked
  <2> QED
    BY <2>1 DEF Page, drawn
<1>2. exitNavigation \in Page /\ [exitNavigation EXCEPT !.geo = "off"] \in Page
  BY DEF Page, exitNavigation
<1>3. cancelled \in Page /\ Fresh \in Page
  BY DEF Page, Area, cancelled, Fresh
<1> QED
  BY <1>1, <1>2, <1>3

\* Asking for features keeps the types of what the layer knows.
LayerTyped == loads \in Seq(Task) /\ features \subseteq Entity /\ newest \in {"flight", "shown", "other"}

LEMMA AskTyped ==
  ASSUME LayerTyped, NEW a \in Area, updateGeoJSONData(a)
  PROVE  LayerTyped'
BY Asking DEF LayerTyped, Area, updateGeoJSONData

FilesTyped ==
  /\ opfs \in Basemap \union {None, Blank} /\ pmtiles \in Basemap \union {None, Blank}
  /\ downloads \subseteq Basemap /\ failed \in BOOLEAN

LEMMA TypeParts == TypeOK <=> page \in Page /\ LayerTyped /\ FilesTyped /\ sent \in Message
BY DEF TypeOK, LayerTyped, FilesTyped

LEMMA MessageTyped ==
  ASSUME page \in Page
  PROVE  /\ Nothing \in Message
         /\ \A s \in EntityStatus, st \in TaskState : mapFeature(s, st) => sent' \in Message
         /\ [kind |-> "map", what |-> None, task |-> page.task] \in Message
         /\ page.geom # "nothing" => [kind |-> "new", what |-> page.geom, task |-> page.task] \in Message
<1>1. page.task \in Area /\ page.entity \in Entity \union {None}
      /\ page.geom \in Area \union {"nothing"}
  BY DEF Page
<1> QED
  BY <1>1 DEF Message, Nothing, Area, mapFeature

LEMMA TypeStep ==
  ASSUME TypeOK, [Next]_vars
  PROVE  TypeOK'
<1> USE PageAssumption
<1>0. page \in Page /\ LayerTyped /\ FilesTyped /\ sent \in Message /\ page.task \in Area
  BY TypeParts DEF Page
<1>a. ASSUME UNCHANGED mapVars PROVE LayerTyped'
  BY <1>0, <1>a DEF mapVars, LayerTyped
<1>b. ASSUME UNCHANGED fileVars PROVE FilesTyped'
  BY <1>0, <1>b DEF fileVars, FilesTyped
<1>c. ASSUME sent' = Nothing PROVE sent' \in Message
  BY <1>0, <1>c, MessageTyped
<1>d. ASSUME page' \in Page, LayerTyped', FilesTyped', sent' \in Message PROVE TypeOK'
  BY <1>d DEF TypeOK, LayerTyped, FilesTyped
<1>1. ASSUME NEW spot \in Spot, handleMapClick(spot[1], spot[2]) PROVE TypeOK'
  <2>1. spot[1] \in Area /\ spot[2] \in Entity \union {None}
    BY DEF Spot
  <2> QED
    BY <1>0, <1>1, <1>b, <1>c, <1>d, <2>1, AskTyped, PageTyped DEF handleMapClick
<1>2. ASSUME NEW spot \in Spot, handleDrawnGeom(spot[1], spot[2]) PROVE TypeOK'
  <2>1. spot[1] \in Area /\ spot[2] \in Entity \union {None}
    BY DEF Spot
  <2> QED
    BY <1>0, <1>2, <1>b, <1>c, <1>d, <2>1, AskTyped, PageTyped DEF handleDrawnGeom
<1>3. ASSUME NEW tab \in {"map", "events", "other"}, show_tab(tab) PROVE TypeOK'
  <2>1. page' \in Page
    BY <1>0, <1>3 DEF show_tab, Page
  <2> QED
    BY <1>3, <1>a, <1>b, <1>c, <1>d, <2>1 DEF show_tab
<1>4. ASSUME NEW t \in Task, zoomToTask(t) PROVE TypeOK'
  <2>1. t \in Area
    BY DEF Area
  <2>2. page' \in Page
    BY <1>0, <1>4, <2>1 DEF zoomToTask, Page
  <2> QED
    BY <1>0, <1>4, <1>b, <1>c, <1>d, <2>1, <2>2, AskTyped DEF zoomToTask
<1>5. CASE close_dialog
  <2>1. page' \in Page
    BY <1>0, <1>5 DEF close_dialog, Page
  <2> QED
    BY <1>5, <1>a, <1>b, <1>c, <1>d, <2>1 DEF close_dialog
<1>6. CASE list_changed
  BY <1>0, <1>6, <1>b, <1>c, <1>d, AskTyped DEF list_changed
<1>7. ASSUME NEW s \in EntityStatus, NEW st \in TaskState, NEW far \in BOOLEAN,
             handleMapFeature(s, st, far)
      PROVE  TypeOK'
  <2>1. page' \in Page
    BY <1>0, <1>7 DEF handleMapFeature, Page
  <2>2. sent' \in Message
    BY <1>0, <1>7, MessageTyped DEF handleMapFeature
  <2> QED
    BY <1>7, <1>a, <1>b, <1>d, <2>1, <2>2 DEF handleMapFeature
<1>8. ASSUME NEW s \in EntityStatus, NEW st \in TaskState, NEW yes \in BOOLEAN,
             NEW listed \in BOOLEAN, answer_warning(yes, listed, s, st)
      PROVE  TypeOK'
  <2>1. page' \in Page
    BY <1>0, <1>8 DEF answer_warning, Page
  <2>2. sent' \in Message
    BY <1>0, <1>8, MessageTyped DEF answer_warning
  <2> QED
    BY <1>8, <1>a, <1>b, <1>d, <2>1, <2>2 DEF answer_warning
<1>9. CASE navigateToEntity
  <2>1. page' \in Page
    BY <1>0, <1>9 DEF navigateToEntity, Page
  <2> QED
    BY <1>9, <1>a, <1>b, <1>c, <1>d, <2>1 DEF navigateToEntity
<1>10. CASE exitNavigationMode
  BY <1>0, <1>10, <1>a, <1>b, <1>c, <1>d, PageTyped DEF exitNavigationMode
<1>11. CASE toggleGeolocation
  <2>1. [page EXCEPT !.geo = "on"] \in Page
    BY <1>0 DEF Page
  <2> QED
    BY <1>0, <1>11, <1>a, <1>b, <1>c, <1>d, <2>1, PageTyped DEF toggleGeolocation
<1>12. CASE located
  <2>1. page' \in Page
    BY <1>0, <1>12 DEF located, Page
  <2> QED
    BY <1>12, <1>a, <1>b, <1>c, <1>d, <2>1 DEF located
<1>13. ASSUME NEW st \in TaskState, task_event(st) PROVE TypeOK'
  <2>1. page' \in Page /\ sent' \in Message
    BY <1>0, <1>13, MessageTyped DEF task_event
  <2> QED
    BY <1>13, <1>a, <1>b, <1>d, <2>1 DEF task_event
<1>14. ASSUME NEW st \in TaskState, clickMapNewFeature(st) PROVE TypeOK'
  <2>1. page' \in Page
    BY <1>0, <1>14 DEF clickMapNewFeature, Page
  <2> QED
    BY <1>14, <1>a, <1>b, <1>c, <1>d, <2>1 DEF clickMapNewFeature
<1>15. ASSUME NEW a \in Area, drag_geom(a) PROVE TypeOK'
  <2>1. page' \in Page
    BY <1>0, <1>15 DEF drag_geom, Page
  <2> QED
    BY <1>15, <1>a, <1>b, <1>c, <1>d, <2>1 DEF drag_geom
<1>16. CASE cancelMapNewFeatureInODK
  BY <1>0, <1>16, <1>a, <1>b, <1>c, <1>d, PageTyped DEF cancelMapNewFeatureInODK
<1>17. CASE mapNewFeatureInODK
  <2>1. page' \in Page /\ sent' \in Message
    BY <1>0, <1>17, PageTyped, MessageTyped DEF mapNewFeatureInODK
  <2> QED
    BY <1>17, <1>a, <1>b, <1>d, <2>1 DEF mapNewFeatureInODK
<1>18. ASSUME NEW i \in DOMAIN loads, features_loaded(i) PROVE TypeOK'
  <2>1. loads \in Seq(Task) /\ Others(i) \in Seq(Task)
    BY <1>0, OthersInFlight DEF LayerTyped
  <2>2. loads[i] \in Task /\ Around[loads[i]] \subseteq Entity
    BY <2>1, AroundAssumption
  <2>3. LayerTyped'
    BY <1>18, <2>1, <2>2 DEF features_loaded, LayerTyped
  <2> QED
    BY <1>0, <1>18, <1>b, <1>c, <1>d, <2>3 DEF features_loaded
<1>19. ASSUME NEW i \in DOMAIN loads, features_failed(i) PROVE TypeOK'
  <2>1. loads \in Seq(Task) /\ Others(i) \in Seq(Task)
    BY <1>0, OthersInFlight DEF LayerTyped
  <2>2. LayerTyped'
    BY <1>0, <1>19, <2>1 DEF features_failed, LayerTyped
  <2> QED
    BY <1>0, <1>19, <1>b, <1>c, <1>d, <2>2 DEF features_failed
<1>20. ASSUME NEW b \in Basemap, loadOnlinePmtiles(b) \/ store_offline(b) \/ write_fails(b)
       PROVE  TypeOK'
  <2>1. FilesTyped'
    BY <1>0, <1>20 DEF loadOnlinePmtiles, store_offline, write_fails, broken_off, FilesTyped
  <2> QED
    BY <1>0, <1>20, <1>a, <1>c, <1>d, <2>1 DEF loadOnlinePmtiles, store_offline, write_fails
<1>21. ASSUME NEW b \in Basemap, NEW ok \in BOOLEAN, writeOfflinePmtiles(b, ok) PROVE TypeOK'
  <2>1. FilesTyped'
    BY <1>0, <1>21 DEF writeOfflinePmtiles, downloadBasemap, FilesTyped
  <2> QED
    BY <1>0, <1>21, <1>a, <1>c, <1>d, <2>1 DEF writeOfflinePmtiles
<1>22. CASE reload
  <2>1. FilesTyped'
    BY <1>0, <1>22 DEF reload, broken_off, FilesTyped
  <2>2. LayerTyped'
    BY <1>22 DEF reload, LayerTyped, Area
  <2> QED
    BY <1>0, <1>22, <1>c, <1>d, <2>1, <2>2, PageTyped DEF reload
<1>23. CASE UNCHANGED vars
  BY <1>0, <1>23, <1>a, <1>b, <1>d DEF vars, mapVars, fileVars
<1> QED
  BY <1>1, <1>2, <1>3, <1>4, <1>5, <1>6, <1>7, <1>8, <1>9, <1>10, <1>11, <1>12, <1>13, <1>14,
     <1>15, <1>16, <1>17, <1>18, <1>19, <1>20, <1>21, <1>22, <1>23 DEF Next

\* The stores of the page, its layer and its files have their types.
THEOREM TypeCorrect == Spec => []TypeOK
<1>1. Init => TypeOK
  <2> SUFFICES ASSUME Init PROVE TypeOK
    OBVIOUS
  <2>1. page \in Page
    BY DEF Init, Fresh, Page, Area
  <2>2. sent \in Message
    BY DEF Init, Nothing, Message, Area
  <2>3. LayerTyped
    <3>1. <<>> \in Seq(Task)
      OBVIOUS
    <3> QED
      BY <3>1 DEF Init, LayerTyped, Area
  <2>4. FilesTyped
    BY DEF Init, FilesTyped
  <2> QED
    BY <2>1, <2>2, <2>3, <2>4, TypeParts
<1>2. TypeOK /\ [Next]_vars => TypeOK'
  BY TypeStep
<1> QED
  BY <1>1, <1>2, PTL DEF Spec

-----------------------------------------------------------------------------
(* The task of a feature. *)

\* What the page remembers of the last click: the task it was in is still selected, and the
\* feature it hit was hit in its own task or where it reaches.
Remembers ==
  /\ page.at # None => page.task = page.at
  /\ page.entity # None => page.at \in Reach[page.entity] \union {TaskOf[page.entity]}
  /\ page.warn => page.entity # None

\* The fields that matter, of the pages a step leads to.
LEMMA PageFields ==
  ASSUME page \in Page
  PROVE  /\ \A a \in Area, e \in Entity \union {None} :
              /\ clicked(a, e).task = a /\ clicked(a, e).entity = e /\ clicked(a, e).at = a
              /\ clicked(a, e).warn = page.warn /\ clicked(a, e).moved
              /\ drawn(a, e).task = a /\ drawn(a, e).entity = e /\ drawn(a, e).at = a
              /\ drawn(a, e).warn = page.warn /\ drawn(a, e).geom = a
         /\ \A p \in {exitNavigation, [exitNavigation EXCEPT !.geo = "off"]} :
              /\ p.task = page.task /\ p.entity = None /\ p.at = page.at
              /\ p.warn = page.warn /\ p.geom = page.geom /\ p.moved = page.moved
         /\ /\ cancelled.task = page.task /\ cancelled.entity = page.entity
            /\ cancelled.at = page.at /\ cancelled.warn = page.warn /\ cancelled.geom = "nothing"
<1>1. ASSUME NEW a \in Area, NEW e \in Entity \union {None}
      PROVE  /\ clicked(a, e).task = a /\ clicked(a, e).entity = e /\ clicked(a, e).at = a
             /\ clicked(a, e).warn = page.warn /\ clicked(a, e).moved
             /\ drawn(a, e).task = a /\ drawn(a, e).entity = e /\ drawn(a, e).at = a
             /\ drawn(a, e).warn = page.warn /\ drawn(a, e).geom = a
  <2>1. /\ clicked(a, e).task = a /\ clicked(a, e).entity = e /\ clicked(a, e).at = a
        /\ clicked(a, e).warn = page.warn /\ clicked(a, e).moved
    BY DEF Page, clicked
  <2>2. clicked(a, e) \in Page
    BY PageTyped
  <2> QED
    BY <2>1, <2>2 DEF Page, drawn
<1>2. /\ exitNavigation.task = page.task /\ exitNavigation.entity = None
      /\ exitNavigation.at = page.at /\ exitNavigation.warn = page.warn
      /\ exitNavigation.geom = page.geom /\ exitNavigation.moved = page.moved
  BY DEF Page, exitNavigation
<1>3. ASSUME NEW p, p = [exitNavigation EXCEPT !.geo = "off"]
      PROVE  /\ p.task = page.task /\ p.entity = None /\ p.at = page.at
             /\ p.warn = page.warn /\ p.geom = page.geom /\ p.moved = page.moved
  <2>1. exitNavigation \in Page
    BY PageTyped
  <2> QED
    BY <1>2, <1>3, <2>1 DEF Page
<1>4. /\ cancelled.task = page.task /\ cancelled.entity = page.entity
      /\ cancelled.at = page.at /\ cancelled.warn = page.warn /\ cancelled.geom = "nothing"
  BY DEF Page, cancelled
<1> QED
  BY <1>1, <1>2, <1>3, <1>4

TaskInv == Remembers /\ MapsItsTask /\ NewFeatureTask

LEMMA TaskStep ==
  ASSUME TypeOK, TaskInv, [Next]_vars
  PROVE  TaskInv'
<1> USE PageAssumption
<1>0. page \in Page /\ page.task \in Area /\ page.entity \in Entity \union {None}
      /\ Remembers /\ NewFeatureTask
  BY DEF TypeOK, Page, TaskInv
<1>a. ASSUME sent'.kind # "collect" PROVE MapsItsTask'
  BY <1>a DEF MapsItsTask
<1>b. ASSUME sent' = Nothing PROVE MapsItsTask'
  BY <1>a, <1>b DEF Nothing
<1>c. ASSUME page'.task = page.task, page'.at = page.at, page'.entity = page.entity,
             page'.warn => page.entity # None
      PROVE  Remembers'
  BY <1>0, <1>c DEF Remembers
<1>d. ASSUME page'.task = page.task, page'.geom = page.geom, page'.moved <=> page.moved
      PROVE  NewFeatureTask'
  BY <1>0, <1>d DEF NewFeatureTask
<1>e. ASSUME page'.task = page.task, page'.at = page.at, page'.entity = page.entity,
             page'.warn => page.warn, page'.geom = page.geom, page'.moved <=> page.moved,
             sent' = Nothing
      PROVE  TaskInv'
  <2>1. page.warn => page.entity # None
    BY <1>0 DEF Remembers
  <2> QED
    BY <1>b, <1>c, <1>d, <1>e, <2>1 DEF TaskInv
\* A message of mapFeature goes with the task of the last click.
<1>f. ASSUME NEW s, NEW st, mapFeature(s, st), page.entity # None,
             page'.at = page.at, page'.task = page.task
      PROVE  MapsItsTask'
  <2>1. /\ sent'.what = page.entity
        /\ sent'.task # None => sent'.task = page.task
    BY <1>f DEF mapFeature
  <2>2. page.at # None => page.task \in Reach[page.entity] \union {TaskOf[page.entity]}
    BY <1>0, <1>f DEF Remembers
  <2> QED
    BY <1>f, <2>1, <2>2 DEF MapsItsTask
<1>1. ASSUME NEW spot \in Spot, handleMapClick(spot[1], spot[2]) PROVE TaskInv'
  <2> DEFINE a == spot[1]
             e == spot[2]
  <2>1. a \in Area /\ e \in Entity \union {None}
    BY DEF Spot
  <2> HIDE DEF a, e
  <2>2. page' = clicked(a, e) /\ Hit(a, e) /\ ~page.warn /\ sent' = Nothing
    BY <1>1 DEF handleMapClick, a, e
  <2>3. page'.task = a /\ page'.at = a /\ page'.entity = e /\ ~page'.warn /\ page'.moved
    BY <1>0, <2>1, <2>2, PageFields
  <2> QED
    BY <1>b, <2>2, <2>3 DEF TaskInv, Remembers, NewFeatureTask, Hit
<1>2. ASSUME NEW spot \in Spot, handleDrawnGeom(spot[1], spot[2]) PROVE TaskInv'
  <2> DEFINE a == spot[1]
             e == spot[2]
  <2>1. a \in Area /\ e \in Entity \union {None}
    BY DEF Spot
  <2> HIDE DEF a, e
  <2>2. page' = drawn(a, e) /\ Hit(a, e) /\ ~page.warn /\ sent' = Nothing
    BY <1>2 DEF handleDrawnGeom, a, e
  <2>3. page'.task = a /\ page'.at = a /\ page'.entity = e /\ ~page'.warn /\ page'.geom = a
    BY <1>0, <2>1, <2>2, PageFields
  <2> QED
    BY <1>b, <2>2, <2>3 DEF TaskInv, Remembers, NewFeatureTask, Hit
<1>3. ASSUME NEW tab \in {"map", "events", "other"}, show_tab(tab) PROVE TaskInv'
  BY <1>0, <1>3, <1>e DEF show_tab, Page
\* A task is only zoomed to where none is selected, or the one that is.
<1>4. ASSUME NEW t \in Task, zoomToTask(t) PROVE TaskInv'
  <2>1. /\ page'.task = t /\ page'.at = page.at /\ page'.entity = page.entity
        /\ page'.warn = page.warn /\ page'.geom = page.geom /\ page'.moved = page.moved
        /\ sent' = Nothing
    BY <1>0, <1>4 DEF zoomToTask, Page
  <2>2. page.task # None => t = page.task
    BY <1>4 DEF zoomToTask, activities
  <2>3. Remembers'
    BY <1>0, <2>1, <2>2 DEF Remembers
  <2>4. NewFeatureTask'
    BY <1>0, <2>1, <2>2 DEF NewFeatureTask
  <2> QED
    BY <1>b, <2>1, <2>3, <2>4 DEF TaskInv
<1>5. CASE close_dialog
  BY <1>0, <1>5, <1>e DEF close_dialog, Page
<1>6. CASE list_changed
  BY <1>0, <1>6, <1>e DEF list_changed
<1>7. ASSUME NEW s \in EntityStatus, NEW st \in TaskState, NEW far \in BOOLEAN,
             handleMapFeature(s, st, far)
      PROVE  TaskInv'
  <2>1. page.entity # None
    BY <1>7 DEF handleMapFeature, entity_dialog
  <2>2. /\ page'.task = page.task /\ page'.at = page.at /\ page'.entity = page.entity
        /\ page'.geom = page.geom /\ page'.moved = page.moved
    BY <1>0, <1>7 DEF handleMapFeature, Page
  <2>3. sent' = Nothing \/ mapFeature(s, st)
    BY <1>7 DEF handleMapFeature
  <2> QED
    BY <1>b, <1>c, <1>d, <1>f, <2>1, <2>2, <2>3 DEF TaskInv
<1>8. ASSUME NEW s \in EntityStatus, NEW st \in TaskState, NEW yes \in BOOLEAN,
             NEW listed \in BOOLEAN, answer_warning(yes, listed, s, st)
      PROVE  TaskInv'
  <2>1. page.entity # None
    BY <1>0, <1>8 DEF answer_warning, Remembers
  <2>2. /\ page'.task = page.task /\ page'.at = page.at /\ page'.entity = page.entity
        /\ page'.geom = page.geom /\ page'.moved = page.moved
    BY <1>0, <1>8 DEF answer_warning, Page
  <2>3. sent' = Nothing \/ mapFeature(s, st)
    BY <1>8 DEF answer_warning
  <2> QED
    BY <1>b, <1>c, <1>d, <1>f, <2>1, <2>2, <2>3 DEF TaskInv
<1>9. CASE navigateToEntity
  BY <1>0, <1>9, <1>e DEF navigateToEntity, Page
<1>10. ASSUME page' \in {exitNavigation, [exitNavigation EXCEPT !.geo = "off"]},
              ~page.warn, sent' = Nothing
       PROVE  TaskInv'
  <2>1. /\ page'.task = page.task /\ page'.entity = None /\ page'.at = page.at
        /\ ~page'.warn /\ page'.geom = page.geom /\ page'.moved = page.moved
    BY <1>0, <1>10, PageFields
  <2>2. Remembers' /\ NewFeatureTask'
    BY <1>0, <1>d, <2>1 DEF Remembers
  <2> QED
    BY <1>b, <1>10, <2>2 DEF TaskInv
<1>11. CASE exitNavigationMode
  BY <1>10, <1>11 DEF exitNavigationMode
<1>12. CASE toggleGeolocation
  <2>1. CASE page.geo = "off"
    BY <1>0, <1>12, <1>e, <2>1 DEF toggleGeolocation, Page
  <2>2. CASE page.geo # "off"
    BY <1>10, <1>12, <2>2 DEF toggleGeolocation
  <2> QED
    BY <2>1, <2>2
<1>13. CASE located
  BY <1>0, <1>13, <1>e DEF located, Page
<1>14. ASSUME NEW st \in TaskState, task_event(st) PROVE TaskInv'
  <2>1. sent'.kind # "collect" /\ page' = page
    BY <1>14 DEF task_event
  <2>2. Remembers' /\ NewFeatureTask'
    BY <1>0, <2>1 DEF Remembers, NewFeatureTask
  <2> QED
    BY <1>a, <2>1, <2>2 DEF TaskInv
<1>15. ASSUME NEW st \in TaskState, clickMapNewFeature(st) PROVE TaskInv'
  BY <1>0, <1>15, <1>e DEF clickMapNewFeature, Page
<1>16. ASSUME NEW a \in Area, drag_geom(a) PROVE TaskInv'
  <2>1. /\ page'.task = page.task /\ page'.entity = page.entity /\ page'.at = page.at
        /\ ~page'.warn /\ page'.moved /\ sent' = Nothing
    BY <1>0, <1>16 DEF drag_geom, Page
  <2>2. Remembers' /\ NewFeatureTask'
    BY <1>c, <2>1 DEF NewFeatureTask
  <2> QED
    BY <1>b, <2>1, <2>2 DEF TaskInv
<1>17. CASE cancelMapNewFeatureInODK \/ mapNewFeatureInODK
  <2>1. /\ page'.task = page.task /\ page'.entity = page.entity /\ page'.at = page.at
        /\ ~page'.warn /\ page'.geom = "nothing" /\ sent'.kind # "collect"
    BY <1>0, <1>17, PageFields DEF cancelMapNewFeatureInODK, mapNewFeatureInODK, Nothing
  <2>2. Remembers' /\ NewFeatureTask'
    BY <1>c, <2>1 DEF NewFeatureTask
  <2> QED
    BY <1>a, <2>1, <2>2 DEF TaskInv
<1>18. ASSUME UNCHANGED page, sent' = Nothing PROVE TaskInv'
  BY <1>e, <1>18, <1>0
<1>19. ASSUME NEW i \in DOMAIN loads, features_loaded(i) \/ features_failed(i) PROVE TaskInv'
  BY <1>18, <1>19 DEF features_loaded, features_failed
<1>20. ASSUME NEW b \in Basemap, loadOnlinePmtiles(b) \/ store_offline(b) \/ write_fails(b)
       PROVE  TaskInv'
  BY <1>18, <1>20 DEF loadOnlinePmtiles, store_offline, write_fails
<1>21. ASSUME NEW b \in Basemap, NEW ok \in BOOLEAN, writeOfflinePmtiles(b, ok) PROVE TaskInv'
  BY <1>18, <1>21 DEF writeOfflinePmtiles
<1>22. CASE reload
  BY <1>b, <1>22 DEF reload, Fresh, TaskInv, Remembers, NewFeatureTask
<1>23. CASE UNCHANGED vars
  BY <1>23 DEF vars, TaskInv, Remembers, MapsItsTask, NewFeatureTask
<1> QED
  BY <1>1, <1>2, <1>3, <1>4, <1>5, <1>6, <1>7, <1>8, <1>9, <1>11, <1>12, <1>13, <1>14, <1>15,
     <1>16, <1>17, <1>19, <1>20, <1>21, <1>22, <1>23 DEF Next

\* The task that is locked with a feature is the one the feature was clicked in, and a new
\* feature goes with the task it was drawn in, for any tasks, features and outlines.
THEOREM TaskOfFeatureHolds == Spec => []TaskOfFeature
<1>1. Init => TaskInv
  BY PageAssumption DEF Init, Fresh, Nothing, TaskInv, Remembers, MapsItsTask, NewFeatureTask
<1>2. TypeOK /\ TaskInv /\ [Next]_vars => TaskInv'
  BY TaskStep
<1>3. TaskInv => TaskOfFeature
  BY DEF TaskInv, TaskOfFeature
<1> QED
  BY <1>1, <1>2, <1>3, TypeCorrect, PTL DEF Spec

-----------------------------------------------------------------------------
(* The features that are shown, and the offline basemap. *)

\* The last request in flight asked for the features of the selected task.
Asked == newest = "flight" => loads # <<>> /\ loads[Len(loads)] = page.task

\* Outside of all tasks there are no features of a task.
LEMMA NoFeatures == FeaturesOf(None) = {}
BY PageAssumption DEF FeaturesOf

\* What is around an area covers what is in it.
LEMMA AroundCovers ==
  ASSUME NEW t \in Task
  PROVE  Around[t] \subseteq Entity /\ Around[t] \intersect FeaturesOf(t) = FeaturesOf(t)
BY AroundAssumption DEF FeaturesOf

\* Whatever asks for the features of the task that is then selected keeps the invariant.
LEMMA AskStep ==
  ASSUME TypeOK, NEW a \in Area, updateGeoJSONData(a), page'.task = a
  PROVE  Asked' /\ FeaturesOfSelected'
<1>1. CASE a = None
  BY <1>1, NoFeatures DEF updateGeoJSONData, Asked, FeaturesOfSelected
<1>2. CASE a \in Task
  <2>1. loads' = Append(loads, a) /\ newest' = "flight"
    BY <1>2, PageAssumption DEF updateGeoJSONData
  <2>2. loads' # <<>> /\ loads'[Len(loads')] = a
    BY <1>2, <2>1, Asking DEF TypeOK
  <2> QED
    BY <2>1, <2>2 DEF Asked, FeaturesOfSelected
<1> QED
  BY <1>1, <1>2 DEF Area

LEMMA AskedStep ==
  ASSUME TypeOK, Asked, FeaturesOfSelected, [Next]_vars
  PROVE  Asked' /\ FeaturesOfSelected'
<1>0. page \in Page /\ page.task \in Area
  BY DEF TypeOK, Page
<1>a. ASSUME page'.task = page.task, UNCHANGED mapVars PROVE Asked' /\ FeaturesOfSelected'
  BY <1>a DEF mapVars, Asked, FeaturesOfSelected
<1>1. ASSUME NEW spot \in Spot,
             handleMapClick(spot[1], spot[2]) \/ handleDrawnGeom(spot[1], spot[2])
      PROVE  Asked' /\ FeaturesOfSelected'
  <2>1. spot[1] \in Area /\ spot[2] \in Entity \union {None}
    BY DEF Spot
  <2>2. page'.task = spot[1] /\ updateGeoJSONData(spot[1])
    BY <1>0, <1>1, <2>1, PageFields DEF handleMapClick, handleDrawnGeom
  <2> QED
    BY <2>1, <2>2, AskStep
<1>2. ASSUME NEW tab \in {"map", "events", "other"}, show_tab(tab)
      PROVE  Asked' /\ FeaturesOfSelected'
  BY <1>0, <1>2, <1>a DEF show_tab, Page
<1>3. ASSUME NEW t \in Task, zoomToTask(t) PROVE Asked' /\ FeaturesOfSelected'
  <2>1. t \in Area /\ page'.task = t /\ updateGeoJSONData(t)
    BY <1>0, <1>3 DEF zoomToTask, Page, Area
  <2> QED
    BY <2>1, AskStep
<1>4. CASE list_changed
  <2>1. updateGeoJSONData(page.task) /\ page'.task = page.task
    BY <1>4 DEF list_changed
  <2> QED
    BY <1>0, <2>1, AskStep
<1>5. CASE close_dialog \/ navigateToEntity \/ located
  BY <1>0, <1>5, <1>a DEF close_dialog, navigateToEntity, located, Page
<1>6. ASSUME NEW s \in EntityStatus, NEW st \in TaskState,
             \/ \E far \in BOOLEAN : handleMapFeature(s, st, far)
             \/ \E yes, listed \in BOOLEAN : answer_warning(yes, listed, s, st)
      PROVE  Asked' /\ FeaturesOfSelected'
  BY <1>0, <1>6, <1>a DEF handleMapFeature, answer_warning, Page
<1>7. CASE exitNavigationMode \/ toggleGeolocation
  <2>1. [page EXCEPT !.geo = "on"].task = page.task
    BY <1>0 DEF Page
  <2>2. page'.task = page.task /\ UNCHANGED mapVars
    BY <1>0, <1>7, <2>1, PageFields DEF exitNavigationMode, toggleGeolocation
  <2> QED
    BY <1>a, <2>2
<1>8. ASSUME NEW st \in TaskState, task_event(st) \/ clickMapNewFeature(st)
      PROVE  Asked' /\ FeaturesOfSelected'
  BY <1>0, <1>8, <1>a DEF task_event, clickMapNewFeature, Page
<1>9. ASSUME NEW a \in Area, drag_geom(a) PROVE Asked' /\ FeaturesOfSelected'
  BY <1>0, <1>9, <1>a DEF drag_geom, Page
<1>10. CASE cancelMapNewFeatureInODK \/ mapNewFeatureInODK
  BY <1>0, <1>10, <1>a, PageFields DEF cancelMapNewFeatureInODK, mapNewFeatureInODK
\* An answer settles the layer only if it is the last one in flight; if it is not, the last
\* one stays where it is.
<1>11. ASSUME NEW i \in DOMAIN loads, features_loaded(i) \/ features_failed(i)
       PROVE  Asked' /\ FeaturesOfSelected'
  <2>1. /\ page' = page /\ loads' = Others(i)
        /\ i # Len(loads) => loads' # <<>> /\ loads'[Len(loads')] = loads[Len(loads)]
    BY <1>11, OthersInFlight DEF features_loaded, features_failed, TypeOK
  <2>2. newest' = "flight" => newest = "flight" /\ i # Len(loads)
    BY <1>11 DEF features_loaded, features_failed, IsNewest
  <2>3. newest' = "shown" =>
          \/ /\ newest = "flight" /\ i = Len(loads)
             /\ features' = IF page.task = None THEN Around[loads[i]]
                            ELSE Around[loads[i]] \intersect FeaturesOf(page.task)
          \/ newest = "shown" /\ features' = features
    BY <1>11 DEF features_loaded, features_failed, IsNewest
  <2>4. newest = "flight" /\ i = Len(loads) => loads[i] = page.task /\ page.task \in Task
    BY <1>11 DEF Asked, TypeOK
  <2>5. newest' = "shown" => features' = FeaturesOf(page.task)
    <3>1. CASE newest = "flight" /\ i = Len(loads)
      <4>1. loads[i] = page.task /\ page.task \in Task /\ page.task # None
        BY <3>1, <2>4, PageAssumption
      <4> QED
        BY <3>1, <4>1, <2>3, AroundCovers
    <3>2. CASE ~(newest = "flight" /\ i = Len(loads))
      BY <3>2, <2>3 DEF FeaturesOfSelected
    <3> QED
      BY <3>1, <3>2
  <2> QED
    BY <2>1, <2>2, <2>5 DEF Asked, FeaturesOfSelected
<1>12. ASSUME NEW b \in Basemap,
              \/ loadOnlinePmtiles(b) \/ store_offline(b) \/ write_fails(b)
              \/ \E ok \in BOOLEAN : writeOfflinePmtiles(b, ok)
       PROVE  Asked' /\ FeaturesOfSelected'
  BY <1>12, <1>a DEF loadOnlinePmtiles, store_offline, write_fails, writeOfflinePmtiles
<1>13. CASE reload
  BY <1>13, NoFeatures DEF reload, Fresh, Asked, FeaturesOfSelected
<1>14. CASE UNCHANGED vars
  BY <1>14, <1>a DEF vars, mapVars
<1> QED
  BY <1>1, <1>2, <1>3, <1>4, <1>5, <1>6, <1>7, <1>8, <1>9, <1>10, <1>11, <1>12, <1>13, <1>14
     DEF Next

\* Once the last request for features has been answered the map shows those of the selected
\* task, for any number of requests in flight and any order of their answers.
THEOREM FeaturesOfSelectedHolds == Spec => []FeaturesOfSelected
<1>1. Init => Asked /\ FeaturesOfSelected
  BY NoFeatures DEF Init, Fresh, Asked, FeaturesOfSelected
<1>2. TypeOK /\ Asked /\ FeaturesOfSelected /\ [Next]_vars => Asked' /\ FeaturesOfSelected'
  BY AskedStep
<1> QED
  BY <1>1, <1>2, TypeCorrect, PTL DEF Spec

\* The stored basemap is whole unless the last download failed, whatever is downloaded,
\* stored and broken off in whatever order.
THEOREM OfflineIsWholeHolds == Spec => []OfflineIsWhole
<1>1. Init => OfflineIsWhole
  BY PageAssumption DEF Init, OfflineIsWhole
<1>2. OfflineIsWhole /\ [Next]_vars => OfflineIsWhole'
  <2> SUFFICES ASSUME OfflineIsWhole, [Next]_vars PROVE OfflineIsWhole'
    OBVIOUS
  <2>1. ASSUME UNCHANGED <<opfs, failed>> PROVE OfflineIsWhole'
    BY <2>1 DEF OfflineIsWhole
  <2>2. ASSUME NEW b \in Basemap, NEW ok \in BOOLEAN, writeOfflinePmtiles(b, ok)
        PROVE  OfflineIsWhole'
    BY <2>2, PageAssumption DEF writeOfflinePmtiles, downloadBasemap, OfflineIsWhole
  <2>3. ASSUME NEW b \in Basemap, write_fails(b) PROVE OfflineIsWhole'
    BY <2>3 DEF write_fails, OfflineIsWhole
  <2>4. CASE reload
    BY <2>1, <2>4 DEF reload, OfflineIsWhole
  <2>5. ASSUME NEW b \in Basemap, loadOnlinePmtiles(b) \/ store_offline(b)
        PROVE  OfflineIsWhole'
    BY <2>1, <2>5 DEF loadOnlinePmtiles, store_offline
  <2>6. ASSUME UNCHANGED fileVars PROVE OfflineIsWhole'
    BY <2>1, <2>6 DEF fileVars
  <2>7. CASE UNCHANGED vars
    BY <2>1, <2>7 DEF vars
  <2> QED
    BY <2>2, <2>3, <2>4, <2>5, <2>6, <2>7
       DEF Next, handleMapClick, handleDrawnGeom, show_tab, zoomToTask, close_dialog,
           list_changed, handleMapFeature, answer_warning, navigateToEntity,
           exitNavigationMode, toggleGeolocation, located, task_event, clickMapNewFeature,
           drag_geom, cancelMapNewFeatureInODK, mapNewFeatureInODK, features_loaded,
           features_failed
<1> QED
  BY <1>1, <1>2, PTL DEF Spec
=============================================================================

-------------------------- MODULE ProjectCreation ---------------------------
(***************************************************************************)
(* Creating and deleting a project.  The wizard of the management frontend *)
(* sends one request after the other (CreateProjectService); each request  *)
(* is a transaction of the backend that also writes to ODK Central or S3,  *)
(* which no rollback undoes.  When anything fails the wizard deletes the   *)
(* project again.  An answer may be lost while its request goes on.        *)
(***************************************************************************)
EXTENDS Naturals, FiniteSets

CONSTANTS
    Browser, Staff,         \* wizards; an organisation manager who deletes projects
    Project, NoProject,     \* ids ODK Central hands out; a row has the id of its ODK project
    Name,                   \* lower-cased project names
    Manager, NoManager,     \* users the wizard makes project managers
    Plans,                  \* what a user may enter: a set of Plan
    MaxTries,               \* bound: submissions of one wizard
    MaxVisits,              \* bound: manage pages one browser opens between them
    MaxTroubles             \* bound: failures of ODK Central, S3 or the database, and answers
                            \* that do not reach the wizard

Plan == [extract : {"osm_data_extract", "custom_data_extract", "none"},
         additional : BOOLEAN, big : BOOLEAN, admins : SUBSET Manager]

ASSUME CreationAssumption ==
  /\ Staff \notin Browser /\ NoProject \notin Project /\ NoManager \notin Manager
  /\ Plans \subseteq Plan
  /\ MaxTries \in Nat /\ MaxVisits \in Nat /\ MaxTroubles \in Nat

VARIABLES
    projects,   \* the table, with what the other tables hold for each project
    odk,        \* what exists of each project in ODK Central
    s3,         \* projects with a custom extract in the bucket
    created,    \* ids ODK Central has handed out
    open,       \* requests in the backend, and answers on their way
    thunk,      \* CreateProjectService, once per submission
    wizard,     \* for each browser, the createproject slice and the page shown
    condemned,  \* history: projects whose deletion has begun
    faults, losses

vars == <<projects, odk, s3, created, open, thunk, wizard, condemned, faults, losses>>
central == <<odk, s3, created, condemned>>
browser == <<thunk, wizard>>

-----------------------------------------------------------------------------
NoPlan == [extract |-> "none", additional |-> FALSE, big |-> FALSE, admins |-> {}]

NoRow == [name |-> "none"]

Row == [name : Name, by : Browser, tasks : BOOLEAN, data_extract_url : BOOLEAN,
        odk_form_id : BOOLEAN, odk_token : BOOLEAN, managers : SUBSET Manager]

OdkPart == {"project", "dataset", "features", "form", "app_user"}

Kind == {"create", "boundaries", "extract", "additional", "generate", "manager", "delete"}

Step == {"sent", "s3", "odk", "row", "features", "form", "app_user", "commit", "ok", "error"}

Request == [kind : Kind, by : Browser \union {Staff}, try : 0..MaxTries,
            id : Project \union {NoProject}, name : Name, plan : Plan,
            admin : Manager \union {NoManager}, step : Step,
            live : BOOLEAN,     \* somebody waits for the answer
            task : BOOLEAN]     \* runs as a background task, without a transaction

Thunk == [by : Browser, try : 1..MaxTries, name : Name, plan : Plan, step : Kind,
          projectId : Project \union {NoProject}]

\* A delay of the page that is running: the project it leads to and the warning it showed.
\* The page starts another one when it is shown again.
Delay == [id : Project \union {NoProject}, warning : BOOLEAN, again : BOOLEAN]

Wizard == [page : {"split-tasks", "away", "project"}, tries : 0..MaxTries,
           projectDetailsLoading : BOOLEAN, generateProjectSuccess : BOOLEAN,
           generateProjectWarning : BOOLEAN, generateProjectError : BOOLEAN,
           projectDetailsResponse : Project \union {NoProject},
           redirects : SUBSET Delay,
           asked : BOOLEAN,             \* a manage page waits for the details of its project
           visits : 0..MaxVisits,
           failed : Project \union {NoProject},                 \* history: last clean-up
           mixed : BOOLEAN]             \* history: submitted while an earlier submission was
                                        \* being made, or its project not yet redirected to

TypeOK ==
  /\ projects \in [Project -> Row \union {NoRow}]
  /\ odk \in [Project -> SUBSET OdkPart]
  /\ s3 \subseteq Project /\ created \subseteq Project /\ condemned \subseteq Project
  /\ open \subseteq Request
  /\ thunk \subseteq Thunk
  /\ wizard \in [Browser -> Wizard]
  /\ faults \in Nat /\ losses \in Nat /\ faults + losses <= MaxTroubles

Init ==
  /\ projects = [p \in Project |-> NoRow]
  /\ odk = [p \in Project |-> {}]
  /\ s3 = {} /\ created = {} /\ condemned = {}
  /\ open = {} /\ thunk = {}
  /\ wizard = [b \in Browser |->
       [page |-> "split-tasks", tries |-> 0, projectDetailsLoading |-> FALSE,
        generateProjectSuccess |-> FALSE, generateProjectWarning |-> FALSE,
        generateProjectError |-> FALSE, projectDetailsResponse |-> NoProject,
        redirects |-> {}, asked |-> FALSE, visits |-> 0,
        failed |-> NoProject, mixed |-> FALSE]]
  /\ faults = 0 /\ losses = 0

Exists(p) == projects[p] # NoRow

Taken(n) == \E p \in Project : Exists(p) /\ projects[p].name = n

-----------------------------------------------------------------------------
(* The backend.  A request is done in one step or in several, and ends with *)
(* an answer; what it wrote to the database before it failed is rolled back. *)

Answered(r, res) == (open \ {r}) \union (IF r.live THEN {[r EXCEPT !.step = res]} ELSE {})

At(r, step) == (open \ {r}) \union {[r EXCEPT !.step = step]}

\* generate_odk_central_project_content: the entity list, the form, the app user.
After == [features |-> "form", form |-> "app_user", app_user |-> "commit"]

\* Rows a running transaction has updated: DELETE waits for it to end.
Locked(p) == \E r \in open : /\ r.kind = "generate" /\ r.id = p /\ ~r.task
                             /\ r.step \in DOMAIN After \union {"commit"}

\* The name is taken, the project is gone, or ODK Central, S3 or the database fails.
refuse(r) ==
  /\ \/ r.kind = "create" /\ r.step = "sent" /\ Taken(r.name) /\ UNCHANGED faults
     \/ r.kind # "create" /\ r.step = "sent" /\ ~Exists(r.id) /\ UNCHANGED faults
     \/ r.kind = "extract" /\ r.step = "row" /\ ~Exists(r.id) /\ UNCHANGED faults
     \/ r.kind = "additional" /\ r.step = "sent" /\ odk[r.id] = {} /\ UNCHANGED faults
     \/ r.kind = "generate" /\ r.step \in DOMAIN After /\ odk[r.id] = {} /\ UNCHANGED faults
     \/ /\ r.step \notin {"ok", "error"} /\ ~(r.kind = "delete" /\ r.step = "s3")
        /\ faults + losses < MaxTroubles
        /\ faults' = faults + 1
  /\ open' = Answered(r, "error")
  /\ UNCHANGED <<projects, central, browser, losses>>

\* Mutant of create_check: the name is not looked up.
create_check_blind(r) ==
  /\ r.kind = "create" /\ r.step = "sent"
  /\ open' = At(r, "odk")
  /\ UNCHANGED <<projects, central, browser, faults, losses>>

\* check_project_dup_name
create_check(r) ==
  /\ r.kind = "create" /\ r.step = "sent"
  /\ ~Taken(r.name)
  /\ open' = At(r, "odk")
  /\ UNCHANGED <<projects, central, browser, faults, losses>>

create_odk_project(r) ==
  /\ r.kind = "create" /\ r.step = "odk"
  /\ \E p \in Project \ created :
       /\ created' = created \union {p}
       /\ odk' = [odk EXCEPT ![p] = {"project"}]
       /\ open' = (open \ {r}) \union {[r EXCEPT !.step = "row", !.id = p]}
  /\ UNCHANGED <<projects, s3, condemned, browser, faults, losses>>

\* DbProject.create, and the commit at the end of the request.
create_row(r) ==
  /\ r.kind = "create" /\ r.step = "row"
  /\ projects' = [projects EXCEPT ![r.id] =
       [name |-> r.name, by |-> r.by, tasks |-> FALSE, data_extract_url |-> FALSE,
        odk_form_id |-> FALSE, odk_token |-> FALSE, managers |-> {}]]
  /\ open' = Answered(r, "ok")
  /\ UNCHANGED <<central, browser, faults, losses>>

\* Adds to the tasks of the project.
DbTask_create(p) == projects' = [projects EXCEPT ![p].tasks = TRUE]

upload_project_task_boundaries(r) ==
  /\ r.kind = "boundaries" /\ r.step = "sent" /\ Exists(r.id)
  /\ DbTask_create(r.id)
  /\ open' = Answered(r, "ok")
  /\ UNCHANGED <<central, browser, faults, losses>>

\* DbProject.update: an update of a row that is gone fails.
DbProject_update(p, row) ==
  /\ Exists(p)
  /\ projects' = [projects EXCEPT ![p] = row]

get_or_set_data_extract(r) ==
  /\ r.kind = "extract" /\ r.plan.extract = "osm_data_extract" /\ r.step = "sent"
  /\ DbProject_update(r.id, [projects[r.id] EXCEPT !.data_extract_url = TRUE])
  /\ open' = Answered(r, "ok")
  /\ UNCHANGED <<central, browser, faults, losses>>

\* upload_custom_extract_to_s3: the object first, then the row.
upload_custom_extract(r) ==
  /\ r.kind = "extract" /\ r.plan.extract = "custom_data_extract" /\ Exists(r.id)
  /\ \/ /\ r.step = "sent"
        /\ s3' = s3 \union {r.id}
        /\ open' = At(r, "row")
        /\ UNCHANGED projects
     \/ /\ r.step = "row"
        /\ DbProject_update(r.id, [projects[r.id] EXCEPT !.data_extract_url = TRUE])
        /\ open' = Answered(r, "ok")
        /\ UNCHANGED s3
  /\ UNCHANGED <<odk, created, condemned, browser, faults, losses>>

add_additional_entity_list(r) ==
  /\ r.kind = "additional" /\ r.step = "sent" /\ Exists(r.id) /\ odk[r.id] # {}
  /\ odk' = [odk EXCEPT ![r.id] = @ \union {"dataset"}]
  /\ open' = Answered(r, "ok")
  /\ UNCHANGED <<projects, s3, created, condemned, browser, faults, losses>>

\* Mutant of generate_files: the form is left to the background task.
generate_files_unsaved(r) ==
  /\ r.kind = "generate" /\ r.step = "sent" /\ Exists(r.id)
  /\ open' = Answered(r, "ok")
               \union {[r EXCEPT !.step = "features", !.live = FALSE, !.task = TRUE]}
  /\ UNCHANGED <<projects, central, browser, faults, losses>>

\* The form is written to the row; with many features the request ends here and the
\* rest becomes a background task, else the transaction stays open.
generate_files(r) ==
  /\ r.kind = "generate" /\ r.step = "sent" /\ Exists(r.id)
  /\ projects[r.id].data_extract_url
  /\ IF r.plan.big
     THEN /\ DbProject_update(r.id, [projects[r.id] EXCEPT !.odk_form_id = TRUE])
          /\ open' = Answered(r, "ok")
                       \union {[r EXCEPT !.step = "features", !.live = FALSE, !.task = TRUE]}
     ELSE /\ open' = At(r, "features")
          /\ UNCHANGED projects
  /\ UNCHANGED <<central, browser, faults, losses>>

generate_content(r, step) ==
  /\ r.kind = "generate" /\ r.step = step /\ odk[r.id] # {}
  /\ odk' = [odk EXCEPT ![r.id] = @ \union {step}]
  /\ open' = At(r, After[step])
  /\ UNCHANGED <<projects, s3, created, condemned, browser, faults, losses>>

\* The dataset and its entities.
create_entity_list(r) == generate_content(r, "features")

create_odk_xform(r) == generate_content(r, "form")

\* An app user that is there from before is replaced.
get_appuser_token(r) == generate_content(r, "app_user")

\* DbProject.update with the token, and the commit.  What the background task writes on the
\* connection it no longer owns is committed or rolled back by whoever uses it next.
generate_commit(r) ==
  /\ r.kind = "generate" /\ r.step = "commit"
  /\ \/ DbProject_update(r.id, [projects[r.id] EXCEPT !.odk_form_id = TRUE, !.odk_token = TRUE])
     \/ r.task /\ UNCHANGED projects
  /\ open' = Answered(r, "ok")
  /\ UNCHANGED <<central, browser, faults, losses>>

add_new_project_manager(r) ==
  /\ r.kind = "manager" /\ r.step = "sent" /\ Exists(r.id)
  /\ r.admin \notin projects[r.id].managers
  /\ projects' = [projects EXCEPT ![r.id].managers = @ \union {r.admin}]
  /\ open' = Answered(r, "ok")
  /\ UNCHANGED <<central, browser, faults, losses>>

\* Mutant of delete_odk_project: the call is forgotten.
delete_odk_project_kept(r) ==
  /\ r.kind = "delete" /\ r.step = "sent" /\ Exists(r.id)
  /\ condemned' = condemned \union {r.id}
  /\ open' = At(r, "s3")
  /\ UNCHANGED <<projects, odk, s3, created, browser, faults, losses>>

\* delete_odk_project and delete_all_objs_under_prefix report no failure.
delete_odk_project(r) ==
  /\ r.kind = "delete" /\ r.step = "sent" /\ Exists(r.id)
  /\ condemned' = condemned \union {r.id}
  /\ \/ odk' = [odk EXCEPT ![r.id] = {}] /\ UNCHANGED faults
     \/ faults + losses < MaxTroubles /\ faults' = faults + 1 /\ UNCHANGED odk
  /\ open' = At(r, "s3")
  /\ UNCHANGED <<projects, s3, created, browser, losses>>

delete_all_objs_under_prefix(r) ==
  /\ r.kind = "delete" /\ r.step = "s3"
  /\ \/ s3' = s3 \ {r.id} /\ UNCHANGED faults
     \/ faults + losses < MaxTroubles /\ faults' = faults + 1 /\ UNCHANGED s3
  /\ open' = At(r, "row")
  /\ UNCHANGED <<projects, odk, created, condemned, browser, losses>>

\* DbProject.delete; deleting a row that is gone deletes nothing.
delete_row(r) ==
  /\ r.kind = "delete" /\ r.step = "row" /\ ~Locked(r.id)
  /\ projects' = [projects EXCEPT ![r.id] = NoRow]
  /\ open' = Answered(r, "ok")
  /\ UNCHANGED <<central, browser, faults, losses>>

\* The organisation manager deletes a project from its page.
staff_delete(p) ==
  /\ Exists(p) /\ p \notin condemned
  /\ \A r \in open : r.by # Staff
  /\ open' = open \union {[kind |-> "delete", by |-> Staff, try |-> 0, id |-> p,
               name |-> projects[p].name, plan |-> NoPlan, admin |-> NoManager,
               step |-> "sent", live |-> FALSE, task |-> FALSE]}
  /\ UNCHANGED <<projects, central, browser, faults, losses>>

backend(r) ==
  \/ refuse(r) \/ create_check(r) \/ create_odk_project(r) \/ create_row(r)
  \/ upload_project_task_boundaries(r) \/ get_or_set_data_extract(r) \/ upload_custom_extract(r)
  \/ add_additional_entity_list(r)
  \/ generate_files(r) \/ create_entity_list(r) \/ create_odk_xform(r) \/ get_appuser_token(r)
  \/ generate_commit(r) \/ add_new_project_manager(r)
  \/ delete_odk_project(r) \/ delete_all_objs_under_prefix(r) \/ delete_row(r)

-----------------------------------------------------------------------------
(* The wizard. *)

Send(t, kind, m) ==
  [kind |-> kind, by |-> t.by, try |-> t.try, id |-> t.projectId, name |-> t.name,
   plan |-> t.plan, admin |-> m, step |-> "sent", live |-> TRUE, task |-> FALSE]

\* The effect of SplitTasks that waits and redirects, run when the page is mounted and when
\* generateProjectSuccess or generateProjectError has changed.
handleQRGeneration(old, new) ==
  IF /\ new.page = "split-tasks" /\ new.generateProjectSuccess /\ ~new.generateProjectError
     /\ \/ old.page # "split-tasks"
        \/ old.generateProjectSuccess # new.generateProjectSuccess
        \/ old.generateProjectError # new.generateProjectError
  THEN [new EXCEPT !.redirects = @ \union
         {[id |-> new.projectDetailsResponse, warning |-> new.generateProjectWarning,
           again |-> \E d \in new.redirects : d.id = new.projectDetailsResponse /\ ~d.again]}]
  ELSE new

show(b, new) == wizard' = [wizard EXCEPT ![b] = handleQRGeneration(wizard[b], new)]

\* A submission of b that is still being made.
Making(b) == \E t \in thunk : t.by = b /\ t.step \notin {"manager", "delete"}

submit(b, n, plan) ==
  LET t == [by |-> b, try |-> wizard[b].tries + 1, name |-> n, plan |-> plan,
            step |-> "create", projectId |-> NoProject] IN
  /\ wizard[b].page = "split-tasks" /\ ~wizard[b].projectDetailsLoading
  /\ wizard[b].tries < MaxTries
  /\ show(b, [wizard[b] EXCEPT !.tries = @ + 1, !.projectDetailsLoading = TRUE,
                               !.failed = NoProject,
                               !.mixed = @ \/ Making(b) \/ wizard[b].generateProjectSuccess])
  /\ thunk' = thunk \union {t}
  /\ open' = open \union {Send(t, "create", NoManager)}
  /\ UNCHANGED <<projects, central, faults, losses>>

\* The next call of a submission whose last call succeeded.
goes_on(t, id, kind, rest) ==
  LET next == [t EXCEPT !.projectId = id, !.step = kind] IN
  /\ thunk' = (thunk \ {t}) \union {next}
  /\ open' = rest \union {Send(next, kind, m) :
                             m \in IF kind = "manager" THEN t.plan.admins ELSE {NoManager}}

\* Mutant of gives_up: the loading flag is only reset when there was something to delete.
gives_up_spins(t, new, rest) ==
  /\ thunk' = thunk \ {t}
  /\ open' = rest
  /\ show(t.by, [new EXCEPT !.generateProjectError = TRUE])

\* The catch block: delete what has been created, then show the error.
gives_up(t, new, rest) ==
  LET unheard == {q \in rest : q.by = t.by /\ q.try = t.try}
      others  == (rest \ unheard) \union {[q EXCEPT !.live = FALSE] :
                                            q \in {u \in unheard : u.step \notin {"ok", "error"}}} IN
  IF t.projectId # NoProject
  THEN /\ goes_on(t, t.projectId, "delete", others)
       /\ show(t.by, new)
  ELSE /\ thunk' = thunk \ {t}
       /\ open' = others
       /\ show(t.by, [new EXCEPT !.generateProjectError = TRUE, !.projectDetailsLoading = FALSE])

\* The parts of CreateProjectService go on with the result of r: "ok", "error" (an error
\* status) or "lost" (no answer).
PostProjectDetails(t, r, res, rest) ==
  /\ r.kind = "create"
  /\ IF res = "ok"
     THEN /\ goes_on(t, r.id, "boundaries", rest)
          /\ show(t.by, [wizard[t.by] EXCEPT !.projectDetailsResponse = r.id])
     ELSE gives_up(t, wizard[t.by], rest)

\* Without an extract there is no extractResponse whose status could be read.
UploadTaskAreasService(t, r, res, rest) ==
  /\ r.kind = "boundaries"
  /\ CASE res # "ok" -> gives_up(t, [wizard[t.by] EXCEPT !.generateProjectError = TRUE], rest)
       [] res = "ok" /\ t.plan.extract = "none" -> gives_up(t, wizard[t.by], rest)
       [] OTHER -> goes_on(t, t.projectId, "extract", rest) /\ UNCHANGED wizard

post_extract(t, r, res, rest) ==
  /\ r.kind = "extract"
  /\ IF res = "ok"
     THEN /\ goes_on(t, t.projectId, IF t.plan.additional THEN "additional" ELSE "generate", rest)
          /\ UNCHANGED wizard
     ELSE gives_up(t, wizard[t.by], rest)

PostAdditionalFeatureService(t, r, res, rest) ==
  /\ r.kind = "additional"
  /\ IF res = "ok"
     THEN goes_on(t, t.projectId, "generate", rest) /\ UNCHANGED wizard
     ELSE gives_up(t, wizard[t.by], rest)

\* A message in the answer says that the rest runs in the background.
GenerateProjectFilesService(t, r, res, rest) ==
  LET w == [wizard[t.by] EXCEPT !.generateProjectSuccess = TRUE,
                                !.generateProjectWarning = @ \/ t.plan.big] IN
  /\ r.kind = "generate"
  /\ CASE res # "ok" -> gives_up(t, [wizard[t.by] EXCEPT !.generateProjectError = TRUE], rest)
       [] res = "ok" /\ t.plan.admins = {} ->
            /\ thunk' = thunk \ {t} /\ open' = rest
            /\ show(t.by, [w EXCEPT !.generateProjectError = FALSE])
       [] OTHER -> goes_on(t, t.projectId, "manager", rest) /\ show(t.by, w)

\* A refusal is only shown; without an answer error.response.data throws.
AssignProjectManager(t, r, res, rest) ==
  /\ r.kind = "manager"
  /\ CASE res = "lost" -> gives_up(t, wizard[t.by], rest)
       [] res # "lost" /\ \E q \in rest : q.kind = "manager" /\ q.by = t.by /\ q.try = t.try ->
            open' = rest /\ UNCHANGED <<thunk, wizard>>
       [] OTHER ->
            /\ thunk' = thunk \ {t} /\ open' = rest
            /\ show(t.by, [wizard[t.by] EXCEPT !.generateProjectError = FALSE])

\* Without an answer error.response.status throws, and nothing after it is done.
DeleteProjectService(t, r, res, rest) ==
  /\ r.kind = "delete"
  /\ thunk' = thunk \ {t} /\ open' = rest
  /\ IF res = "lost"
     THEN UNCHANGED wizard
     ELSE show(t.by, [wizard[t.by] EXCEPT !.generateProjectError = TRUE,
                                          !.projectDetailsLoading = FALSE, !.failed = t.projectId])

CreateProjectService(t, r, res, rest) ==
  \/ PostProjectDetails(t, r, res, rest) \/ UploadTaskAreasService(t, r, res, rest)
  \/ post_extract(t, r, res, rest) \/ PostAdditionalFeatureService(t, r, res, rest)
  \/ GenerateProjectFilesService(t, r, res, rest) \/ AssignProjectManager(t, r, res, rest)
  \/ DeleteProjectService(t, r, res, rest)

receive(r) ==
  /\ r.live /\ r.step \in {"ok", "error"}
  /\ \E t \in thunk :
       /\ t.by = r.by /\ t.try = r.try
       /\ CreateProjectService(t, r, r.step, open \ {r})
  /\ UNCHANGED <<projects, central, faults, losses>>

\* The connection breaks: before the request is read, while it is handled, or before the
\* answer has come.
lose(r) ==
  /\ r.live /\ faults + losses < MaxTroubles
  /\ losses' = losses + 1
  /\ \E t \in thunk, handled \in BOOLEAN :
       /\ t.by = r.by /\ t.try = r.try
       /\ handled \/ r.step = "sent"
       /\ CreateProjectService(t, r, "lost",
            (open \ {r}) \union (IF handled /\ r.step \notin {"ok", "error"}
                                 THEN {[r EXCEPT !.live = FALSE]} ELSE {}))
  /\ UNCHANGED <<projects, central, faults>>

\* The delay of the effect is over: navigate, ClearCreateProjectFormData.
redirect(b, d) ==
  /\ wizard' = [wizard EXCEPT ![b] =
       [wizard[b] EXCEPT !.redirects = @ \ {d}, !.page = "project",
          !.projectDetailsLoading = FALSE, !.generateProjectSuccess = FALSE,
          !.generateProjectWarning = FALSE, !.generateProjectError = FALSE]]
  /\ UNCHANGED <<projects, central, open, thunk, faults, losses>>

leave(b) ==
  /\ wizard[b].page = "split-tasks"
  /\ wizard' = [wizard EXCEPT ![b].page = "away"]
  /\ UNCHANGED <<projects, central, open, thunk, faults, losses>>

\* The page /manage/project of another project: its request has the wizard's loading flag.
\* Bound: one such request at a time.
GetIndividualProjectDetails(b) ==
  /\ wizard[b].page # "split-tasks" /\ ~wizard[b].asked /\ wizard[b].visits < MaxVisits
  /\ wizard' = [wizard EXCEPT ![b].page = "away", ![b].asked = TRUE, ![b].visits = @ + 1,
                              ![b].projectDetailsLoading = TRUE]
  /\ UNCHANGED <<projects, central, open, thunk, faults, losses>>

\* With an answer or without: the finally block clears the flag, whoever had set it.
details_end(b) ==
  /\ wizard[b].asked
  /\ wizard' = [wizard EXCEPT ![b].asked = FALSE, ![b].projectDetailsLoading = FALSE]
  /\ UNCHANGED <<projects, central, open, thunk, faults, losses>>

\* Through the steps of the wizard to the last one; bound: two delays for one project.
come_back(b) ==
  /\ wizard[b].page # "split-tasks"
  /\ \A d \in wizard[b].redirects : ~d.again
  /\ show(b, [wizard[b] EXCEPT !.page = "split-tasks"])
  /\ UNCHANGED <<projects, central, open, thunk, faults, losses>>

Next ==
  \/ \E r \in open : backend(r) \/ receive(r) \/ lose(r)
  \/ \E p \in Project : staff_delete(p)
  \/ \E b \in Browser :
       \/ \E n \in Name, plan \in Plans : submit(b, n, plan)
       \/ \E d \in wizard[b].redirects : redirect(b, d)
       \/ leave(b) \/ come_back(b)
       \/ GetIndividualProjectDetails(b) \/ details_end(b)

Spec == Init /\ [][Next]_vars

\* The backend handles its requests, answers arrive, timers fire.
Fairness ==
  /\ WF_vars(\E r \in open : backend(r))
  /\ WF_vars(\E r \in open : receive(r))
  /\ WF_vars(\E b \in Browser : \E d \in wizard[b].redirects : redirect(b, d))
  /\ \A b \in Browser : WF_vars(details_end(b))

FairSpec == Spec /\ Fairness

-----------------------------------------------------------------------------
(* Properties. *)

\* If nothing fails in ODK Central or the database, and whatever answers are lost, then once
\* no request is being handled every project of ODK Central has its row and the other way round.
NoOrphan ==
  faults = 0 /\ (\A r \in open : r.step \in {"ok", "error"}) =>
    \A p \in Project : Exists(p) <=> odk[p] # {}

\* "halt project creation if any api call fails": when the wizard shows that a submission
\* failed, no row of it is left, nor will one appear, unless something failed in the backend.
FailureCleansUp ==
  \A b \in Browser : wizard[b].failed # NoProject /\ faults = 0 => ~Exists(wizard[b].failed)

\* The wizard redirects to a project that is complete, or is still generated in the
\* background, unless it has been deleted meanwhile or the wizard was submitted again before
\* an earlier submission was made and shown.
RedirectToProject ==
  [][\A b \in Browser : \A d \in wizard[b].redirects :
       redirect(b, d) /\ d.id \notin condemned /\ ~wizard[b].mixed =>
         /\ d.id \in Project /\ Exists(d.id) /\ projects[d.id].odk_form_id
         /\ d.warning \/ projects[d.id].odk_token]_vars

\* One wizard never makes two projects of one name, however often it is submitted, if no
\* answer is lost and it is not submitted before an earlier submission was made and shown.
RetryNoNamesake ==
  losses = 0 =>
    \A p, q \in Project :
      Exists(p) /\ Exists(q) /\ projects[p].by = projects[q].by
        /\ ~wizard[projects[p].by].mixed
        /\ projects[p].name = projects[q].name => p = q

\* Both: a submission that failed is out of the way of the next one.
RetryIsClean == FailureCleansUp /\ RetryNoNamesake

\* The wizard does not spin for ever: it redirects or shows an error, unless the answer to
\* its clean-up was lost or the user has left the page.
SubmissionEnds ==
  \A b \in Browser :
    wizard[b].projectDetailsLoading ~>
      \/ ~wizard[b].projectDetailsLoading
      \/ wizard[b].page # "split-tasks"
      \/ losses > 0
=============================================================================

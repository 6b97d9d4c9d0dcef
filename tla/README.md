# TLA+ models of FMTM

FMTM (Field Mapping Tasking Manager) divides a project area into tasks; mappers lock a task,
survey its features with ODK Collect, and validators review the result. This directory holds
specifications of its parts in which several actors, answers or jobs meet: the event log of the
tasks, the statuses of the features, accounts and organisations, the creation of a project, the
background tasks, the sessions of the browsers, and the pages of both frontends. They are checked
with TLC on small instances, and the results that matter most are proved with TLAPS for all.

Paths below are relative to the repository; `app/` is `src/backend/app/`, `fe/` is
`src/frontend/src/`, `mapper/` is `src/mapper/src/`.

## 1. The system

| Part | State | Operations | Talks to |
|---|---|---|---|
| Task event log (`app/tasks/`) | table `task_events`, append-only; the state of a task is computed from it | `POST /tasks/{id}/event`; the board; the trigger `set_task_state` | both frontends, Electric (streams the table to browsers) |
| Unlock job (`app/tasks/task_crud.py`, `scheduler/unlock_tasks.py`) | none of its own | `trigger_unlock_tasks`, by cron and by `POST /tasks/unlock-tasks` | task log, ODK Central, the mirror |
| Entity statuses (`app/central/`, `app/integrations/`) | entities in ODK Central; mirror `odk_entities` | set a status, sync, webhook, reset by the job | ODK Central, frontends |
| Users, inactive users (`app/users/`) | `users.last_login_at`, roles | login (upsert), weekly warning and deletion, role changes | OSM, everything that refers to a user |
| Authentication (`app/auth/`, `fe/utilfunctions/login.ts`, `mapper/lib/utils/login.ts`) | cookies of a browser, a copy of the user per tab, `localStorage` | login with OSM, refresh, `/auth/me`, logout, temporary cookies of the mapper frontend | OSM |
| Permissions (`app/auth/roles.py`, `fe/hooks/`) | `users.role`, `organisation_managers`, `user_roles` | one dependency per endpoint; two hooks with a copy of the rights | every endpoint |
| Organisations (`app/organisations/`) | `organisations`, `organisation_managers`, logos on S3 | request, approve, update, delete; what startup makes | S3, users, roles |
| Projects (`app/projects/`, `fe/api/CreateProjectService.ts`) | `projects`, `tasks`, extracts on S3, a project in ODK Central | the requests of the wizard, deletion | ODK Central, S3 |
| Project wizard (`fe/components/createnewproject/`) | slice `createproject`, state of the pages | area, form, map data, split, submission | map data, splitter and form check of the backend |
| Basemaps, background tasks (`app/projects/project_crud.py`, `app/db/database.py`) | `basemaps`, `background_tasks`, archives in `/tmp` and S3; pooled connections | start, generate, upload, report | S3, the pool |
| Mapper page (`mapper/routes/`, `mapper/lib/components/`, `mapper/store/`) | stores of the selected task and feature, dialogs, layers, stored basemap | clicks, dialogs, opening and drawing features, downloads | the API, Electric, ODK Collect |
| Project page, submissions (`fe/views/`, `fe/components/`, `app/submissions/`) | Redux copies of board, history and table | task events of validators, filter and pages of the table, reviews | the API, ODK Central |
| Helpers, geometry, migrations, deployment, statistics | none, or infrastructure | | |

What is hard in it:

* **Transactions that overlap.** Every request and every run of a job is one PostgreSQL transaction
  at READ COMMITTED. `created_at` is `now()`, the *start* of the transaction, so events are sorted
  in another order than they become visible.
* **No server-side checks of state.** The event endpoint accepts any event in any state; what keeps
  mappers and validators apart is what their browsers show.
* **Copies.** `odk_entities` copies ODK Central, browsers copy `task_events`, the board, a history,
  the user and their rights. None compares versions; each is replaced by whichever answer comes last.
* **Work in several systems.** Projects, organisations and reviews live in the database, ODK Central
  and S3, with no transaction around them and a clean-up that may itself fail.
* **Jobs without memory** decide from timestamps alone; late, missed, repeated runs change what
  they do. Background tasks go on with a connection that is no longer theirs.

`PROJECT.json` lists each hazard at the line where it bites, and the properties aimed at it.

## 2. The modules

| Module | Models | Uses |
|---|---|---|
| `TaskLog` | the event table as data, the trigger, the two ways to read it; no variables | |
| `TaskEvents` | event endpoint, users, unlock job over all projects | `TaskLog`, `TaskBoard` |
| `TaskBoard` | what the log promises: one last-writer-wins register per task; abstract | |
| `EntitySync` | entities of one project, mirror, webhooks, syncs, the job's part of it | |
| `InactiveUsers` | logins, warnings, deletions, runs of the weekly job | |
| `Organisations` | organisations, managers and logos, together with the accounts | `InactiveUsers` |
| `ProjectCreation` | submission, clean-up and deletion of projects across three systems | |
| `ProjectWizard` | the pages of the wizard before the submission | |
| `BackgroundJobs` | requests, pooled connections, background tasks, basemaps | |
| `Sessions` | cookies of one browser, the tabs of both frontends | |
| `Roles` | who may call what, and what the hooks think; no variables | |
| `MapperStore` | the mapper's task store and dialog on top of the event table | `TaskLog` |
| `MapperPage` | the map page of the mapper frontend, its files | |
| `OrganisationPages` | the pages of the management frontend for organisations | |
| `ManageProject` | the page on which a project is edited or deleted | |
| `ManageUsers` | the table of users and the change of their roles | |
| `ProjectPanels` | comments, dialog of basemaps and layers of the project page | |
| `ProjectPage` | the project page of the management frontend | `Roles`, `TaskLog` |
| `SubmissionsPage` | the table of submissions and reviews, with the project page | `ProjectPage` |
| `MC…` | constants and starting points for TLC | |
| `…Proofs` | theorems, section 5 | |

Three of them are compositions: `TaskEvents` maps to `TaskBoard`; `Organisations` takes the steps
of `InactiveUsers` and adds what goes with an account (`organisation_managers` is ON DELETE
CASCADE); `SubmissionsPage` and `ProjectPage` share the browser, its store and the rights.
`MCFrontendStores` puts the five smaller stores of the frontends side by side: each step is one of
one store, so that one run checks them all.

Common conventions. `UNCHANGED` apart, an action is what one statement, answer or click does; a
transaction with calls to other systems inside has one action per call, because others go on in
between. "history" in the comment of a variable means that the code keeps no such record: it is
there for a property. Bounds are constants named `Max…` and stand in guards.

### TaskLog, TaskEvents

A row is a record with its task, event, whether it has comment text, its user, and `created_at` as
two numbers: `at`, the hour, for the ages the job compares, and `stamp`, the rank of its
transaction, for the sort order. `set_task_state` is the trigger; a COMMENT row gets `NoState`
because `OLD` is NULL on INSERT. `task_state` is the computed column of `DbTask.all`, `IsStaleLock`
the WHERE clause of the unlock query.

| Code | Actions |
|---|---|
| `add_new_task_event` | `begin_task_event`, then `commit_task_event`, or `abort_task_event` if the user is gone |
| `DbUser.delete`; login, `init_admin_org` | `delete_user`; `create_user` |
| `trigger_unlock_tasks` | `job_start`, per project `job_skip` or `job_check`, `job_reset`, `job_unlock`; `job_commit`; `job_fail` at any call to ODK Central |
| entity updates by anybody | `update_entity` |

RESET rows are in `job[j].wrote` until the run commits. An uncommitted row locks its user, so
`delete_user` waits. `created_at` can be sent to the API by a client; no client of this repository
does, and the model leaves it out. The two clients send comment text with COMMENT events only
(`ClientPayload`, `Conventional`).

### EntitySync

`odk` is ODK Central (external), `hooks` the webhook calls under way, `posts` the requests to set a
status that a frontend has sent and does not wait for. A sync is `sync_read`, `sync_write`; the one
inside `reset_entities_status` shares `fetch` and `upsert`. A webhook changes existing rows only;
an upsert of a list with one status out of range raises and writes nothing.

### InactiveUsers, Organisations

Days instead of timestamps. `sent`, `refused`, `due` (the day the last message named) and `manually`
(whose last message came from a run on demand) are history. `send_warnings` is the loop over
`send_osm_message`: any of the messages may be refused by OSM, which is logged, and the run goes
on. `warn_fail` ends the run after some of the messages, because `requests.post` raises;
`delete_fail` is a DELETE that fails. `cron_start` is the schedule, `delete_inactive_users` the
endpoint, on any day. `warned_at` and `MaxGap` state the assumption about the schedule: some run
gets through its warnings at least every `MaxGap` days.

`create_organisation`, `approve_organisation`, `add_new_organisation_admin` are single transactions;
`update_organisation` is `upload_logo`, `update_commit`; a deletion is `delete_org` or
`delete_unapproved_org` (its DELETE, which locks the row), `delete_all_objs_under_prefix`,
`delete_commit`; either may end in `request_fails`. `init_admin_org` is what startup makes: the
account `localadmin`, the organisation HOTOSM with its manager. `accounts` are the steps of
`InactiveUsers`, with `DbUser_delete` for the rows that go with an account.

### ProjectCreation, ProjectWizard

`thunk` is `CreateProjectService`: a submission is the sequence create, boundaries, extract,
additional entities, generate, managers, and `gives_up` deletes the project when one of them fails.
Each request has one action per system it touches, in the order of the code (`create_check`,
`create_odk_project`, `create_row`; `upload_custom_extract`; `create_entity_list`,
`create_odk_xform`, `get_appuser_token`, `generate_commit`; `delete_odk_project`,
`delete_all_objs_under_prefix`, `delete_row`). `refuse` is any of them failing, `lose` an answer that
never comes while its request goes on, `staff_delete` a manager who deletes the project.
`handleQRGeneration` is the effect of `SplitTasks.tsx` that waits; each run of it is a `Delay` in
`redirects`, and `redirect` ends one. The page may be left and shown again, which starts another.
Meanwhile the manage page of another project may be opened: `GetIndividualProjectDetails` sets the
flag `projectDetailsLoading` of the same slice, and its `details_end` clears it, whoever had set it.
`mixed` is history: the wizard was submitted while an earlier submission of it was being made, or
before the redirect to its project.

`ProjectWizard` has one action per thing a user can do on a page, and `answer` for what comes back.
An answer carries what it was computed from, so that the properties can tell which area, category,
method it belongs to. `navigate` is the browser's history and the step bar. Its initial
state, steps and invariant are `WizardInit`, `WizardNext`, `WizardTypeOK`, so that one module can
use it together with `ProjectCreation`.

### BackgroundJobs

`conn` is the pool. A request borrows a connection (`db_conn`), executes the statements of its
`Script`, and gives it back (`answer`, `fail`); `GiveBack` commits or rolls back *whatever* the
connection holds. Background tasks go on with the connection: `set_autocommit` is what
`generate_project_basemap` does to it first, and `tilepack`, `add_file_to_bucket`, `update`,
`unlink` are the rest of it. Each of its calls of the database may raise (`raises`, `raised`): the
creation of the basemap, either `update` of the try block and either of the except block, with or
without having written. `file` and `object` tell a whole archive from one that another task was
still writing. `restart` ends everything that is in memory. Initial state, steps, invariant and stages are
`JobsInit`, `JobsNext`, `JobsTypeOK` and `stage`, so that one module can use it together with
`EntitySync`.

### Sessions

`jar` holds the cookies the tabs share; a token is valid while `exp > 0`, a cookie is kept while
`until > 0`. A request is judged by the cookies it was sent with; its answer is a record in `calls`
and changes `jar` when it arrives, in any order, or is lost. `load_page`, `osm_login`, `sign_out`
are the user's; `receive_…` what each frontend does with each answer; `tick`, `osm_token_expires`,
`delete_user` the environment.

### Roles

The dependencies of `auth/roles.py` as predicates on what the tables say of one user, for one
project (`Rights`), and `useIsOrganizationAdmin`, `useIsProjectManager`. `org_admin` also depends on
whether the organisation is approved, as `check_org_admin` looks for it with `get_organisation`.

### MapperStore, MapperPage

`rows` is the table in commit order, the order of the Electric shape; `receive(b, n)` is the
subscription callback: the browser has the first `n` rows and goes through all of them.

`MapperPage` is one browser: `page` holds the stores and component states that decide something,
`loads` the requests of the layer `FlatGeobuf`. A request is for the features whose bounding box
meets that of the area it was sent for (`Around`); its answer is filtered by the area that is
selected when it comes (`FeaturesOf`), or not at all without one. `downloads`, `opfs` and `pmtiles` the basemap.
`handleMapClick(a, e)` is a click in area `a` that hits feature `e` or none; `sent` is what the step
sends out. The state of the selected task and the status of a feature come from streams and are
chosen where a dialog looks at them (`MapperStore`, `EntitySync`).

### OrganisationPages, ManageProject, ManageUsers, ProjectPanels

Each is one tab of the management frontend whose slice outlives its pages. An action opens a page,
presses a button or takes the answer to one request; requests in flight carry the page they were
sent from, and their answers are applied in any order. `disturbed`, `unsettled`, `inherited`,
`causes`, `mixed` and `strayed` are history: the named causes of the properties. In `ProjectPanels`
the map and the menu of layers each keep what they believe is visible.

### ProjectPage, SubmissionsPage

`boundaries` is `projectTaskBoundries`, `activity` the first row of `projectTaskActivity` with the
task it is of, `board` the backend. A request is in `calls`, without and then with an answer; the
actions named after thunks and reducers (`ProjectById`, `SyncTaskState`, `event_answered`,
`history_answered`) receive it. A review is `handleStatusUpdate`, which awaits `update_review_state`
and then sends up to three requests (`writes`), which are handled in any order and each may be
refused or lost.

## 3. What is checked

Scaled constants keep the relations of the real ones (3 hours, 3 days, 7 days; windows of 7 days,
warnings at 7, 14 and 21 days; tokens of a day and a week), not their values.

| Run | Instance | Shows |
|---|---|---|
| `TaskEvents_board` | one task, three events, two overlapping runs that may fail, the user deleted and re-created | `RowsOwned`, `FreshEventSurvives`, `UnlockOnlyLocked`, the refinement `BoardSpec` |
| `TaskEvents_release` | timely runs, seven hours with an activity window of five | `StaleLockReleased` |
| `EntitySync_job` | two entities, a reader, two updates, lost webhooks, invalid statuses, the job | `SettledInSync`; under fairness `Converges` |
| `EntitySync_abandoned` | one entity | violation of `AbandonedReset`, section 4 |
| `Organisations_accounts` | one account with runs on time and runs on demand, messages refused or cut off; or two accounts and two organisations, one update and one deletion at a time, restarts | `AllWarningsSent`, `NotSoonerThanTold`, `OrgSound` |
| `Frontend_stores` | one store at a time: two tasks, two browsers and three requests of the mapper's store; for the pages of the management frontend two organisations, projects, users, tasks and three requests | `ShownIsBoard`, `TakeoverOnlyBlind`, `DetailsFit`, `OneDecision`, `SentFits`, `ListExact`, `CommentsFit`, `TilesFit`, `MenuFits`, `StoresTypeOK` |
| `ProjectCreation_wizard` | one wizard, two tries, three plans, one failure or one lost answer, a page that is left once more while a delay runs, one visit to the manage page of another project | `NoOrphan`, `RetryIsClean`, `RedirectToProject`; under fairness `SubmissionEnds` |
| `ProjectWizard_steps` | two areas, two categories, a valid and an invalid form, three changes, two slow answers | `SubmissionConsistent`; under fairness `SpinnersEnd` |
| `BackgroundJobs_pool` | project files with a basemap, a basemap of the same source, a deletion; two connections, one failure (the calls of the except block included), one restart | `OutcomeSound`, `NotEndedByOthers`, `JobsTypeOK`; under fairness `JobReports` |
| `Sessions_tabs` | a tab of each frontend, two users, one with a name that is taken | `CookiesOfLogin`, `ShownActs`; under fairness `LoadEnds` |
| `MapperPage_map` | two areas, two features, one reaching over the border, one basemap, two overlapping requests | `TaskOfFeature`, `FeaturesOfSelected`, `OfflineIsWhole` |
| `ManagePages_validation` | two tasks, two submissions about one entity, a user whose rights may change | `CopiesCurrent`, `EventFits`, `TableShowsFilter`, `ReviewAgrees` |

Type invariants are proved (section 5); TLC checks two of them as well, `JobsTypeOK` of
`BackgroundJobs` and, for all the smaller stores, `StoresTypeOK`. Each property has a mutant: a variant of
a definition, next to it in the module and marked as such, that a plausible mistake in the code
would amount to and that TLC finds.

**Bounds.** One project and one task are enough for the unlock job because a run treats them
independently; what several share (one transaction, one rollback) is in the proofs. Two runs, two
readers, two wizard tries, two overlapping requests for a layer or a table are enough for every
overlap the properties relate, since each compares one with the state or with one other. Three
events of a task give lock, progress and comment in every order of commits. One failure or one
lost answer (anywhere, `MaxTroubles = 1`) shows every clean-up and every step left undone; what
several at once can do is in the proofs of `ProjectsProofs`. One visit to a manage page frees the
flag of the wizard once, which is enough for a second submission to meet the first; to keep the
instance small it is combined with failures for one submission only and with the plan that takes
the fewest requests (`Bounded` of `MCProjectCreation`), and the proofs have no such bound. Two delays for one project show that
they need not end in the submission that began them. Three
requests (`MaxAsks`, `MaxCalls`, `MaxSends`) in the smaller stores are one
request about the page shown, one of the page before, and one that changes something. Time runs past every age limit used: in `Organisations_accounts` to 12 with deletion after
7, so that an account is deleted, created again and warned again; its accounts do not influence each
other, so one is enough. The day has two ticks and the
week three in `Sessions_tabs`, so that access tokens expire before refresh tokens and both before
the run ends. Where a product of two timelines would be too large, the instance has several
starting points, each a state the program can be in: `Organisations_accounts` starts with the whole
timeline of one account, or on its last day with the organisations ahead, HOTOSM made by an earlier
startup, and a run about to delete `localadmin`; `ManagePages_validation` starts with work on the project page (two own events, one of
others), with reviews (two), or with the table (two changes). Symmetry is used in
`Frontend_stores` and `ManagePages_validation`, which have no liveness properties.

**Deadlock** is not checked where the system really stops: time ends (`TaskEvents_release`), the
tries, requests or changes are used up (`ProjectCreation_wizard`, `ProjectWizard_steps`,
`BackgroundJobs_pool`, `ManagePages_validation`).

**Fairness.** `EntitySync`: a webhook call ends, arrived or lost; somebody keeps loading the page or
pressing the sync button, which the code relies on, and not every such request is cut off by a
restart, hence strong fairness of `sync_write`; the job gets none. `ProjectCreation`: the backend
handles its requests, answers that are not lost arrive, timers fire, and the request of a manage
page ends one way or the other; the user owes nothing.
`ProjectWizard`: requests of each kind are answered or fail. `BackgroundJobs`: handlers and
background tasks go on; requests need not be sent, restarts need not happen. `Sessions`: the fetches
of a page that is loading are answered or fail; people and time owe nothing.

## 4. Reading the properties

`FreshEventSurvives` is why `created_at = now()` at the start of a run is right: whatever began
after the run wins over its RESET. `BoardSpec` also says what loses. `UnlockOnlyLocked` relates the
two filters on one table and needs the convention on comments. `StaleLockReleased` excepts locks
older than the activity window.

`SettledInSync` and `Converges`: the mirror has no versions, so it is exact only if the last writer
had fetched after the last change; page loads make that happen in the end.

`AllWarningsSent` needs completed runs at most a window apart, and says that every warning was
handed to OSM; what OSM refused is in `refused`, and nobody tries again. `NotSoonerThanTold` has
runs on demand among its steps: such a run may delete an account before the day it was told, or
tell it a day on which a scheduled run comes too early, but always by less than a window.
`OrgSound` relates accounts, organisations, managers and the bucket: its causes are the
deletion of an account that was the only manager (`orphaned`) and a deletion that failed after it
had emptied the folder (`lost`).

`ShownIsBoard` and `TakeoverOnlyBlind` state when a mapper's view may be trusted: the last row of
the task is no comment and no earlier row began later.

`NoOrphan` (nothing failed) and `RetryIsClean` (no answer lost, or nothing failed) say how far the
clean-up of the wizard reaches; `RedirectToProject` that the address it leads to is that of a
complete project; `SubmissionEnds` that none of its ten calls leaves the wizard spinning. The
exception `mixed` of `RetryIsClean` and `RedirectToProject` is real and has two causes: a delay left
over from a first submission resets `projectDetailsLoading`, and so does the request of a manage page
opened meanwhile. Either way the wizard can be submitted while a submission is being made, and two
projects of one name may result although no answer was lost, or the redirect may show one that is
not complete. Without such a second submission a visit to a manage page does no harm.

`DetailsFit`, `SentFits`, `ListExact`, `CommentsFit`, `TilesFit`: what a page shows and sends
belongs to the address it has, unless an answer meant for another page came late, or one failed.
`OneDecision` is what the flags that outlive a page are good for. `MenuFits` has no exception but a
map without a base layer.

`SubmissionConsistent` lists in `causes` the four ways in which the parts of a submission can stem
from different projects, and says there is no fifth.

`NotEndedByOthers` and `OutcomeSound` isolate what the borrowed connection and the shared archive
can do; the exceptions are a connection in autocommit, two tasks of one source, a restart.
`OutcomeSound` also compares the two rows that report a basemap. They agree unless a call of the
database raised just where they are written: a failed creation leaves no basemap to mark, and
the last update of the try block may have been written although it raised, or the first
of the except block may leave the rest undone. `JobReports` says that the task is not left PENDING,
and names the calls of the except block as the one fault it depends on.

`CookiesOfLogin`: the temporary cookie is made from `current_user`, whoever that is, and is
anonymous only because a refresh token never runs out before its access token; sessions follow the
last login or logout unless a refresh crossed it. `ShownActs` compares what a page shows with whom
the backend takes it for; `sure` names what it cannot know.

`TaskOfFeature` covers the time between the click on a feature and the button that locks its task.
`FeaturesOfSelected`: once the newest request is answered, the layer has exactly the features of the
selected area; answers that come before may show fewer, or those around an area.
`OfflineIsWhole` is about broken downloads.

`CopiesCurrent`, `EventFits`: the dialog and the table decide from copies; the event posted fits the
state when it is committed, unless the copy could not be current for one of the named reasons.
`ReviewAgrees`: a review ends with review state, entity status and geometry log in agreement unless
something was refused, lost, or another review came between.

### A violation

`EntitySync_abandoned` checks `AbandonedReset`, which the docstring of `reset_entities_status`
promises: entities open for more than an hour are reset. The filter date in
`central_crud.py:727` selects the entities updated *after* one hour ago, so that only the ones just
opened are reset. `OnlyOpenedMeanwhile` (proved) says what that amounts to: since a project with
recent updates is skipped, all the job can find are entities opened after it asked.

### Known divergences

Found while modelling; the properties above name them as exceptions or are worded around them.

Tasks and entities

* A FINISH that begins before a run of the unlock job and commits after its query is overwritten by
  RESET (`task_crud.py:157`). An entity submitted between the job's fetch and its update goes back
  to READY (`task_crud.py:113`). A lock not released before its project counts as inactive stays
  (`task_crud.py:76`). Entities updated between check and unlock do not stop the release (`:93`).
* A FINISH with comment text, which the API accepts, is invisible to the job (`:144`).
* A comment makes the state of the mapper's dialog null (`tasks.svelte.ts:47`, the trigger).
* `compose.yaml:373` has the crontab line `* */3 * * *` under "every 3hrs", which is every minute of
  every third hour.
* The entity status is set although the review was refused; a lost geometry log counts as empty; of
  two bad rows of one entity an approval deletes one (`UpdateReviewStatusModal.tsx`). The note of a
  review stays after Cancel; the modal is closed by the end of an earlier review.
* The filter of the table compares the index of a task with its id. The dialog offers MAP alone for
  a task whose events are older than ten days, whatever its state.

Users, organisations, sessions

* A login between SELECT and DELETE does not save an inactive account (`user_crud.py:95`). A run
  one day late skips a warning for some accounts (`:64`). "Warning: 21, 14, 7 days before deletion"
  (`scheduler/inactive_users.py:7`) holds of what OSM accepts: a message it refuses is only logged
  (`osm.py:157`) and the account is deleted in the end. A run on demand (`user_routes.py:103`) may
  delete an account before the day its last message named (`user_crud.py:110`). Without `SVC_OSM_TOKEN` accounts are
  deleted and nobody is warned (`:75`).
* `useIsOrganizationAdmin` does not ask whether an organisation is approved; the endpoints refuse
  one that is not, administrators included (`organisation_deps.py`).
* `DbOrganisation.delete` leaves `user_roles`, so an organisation whose projects have project roles
  cannot be deleted. Approval fails while the account that asked is gone. A restart re-creates
  `localadmin` but not its manager row if HOTOSM exists. Objects are deleted before the commit. The
  INSERT of HOTOSM handles a conflict of the name only, not of the slug. The endpoint for
  unapproved organisations deletes approved ones as well.
* `project_contributors` accepts READ_ONLY users and authors of any project.
* An expired access token refuses a request before the refresh token is looked at; a refreshed
  refresh token lives a day, not a week (`auth_routes.py:219`, `auth_deps.py:138`). A refresh
  answered after a logout restores the session.

Projects and files

* Custom tiles with more than 10000 features: if the task that makes the files fails, the row of the
  basemap task is PENDING for ever. The connection switched to autocommit is never switched back
  (`project_crud.py:780`); what a background task writes without autocommit is committed or rolled
  back by the next borrower.
* If `DbBasemap.create` raises, the task is FAILED and there is no basemap to show it
  (`project_crud.py:895`); if an update in the except block raises, the task stays PENDING
  (`:896`, `:904`).
* A partial `DbProject.update` overwrites the hashtags. `isTasksSplit` is never reset.
* A network error in `AssignProjectManager` deletes the project while the redirect timer runs.
* The delay before the redirect (`SplitTasks.tsx:223`) belongs to no submission: left over from an
  earlier one it makes the wizard ready to be submitted again while a submission is being made. So
  does the manage page of another project, whose request shares the loading flag
  (`CreateProjectSlice.ts:141`). Two projects of one name may result, or the redirect may lead to a
  project that is not complete.
* An answer to an earlier request for features is filtered by the area selected when it comes; if
  none is selected any more, the features around the earlier area are shown
  (`flatgeobuf-layer.svelte:57`).
* A failed download leaves an empty offline basemap (`basemaps.ts:63`).

Pages of the management frontend

* The slices outlive their pages: the details of another organisation or project are shown, and
  used by the edit page, until its own arrive, or for good if that request fails.
* A comment is appended to a list that is newest first; a list fetched while a post is on its way
  has it twice; the text is cleared at the click and lost if the post fails.
* The list of basemaps and `customBasemapUrl` of another project stay, and so does the entry
  'TMS Layer' in the menu. A TMS layer turns invisible when `projectInfo` is replaced. A page shown
  again with a basemap chosen hides OSM while the menu marks it.

## 5. What is proved

Checked by TLAPS (SMT, Zenon, LS4), for all values of the constants that satisfy the assumptions
named in the modules. These say that model values differ from each other, that sets are of the
kind the code has, and that bounds are numbers; besides that only that a feature is among those
around the areas it lies in or reaches into (`AroundAssumption`), that `OpenedWindow <= EntityWindow`
and that a day is no longer than a week. The assumptions of a theorem
about a composition are those of its parts.

| Module | Theorems | Inductive invariant and argument |
|---|---|---|
| `TaskEventsProofs` | `TypeCorrect`, `RowsOwnedHolds`, `FreshEventSurvivesHolds`, `UnlockOnlyLockedHolds` (for `Conventional` payloads), `Implements` (`Spec => BoardSpec`) | no two transactions share a stamp, which makes "the newest row" one row; what each run has written |
| | `StaleLockReleasedHolds` (under `Timely`) | a lock that was too old when the scheduled run began (`Due`) is of a project the run has still to look at, of the one it is at, or has its RESET row, and after the run there is none (`Handled`); rows older than the run have smaller stamps (`Order`), and no other step makes an old row the newest (`OldRows`) |
| `BackendJobsProofs` | of `EntitySync` `TypeCorrect`, `OnlyOpenedMeanwhileHolds`, `SettledInSyncHolds` | since the job's check, what is younger than the entity window is younger than the run; a sync still marked current has the statuses of ODK Central |
| | of `BackgroundJobs` `JobsTypeCorrect`, `NotEndedByOthersHolds` | a request holds one connection until it is answered, and only its own statements wait on it (`Borrowing`); a background task goes on with a connection that may be another request's by then, and the statements of that request stay on it |
| | `OutcomeSoundHolds` | what was committed by whom (`Traced`); who writes an archive (`Writers`); what rows and bucket hold at each stage of a background task, while nobody deletes the project, given which calls of the database have raised so far (`Reported`) |
| `OrganisationsProofs` | of the accounts `TypeCorrect`, `AllWarningsSentHolds` (under `Weekly`), `SomeWarningSentHolds` (under `WindowsCover`) | `ScheduleInv`, and which warnings OSM was asked to send to an account of a given age |
| | `LessThanAWindowEarly` (no assumption), `NotSoonerThanToldHolds` (under `OnTime`) | the day a message names is less than a window after the first day on which the account is old enough to be deleted (`PromiseInv`); the days that scheduled runs name are multiples of the period, as these runs are (`RoundInv`), so that none of them comes in between |
| | of the organisations `ImplementsAccounts` (`OrgSpec => Spec` of `InactiveUsers`), `OrgTypeCorrect`, `OrgSoundHolds` | every step is one of the accounts or leaves them alone; the managers' rows go with the account, a deletion that is going on holds its row |
| `ManagePagesProofs` | of `Roles` `RolesNested`, `HooksSound` | a lower role asks for less, and `org_admin` of an organisation that is not approved is refused to everybody; hooks and backend compared right by right |
| | `CopiesCurrentHolds`, `EventFitsHolds` | while a read of the board is under way every event under way counts as overlapping it, so a copy never falls behind unnoticed (`Overlapped`, `BoardFits`); of the histories only the newest matters, and it is for the task of the dialog (`Latest`); an event that has to fit is alone on its task (`SureFits`) |
| | `TableShowsFilterHolds` | every change of the filter or the page is followed by a request for what is then shown, and requests are numbered (`TableFits`) |
| | `ReviewAgreesHolds`, `PagesTypeCorrect` | a review either awaits its first request and has sent nothing else (`Awaited`), or each of its writes is under way or done (`Written`) |
| `FrontendStoresProofs` | of the mapper's store `StoreTypeCorrect`, `ShownIsBoardHolds`, `TakeoverOnlyBlindHolds` | stamps are apart; each browser shows what follows from the rows it has; a MAP in flight was clicked on a task shown as unlocked. Every set of positions has a largest (well-founded order of the naturals), and rows already received are not changed by new ones |
| | `OrgPagesTypeCorrect`, `OneDecisionHolds`, `DetailsFitHolds` | at most one decision and one form are on their way, each with its flag up, whatever pages came in between (`Alone`); a request for details younger than the page is for the organisation in its address (`Fitting`) |
| | `ManageTypeCorrect`, `SentFitsHolds`; `UsersTypeCorrect`, `ListExactHolds` | once the last answer has come and nothing unsettled the page, details, form and editor are of its project or of one inherited from (`FormKept`); with no cause recorded every request about the list is for what the table asks, and the patch that is on its way leads from one exact list to the next (`ListKept`) |
| | `PanelsTypeCorrect`, `MenuFitsHolds`, `TilesFitHolds`, `CommentsFitHolds` | the layers of the map and the menu; requests for tiles in flight are for the page unless one strayed (`Listed`); unless `mixed`, at most one request about comments is on its way, is for the task of the dialog, and its answer makes the list complete (`CommentsKept`) |
| | `StoresTypeCorrect` | the four above, side by side in `MCFrontendStores` |
| `ProjectsProofs` | `WizardTypeCorrect`, `SubmissionConsistentHolds` | what is fetched, divided and asked for was computed from the area, category and form of the page, or one of the four causes is recorded (`Asked`, `ExtractFits`, `FormFits`, `TasksFit`) |
| | `CreationTypeCorrect`, `NoOrphanHolds` | identifiers grow, so rows, ODK projects and folders of different tries are apart (`Fresh`); while nothing failed, each part of a project has its row or a request that is about to write or delete it (`Balance`) |
| | `RetryIsCleanHolds`, `RedirectToProjectHolds` | a clean-up that was answered left nothing (`Cleaned`), and but for `mixed`, whatever frees the loading flag, only one submission is being made (`OneMaking`), so that the name is held by its project alone (`Named`); the delay that would redirect began when every part of its project existed (`Ready`) |
| `MapperPageProofs` | `TypeCorrect`, `TaskOfFeatureHolds`, `FeaturesOfSelectedHolds`, `OfflineIsWholeHolds` | what the selected feature, the drawn feature and their dialogs have to do with the selected task; the newest request is the last in the queue and is for the selected area, whose features are all among those it fetches (`AroundAssumption`) |
| `SessionsProofs` | `CookiesOfLoginHolds`, `SessionsTypeCorrect` | the refresh cookie covers the main one (`Covered`), so a refresh never gives a person temporary cookies; a refresh sent since the last login carries its user (`Session`) |
| | `ShownActsHolds` | while a page is `sure`, the cookies attribute its requests to whom it shows (`Sound`), a tab waits for one answer besides that to a sign-out (`OneCall`), and any answer under way is one that keeps this true (`Fits`) |

`AllWarningsSent` and `NotSoonerThanTold` are proved of `InactiveUsers` and carry over to
`Organisations` by `ImplementsAccounts`. Every safety invariant and action property of the passing
runs is the subject of a theorem. Four of them need an assumption on the constants, which the
configuration of the run satisfies: `Conventional` says that comment text comes with COMMENT events
and with no others; `Timely`, that in addition scheduled runs are on time and succeed and `svcfmtm`
is not deleted; `Weekly`, that `SVC_OSM_TOKEN` is set and completed runs are never further apart than a window is
wide; `OnTime`,
that scheduled runs are not late, that warnings are a whole number of periods ahead, and that a window
is no longer than a period, as with weekly runs and the thresholds of the code. `Weekly` and
`OnTime` allow any number of runs on demand.

Only model-checked: all liveness (`Converges`, `SubmissionEnds`, `SpinnersEnd`, `JobReports`,
`LoadEnds`), which is out of the prover's reach. Recursive definitions are avoided throughout.

## 6. Not modelled

External, and modelled only as `src/` uses them: ODK Central and its webhook service, ODK Collect,
OSM, S3, Electric (in-order delivery of committed rows), tilepack.

Left out of the modelled parts:

* `Organisations`: who asks (`Roles`), the projects of an organisation, slugs, listings, messages. A
  check and its statement are one step where nothing between them can change the check. An S3 call
  that fails leaves objects and nothing else.
* `Sessions`: the temp_refresh cookie, which is never read; a second callback call; a page left
  while it waits; answers in flight for more than a day; debug mode. `svcfmtm` is not deleted there.
* `MapperPage`: the walkthrough, the layer switcher, what is only drawn, the bad and new geometries.
* `ProjectWizard`: text fields, the dimension of a split, tasks edited by hand, the limits on area
  and number of features, supporting datasets, areas that are refused.
* `ProjectCreation`: QR codes, API tokens.
* `OrganisationPages`, `ManageProject`, `ManageUsers`, `ProjectPanels`: what the text of a form is,
  uploads of logos, messages, geometry.
* `ProjectPage`, `SubmissionsPage`: the list of tasks, downloads, the infographics, other
  filters than the task, form fields. Another reviewer's review is one step; any submission may be a
  row of the page that is shown.
* `BackgroundJobs`: one project; a failed upload, tile command or statement is one kind of failure.

Not modelled at all: geometry and format conversion, exports of submissions, statistics, migrations
and deployment (the trigger, the foreign keys and the schedule are modelled where they are used),
and the local database of the mapper frontend, which nothing writes yet. The deletion of `svcfmtm`
by the inactive-users job and what it does to the unlock job (`task_crud.py:177`) would be a
composition of `TaskEvents` and `InactiveUsers`; both halves are modelled, the composition is not.

What could come next: that composition.

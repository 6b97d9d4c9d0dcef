---------------------------- MODULE ProjectPage -----------------------------
(***************************************************************************)
(* The page of one project in the management frontend, in one browser: its *)
(* map of task areas, the dialog of the selected task, and the events it   *)
(* and the table of submissions post.                                      *)
(*                                                                         *)
(* The browser holds two copies of the state of a task:                    *)
(* projectTaskBoundries, which draws the map, says who acted last and      *)
(* offers MARK AS VALIDATED, and projectTaskActivity, the history of the   *)
(* task selected last, whose first row decides what the dialog offers.     *)
(* They are read by different requests, whose answers come in any order,   *)
(* and written by the answers to the user's own events.                    *)
(***************************************************************************)
EXTENDS Roles

CONSTANTS
    Task, NoTask,    \* tasks.id
    MaxOwn,          \* bound: events the user posts
    MaxOthers,       \* bound: what others do meanwhile, and losses
    MaxSent          \* bound: requests of the user's, those of a following page not counted

ASSUME PageAssumption ==
  /\ NoTask \notin Task
  /\ MaxOwn \in Nat /\ MaxOthers \in Nat /\ MaxSent \in Nat \ {0}

VARIABLES
    rights,         \* what the tables say of the user
    authDetails,    \* the copy in the store, as old as the page load
    board, old,     \* the newest event of each task; tasks for which it is older than ten days
    page,           \* the page shown: its path, and the query and page of the table
    boundaries,     \* projectTaskBoundries; None while it is []
    selectedTask,   \* in the store
    shown,          \* which popup the page has: of the task, of a feature, none
    activity,       \* the first row of projectTaskActivity, and the task it is of
    loading,        \* common.loading
    calls, sent,    \* requests without an answer, and the number of all
    answered,       \* the number of the newest history that came or was lost
    doubts,         \* history: why activity may be that of another task
    blind,          \* history: tasks that changed without the dialog's seeing it
    elsewhere,      \* history: tasks that others changed since the page asked for the board
    overlaps,       \* history: tasks with events that overlapped a read of the board since
    own,            \* history: for each task, the last answered event of the user
    events, others

pageVars == <<rights, authDetails, board, old, page, boundaries, selectedTask, shown, activity,
              loading, calls, sent, answered, doubts, blind, elsewhere, overlaps, own,
              events, others>>

Log == INSTANCE TaskLog WITH MapHold <- 3, AssignHold <- 72

-----------------------------------------------------------------------------
\* The newest event of a task that is no comment: the state it made, who posted it, its rank.
Row == [state : Log!MappingState, actor : {"me", "other", None}, ver : Nat]

Newest == [task : Task \union {NoTask}, state : Log!MappingState]

Page == [name : {"project"}]
          \union [name : {"table"}, task_id : Task \union {NoTask}, pagination : {1, 2}]

Failed == [state |-> "none", actor |-> None, ver |-> 0]

\* An answer is not mistaken for none.
ASSUME RowAssumption == None \notin Row \union {Failed}

Project == [name |-> "project"]
Table(t) == [name |-> "table", task_id |-> t, pagination |-> 1]

\* The events that the buttons of the pages post, and others; comments are in ProjectPanels.
Event == {"MAP", "FINISH", "VALIDATE", "GOOD", "BAD"}

\* "answer" is None until the backend has handled the request.
Call ==
  [n : Nat, kind : {"project", "sync"}, answer : [Task -> Row] \union {None}]
    \union [n : Nat, kind : {"history"}, task : Task, answer : Newest \union {None}]
    \union [n : Nat, kind : {"event"}, task : Task, event : Event, styled : BOOLEAN,
            sure : BOOLEAN, answer : Row \union {None, Failed}]

PageTypeOK ==
  /\ rights \in Rights /\ authDetails \in Rights
  /\ board \in [Task -> Row] /\ old \subseteq Task
  /\ page \in Page
  /\ boundaries \in [Task -> Row] \union {None}
  /\ selectedTask \in Task \union {NoTask}
  /\ shown \in {"nothing", "task", "feature"}
  /\ activity \in Newest
  /\ loading \in BOOLEAN
  /\ calls \subseteq Call
  /\ sent \in Nat /\ answered \in 0..sent
  /\ doubts \subseteq {"crossed", "lost", "moved on"}
  /\ blind \subseteq Task /\ elsewhere \subseteq Task /\ overlaps \subseteq Task
  /\ own \in [Task -> Nat]
  /\ events \in 0..MaxOwn /\ others \in 0..MaxOthers

\* Anybody who may read the page opens it, or that of the submissions, by its address; any
\* task may have been mapped before, and some of what the bounds allow may be past.
PageInit ==
  /\ rights \in {r \in Rights : mapper(r)} /\ authDetails = rights
  /\ board \in [Task -> {[state |-> "UNLOCKED_TO_MAP", actor |-> None, ver |-> 0],
                         [state |-> "UNLOCKED_TO_VALIDATE", actor |-> "other", ver |-> 1]}]
  /\ old = {}
  /\ page \in {Project, Table(NoTask)} /\ boundaries = None
  /\ selectedTask = NoTask /\ shown = "nothing"
  /\ activity = [task |-> NoTask, state |-> "UNLOCKED_TO_MAP"]
  /\ loading = FALSE
  /\ sent \in 1..MaxSent /\ answered = 0
  /\ calls = {[n |-> sent, kind |-> "project", answer |-> None]}
  /\ doubts = {} /\ blind = Task /\ elsewhere = {} /\ overlaps = {}
  /\ own = [t \in Task |-> 0]
  /\ events \in 0..MaxOwn /\ others = 0

-----------------------------------------------------------------------------
(* Requests. *)

Of(kind) == {c \in calls : c.kind = kind}

Reads == Of("project") \union Of("sync")

\* ProjectById and SyncTaskState: both ask for the newest event of every task.  The first is
\* sent by a page without a copy; what came before concerns it if an earlier answer may come.
read_board(cs, kind) ==
  LET during == {c.task : c \in {d \in cs : d.kind = "event"}}
      fresh == kind = "project" /\ Reads = {} IN
  /\ sent' = sent + 1
  /\ calls' = cs \union {[n |-> sent', kind |-> kind, answer |-> None]}
  /\ elsewhere' = IF fresh THEN {} ELSE elsewhere
  /\ overlaps' = IF fresh THEN during ELSE overlaps \union during

\* The first effects of either page, if it is not the one that is shown: cs are the requests
\* that are still without an answer.
navigate(p, cs) ==
  IF page.name = p.name
  THEN calls' = cs /\ UNCHANGED <<page, boundaries, shown, sent, elsewhere, overlaps>>
  ELSE /\ page' = p /\ shown' = "nothing"
       /\ boundaries' = None
       /\ read_board(cs, "project")

\* The user's events on a task that are under way no longer have to fit.
unsure(t) ==
  {IF c.kind = "event" /\ c.task = t THEN [c EXCEPT !.sure = FALSE] ELSE c : c \in calls}

CreateTaskEvent(t, e, styled, sure) ==
  /\ events < MaxOwn /\ events' = events + 1 /\ sent < MaxSent
  /\ sent' = sent + 1
  /\ calls' = unsure(t) \union {[n |-> sent', kind |-> "event", task |-> t, event |-> e,
                             styled |-> styled, sure |-> sure, answer |-> None]}
  /\ loading' = TRUE
  /\ overlaps' = IF Reads = {} THEN overlaps ELSE overlaps \union {t}
  /\ blind' = IF \E c \in calls : c.kind \in {"history", "event"} /\ c.task = t
              THEN blind \union {t} ELSE blind

-----------------------------------------------------------------------------
(* The user. *)

visit(p) ==
  /\ sent < MaxSent
  /\ page.name # p.name
  /\ navigate(p, calls)
  /\ UNCHANGED <<rights, authDetails, board, old, selectedTask, activity, loading, answered,
                 doubts, blind, own, events, others>>

\* Mutant of dialog_opens: the effect has no dependencies.
dialog_opens_once(t) == shown # "task" /\ selectedTask = NoTask

\* The effect of the dialog: it is new, or taskId has changed.
dialog_opens(t) == shown # "task" \/ selectedTask # t

\* A click on a task area; projectTaskActivity stays as it is until the history comes.
projectClickOnTaskArea(t) ==
  /\ page = Project /\ boundaries # None
  /\ ~(shown = "task" /\ selectedTask = t) /\ sent < MaxSent
  /\ selectedTask' = t /\ shown' = "task"
  /\ IF dialog_opens(t)
     THEN /\ sent' = sent + 1
          /\ calls' = calls \union {[n |-> sent', kind |-> "history", task |-> t, answer |-> None]}
          /\ blind' = IF \E c \in Of("event") : c.task = t THEN blind \union {t} ELSE blind \ {t}
     ELSE UNCHANGED <<sent, calls, blind>>
  /\ UNCHANGED <<rights, authDetails, board, old, page, boundaries, activity, loading, answered,
                 doubts, elsewhere, overlaps, own, events, others>>

\* The popup of the feature takes the place of the dialog.
projectClickOnTaskFeature ==
  /\ page = Project /\ shown = "task"
  /\ shown' = "feature"
  /\ UNCHANGED <<rights, authDetails, board, old, page, boundaries, selectedTask, activity,
                 loading, calls, sent, answered, doubts, blind, elsewhere, overlaps, own,
                 events, others>>

close_popup ==
  /\ page = Project /\ shown = "task" /\ selectedTask # NoTask
  /\ selectedTask' = NoTask /\ shown' = "nothing"
  /\ UNCHANGED <<rights, authDetails, board, old, page, boundaries, activity, loading, calls,
                 sent, answered, doubts, blind, elsewhere, overlaps, own, events, others>>

\* environment.tasksStatus
actions ==
  [UNLOCKED_TO_MAP       |-> {"MAP"},
   LOCKED_FOR_MAPPING    |-> {"FINISH", "BAD"},
   UNLOCKED_TO_VALIDATE  |-> {"VALIDATE", "BAD"},
   LOCKED_FOR_VALIDATION |-> {"GOOD", "BAD"},
   UNLOCKED_DONE         |-> {"BAD"}]

\* The buttons of the dialog: what the first row of projectTaskActivity allows, whichever
\* task it is of, to whoever acted last, or may manage the project.
offered ==
  {e \in actions[activity.state] :
     \/ boundaries[selectedTask].actor \in {"me", None} \/ e = "MAP"
     \/ useIsOrganizationAdmin(authDetails) \/ useIsProjectManager(authDetails)}

handleOnClick(e) ==
  LET t == selectedTask IN
  /\ page = Project /\ shown = "task" /\ boundaries # None
  /\ e \in offered
  /\ CreateTaskEvent(t, e, TRUE,
       t \notin blind \union old /\ doubts = {} /\ ~\E c \in calls : c.kind \in {"history", "event"} /\ c.task = t)
  /\ UNCHANGED <<rights, authDetails, board, old, page, boundaries, selectedTask, shown, activity,
                 answered, doubts, elsewhere, own, others>>

\* MARK AS VALIDATED above the table.
handleTaskMap ==
  /\ page.name = "table" /\ page.task_id # NoTask
  /\ boundaries # None /\ ~loading
  /\ boundaries[page.task_id].state = "LOCKED_FOR_VALIDATION"
  /\ CreateTaskEvent(page.task_id, "GOOD", FALSE,
       page.task_id \notin elsewhere \union overlaps
         /\ ~\E c \in Of("event") : c.task = page.task_id)
  /\ UNCHANGED <<rights, authDetails, board, old, page, boundaries, selectedTask, shown, activity,
                 answered, doubts, elsewhere, own, others>>

\* SYNC STATUS; nothing of it goes to projectTaskActivity.
syncStatus ==
  /\ page = Project /\ boundaries # None
  /\ sent < MaxSent
  /\ read_board(calls, "sync")
  /\ UNCHANGED <<rights, authDetails, board, old, page, boundaries, selectedTask, shown, activity,
                 loading, answered, doubts, blind, own, events, others>>

-----------------------------------------------------------------------------
(* The backend. *)

post(t, e, who) == [board EXCEPT ![t] = [state |-> Log!set_task_state[e], actor |-> who,
                                         ver |-> @.ver + 1]]

\* get_task_event_history: the events of the last ten days; no event means UNLOCKED_TO_MAP.
history(t) ==
  [task |-> t, state |-> IF board[t].ver = 0 \/ t \in old THEN "UNLOCKED_TO_MAP" ELSE board[t].state]

\* DbTaskEvent.create, whatever the state is.
add_new_task_event(c) ==
  /\ c.kind = "event" /\ c.answer = None
  /\ IF mapper(rights)
     THEN /\ board' = post(c.task, c.event, "me")
          /\ old' = old \ {c.task}
          /\ calls' = (calls \ {c}) \union {[c EXCEPT !.answer = board'[c.task]]}
     ELSE /\ calls' = (calls \ {c}) \union {[c EXCEPT !.answer = Failed]}
          /\ UNCHANGED <<board, old>>
  /\ UNCHANGED <<rights, authDetails, page, boundaries, selectedTask, shown, activity, loading,
                 sent, answered, doubts, blind, elsewhere, overlaps, own, events, others>>

\* The backend answers a read: read_project, read_tasks, get_task_event_history.
read(c) ==
  /\ c.kind # "event" /\ c.answer = None /\ mapper(rights)
  /\ calls' = (calls \ {c}) \union
       {[c EXCEPT !.answer = IF c.kind = "history" THEN history(c.task) ELSE board]}
  /\ UNCHANGED <<rights, authDetails, board, old, page, boundaries, selectedTask, shown, activity,
                 loading, sent, answered, doubts, blind, elsewhere, overlaps, own, events,
                 others>>

\* A mapper, another validator or the job that releases locks.
other_event(t, e) ==
  /\ others < MaxOthers /\ others' = others + 1
  /\ board' = post(t, e, "other") /\ old' = old \ {t}
  /\ blind' = blind \union {t} /\ elsewhere' = elsewhere \union {t}
  /\ calls' = unsure(t)
  /\ UNCHANGED <<rights, authDetails, page, boundaries, selectedTask, shown, activity, loading,
                 sent, answered, doubts, overlaps, own, events>>

\* Nobody touches the project for ten days.
ten_days_pass ==
  /\ calls = {} /\ others < MaxOthers /\ others' = others + 1
  /\ old' = {t \in Task : board[t].ver > 0} /\ old' # old
  /\ blind' = blind \union old'
  /\ UNCHANGED <<rights, authDetails, board, page, boundaries, selectedTask, shown, activity,
                 loading, calls, sent, answered, doubts, elsewhere, overlaps, own, events>>

\* update_existing_user, add_new_organisation_admin, add_new_project_manager.
change_rights(r) ==
  /\ others < MaxOthers /\ others' = others + 1
  /\ r # rights
  /\ \/ \E x \in UserRole : r = [rights EXCEPT !.role = x]
     \/ r = [rights EXCEPT !.manages = TRUE]
     \/ rights.project_role = None /\ r = [rights EXCEPT !.project_role = "PROJECT_MANAGER"]
  /\ rights' = r
  /\ UNCHANGED <<authDetails, board, old, page, boundaries, selectedTask, shown, activity,
                 loading, calls, sent, answered, doubts, blind, elsewhere, overlaps, own,
                 events>>

-----------------------------------------------------------------------------
(* Answers. *)

\* Mutant of UpdateProjectTaskActivity: the new row is put at the end of the list.
UpdateProjectTaskActivity_end(c) == UNCHANGED activity

\* The response is put before the list that is shown, whichever task that is of.
UpdateProjectTaskActivity(c) == activity' = [task |-> c.task, state |-> c.answer.state]

\* One task of the copy, if there is a copy.
UpdateProjectTaskBoundries(t, row) ==
  IF boundaries = None THEN None ELSE [boundaries EXCEPT ![t] = row]

\* The answer to an event; after VALIDATE the table is shown, and after MARK AS VALIDATED the
\* project, even if the event failed, and wherever the user is by then.
event_answered(c) ==
  /\ c.kind = "event" /\ c.answer # None
  /\ IF c.answer = Failed
     THEN UNCHANGED <<activity, own, doubts>> /\ blind' = blind \union {c.task}
     ELSE /\ UpdateProjectTaskActivity(c)
          /\ own' = [own EXCEPT ![c.task] = c.answer.ver]
          /\ doubts' = IF c.task = selectedTask THEN doubts ELSE doubts \union {"moved on"}
          /\ UNCHANGED blind
  /\ LET p == IF c.styled THEN Table(c.task) ELSE Project IN
     IF (~c.styled \/ c.event = "VALIDATE") /\ page.name # p.name
     THEN navigate(p, calls \ {c})
     ELSE /\ calls' = calls \ {c}
          /\ boundaries' = IF c.styled /\ c.answer # Failed
                           THEN UpdateProjectTaskBoundries(c.task, c.answer) ELSE boundaries
          /\ UNCHANGED <<page, shown, sent, elsewhere, overlaps>>
  /\ loading' = FALSE
  /\ UNCHANGED <<rights, authDetails, board, old, selectedTask, answered, events, others>>

\* SetProjectTaskActivity
history_answered(c) ==
  /\ c.kind = "history" /\ c.answer # None
  /\ activity' = c.answer
  /\ answered' = IF c.n > answered THEN c.n ELSE answered
  /\ doubts' = IF c.n > answered THEN {} ELSE doubts \union {"crossed"}
  /\ calls' = calls \ {c}
  /\ UNCHANGED <<rights, authDetails, board, old, page, boundaries, selectedTask, shown, loading,
                 sent, blind, elsewhere, overlaps, own, events, others>>

\* The answer to a read of the board makes new the copy.
board_answered(c, new) ==
  /\ c.answer # None
  /\ boundaries' = new
  /\ calls' = calls \ {c}
  /\ UNCHANGED <<rights, authDetails, board, old, page, selectedTask, shown, activity, loading,
                 sent, answered, doubts, blind, elsewhere, overlaps, own, events, others>>

\* SetProjectTaskBoundries
ProjectById(c) == c.kind = "project" /\ board_answered(c, c.answer)

\* UpdateProjectTaskBoundries for each task of the answer; there may be no copy to change.
SyncTaskState(c) ==
  c.kind = "sync" /\ board_answered(c, IF boundaries = None THEN None ELSE c.answer)

\* A request or its answer is lost, or a read is refused; a history keeps the old list.
lose(c) ==
  /\ others < MaxOthers /\ others' = others + 1
  /\ IF c.kind = "event"
     THEN /\ c.answer # Failed
          /\ calls' = (calls \ {c}) \union {[c EXCEPT !.answer = Failed]}
     ELSE calls' = calls \ {c}
  /\ IF c.kind = "history" /\ c.n > answered
     THEN answered' = c.n /\ doubts' = doubts \union {"lost"}
     ELSE UNCHANGED <<answered, doubts>>
  /\ UNCHANGED <<rights, authDetails, board, old, page, boundaries, selectedTask, shown, activity,
                 loading, sent, blind, elsewhere, overlaps, own, events>>

PageNext ==
  \/ visit(Project) \/ visit(Table(NoTask))
  \/ \E t \in Task : projectClickOnTaskArea(t)
  \/ projectClickOnTaskFeature \/ close_popup
  \/ \E e \in Event : handleOnClick(e)
  \/ handleTaskMap
  \/ syncStatus
  \/ \E t \in Task, e \in Event : other_event(t, e)
  \/ ten_days_pass
  \/ \E r \in Rights : change_rights(r)
  \/ \E c \in calls : \/ add_new_task_event(c) \/ read(c) \/ lose(c)
                      \/ event_answered(c) \/ history_answered(c)
                      \/ ProjectById(c) \/ SyncTaskState(c)

-----------------------------------------------------------------------------
(* Properties. *)

\* The dialog offers what the state of the task it is open for allows: once the history it
\* asked for has come, projectTaskActivity is that of the selected task, unless histories
\* came in another order than they were asked for, one was lost, or an event of the user's
\* was answered after another task had been selected.
DialogOfTask ==
  shown = "task" /\ Of("history") = {} /\ doubts = {} => activity.task = selectedTask

\* The copy of the board is never older than the user's own answered events, unless one of
\* them was under way together with a request for the board.
OwnEventShown ==
  boundaries # None => \A t \in Task \ overlaps : boundaries[t].ver >= own[t]

\* Both copies of the state of a task are as new as what the page has been told.
CopiesCurrent == DialogOfTask /\ OwnEventShown

\* The backend takes any event in any state; an event the user posts still fits the state of
\* the task when it is committed, as long as nobody else acted on the task since its history
\* (or, for MARK AS VALIDATED, the board) was asked for, the history was not empty because of
\* its age, and the user's own events and reads did not overlap.
EventFits ==
  [][\A c \in calls :
       add_new_task_event(c) /\ c.sure /\ mapper(rights)
       => c.event \in actions[board[c.task].state]]_pageVars
=============================================================================

----------------------------- MODULE TaskEvents -----------------------------
(***************************************************************************)
(* Task locking: the endpoint that appends a task event and the job that   *)
(* releases abandoned locks.                                               *)
(*                                                                         *)
(* Every request runs in one PostgreSQL transaction (READ COMMITTED).  A   *)
(* request to POST /tasks/{id}/event is two steps here, the start of its   *)
(* transaction (which fixes created_at) and its INSERT and commit, so that *)
(* transactions may commit in another order than they began.               *)
(*                                                                         *)
(* trigger_unlock_tasks is one transaction over all active projects, with  *)
(* calls to ODK Central between its statements.  It is run by cron and, on *)
(* demand, by POST /tasks/unlock-tasks, so two runs may overlap.           *)
(***************************************************************************)
EXTENDS TaskLog, FiniteSets

CONSTANTS
    Project, Task, TaskProject,   \* the tasks, and the project of each
    User, SvcUser, NoUser,        \* user ids, svcfmtm among them; SQL NULL
    Deletable,                    \* the users that are ever deleted
    Busy,                         \* the projects whose entities are ever updated
    Payload,                      \* the pairs <<event, has comment text>> clients post
    Job, Cron,                    \* runs of the unlock job, the scheduled one among them
    NoProject,                    \* the job is at no project
    EntityWindow,                 \* hours an entity update counts as progress (72)
    OpenedWindow,                 \* age limit of the entities the job resets (1)
    ActiveWindow,                 \* hours an event keeps a project active (168)
    CronPeriod,                   \* hours between two scheduled runs (3)
    OdkMayFail,                   \* whether calls to ODK Central may raise
    CronTimely,                   \* whether runs and requests are short, runs on time
    MaxEvents, MaxClock, MaxTime  \* bounds: task events; stamp of the last request; hours

ASSUME TaskAssumption ==
  /\ TaskProject \in [Task -> Project]
  /\ NoProject \notin Project
  /\ SvcUser \in User /\ NoUser \notin User /\ Deletable \subseteq User
  /\ Busy \subseteq Project
  /\ Payload \subseteq TaskEvent \X BOOLEAN
  /\ Cron \in Job
  /\ EntityWindow \in Nat /\ OpenedWindow \in Nat /\ ActiveWindow \in Nat
  /\ CronPeriod \in Nat
  /\ OdkMayFail \in BOOLEAN /\ CronTimely \in BOOLEAN
  /\ MaxEvents \in Nat /\ MaxClock \in Nat /\ MaxTime \in Nat

VARIABLES
    log,       \* the committed rows of task_events
    open,      \* event requests whose transaction has begun and not ended
    users,     \* the ids in table users
    now,       \* hours
    clock,     \* number of transactions begun, the source of stamps
    touched,   \* for each project, the hour of its last entity update in ODK Central
    job        \* for each run of the job, where it is and what it has not committed

vars == <<log, open, users, now, clock, touched, job>>

-----------------------------------------------------------------------------
Request == [task : Task, event : TaskEvent, comment : BOOLEAN, by : User,
            stamp : Nat, at : Nat]

Row == [task : Task, event : TaskEvent, comment : BOOLEAN, by : User \union {NoUser},
        stamp : Nat, at : Nat, state : MappingState \union {NoState}]

JobState == [pc : {"idle", "next", "reset", "unlock"}, stamp : Nat, at : Nat,
             todo : SUBSET Project, cur : Project \union {NoProject}, wrote : SUBSET Row]

Idle(at) == [pc |-> "idle", stamp |-> 0, at |-> at, todo |-> {}, cur |-> NoProject,
             wrote |-> {}]

TypeOK ==
  /\ log \subseteq Row
  /\ open \subseteq Request
  /\ users \subseteq User
  /\ now \in Nat
  /\ clock \in Nat
  /\ touched \in [Project -> Int]
  /\ job \in [Job -> JobState]

Init ==
  /\ log = {}
  /\ open = {}
  /\ users = User
  /\ now = 0
  /\ clock = 0
  /\ touched = [p \in Project |-> -EntityWindow]
  /\ job = [j \in Job |-> Idle(0)]

-----------------------------------------------------------------------------
(***************************************************************************)
(* POST /tasks/{task_id}/event, add_new_task_event.  Neither the current   *)
(* state of the task nor who holds it is looked at: any mapper may post    *)
(* any event.                                                              *)
(***************************************************************************)
begin_task_event(u, t, e, c) ==
  /\ u \in users
  /\ <<e, c>> \in Payload
  /\ Cardinality(log) + Cardinality(open) < MaxEvents /\ clock < MaxClock
  /\ clock' = clock + 1
  /\ open' = open \union {[task |-> t, event |-> e, comment |-> c, by |-> u,
                           stamp |-> clock', at |-> now]}
  /\ UNCHANGED <<log, users, now, touched, job>>

\* The row a request inserts, once the trigger has run.
RowOf(q) == [task |-> q.task, event |-> q.event, comment |-> q.comment, by |-> q.by,
             stamp |-> q.stamp, at |-> q.at, state |-> set_task_state[q.event]]

\* DbTaskEvent.create: the INSERT, its foreign key on users, and the commit.
commit_task_event(q) ==
  /\ q.by \in users
  /\ open' = open \ {q}
  /\ log' = log \union {RowOf(q)}
  /\ UNCHANGED <<users, now, clock, touched, job>>

\* The user was deleted since the request began: the foreign key fails.
abort_task_event(q) ==
  /\ q.by \notin users
  /\ open' = open \ {q}
  /\ UNCHANGED <<log, users, now, clock, touched, job>>

-----------------------------------------------------------------------------
(***************************************************************************)
(* DbUser.delete, by an administrator or by the weekly job: the events of  *)
(* the user stay, without their user.  A row a running job has inserted    *)
(* and not committed makes the DELETE wait and then fail.                  *)
(***************************************************************************)
delete_user(u) ==
  /\ u \in users \intersect Deletable
  /\ \A j \in Job : \A r \in job[j].wrote : r.by # u
  /\ users' = users \ {u}
  /\ log' = {[r EXCEPT !.by = IF @ = u THEN NoUser ELSE @] : r \in log}
  /\ UNCHANGED <<open, now, clock, touched, job>>

\* get_or_create_user at the next login; init_admin_org for svcfmtm at an API restart.
create_user(u) ==
  /\ u \in User \ users
  /\ users' = users \union {u}
  /\ UNCHANGED <<log, open, now, clock, touched, job>>

\* A mapper, a submission or a reviewer updates an entity in ODK Central.
update_entity(p) ==
  /\ p \in Busy
  /\ touched' = [touched EXCEPT ![p] = now]
  /\ UNCHANGED <<log, open, users, now, clock, job>>

-----------------------------------------------------------------------------
(***************************************************************************)
(* trigger_unlock_tasks.                                                   *)
(***************************************************************************)
active_projects ==
  {p \in Project : \E r \in log : TaskProject[r.task] = p /\ r.at >= now - ActiveWindow}

\* active_projects_query; at most one start per hour and run, to bound the model.
job_start(j) ==
  /\ job[j].pc = "idle"
  /\ job[j].at < now
  /\ clock' = clock + 1
  /\ job' = [job EXCEPT ![j] = [pc |-> "next", stamp |-> clock', at |-> now,
                                todo |-> active_projects, cur |-> NoProject, wrote |-> {}]]
  /\ UNCHANGED <<log, open, users, now, touched>>

\* get_entities_data since three days ago: if there is any, the project is skipped.
job_skip(j, p) ==
  /\ job[j].pc = "next" /\ p \in job[j].todo
  /\ touched[p] > job[j].at - EntityWindow
  /\ job' = [job EXCEPT ![j].todo = @ \ {p}]
  /\ UNCHANGED <<log, open, users, now, clock, touched>>

job_check(j, p) ==
  /\ job[j].pc = "next" /\ p \in job[j].todo
  /\ touched[p] <= job[j].at - EntityWindow
  /\ job' = [job EXCEPT ![j].todo = @ \ {p}, ![j].cur = p, ![j].pc = "reset"]
  /\ UNCHANGED <<log, open, users, now, clock, touched>>

\* reset_entities_status: an entity opened since the check may be set back to READY,
\* which is an update of the project's entities (module EntitySync has the statuses).
job_reset(j) ==
  LET p == job[j].cur IN
  /\ job[j].pc = "reset"
  /\ \/ touched' = touched
     \/ /\ touched[p] > job[j].at - OpenedWindow
        /\ touched' = [touched EXCEPT ![p] = now]
  /\ job' = [job EXCEPT ![j].pc = "unlock"]
  /\ UNCHANGED <<log, open, users, now, clock>>

\* Mutant of unlockable: the id of svcfmtm is kept from an earlier query.
unlockable_kept(j) == {t \in Task : TaskProject[t] = job[j].cur /\ IsStaleLock(log, t, job[j].at)}

\* The tasks the unlock query selects.
unlockable(j) ==
  {t \in Task : /\ TaskProject[t] = job[j].cur
                /\ SvcUser \in users
                /\ IsStaleLock(log, t, job[j].at)}

\* Mutant of ResetRow: created_at is the time of the statement, not of the transaction.
ResetRow_late(j, t) == [task |-> t, event |-> "RESET", comment |-> FALSE, by |-> SvcUser,
                        stamp |-> clock, at |-> now, state |-> set_task_state["RESET"]]

ResetRow(j, t) == [task |-> t, event |-> "RESET", comment |-> FALSE, by |-> SvcUser,
                   stamp |-> job[j].stamp, at |-> job[j].at,
                   state |-> set_task_state["RESET"]]

job_unlock(j) ==
  /\ job[j].pc = "unlock"
  /\ job' = [job EXCEPT ![j].wrote = @ \union {ResetRow(j, t) : t \in unlockable(j)},
                        ![j].pc = "next", ![j].cur = NoProject]
  /\ UNCHANGED <<log, open, users, now, clock, touched>>

job_commit(j) ==
  /\ job[j].pc = "next" /\ job[j].todo = {}
  /\ log' = log \union job[j].wrote
  /\ job' = [job EXCEPT ![j] = Idle(@.at)]
  /\ UNCHANGED <<open, users, now, clock, touched>>

\* A call to ODK Central raises: the transaction is rolled back, for every project.
job_fail(j) ==
  /\ OdkMayFail
  /\ \/ job[j].pc = "next" /\ job[j].todo # {}
     \/ job[j].pc = "reset"
  /\ job' = [job EXCEPT ![j] = Idle(@.at)]
  /\ UNCHANGED <<log, open, users, now, clock, touched>>

\* An hour passes.
tick ==
  /\ now < MaxTime
  /\ CronTimely => /\ open = {}
                   /\ \A j \in Job : job[j].pc = "idle"
                   /\ now < job[Cron].at + CronPeriod
  /\ now' = now + 1
  /\ UNCHANGED <<log, open, users, clock, touched, job>>

-----------------------------------------------------------------------------
job_step(j) ==
  \/ job_start(j) \/ job_reset(j) \/ job_unlock(j) \/ job_commit(j) \/ job_fail(j)
  \/ \E p \in Project : job_skip(j, p) \/ job_check(j, p)

Next ==
  \/ \E u \in User, t \in Task, e \in TaskEvent, c \in BOOLEAN : begin_task_event(u, t, e, c)
  \/ \E q \in open : commit_task_event(q) \/ abort_task_event(q)
  \/ \E u \in User : delete_user(u) \/ create_user(u)
  \/ \E p \in Project : update_entity(p)
  \/ \E j \in Job : job_step(j)
  \/ tick

Spec == Init /\ [][Next]_vars

-----------------------------------------------------------------------------
(* Properties. *)

\* Foreign key on users: whatever users are deleted between the start of a request and
\* its INSERT, every committed event belongs to an existing user or to none, and every
\* RESET a running job has inserted belongs to an existing user (DbUser.delete,
\* DbTaskEvent.create, unlock_query).
RowsOwned ==
  /\ \A r \in log : r.by \in users \union {NoUser}
  /\ \A j \in Job : \A r \in job[j].wrote : r.by \in users

\* The job selects only tasks that are locked for mapping: it reads the events through
\* another filter (comment IS NULL) than the board (event != 'COMMENT'), and the two
\* must agree on which lock is current ("Unlock tasks locked for more than 3 days").
UnlockOnlyLocked ==
  [][\A j \in Job : \A r \in job'[j].wrote \ job[j].wrote :
       task_state(log, r.task) = "LOCKED_FOR_MAPPING"]_vars

\* A lock (or any other event) whose request began after a run of the job did survives
\* that run, however long the run takes: its RESET rows carry the time the run began.
FreshEventSurvives ==
  [][\A j \in Job, t \in Task :
       job_commit(j) /\ state_stamp(log, t) > job[j].stamp
         => task_state(log', t) = task_state(log, t)]_vars

\* r holds task t: it is the MAP that decides its state, and it should have been released
\* by a scheduled run by now, with no entity of the project updated since long enough.
Overstayed(r, t) ==
  /\ IsNewest(r, StateRows(log, t)) /\ r.event = "MAP"
  /\ r.at + MapHold + CronPeriod < now
  /\ touched[TaskProject[t]] + EntityWindow + CronPeriod <= now

\* Bounded release: if runs are on time and succeed, a MAP lock without progress is gone
\* MapHold + CronPeriod hours after it was taken, as long as the lock itself keeps its
\* project active (active_projects_query).
StaleLockReleased ==
  \A t \in Task : \A r \in log : Overstayed(r, t) => r.at < now - ActiveWindow

\* The refinement mapping: the state of each task and the row that decides it.
Board == INSTANCE TaskBoard WITH
           board <- [t \in Task |-> [state |-> task_state(log, t), stamp |-> state_stamp(log, t)]]

\* The event log implements one last-writer-wins register per task, ordered by the start
\* of the writing transaction; comments, user deletions and late commits do not show.
BoardSpec == Board!Spec
=============================================================================

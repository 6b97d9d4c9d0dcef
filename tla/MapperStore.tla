---------------------------- MODULE MapperStore -----------------------------
(***************************************************************************)
(* What the mapper frontend knows of the tasks, and what mappers do with   *)
(* it.  Each browser holds a copy of the project's task_events, streamed   *)
(* by Electric in the order the rows were committed, and shows for the     *)
(* selected task the state of the last row it has received.  The backend   *)
(* orders the same rows by created_at and skips comments (TaskLog).        *)
(***************************************************************************)
EXTENDS TaskLog, Sequences, FiniteSetsExt

CONSTANTS
    Task, NoTask,
    Browser, NoBrowser,     \* mapper frontends; a request from somewhere else
    OtherEvent,             \* events posted by the React frontend and the unlock job
    MaxEvents               \* bound: requests to POST /tasks/{id}/event

ASSUME StoreAssumption ==
  /\ NoTask \notin Task /\ NoBrowser \notin Browser
  /\ OtherEvent \subseteq TaskEvent
  /\ MaxEvents \in Nat

VARIABLES
    rows,     \* the committed rows of task_events, in the order of their commits
    open,     \* requests sent and not yet committed
    clock,    \* number of transactions begun
    store     \* for each browser, its task store

vars == <<rows, open, clock, store>>

-----------------------------------------------------------------------------
\* "seen" is history: how many rows the browser had received when the user clicked.
Request == [task : Task, event : TaskEvent, stamp : Nat, by : Browser \union {NoBrowser},
            seen : Nat]

Row == [task : Task, event : TaskEvent, stamp : Nat, state : MappingState \union {NoState}]

Store == [mounted : BOOLEAN, seen : Nat, selectedTaskId : Task \union {NoTask},
          selectedTaskState : MappingState \union {NoState}, featcol : [Task -> MappingState]]

TypeOK ==
  /\ rows \in Seq(Row)
  /\ open \subseteq Request
  /\ clock \in Nat
  /\ store \in [Browser -> Store]
  /\ \A b \in Browser : store[b].seen <= Len(rows)

Init ==
  /\ rows = <<>>
  /\ open = {}
  /\ clock = 0
  /\ store = [b \in Browser |->
                [mounted |-> FALSE, seen |-> 0, selectedTaskId |-> NoTask,
                 selectedTaskState |-> NoState, featcol |-> [t \in Task |-> "UNLOCKED_TO_MAP"]]]

-----------------------------------------------------------------------------
(* The table. *)

send(t, e, b, n) ==
  /\ clock < MaxEvents
  /\ clock' = clock + 1
  /\ open' = open \union {[task |-> t, event |-> e, stamp |-> clock', by |-> b, seen |-> n]}
  /\ UNCHANGED <<rows, store>>

\* Mutant of commit: the state column is given the event.
commit_event(q) ==
  /\ rows' = Append(rows, [task |-> q.task, event |-> q.event, stamp |-> q.stamp,
                           state |-> q.event])
  /\ open' = open \ {q}
  /\ UNCHANGED <<clock, store>>

\* add_new_task_event and the trigger.
commit(q) ==
  /\ rows' = Append(rows, [task |-> q.task, event |-> q.event, stamp |-> q.stamp,
                           state |-> set_task_state[q.event]])
  /\ open' = open \ {q}
  /\ UNCHANGED <<clock, store>>

\* The phone is offline: add_event logs the error.
lose(q) ==
  /\ open' = open \ {q}
  /\ UNCHANGED <<rows, clock, store>>

\* A validator, a project manager or the unlock job.
post_elsewhere(t, e) == send(t, e, NoBrowser, 0)

-----------------------------------------------------------------------------
(* The store. *)

\* The positions, among the first n rows, of the rows of t.
RowsOf(n, t) == {i \in 1..n : rows[i].task = t}

\* Mutant of getLatestStatePerTask: the first row of the task wins.
getLatestStatePerTask_first(n, t) ==
  IF RowsOf(n, t) = {} THEN NoState ELSE rows[Min(RowsOf(n, t))].state

\* The last row of the task, comment or not; undefined and null are both NoState.
getLatestStatePerTask(n, t) ==
  IF RowsOf(n, t) = {} THEN NoState ELSE rows[Max(RowsOf(n, t))].state

\* state || 'UNLOCKED_TO_MAP'
OrUnlocked(s) == IF s = NoState THEN "UNLOCKED_TO_MAP" ELSE s

\* The colours of the task areas.
appendTaskStatesToFeatcol(n) == [t \in Task |-> OrUnlocked(getLatestStatePerTask(n, t))]

\* onMount of the page: subscribeToTaskEvents, then appendTaskStatesToFeatcol.
onMount(b) ==
  /\ ~store[b].mounted
  /\ store' = [store EXCEPT ![b].mounted = TRUE, ![b].seen = Len(rows),
                 ![b].featcol = appendTaskStatesToFeatcol(Len(rows))]
  /\ UNCHANGED <<rows, open, clock>>

setSelectedTaskId(b, t) ==
  /\ store[b].mounted
  /\ store' = [store EXCEPT ![b].selectedTaskId = t,
                 ![b].selectedTaskState = OrUnlocked(getLatestStatePerTask(store[b].seen, t))]
  /\ UNCHANGED <<rows, open, clock>>

\* The subscription: all rows of the shape are gone through again, after new rows have come
\* or an old one has changed (its user was deleted).  They change latestEvent, which makes
\* an effect of the page call appendTaskStatesToFeatcol again.
receive(b, n) ==
  LET t == store[b].selectedTaskId IN
  /\ store[b].mounted
  /\ n \in store[b].seen .. Len(rows)
  /\ store' = [store EXCEPT ![b].seen = n,
                 ![b].selectedTaskState =
                   IF RowsOf(n, t) = {} THEN @ ELSE getLatestStatePerTask(n, t),
                 ![b].featcol = appendTaskStatesToFeatcol(n)]
  /\ UNCHANGED <<rows, open, clock>>

\* Mutant of offered: START MAPPING is offered for locked tasks too.
offered_any(s) ==
  IF s \in {"UNLOCKED_TO_MAP", "LOCKED_FOR_MAPPING"} THEN {"MAP", "FINISH", "BAD", "COMMENT"}
  ELSE {"COMMENT"}

\* The dialog: what it offers depends on the state shown.
offered(s) ==
  CASE s = "UNLOCKED_TO_MAP"    -> {"MAP", "COMMENT"}
    [] s = "LOCKED_FOR_MAPPING" -> {"FINISH", "BAD", "COMMENT"}
    [] OTHER                    -> {"COMMENT"}

\* mapTask, finishTask, resetTask, commentTask; mapFeature locks the task as mapTask does.
click(b, e) ==
  /\ store[b].selectedTaskId # NoTask
  /\ e \in offered(store[b].selectedTaskState)
  /\ send(store[b].selectedTaskId, e, b, store[b].seen)

Next ==
  \/ \E t \in Task, e \in OtherEvent : post_elsewhere(t, e)
  \/ \E q \in open : commit(q) \/ lose(q)
  \/ \E b \in Browser :
       \/ onMount(b)
       \/ \E t \in Task : setSelectedTaskId(b, t)
       \/ \E n \in 0..Len(rows) : receive(b, n)
       \/ \E e \in TaskEvent : click(b, e)

Spec == Init /\ [][Next]_vars

-----------------------------------------------------------------------------
(* Properties. *)

Log == {rows[i] : i \in 1..Len(rows)}

\* The last of the first n rows about t is no comment, and no row of t before it began later.
Plain(n, t) ==
  LET last == rows[Max(RowsOf(n, t))] IN
  RowsOf(n, t) # {} =>
    /\ last.event # "COMMENT"
    /\ \A i \in RowsOf(n, t) : rows[i].stamp <= last.stamp

\* A browser that has received everything shows, in the dialog of the selected task and in
\* the colour of every task area, the state the backend computes, unless a comment came last
\* or two transactions committed out of order.
ShownIsBoard ==
  \A b \in Browser, t \in Task :
    /\ store[b].mounted
    /\ store[b].seen = Len(rows)
    /\ Plain(Len(rows), t)
    => /\ store[b].featcol[t] = task_state(Log, t)
       /\ store[b].selectedTaskId = t => store[b].selectedTaskState = task_state(Log, t)

\* A click on START MAPPING takes over a task that is already locked for mapping only
\* blindly: if no row of the task was committed since the user's browser had its last one,
\* and that one was plain, the task is not locked when the MAP commits.  The backend
\* itself does not look at the state.
TakeoverOnlyBlind ==
  [][\A q \in open :
       /\ commit(q) /\ q.event = "MAP" /\ q.by # NoBrowser
       /\ RowsOf(Len(rows), q.task) = RowsOf(q.seen, q.task)
       /\ Plain(q.seen, q.task)
       => task_state(Log, q.task) # "LOCKED_FOR_MAPPING"]_vars
=============================================================================

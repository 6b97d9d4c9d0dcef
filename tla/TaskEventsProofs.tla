-------------------------- MODULE TaskEventsProofs --------------------------
(***************************************************************************)
(* Proofs about TaskEvents, for any number of projects, tasks, users, runs *)
(* of the job and events.                                                  *)
(***************************************************************************)
EXTENDS TaskEvents, TLAPS

-----------------------------------------------------------------------------
(* The inductive invariant. *)

\* One row per task and stamp: a transaction writes a task at most once.
Unique(L) == \A r, s \in L : r.task = s.task /\ r.stamp = s.stamp => r = s

\* A task that has a state has a row that decides it.
HasNewest(L) ==
  \A t \in Task : StateRows(L, t) # {} => \E r \in StateRows(L, t) : IsNewest(r, StateRows(L, t))

\* Nothing comes from a transaction that has not begun.
StampsBelow ==
  /\ \A r \in log : r.stamp <= clock
  /\ \A q \in open : q.stamp <= clock
  /\ \A j \in Job : job[j].stamp <= clock

\* Stamp 0 is the state of a task without events, and no transaction's.
StampsPositive ==
  /\ \A q \in open : q.stamp > 0
  /\ \A j \in Job : job[j].pc # "idle" => job[j].stamp > 0

\* What is pending does not share its stamp with anything else.
StampsApart ==
  /\ \A q \in open : \A r \in log : q.stamp # r.stamp
  /\ \A p, q \in open : p.stamp = q.stamp => p = q
  /\ \A j \in Job : job[j].pc # "idle" =>
       /\ \A r \in log : r.stamp # job[j].stamp
       /\ \A q \in open : q.stamp # job[j].stamp
       /\ \A i \in Job : job[i].pc # "idle" /\ job[i].stamp = job[j].stamp => i = j

\* What a run has inserted and not committed.
WroteInv ==
  \A j \in Job : /\ job[j].pc = "idle" => job[j].wrote = {}
                 /\ \A r \in job[j].wrote : r = ResetRow(j, r.task)

LogInv ==
  /\ Unique(log)
  /\ HasNewest(log)
  /\ \A r \in log : r.state = set_task_state[r.event]

IInv == TypeOK /\ StampsBelow /\ StampsPositive /\ StampsApart /\ WroteInv /\ LogInv

-----------------------------------------------------------------------------
(* Type correctness. *)

LEMMA TriggerType ==
  /\ set_task_state \in [TaskEvent -> MappingState \union {NoState}]
  /\ \A e \in TaskEvent : e # "COMMENT" => set_task_state[e] \in MappingState
BY SMT DEF set_task_state, TaskEvent, MappingState, NoState

LEMMA RowOfType == \A q \in Request : RowOf(q) \in Row
BY TriggerType DEF RowOf, Request, Row

LEMMA ResetRowType ==
  ASSUME TypeOK, NEW j \in Job, NEW t \in Task
  PROVE  ResetRow(j, t) \in Row
BY TriggerType, TaskAssumption DEF ResetRow, Row, TypeOK, JobState, TaskEvent

LEMMA InitType == Init => TypeOK
<1> SUFFICES ASSUME Init PROVE TypeOK
  OBVIOUS
<1>1. touched \in [Project -> Int]
  BY TaskAssumption DEF Init
<1>2. job \in [Job -> JobState]
  BY DEF Init, Idle, JobState
<1> QED
  BY <1>1, <1>2 DEF Init, TypeOK

LEMMA StepType == TypeOK /\ [Next]_vars => TypeOK'
<1> SUFFICES ASSUME TypeOK, [Next]_vars PROVE TypeOK'
  OBVIOUS
<1> USE DEF TypeOK
<1>1. ASSUME NEW u \in User, NEW t \in Task, NEW e \in TaskEvent, NEW c \in BOOLEAN,
             begin_task_event(u, t, e, c)
      PROVE  TypeOK'
  <2>1. [task |-> t, event |-> e, comment |-> c, by |-> u, stamp |-> clock', at |-> now]
          \in Request
    BY <1>1 DEF begin_task_event, Request
  <2> QED
    BY <1>1, <2>1 DEF begin_task_event
<1>2. ASSUME NEW q \in open, commit_task_event(q) PROVE TypeOK'
  BY <1>2, RowOfType DEF commit_task_event
<1>3. ASSUME NEW q \in open, abort_task_event(q) PROVE TypeOK'
  BY <1>3 DEF abort_task_event
<1>4. ASSUME NEW u \in User, delete_user(u) PROVE TypeOK'
  <2>1. \A r \in log : [r EXCEPT !.by = IF @ = u THEN NoUser ELSE @] \in Row
    BY DEF Row
  <2> QED
    BY <1>4, <2>1 DEF delete_user
<1>5. ASSUME NEW u \in User, create_user(u) PROVE TypeOK'
  BY <1>5 DEF create_user
<1>6. ASSUME NEW p \in Project, update_entity(p) PROVE TypeOK'
  BY <1>6 DEF update_entity
<1>7. ASSUME NEW j \in Job, job_start(j) PROVE TypeOK'
  BY <1>7 DEF job_start, JobState, active_projects
<1>8. ASSUME NEW j \in Job, NEW p \in Project, job_skip(j, p) PROVE TypeOK'
  BY <1>8 DEF job_skip, JobState
<1>9. ASSUME NEW j \in Job, NEW p \in Project, job_check(j, p) PROVE TypeOK'
  BY <1>9 DEF job_check, JobState
<1>10. ASSUME NEW j \in Job, job_reset(j) PROVE TypeOK'
  <2>1. touched' \in [Project -> Int]
    BY <1>10 DEF job_reset
  <2> QED
    BY <1>10, <2>1 DEF job_reset, JobState
<1>11. ASSUME NEW j \in Job, job_unlock(j) PROVE TypeOK'
  <2>1. {ResetRow(j, t) : t \in unlockable(j)} \subseteq Row
    BY ResetRowType DEF unlockable
  <2>2. job[j].wrote \union {ResetRow(j, t) : t \in unlockable(j)} \in SUBSET Row
    BY <2>1 DEF JobState
  <2>3. PICK w \in SUBSET Row : job' = [job EXCEPT ![j].wrote = w, ![j].pc = "next",
                                                  ![j].cur = NoProject]
    BY <1>11, <2>2 DEF job_unlock
  <2>4. job' = [job EXCEPT ![j] = [job[j] EXCEPT !.wrote = w, !.pc = "next",
                                               !.cur = NoProject]]
    BY <2>3
  <2>5. [job[j] EXCEPT !.wrote = w, !.pc = "next", !.cur = NoProject] \in JobState
    BY DEF JobState
  <2>6. job' \in [Job -> JobState]
    BY <2>4, <2>5
  <2> QED
    BY <1>11, <2>6 DEF job_unlock
<1>12. ASSUME NEW j \in Job, job_commit(j) PROVE TypeOK'
  BY <1>12 DEF job_commit, JobState, Idle
<1>13. ASSUME NEW j \in Job, job_fail(j) PROVE TypeOK'
  BY <1>13 DEF job_fail, JobState, Idle
<1>14. CASE tick
  BY <1>14 DEF tick
<1>15. CASE UNCHANGED vars
  BY <1>15 DEF vars
<1> QED
  BY <1>1, <1>2, <1>3, <1>4, <1>5, <1>6, <1>7, <1>8, <1>9, <1>10, <1>11, <1>12, <1>13,
     <1>14, <1>15 DEF Next, job_step

\* Type correctness of the event log, the pending requests and the runs of the job.
THEOREM TypeCorrect == Spec => []TypeOK
BY InitType, StepType, PTL DEF Spec

-----------------------------------------------------------------------------
(* Steps the log, the requests and the uncommitted rows do not notice. *)

Same ==
  /\ log' = log /\ open' = open /\ clock' = clock
  /\ \A i \in Job : /\ job'[i].stamp = job[i].stamp /\ job'[i].at = job[i].at
                    /\ job'[i].wrote = job[i].wrote
                    /\ job'[i].pc = "idle" <=> job[i].pc = "idle"

Noticed ==
  \/ \E u \in User, t \in Task, e \in TaskEvent, c \in BOOLEAN : begin_task_event(u, t, e, c)
  \/ \E q \in open : commit_task_event(q) \/ abort_task_event(q)
  \/ \E u \in User : delete_user(u)
  \/ \E j \in Job : job_start(j) \/ job_unlock(j) \/ job_commit(j) \/ job_fail(j)

LEMMA SameOrNoticed == TypeOK /\ [Next]_vars => Same \/ Noticed
<1> SUFFICES ASSUME TypeOK, [Next]_vars PROVE Same \/ Noticed
  OBVIOUS
<1>1. ASSUME NEW j \in Job, NEW p \in Project, job_skip(j, p) PROVE Same
  BY <1>1 DEF job_skip, Same, TypeOK, JobState
<1>2. ASSUME NEW j \in Job, NEW p \in Project, job_check(j, p) PROVE Same
  BY <1>2 DEF job_check, Same, TypeOK, JobState
<1>3. ASSUME NEW j \in Job, job_reset(j) PROVE Same
  BY <1>3 DEF job_reset, Same, TypeOK, JobState
<1>4. ASSUME NEW u \in User, create_user(u) PROVE Same
  BY <1>4 DEF create_user, Same
<1>5. ASSUME NEW p \in Project, update_entity(p) PROVE Same
  BY <1>5 DEF update_entity, Same
<1>6. CASE tick
  BY <1>6 DEF tick, Same
<1>7. CASE UNCHANGED vars
  BY <1>7 DEF vars, Same
<1> QED
  BY <1>1, <1>2, <1>3, <1>4, <1>5, <1>6, <1>7 DEF Next, job_step, Noticed

-----------------------------------------------------------------------------
(* Foreign keys. *)

LEMMA StepOwned == TypeOK /\ RowsOwned /\ [Next]_vars => RowsOwned'
<1> SUFFICES ASSUME TypeOK, RowsOwned, [Next]_vars PROVE RowsOwned'
  OBVIOUS
<1> USE DEF RowsOwned
<1>1. ASSUME NEW u \in User, delete_user(u) PROVE RowsOwned'
  <2>1. \A r \in log' : r.by \in users' \union {NoUser}
    <3> TAKE r \in log'
    <3>1. PICK s \in log : r = [s EXCEPT !.by = IF @ = u THEN NoUser ELSE @]
      BY <1>1 DEF delete_user
    <3>2. s \in Row
      BY DEF TypeOK
    <3>3. r.by = IF s.by = u THEN NoUser ELSE s.by
      BY <3>1, <3>2 DEF Row
    <3> QED
      BY <1>1, <3>3 DEF delete_user
  <2> QED
    BY <1>1, <2>1 DEF delete_user
<1>2. ASSUME NEW u \in User, create_user(u) PROVE RowsOwned'
  BY <1>2 DEF create_user
<1>3. ASSUME NEW q \in open, commit_task_event(q) PROVE RowsOwned'
  BY <1>3 DEF commit_task_event, RowOf
<1>4. ASSUME NEW j \in Job, job_unlock(j) PROVE RowsOwned'
  <2>1. \A t \in unlockable(j) : ResetRow(j, t).by \in users
    BY DEF unlockable, ResetRow
  <2>2. \A i \in Job : \A r \in job'[i].wrote :
          r \in job[i].wrote \/ \E t \in unlockable(j) : r = ResetRow(j, t)
    BY <1>4 DEF job_unlock, TypeOK, JobState
  <2> QED
    BY <1>4, <2>1, <2>2 DEF job_unlock
<1>5. ASSUME NEW j \in Job, job_commit(j) \/ job_fail(j) \/ job_start(j) PROVE RowsOwned'
  <2>1. \A i \in Job : job'[i].wrote \subseteq job[i].wrote
    BY <1>5 DEF job_commit, job_fail, job_start, Idle, TypeOK, JobState
  <2> QED
    BY <1>5, <2>1 DEF job_commit, job_fail, job_start
<1>6. ASSUME NEW j \in Job, NEW p \in Project, job_skip(j, p) \/ job_check(j, p)
      PROVE  RowsOwned'
  <2>1. \A i \in Job : job'[i].wrote = job[i].wrote
    BY <1>6 DEF job_skip, job_check, TypeOK, JobState
  <2> QED
    BY <1>6, <2>1 DEF job_skip, job_check
<1>7. ASSUME NEW j \in Job, job_reset(j) PROVE RowsOwned'
  <2>1. \A i \in Job : job'[i].wrote = job[i].wrote
    BY <1>7 DEF job_reset, TypeOK, JobState
  <2> QED
    BY <1>7, <2>1 DEF job_reset
<1>8. ASSUME NEW u \in User, NEW t \in Task, NEW e \in TaskEvent, NEW c \in BOOLEAN,
             begin_task_event(u, t, e, c)
      PROVE  RowsOwned'
  BY <1>8 DEF begin_task_event
<1>9. ASSUME NEW q \in open, abort_task_event(q) PROVE RowsOwned'
  BY <1>9 DEF abort_task_event
<1>10. ASSUME NEW p \in Project, update_entity(p) PROVE RowsOwned'
  BY <1>10 DEF update_entity
<1>11. CASE tick \/ UNCHANGED vars
  BY <1>11 DEF tick, vars
<1> QED
  BY <1>1, <1>2, <1>3, <1>4, <1>5, <1>6, <1>7, <1>8, <1>9, <1>10, <1>11 DEF Next, job_step

\* Whatever users are deleted and whenever, no event is committed or about to be committed
\* for a user that is gone.
THEOREM RowsOwnedHolds == Spec => []RowsOwned
<1>1. Init => RowsOwned
  BY DEF Init, RowsOwned, Idle
<1> QED
  BY <1>1, StepOwned, TypeCorrect, PTL DEF Spec

-----------------------------------------------------------------------------
(* What the newest row of a task says, and how the log's changes affect it. *)

Log == {L \in SUBSET Row : Unique(L) /\ HasNewest(L)}

LEMMA StateFromNewest ==
  ASSUME NEW L \in SUBSET Row, Unique(L), NEW t, NEW r, IsNewest(r, StateRows(L, t))
  PROVE  task_state(L, t) = r.state /\ state_stamp(L, t) = r.stamp
<1>1. IsNewest(Newest(StateRows(L, t)), StateRows(L, t))
  <2>1. r \in StateRows(L, t)
    BY DEF IsNewest
  <2> QED
    BY <2>1 DEF Newest
<1>2. PICK q : q = Newest(StateRows(L, t)) /\ IsNewest(q, StateRows(L, t))
  BY <1>1
<1>3. q \in L /\ r \in L /\ q.task = t /\ r.task = t
  BY <1>2 DEF IsNewest, StateRows
<1>4. q.stamp = r.stamp
  <2>1. q.stamp \in Nat /\ r.stamp \in Nat
    BY <1>3 DEF Row
  <2> QED
    BY <1>2, <2>1 DEF IsNewest
<1>5. q = r
  BY <1>3, <1>4 DEF Unique
<1>6. StateRows(L, t) # {}
  BY DEF IsNewest
<1> QED
  BY <1>2, <1>5, <1>6 DEF task_state, state_stamp

\* The rows of one transaction: at most one a task, none with a stamp the log has.
Batch(W, L) ==
  /\ \A r, s \in W : r.task = s.task => r = s
  /\ \A r \in W, s \in L : r.stamp # s.stamp

LEMMA LogAfterWrite ==
  ASSUME NEW L \in Log, NEW W \in SUBSET Row, Batch(W, L)
  PROVE  (L \union W) \in Log
<1>1. Unique(L \union W)
  BY DEF Log, Unique, Batch
<1>2. ASSUME NEW t \in Task, StateRows(L \union W, t) # {}
      PROVE  \E r \in StateRows(L \union W, t) : IsNewest(r, StateRows(L \union W, t))
  <2>1. StateRows(L \union W, t) = StateRows(L, t) \union StateRows(W, t)
    BY DEF StateRows
  <2>2. \A r \in L \union W : r.stamp \in Nat
    BY DEF Row, Log
  <2>3. CASE StateRows(W, t) = {}
    BY <1>2, <2>1, <2>3 DEF Log, HasNewest
  <2>4. CASE StateRows(W, t) # {}
    <3>1. PICK w \in StateRows(W, t) : TRUE
      BY <2>4
    <3>2. StateRows(W, t) = {w}
      BY <3>1 DEF StateRows, Batch
    <3>3. CASE StateRows(L, t) = {}
      BY <2>1, <2>2, <3>2, <3>3 DEF IsNewest, StateRows
    <3>4. CASE StateRows(L, t) # {}
      <4>1. PICK m \in StateRows(L, t) : IsNewest(m, StateRows(L, t))
        BY <3>4 DEF Log, HasNewest
      <4>2. w.stamp \in Nat /\ m.stamp \in Nat
        BY <2>2, <3>1, <4>1 DEF StateRows
      <4>3. CASE w.stamp <= m.stamp
        BY <2>1, <3>2, <4>1, <4>3 DEF IsNewest
      <4>4. CASE m.stamp < w.stamp
        <5>1. \A q \in StateRows(L, t) : q.stamp \in Nat /\ q.stamp <= m.stamp
          BY <2>2, <4>1 DEF IsNewest, StateRows
        <5>2. \A q \in StateRows(L, t) : q.stamp <= w.stamp
          BY <4>2, <4>4, <5>1
        <5>3. w.stamp <= w.stamp
          BY <4>2
        <5> QED
          BY <2>1, <3>2, <5>2, <5>3, Zenon DEF IsNewest
      <4> QED
        BY <4>2, <4>3, <4>4
    <3> QED
      BY <3>3, <3>4
  <2> QED
    BY <2>3, <2>4
<1> QED
  BY <1>1, <1>2 DEF Log, HasNewest

\* A task whose newest row is newer than what a transaction writes keeps its state.
LEMMA OldWriteIgnored ==
  ASSUME NEW L \in Log, NEW W \in SUBSET Row, Batch(W, L), NEW t \in Task,
         \A w \in StateRows(W, t) : w.stamp < state_stamp(L, t)
  PROVE  /\ task_state(L \union W, t) = task_state(L, t)
         /\ state_stamp(L \union W, t) = state_stamp(L, t)
<1>1. StateRows(L \union W, t) = StateRows(L, t) \union StateRows(W, t)
  BY DEF StateRows
<1>2. CASE StateRows(L, t) = {}
  <2>1. state_stamp(L, t) = 0
    BY <1>2 DEF state_stamp
  <2>2. StateRows(W, t) = {}
    BY <2>1 DEF StateRows, Row
  <2> QED
    BY <1>1, <1>2, <2>2 DEF task_state, state_stamp
<1>3. CASE StateRows(L, t) # {}
  <2>1. PICK m \in StateRows(L, t) : IsNewest(m, StateRows(L, t))
    BY <1>3 DEF Log, HasNewest
  <2>2. task_state(L, t) = m.state /\ state_stamp(L, t) = m.stamp
    BY <2>1, StateFromNewest DEF Log
  <2>3. \A w \in StateRows(W, t) : w.stamp \in Nat
    BY DEF StateRows, Row
  <2>4. m.stamp \in Nat
    BY <2>1 DEF StateRows, Row, Log
  <2>5. IsNewest(m, StateRows(L \union W, t))
    <3>1. \A w \in StateRows(W, t) : w.stamp <= m.stamp
      BY <2>2, <2>3, <2>4
    <3> QED
      BY <1>1, <2>1, <3>1, Zenon DEF IsNewest
  <2>6. (L \union W) \in Log
    BY LogAfterWrite
  <2> QED
    BY <2>2, <2>5, <2>6, StateFromNewest DEF Log
<1> QED
  BY <1>2, <1>3

\* A row newer than the one that decides a task decides it from now on.
LEMMA NewWriteTakes ==
  ASSUME NEW L \in Log, NEW W \in SUBSET Row, Batch(W, L), NEW t \in Task,
         NEW w \in StateRows(W, t), state_stamp(L, t) <= w.stamp
  PROVE  /\ task_state(L \union W, t) = w.state
         /\ state_stamp(L \union W, t) = w.stamp
<1>1. StateRows(L \union W, t) = StateRows(L, t) \union {w}
  BY DEF StateRows, Batch
<1>2. w.stamp \in Nat
  BY DEF StateRows, Row
<1>3. IsNewest(w, StateRows(L \union W, t))
  <2>1. CASE StateRows(L, t) = {}
    BY <1>1, <1>2, <2>1 DEF IsNewest
  <2>2. CASE StateRows(L, t) # {}
    <3>1. PICK m \in StateRows(L, t) : IsNewest(m, StateRows(L, t))
      BY <2>2 DEF Log, HasNewest
    <3>2. state_stamp(L, t) = m.stamp
      BY <3>1, StateFromNewest DEF Log
    <3>3. \A q \in StateRows(L, t) : q.stamp \in Nat /\ q.stamp <= m.stamp
      BY <3>1 DEF IsNewest, StateRows, Row, Log
    <3>4. \A q \in StateRows(L, t) : q.stamp <= w.stamp
      BY <1>2, <3>1, <3>2, <3>3
    <3>5. w.stamp <= w.stamp
      BY <1>2
    <3> QED
      BY <1>1, <3>4, <3>5, Zenon DEF IsNewest
  <2> QED
    BY <2>1, <2>2
<1>4. (L \union W) \in Log
  BY LogAfterWrite
<1> QED
  BY <1>3, <1>4, StateFromNewest DEF Log

\* Deleting a user changes no state.
Forget(L, u) == {[r EXCEPT !.by = IF @ = u THEN NoUser ELSE @] : r \in L}

LEMMA ForgetKeeps ==
  ASSUME NEW L \in Log, NEW u \in User
  PROVE  /\ Forget(L, u) \in Log
         /\ \A t \in Task : /\ task_state(Forget(L, u), t) = task_state(L, t)
                            /\ state_stamp(Forget(L, u), t) = state_stamp(L, t)
<1> DEFINE f(r) == [r EXCEPT !.by = IF @ = u THEN NoUser ELSE @]
<1>1. \A r \in L : /\ f(r) \in Row
                   /\ f(r).task = r.task /\ f(r).event = r.event
                   /\ f(r).stamp = r.stamp /\ f(r).state = r.state
  BY DEF Log, Row
<1>2. Forget(L, u) = {f(r) : r \in L}
  BY DEF Forget
<1> HIDE DEF f
<1>3. Forget(L, u) \in SUBSET Row
  BY <1>1, <1>2
<1>4. Unique(Forget(L, u))
  <2> SUFFICES ASSUME NEW r \in L, NEW s \in L, f(r).task = f(s).task,
                      f(r).stamp = f(s).stamp
               PROVE  f(r) = f(s)
    BY <1>2 DEF Unique
  <2> QED
    BY <1>1 DEF Log, Unique
<1>5. \A t : StateRows(Forget(L, u), t) = {f(r) : r \in StateRows(L, t)}
  BY <1>1, <1>2 DEF StateRows
<1>6. ASSUME NEW t \in Task, NEW m, IsNewest(m, StateRows(L, t))
      PROVE  /\ IsNewest(f(m), StateRows(Forget(L, u), t))
             /\ f(m).stamp = m.stamp /\ f(m).state = m.state
  <2>1. m \in L /\ \A q \in StateRows(L, t) : q \in L /\ q.stamp <= m.stamp
    BY <1>6 DEF IsNewest, StateRows
  <2>2. \A q \in StateRows(L, t) : f(q).stamp <= f(m).stamp
    BY <1>1, <2>1
  <2>3. f(m) \in StateRows(Forget(L, u), t)
    BY <1>5, <1>6 DEF IsNewest
  <2> QED
    BY <1>1, <1>5, <2>1, <2>2, <2>3 DEF IsNewest
<1>7. HasNewest(Forget(L, u))
  <2> SUFFICES ASSUME NEW t \in Task, StateRows(Forget(L, u), t) # {}
               PROVE  \E r \in StateRows(Forget(L, u), t) :
                        IsNewest(r, StateRows(Forget(L, u), t))
    BY DEF HasNewest
  <2>1. StateRows(L, t) # {}
    BY <1>5
  <2>2. PICK m \in StateRows(L, t) : IsNewest(m, StateRows(L, t))
    BY <2>1 DEF Log, HasNewest
  <2> QED
    BY <1>6, <2>2 DEF IsNewest
<1>8. ASSUME NEW t \in Task
      PROVE  /\ task_state(Forget(L, u), t) = task_state(L, t)
             /\ state_stamp(Forget(L, u), t) = state_stamp(L, t)
  <2>1. CASE StateRows(L, t) = {}
    <3>1. StateRows(Forget(L, u), t) = {}
      BY <1>5, <2>1
    <3> QED
      BY <2>1, <3>1 DEF task_state, state_stamp
  <2>2. CASE StateRows(L, t) # {}
    <3>1. PICK m \in StateRows(L, t) : IsNewest(m, StateRows(L, t))
      BY <2>2 DEF Log, HasNewest
    <3>2. task_state(L, t) = m.state /\ state_stamp(L, t) = m.stamp
      BY <3>1, StateFromNewest DEF Log
    <3>3. task_state(Forget(L, u), t) = f(m).state /\ state_stamp(Forget(L, u), t) = f(m).stamp
      BY <1>3, <1>4, <1>6, <3>1, StateFromNewest
    <3> QED
      BY <1>6, <3>1, <3>2, <3>3
  <2> QED
    BY <2>1, <2>2
<1> QED
  BY <1>3, <1>4, <1>7, <1>8 DEF Log

-----------------------------------------------------------------------------
(* The inductive invariant holds. *)

\* What the current step would write is a batch of rows new to the log.
LEMMA RequestBatch ==
  ASSUME TypeOK, StampsApart, NEW q \in open
  PROVE  {RowOf(q)} \in SUBSET Row /\ Batch({RowOf(q)}, log)
<1>1. RowOf(q).stamp = q.stamp
  BY DEF RowOf
<1> QED
  BY <1>1, RowOfType DEF TypeOK, StampsApart, Batch

LEMMA JobBatch ==
  ASSUME TypeOK, StampsApart, WroteInv, NEW j \in Job, job[j].pc # "idle"
  PROVE  job[j].wrote \in SUBSET Row /\ Batch(job[j].wrote, log)
<1>1. \A r \in job[j].wrote : r.stamp = job[j].stamp
  BY DEF WroteInv, ResetRow
<1>2. \A r, s \in job[j].wrote : r.task = s.task => r = s
  BY DEF WroteInv
<1> QED
  BY <1>1, <1>2 DEF TypeOK, JobState, StampsApart, Batch

LEMMA StepStampsBelow == IInv /\ [Next]_vars => StampsBelow'
<1> SUFFICES ASSUME IInv, [Next]_vars PROVE StampsBelow'
  OBVIOUS
<1> USE DEF StampsBelow, IInv
<1>1. CASE Same
  BY <1>1 DEF Same
<1>2. ASSUME NEW u \in User, NEW t \in Task, NEW e \in TaskEvent, NEW c \in BOOLEAN,
             begin_task_event(u, t, e, c)
      PROVE  StampsBelow'
  <2>1. clock' = clock + 1 /\ clock \in Nat /\ log' = log /\ job' = job
    BY <1>2 DEF begin_task_event, TypeOK
  <2>2. \A q \in open' : q \in open \/ q.stamp = clock'
    BY <1>2 DEF begin_task_event
  <2>3. /\ \A r \in log : r.stamp \in Nat
        /\ \A q \in open : q.stamp \in Nat
        /\ \A j \in Job : job[j].stamp \in Nat
    BY DEF TypeOK, Row, Request, JobState
  <2>4. /\ \A r \in log : r.stamp <= clock'
        /\ \A q \in open : q.stamp <= clock'
        /\ \A j \in Job : job[j].stamp <= clock'
    BY <2>1, <2>3
  <2>5. clock' <= clock'
    BY <2>1
  <2> QED
    BY <2>1, <2>2, <2>4, <2>5
<1>3. ASSUME NEW q \in open, commit_task_event(q) \/ abort_task_event(q) PROVE StampsBelow'
  BY <1>3 DEF commit_task_event, abort_task_event, RowOf
<1>4. ASSUME NEW u \in User, delete_user(u) PROVE StampsBelow'
  <2>1. \A r \in log : [r EXCEPT !.by = IF @ = u THEN NoUser ELSE @].stamp = r.stamp
    BY DEF TypeOK, Row
  <2>2. \A r \in log' : r.stamp <= clock
    BY <1>4, <2>1 DEF delete_user
  <2> QED
    BY <1>4, <2>2 DEF delete_user
<1>5. ASSUME NEW j \in Job, job_start(j) PROVE StampsBelow'
  <2>1. clock' = clock + 1 /\ clock \in Nat /\ log' = log /\ open' = open
    BY <1>5 DEF job_start, TypeOK
  <2>2. \A i \in Job : job'[i] = job[i] \/ job'[i].stamp = clock'
    BY <1>5 DEF job_start, TypeOK
  <2>3. /\ \A r \in log : r.stamp \in Nat
        /\ \A q \in open : q.stamp \in Nat
        /\ \A i \in Job : job[i].stamp \in Nat
    BY DEF TypeOK, Row, Request, JobState
  <2>4. /\ \A r \in log : r.stamp <= clock'
        /\ \A q \in open : q.stamp <= clock'
        /\ \A i \in Job : job[i].stamp <= clock'
    BY <2>1, <2>3
  <2>5. clock' <= clock'
    BY <2>1
  <2> QED
    BY <2>1, <2>2, <2>4, <2>5
<1>6. ASSUME NEW j \in Job, job_unlock(j) PROVE StampsBelow'
  <2>1. \A i \in Job : job'[i].stamp = job[i].stamp
    BY <1>6 DEF job_unlock, TypeOK, JobState
  <2> QED
    BY <1>6, <2>1 DEF job_unlock
<1>7. ASSUME NEW j \in Job, job_commit(j) \/ job_fail(j) PROVE StampsBelow'
  <2>1. \A i \in Job : job'[i].stamp = job[i].stamp \/ job'[i].stamp = 0
    BY <1>7 DEF job_commit, job_fail, Idle, TypeOK
  <2>2. \A i \in Job : job'[i].stamp <= clock
    BY <2>1 DEF TypeOK
  <2>3. \A r \in job[j].wrote : r.stamp <= clock
    BY DEF WroteInv, ResetRow
  <2> QED
    BY <1>7, <2>2, <2>3 DEF job_commit, job_fail
<1> QED
  BY <1>1, <1>2, <1>3, <1>4, <1>5, <1>6, <1>7, SameOrNoticed DEF Noticed

\* What job_unlock does to the runs of the job.
LEMMA UnlockStep ==
  ASSUME TypeOK, NEW j \in Job, job_unlock(j)
  PROVE  /\ job'[j].wrote = job[j].wrote \union {ResetRow(j, t) : t \in unlockable(j)}
         /\ \A i \in Job : i # j => job'[i] = job[i]
         /\ \A i \in Job : /\ job'[i].stamp = job[i].stamp /\ job'[i].at = job[i].at
                           /\ job'[i].pc = "idle" <=> job[i].pc = "idle"
<1>1. /\ job'[j].wrote = job[j].wrote \union {ResetRow(j, t) : t \in unlockable(j)}
      /\ job'[j].stamp = job[j].stamp /\ job'[j].at = job[j].at
      /\ job'[j].pc = "next" /\ job[j].pc = "unlock"
  BY DEF job_unlock, TypeOK, JobState
<1>2. \A i \in Job : i # j => job'[i] = job[i]
  BY DEF job_unlock, TypeOK
<1> QED
  BY <1>1, <1>2

LEMMA StepStampsPositive == TypeOK /\ StampsPositive /\ [Next]_vars => StampsPositive'
<1> SUFFICES ASSUME TypeOK, StampsPositive, [Next]_vars PROVE StampsPositive'
  OBVIOUS
<1> USE DEF StampsPositive
<1>1. CASE Same
  BY <1>1 DEF Same
<1>2. ASSUME NEW u \in User, NEW t \in Task, NEW e \in TaskEvent, NEW c \in BOOLEAN,
             begin_task_event(u, t, e, c)
      PROVE  StampsPositive'
  BY <1>2 DEF begin_task_event, TypeOK
<1>3. ASSUME NEW q \in open, commit_task_event(q) \/ abort_task_event(q)
      PROVE  StampsPositive'
  BY <1>3 DEF commit_task_event, abort_task_event
<1>4. ASSUME NEW u \in User, delete_user(u) PROVE StampsPositive'
  BY <1>4 DEF delete_user
<1>5. ASSUME NEW j \in Job, job_start(j) PROVE StampsPositive'
  <2>1. job'[j].stamp > 0 /\ \A i \in Job : i # j => job'[i] = job[i]
    BY <1>5 DEF job_start, TypeOK
  <2> QED
    BY <1>5, <2>1 DEF job_start
<1>6. ASSUME NEW j \in Job, job_unlock(j) PROVE StampsPositive'
  BY <1>6, UnlockStep DEF job_unlock
<1>7. ASSUME NEW j \in Job, job_commit(j) \/ job_fail(j) PROVE StampsPositive'
  <2>1. job'[j].pc = "idle" /\ \A i \in Job : i # j => job'[i] = job[i]
    BY <1>7 DEF job_commit, job_fail, Idle, TypeOK
  <2> QED
    BY <1>7, <2>1 DEF job_commit, job_fail
<1> QED
  BY <1>1, <1>2, <1>3, <1>4, <1>5, <1>6, <1>7, SameOrNoticed DEF Noticed

LEMMA StepWrote == IInv /\ [Next]_vars => WroteInv'
<1> SUFFICES ASSUME IInv, [Next]_vars PROVE WroteInv'
  OBVIOUS
<1> USE DEF WroteInv, IInv
<1>1. CASE Same
  BY <1>1 DEF Same, ResetRow
<1>2. CASE UNCHANGED job
  BY <1>2 DEF ResetRow
<1>3. ASSUME NEW j \in Job, job_start(j) \/ job_commit(j) \/ job_fail(j) PROVE WroteInv'
  <2>1. \A i \in Job : job'[i] = job[i] \/ job'[i].wrote = {}
    BY <1>3 DEF job_start, job_commit, job_fail, Idle, TypeOK
  <2> QED
    BY <2>1 DEF ResetRow
<1>4. ASSUME NEW j \in Job, job_unlock(j) PROVE WroteInv'
  <2>1. \A t : ResetRow(j, t)' = ResetRow(j, t) /\ ResetRow(j, t).task = t
    BY <1>4, UnlockStep DEF ResetRow
  <2>2. \A r \in job'[j].wrote : r = ResetRow(j, r.task)'
    BY <1>4, <2>1, UnlockStep
  <2>3. job'[j].pc # "idle" /\ \A i \in Job : i # j => job'[i] = job[i]
    BY <1>4, UnlockStep DEF job_unlock
  <2> QED
    BY <2>2, <2>3 DEF ResetRow
<1> QED
  BY <1>1, <1>2, <1>3, <1>4, SameOrNoticed
  DEF Noticed, begin_task_event, commit_task_event, abort_task_event, delete_user

LEMMA StepStampsApart == IInv /\ [Next]_vars => StampsApart'
<1> SUFFICES ASSUME IInv, [Next]_vars PROVE StampsApart'
  OBVIOUS
<1> USE DEF StampsApart, IInv
<1>0. /\ clock \in Nat
      /\ \A r \in log : r.stamp \in Nat
      /\ \A q \in open : q.stamp \in Nat
      /\ \A i \in Job : job[i].stamp \in Nat
  BY DEF TypeOK, Row, Request, JobState
<1>a. /\ \A r \in log : r.stamp < clock + 1
      /\ \A q \in open : q.stamp < clock + 1
      /\ \A i \in Job : job[i].stamp < clock + 1
  BY <1>0 DEF StampsBelow
<1>b. /\ \A r \in log : r.stamp # clock + 1
      /\ \A q \in open : q.stamp # clock + 1
      /\ \A i \in Job : job[i].stamp # clock + 1
  BY <1>0, <1>a
<1>1. CASE Same
  BY <1>1 DEF Same
<1>2. ASSUME NEW u \in User, NEW t \in Task, NEW e \in TaskEvent, NEW c \in BOOLEAN,
             begin_task_event(u, t, e, c)
      PROVE  StampsApart'
  <2>1. clock' = clock + 1 /\ log' = log /\ job' = job
    BY <1>2 DEF begin_task_event
  <2>2. PICK n : n.stamp = clock + 1 /\ open' = open \union {n}
    BY <1>2 DEF begin_task_event
  <2>3. \A p, q \in open' : p.stamp = q.stamp => p = q
    BY <1>b, <2>2
  <2> QED
    BY <1>b, <2>1, <2>2, <2>3
<1>3. ASSUME NEW q \in open, commit_task_event(q) PROVE StampsApart'
  <2>1. RowOf(q).stamp = q.stamp
    BY DEF RowOf
  <2>2. open' = open \ {q} /\ log' = log \union {RowOf(q)} /\ job' = job
    BY <1>3 DEF commit_task_event
  <2>3. \A p \in open' : p.stamp # q.stamp
    BY <2>2
  <2> QED
    BY <2>1, <2>2, <2>3
<1>4. ASSUME NEW q \in open, abort_task_event(q) PROVE StampsApart'
  BY <1>4 DEF abort_task_event
<1>5. ASSUME NEW u \in User, delete_user(u) PROVE StampsApart'
  <2>1. \A r \in log : [r EXCEPT !.by = IF @ = u THEN NoUser ELSE @].stamp = r.stamp
    BY DEF TypeOK, Row
  <2>2. \A r \in log' : \E s \in log : r.stamp = s.stamp
    BY <1>5, <2>1 DEF delete_user
  <2>3. open' = open /\ job' = job
    BY <1>5 DEF delete_user
  <2> QED
    BY <2>2, <2>3
<1>6. ASSUME NEW j \in Job, job_start(j) PROVE StampsApart'
  <2>1. log' = log /\ open' = open
    BY <1>6 DEF job_start
  <2>2. job'[j].stamp = clock + 1 /\ \A i \in Job : i # j => job'[i] = job[i]
    BY <1>6 DEF job_start, TypeOK
  <2> QED
    BY <1>b, <2>1, <2>2
<1>7. ASSUME NEW j \in Job, job_unlock(j) PROVE StampsApart'
  <2>1. log' = log /\ open' = open
    BY <1>7 DEF job_unlock
  <2>2. \A i \in Job : /\ job'[i].stamp = job[i].stamp
                       /\ job'[i].pc = "idle" <=> job[i].pc = "idle"
    BY <1>7, UnlockStep
  <2> QED
    BY <2>1, <2>2
<1>8. ASSUME NEW j \in Job, job_commit(j) PROVE StampsApart'
  <2>1. job'[j].pc = "idle" /\ \A i \in Job : i # j => job'[i] = job[i]
    BY <1>8 DEF job_commit, Idle, TypeOK
  <2>2. log' = log \union job[j].wrote /\ open' = open /\ job[j].pc # "idle"
    BY <1>8 DEF job_commit
  <2>3. \A r \in job[j].wrote : r.stamp = job[j].stamp
    BY DEF WroteInv, ResetRow
  <2> QED
    BY <2>1, <2>2, <2>3
<1>9. ASSUME NEW j \in Job, job_fail(j) PROVE StampsApart'
  <2>1. job'[j].pc = "idle" /\ \A i \in Job : i # j => job'[i] = job[i]
    BY <1>9 DEF job_fail, Idle, TypeOK
  <2> QED
    BY <1>9, <2>1 DEF job_fail
<1> QED
  BY <1>1, <1>2, <1>3, <1>4, <1>5, <1>6, <1>7, <1>8, <1>9, SameOrNoticed DEF Noticed

\* How the log changes.
LEMMA LogSteps ==
  ASSUME IInv, [Next]_vars
  PROVE  \/ log' = log
         \/ \E q \in open : commit_task_event(q)
         \/ \E j \in Job : job_commit(j)
         \/ \E u \in User : log' = Forget(log, u)
BY SameOrNoticed
DEF IInv, Same, Noticed, begin_task_event, abort_task_event, delete_user, job_start,
    job_unlock, job_fail, Forget

LEMMA StepLogInv == IInv /\ [Next]_vars => LogInv'
<1> SUFFICES ASSUME IInv, [Next]_vars PROVE LogInv'
  OBVIOUS
<1> USE DEF IInv
<1>0. log \in Log
  BY DEF TypeOK, LogInv, Log
<1>1. CASE log' = log
  BY <1>1 DEF LogInv
<1>2. ASSUME NEW q \in open, commit_task_event(q) PROVE LogInv'
  <2>1. log' = log \union {RowOf(q)}
    BY <1>2 DEF commit_task_event
  <2>2. log' \in Log
    BY <1>0, <2>1, RequestBatch, LogAfterWrite
  <2>3. RowOf(q).state = set_task_state[RowOf(q).event]
    BY DEF RowOf
  <2> QED
    BY <2>1, <2>2, <2>3 DEF LogInv, Log
<1>3. ASSUME NEW j \in Job, job_commit(j) PROVE LogInv'
  <2>1. log' = log \union job[j].wrote /\ job[j].pc # "idle"
    BY <1>3 DEF job_commit
  <2>2. log' \in Log
    BY <1>0, <2>1, JobBatch, LogAfterWrite
  <2>3. \A r \in job[j].wrote : r.state = set_task_state[r.event]
    BY DEF WroteInv, ResetRow
  <2> QED
    BY <2>1, <2>2, <2>3 DEF LogInv, Log
<1>4. ASSUME NEW u \in User, log' = Forget(log, u) PROVE LogInv'
  <2>1. \A r \in log : LET s == [r EXCEPT !.by = IF @ = u THEN NoUser ELSE @]
                       IN  s.state = r.state /\ s.event = r.event
    BY DEF TypeOK, Row
  <2>2. \A s \in log' : \E r \in log : s.state = r.state /\ s.event = r.event
    BY <1>4, <2>1 DEF Forget
  <2>3. \A s \in log' : s.state = set_task_state[s.event]
    BY <2>2 DEF LogInv
  <2>4. log' \in Log
    BY <1>0, <1>4, ForgetKeeps
  <2> QED
    BY <2>3, <2>4 DEF LogInv, Log
<1> QED
  BY <1>1, <1>2, <1>3, <1>4, LogSteps

LEMMA Invariant == Spec => []IInv
<1>1. Init => IInv
  <2> SUFFICES ASSUME Init PROVE IInv
    OBVIOUS
  <2>1. TypeOK
    BY InitType
  <2>2. StampsBelow
    BY DEF Init, StampsBelow, Idle
  <2>3. StampsPositive
    BY DEF Init, StampsPositive, Idle
  <2>4. StampsApart /\ WroteInv
    BY DEF Init, StampsApart, WroteInv, Idle
  <2>5. LogInv
    BY DEF Init, LogInv, Unique, HasNewest, StateRows
  <2> QED
    BY <2>1, <2>2, <2>3, <2>4, <2>5 DEF IInv
<1>2. IInv /\ [Next]_vars => IInv'
  BY StepType, StepStampsBelow, StepStampsPositive, StepStampsApart, StepWrote, StepLogInv DEF IInv
<1> QED
  BY <1>1, <1>2, PTL DEF Spec

-----------------------------------------------------------------------------
(* What a run of the job does to the board. *)

LEMMA JobStampNat == TypeOK => \A j \in Job : job[j].stamp \in Nat
BY DEF TypeOK, JobState

\* An event whose request began after a run did is never undone by that run.
THEOREM FreshEventSurvivesHolds == Spec => FreshEventSurvives
<1> DEFINE Fresh(j, t) == job_commit(j) /\ state_stamp(log, t) > job[j].stamp
                            => task_state(log', t) = task_state(log, t)
<1>1. ASSUME IInv, [Next]_vars PROVE \A j \in Job, t \in Task : Fresh(j, t)
  <2> SUFFICES ASSUME NEW j \in Job, NEW t \in Task, job_commit(j),
                      state_stamp(log, t) > job[j].stamp
               PROVE  task_state(log', t) = task_state(log, t)
    OBVIOUS
  <2>1. log' = log \union job[j].wrote /\ job[j].pc # "idle"
    BY DEF job_commit
  <2>2. log \in Log
    BY <1>1 DEF IInv, TypeOK, LogInv, Log
  <2>3. job[j].wrote \in SUBSET Row /\ Batch(job[j].wrote, log)
    BY <1>1, <2>1, JobBatch DEF IInv
  <2>4. \A w \in StateRows(job[j].wrote, t) : w.stamp = job[j].stamp
    BY <1>1 DEF IInv, WroteInv, ResetRow, StateRows
  <2>5. \A w \in StateRows(job[j].wrote, t) : w.stamp < state_stamp(log, t)
    BY <1>1, <2>4, JobStampNat DEF IInv
  <2> QED
    BY <2>1, <2>2, <2>3, <2>5, OldWriteIgnored
<1>2. IInv /\ [Next]_vars => [\A j \in Job, t \in Task : Fresh(j, t)]_vars
  BY <1>1
<1> QED
  BY <1>2, Invariant, PTL DEF Spec, FreshEventSurvives

\* What the two frontends send: comment text with COMMENT events and no others.
Conventional == \A p \in Payload : p[2] <=> p[1] = "COMMENT"

\* Where clients follow that convention, the two filters on task_events agree.
Agreeing ==
  /\ \A r \in log : r.comment <=> r.event = "COMMENT"
  /\ \A q \in open : q.comment <=> q.event = "COMMENT"

LEMMA AgreeingHolds == Conventional => (Spec => []Agreeing)
<1> SUFFICES ASSUME Conventional PROVE Spec => []Agreeing
  OBVIOUS
<1>1. Init => Agreeing
  BY DEF Init, Agreeing
<1>2. IInv /\ Agreeing /\ [Next]_vars => Agreeing'
  <2> SUFFICES ASSUME IInv, Agreeing, [Next]_vars PROVE Agreeing'
    OBVIOUS
  <2> USE DEF Agreeing
  <2>1. CASE Same
    BY <2>1 DEF Same
  <2>2. ASSUME NEW u \in User, NEW t \in Task, NEW e \in TaskEvent, NEW c \in BOOLEAN,
               begin_task_event(u, t, e, c)
        PROVE  Agreeing'
    <3>1. c <=> e = "COMMENT"
      BY <2>2 DEF begin_task_event, Conventional
    <3> QED
      BY <2>2, <3>1 DEF begin_task_event
  <2>3. ASSUME NEW q \in open, commit_task_event(q) \/ abort_task_event(q) PROVE Agreeing'
    BY <2>3 DEF commit_task_event, abort_task_event, RowOf
  <2>4. ASSUME NEW u \in User, delete_user(u) PROVE Agreeing'
    <3>1. \A r \in log : LET s == [r EXCEPT !.by = IF @ = u THEN NoUser ELSE @]
                         IN  s.comment = r.comment /\ s.event = r.event
      BY DEF IInv, TypeOK, Row
    <3>2. \A s \in log' : \E r \in log : s.comment = r.comment /\ s.event = r.event
      BY <2>4, <3>1 DEF delete_user
    <3> QED
      BY <2>4, <3>2 DEF delete_user
  <2>5. ASSUME NEW j \in Job, job_commit(j) PROVE Agreeing'
    <3>1. \A r \in job[j].wrote : r.comment = FALSE /\ r.event = "RESET"
      BY DEF IInv, WroteInv, ResetRow
    <3> QED
      BY <2>5, <3>1 DEF job_commit
  <2>6. ASSUME NEW j \in Job, job_start(j) \/ job_unlock(j) \/ job_fail(j) PROVE Agreeing'
    BY <2>6 DEF job_start, job_unlock, job_fail
  <2> QED
    BY <2>1, <2>2, <2>3, <2>4, <2>5, <2>6, SameOrNoticed DEF IInv, Noticed
<1> QED
  BY <1>1, <1>2, Invariant, PTL DEF Spec

\* As long as clients follow the convention, the job releases only tasks that are locked
\* for mapping at that moment.
THEOREM UnlockOnlyLockedHolds == Conventional => (Spec => UnlockOnlyLocked)
<1> DEFINE Held(j) == \A r \in job'[j].wrote \ job[j].wrote :
                        task_state(log, r.task) = "LOCKED_FOR_MAPPING"
<1>1. ASSUME IInv, Agreeing, NEW j \in Job, NEW t \in unlockable(j)
      PROVE  task_state(log, t) = "LOCKED_FOR_MAPPING"
  <2>1. PICK r \in SilentRows(log, t) :
           IsNewest(r, SilentRows(log, t)) /\ Expired(r, job[j].at)
    BY <1>1 DEF unlockable, IsStaleLock
  <2>2. SilentRows(log, t) = StateRows(log, t)
    BY <1>1 DEF Agreeing, SilentRows, StateRows
  <2>3. task_state(log, t) = r.state
    BY <1>1, <2>1, <2>2, StateFromNewest DEF IInv, TypeOK, LogInv
  <2>4. r.state = set_task_state[r.event] /\ r.event \in {"MAP", "ASSIGN"}
    BY <1>1, <2>1 DEF IInv, LogInv, SilentRows, Expired
  <2>5. set_task_state["MAP"] = "LOCKED_FOR_MAPPING" /\ set_task_state["ASSIGN"] = "LOCKED_FOR_MAPPING"
    BY DEF set_task_state, TaskEvent
  <2> QED
    BY <2>3, <2>4, <2>5
<1>2. ASSUME IInv, Agreeing, [Next]_vars PROVE \A j \in Job : Held(j)
  <2> SUFFICES ASSUME NEW i \in Job, NEW r \in job'[i].wrote \ job[i].wrote
               PROVE  task_state(log, r.task) = "LOCKED_FOR_MAPPING"
    OBVIOUS
  <2> USE <1>2 DEF IInv
  <2>1. CASE Same
    BY <2>1 DEF Same
  <2>2. CASE UNCHANGED job
    BY <2>2
  <2>3. ASSUME NEW j \in Job, job_start(j) \/ job_commit(j) \/ job_fail(j)
        PROVE  job'[i] = job[i] \/ job'[i].wrote = {}
    BY <2>3 DEF job_start, job_commit, job_fail, Idle, TypeOK
  <2>4. ASSUME NEW j \in Job, job_unlock(j)
        PROVE  task_state(log, r.task) = "LOCKED_FOR_MAPPING"
    <3>1. i = j
      BY <2>4, UnlockStep
    <3>2. PICK t \in unlockable(j) : r = ResetRow(j, t)
      BY <2>4, <3>1, UnlockStep
    <3>3. r.task = t
      BY <3>2 DEF ResetRow
    <3> QED
      BY <1>1, <3>2, <3>3
  <2> QED
    BY <2>1, <2>2, <2>3, <2>4, SameOrNoticed
    DEF Noticed, begin_task_event, commit_task_event, abort_task_event, delete_user
<1>3. IInv /\ Agreeing /\ [Next]_vars => [\A j \in Job : Held(j)]_vars
  BY <1>2
<1> QED
  BY <1>3, Invariant, AgreeingHolds, PTL DEF Spec, UnlockOnlyLocked

-----------------------------------------------------------------------------
(***************************************************************************)
(* Bounded release.  If runs are on time and succeed, a scheduled run      *)
(* leaves no lock that was too old when it began: each is of a project it  *)
(* has still to look at, of the project it is at, or already has the RESET *)
(* row that the run will commit.                                           *)
(***************************************************************************)
Timely == CronTimely /\ ~OdkMayFail /\ SvcUser \notin Deletable /\ Conventional

\* Requests and runs are over within the hour.
Near ==
  /\ \A q \in open : q.at = now
  /\ \A r \in log : r.at <= now
  /\ \A p \in Project : touched[p] <= now
  /\ \A j \in Job : job[j].at <= now /\ (job[j].pc # "idle" => job[j].at = now)
  /\ now <= job[Cron].at + CronPeriod
  /\ SvcUser \in users

\* What is older than the run began before it.
Order ==
  job[Cron].pc # "idle" => \A r \in log : r.at < job[Cron].at => r.stamp < job[Cron].stamp

\* The lock r of t is one that a run that began at hour "at" should release.
Due(r, t, at) ==
  /\ IsNewest(r, StateRows(log, t)) /\ r.event = "MAP"
  /\ r.at + MapHold < at /\ r.at >= at - ActiveWindow
  /\ touched[TaskProject[t]] + EntityWindow <= at

Handled ==
  /\ job[Cron].pc = "next" => job[Cron].cur = NoProject
  /\ \A t \in Task : \A r \in log : Due(r, t, job[Cron].at) =>
       /\ job[Cron].pc # "idle"
       /\ \/ TaskProject[t] \in job[Cron].todo \union {job[Cron].cur}
          \/ ResetRow(Cron, t) \in job[Cron].wrote

Releasing == Near /\ Order /\ Handled /\ StaleLockReleased

\* Whatever old rows a step leaves in the log were there before.
OldRows ==
  \A r \in log' : r.at < now =>
    \E s \in log :
      /\ s.at = r.at /\ s.stamp = r.stamp /\ s.event = r.event
      /\ \A t \in Task : IsNewest(r, StateRows(log', t)) => IsNewest(s, StateRows(log, t))

LEMMA OldRowsOfWrite ==
  ASSUME NEW W, log' = log \union W, \A w \in W : ~(w.at < now)
  PROVE  OldRows
<1> SUFFICES ASSUME NEW r \in log', r.at < now
             PROVE  r \in log /\ \A t \in Task : IsNewest(r, StateRows(log', t)) =>
                                                  IsNewest(r, StateRows(log, t))
  BY DEF OldRows
<1>1. r \in log
  OBVIOUS
<1>2. \A t \in Task : StateRows(log, t) \subseteq StateRows(log', t)
  BY DEF StateRows
<1> QED
  BY <1>1, <1>2 DEF IsNewest, StateRows

LEMMA OldRowsOfForget ==
  ASSUME TypeOK, NEW u \in User, log' = Forget(log, u)
  PROVE  OldRows
<1> DEFINE f(r) == [r EXCEPT !.by = IF @ = u THEN NoUser ELSE @]
<1>1. \A r \in log : /\ f(r).task = r.task /\ f(r).event = r.event
                     /\ f(r).stamp = r.stamp /\ f(r).at = r.at
  BY DEF TypeOK, Row
<1>2. log' = {f(r) : r \in log}
  BY DEF Forget
<1> HIDE DEF f
<1> SUFFICES ASSUME NEW s \in log
             PROVE  /\ f(s).at = s.at /\ f(s).stamp = s.stamp /\ f(s).event = s.event
                    /\ \A t \in Task : IsNewest(f(s), StateRows(log', t)) =>
                                         IsNewest(s, StateRows(log, t))
  BY <1>2 DEF OldRows
<1>3. ASSUME NEW t \in Task, IsNewest(f(s), StateRows(log', t))
      PROVE  IsNewest(s, StateRows(log, t))
  <2>1. s \in StateRows(log, t)
    BY <1>1, <1>3 DEF IsNewest, StateRows
  <2>2. ASSUME NEW q \in StateRows(log, t) PROVE q.stamp <= s.stamp
    <3>1. f(q) \in StateRows(log', t)
      BY <1>1, <1>2, <2>2 DEF StateRows
    <3>2. f(q).stamp <= f(s).stamp
      BY <1>3, <3>1 DEF IsNewest
    <3> QED
      BY <1>1, <2>2, <3>2 DEF StateRows
  <2> QED
    BY <2>1, <2>2 DEF IsNewest
<1> QED
  BY <1>1, <1>3

\* Steps that are none of the scheduled run.
LEMMA ReleasingBesides ==
  ASSUME TypeOK, TypeOK', Releasing, OldRows, now' = now, job'[Cron] = job[Cron],
         \A p \in Project : touched[p] <= touched'[p]
  PROVE  Order' /\ Handled' /\ StaleLockReleased'
<1>0. /\ now \in Nat /\ job[Cron].at \in Nat /\ job[Cron].at <= now
      /\ MapHold \in Nat /\ CronPeriod \in Nat /\ EntityWindow \in Nat /\ ActiveWindow \in Nat
      /\ \A r \in log' : r.at \in Nat
  BY TaskAssumption, HoldAssumption DEF TypeOK, JobState, Row, Releasing, Near
<1>1. \A t \in Task : /\ TaskProject[t] \in Project
                     /\ touched[TaskProject[t]] \in Int /\ touched'[TaskProject[t]] \in Int
                     /\ touched[TaskProject[t]] <= touched'[TaskProject[t]]
  BY TaskAssumption DEF TypeOK
<1>2. Order'
  <2> SUFFICES ASSUME job[Cron].pc # "idle", NEW r \in log', r.at < job[Cron].at
               PROVE  r.stamp < job[Cron].stamp
    BY DEF Order
  <2>1. job[Cron].at = now
    BY TaskAssumption DEF Releasing, Near
  <2>2. PICK s \in log : s.at = r.at /\ s.stamp = r.stamp
    BY <2>1 DEF OldRows
  <2> QED
    BY <2>2 DEF Releasing, Order
<1>3. ASSUME NEW t \in Task, NEW r \in log', Due(r, t, job[Cron].at)'
      PROVE  \E s \in log : Due(s, t, job[Cron].at)
  <2>1. /\ r.at + MapHold < job[Cron].at /\ r.at >= job[Cron].at - ActiveWindow
        /\ r.event = "MAP" /\ IsNewest(r, StateRows(log', t))
        /\ touched'[TaskProject[t]] + EntityWindow <= job[Cron].at
    BY <1>3 DEF Due
  <2>2. r.at < now
    BY <1>0, <2>1
  <2>3. PICK s \in log : s.at = r.at /\ s.event = "MAP" /\ IsNewest(s, StateRows(log, t))
    BY <2>1, <2>2 DEF OldRows
  <2>4. touched[TaskProject[t]] + EntityWindow <= job[Cron].at
    BY <2>1, <1>0, <1>1
  <2> QED
    BY <2>1, <2>3, <2>4 DEF Due
<1>4. Handled'
  <2>1. \A t : ResetRow(Cron, t)' = ResetRow(Cron, t)
    BY DEF ResetRow
  <2>2. \A t \in Task : \A r \in log' : Due(r, t, job[Cron].at)' =>
          /\ job[Cron].pc # "idle"
          /\ \/ TaskProject[t] \in job[Cron].todo \union {job[Cron].cur}
             \/ ResetRow(Cron, t) \in job[Cron].wrote
    BY <1>3 DEF Releasing, Handled
  <2>3. job[Cron].pc = "next" => job[Cron].cur = NoProject
    BY DEF Releasing, Handled
  <2> QED
    BY <2>1, <2>2, <2>3 DEF Handled
<1>5. StaleLockReleased'
  <2> SUFFICES ASSUME NEW t \in Task, NEW r \in log', Overstayed(r, t)'
               PROVE  r.at < now - ActiveWindow
    BY DEF StaleLockReleased
  <2>1. /\ r.event = "MAP" /\ IsNewest(r, StateRows(log', t))
        /\ r.at + MapHold + CronPeriod < now
        /\ touched'[TaskProject[t]] + EntityWindow + CronPeriod <= now
    BY DEF Overstayed
  <2>2. r.at < now
    BY <1>0, <2>1
  <2>3. PICK s \in log : s.at = r.at /\ s.event = "MAP" /\ IsNewest(s, StateRows(log, t))
    BY <2>1, <2>2 DEF OldRows
  <2>4. touched[TaskProject[t]] + EntityWindow + CronPeriod <= now
    BY <2>1, <1>0, <1>1
  <2>5. Overstayed(s, t)
    BY <2>1, <2>3, <2>4 DEF Overstayed
  <2> QED
    BY <2>3, <2>5 DEF Releasing, StaleLockReleased
<1> QED
  BY <1>2, <1>4, <1>5

\* Steps of the scheduled run that leave the log and its hour alone.
LEMMA ReleasingWithin ==
  ASSUME TypeOK, Releasing, UNCHANGED <<log, now>>,
         job'[Cron].at = job[Cron].at, job'[Cron].stamp = job[Cron].stamp,
         job[Cron].pc # "idle", job'[Cron].pc # "idle",
         job'[Cron].pc = "next" => job'[Cron].cur = NoProject,
         \A p \in Project : touched[p] <= touched'[p] /\ touched'[p] \in Int,
         \A t \in Task : \A r \in log :
           /\ Due(r, t, job[Cron].at)
           /\ \/ TaskProject[t] \in job[Cron].todo \union {job[Cron].cur}
              \/ ResetRow(Cron, t) \in job[Cron].wrote
           => \/ TaskProject[t] \in job'[Cron].todo \union {job'[Cron].cur}
              \/ ResetRow(Cron, t) \in job'[Cron].wrote
  PROVE  Order' /\ Handled' /\ StaleLockReleased'
<1>0. /\ now \in Nat /\ job[Cron].at \in Nat /\ CronPeriod \in Nat /\ EntityWindow \in Nat
      /\ \A t \in Task : /\ TaskProject[t] \in Project
                         /\ touched[TaskProject[t]] \in Int /\ touched'[TaskProject[t]] \in Int
                         /\ touched[TaskProject[t]] <= touched'[TaskProject[t]]
  BY TaskAssumption DEF TypeOK, JobState
<1>1. Order'
  BY DEF Releasing, Order
<1>2. ASSUME NEW t \in Task, NEW r \in log, Due(r, t, job[Cron].at)'
      PROVE  Due(r, t, job[Cron].at)
  BY <1>0, <1>2 DEF Due
<1>3. \A t : ResetRow(Cron, t)' = ResetRow(Cron, t)
  BY DEF ResetRow
<1>4. Handled'
  BY <1>2, <1>3 DEF Releasing, Handled
<1>5. ASSUME NEW t \in Task, NEW r \in log, Overstayed(r, t)'
      PROVE  Overstayed(r, t)
  BY <1>0, <1>5 DEF Overstayed
<1>6. StaleLockReleased'
  BY <1>5 DEF Releasing, StaleLockReleased
<1> QED
  BY <1>1, <1>4, <1>6

LEMMA NearStep ==
  ASSUME Timely, TypeOK, TypeOK', IInv, Releasing, [Next]_vars
  PROVE  Near'
<1>1. Near /\ now \in Nat /\ Cron \in Job /\ CronPeriod \in Nat
  BY TaskAssumption DEF Releasing, TypeOK
<1> USE DEF Near
<1>2. ASSUME NEW u \in User, NEW t \in Task, NEW e \in TaskEvent, NEW c \in BOOLEAN,
             begin_task_event(u, t, e, c)
      PROVE  Near'
  BY <1>1, <1>2 DEF begin_task_event
<1>3. ASSUME NEW q \in open, commit_task_event(q) \/ abort_task_event(q)
      PROVE  Near'
  BY <1>1, <1>3 DEF commit_task_event, abort_task_event, RowOf
<1>4. ASSUME NEW u \in User, delete_user(u) \/ create_user(u)
      PROVE  Near'
  <2>1. SvcUser \in users' /\ UNCHANGED <<open, now, touched, job>>
    BY <1>1, <1>4 DEF delete_user, create_user, Timely
  <2>2. \A r \in log : LET s == [r EXCEPT !.by = IF @ = u THEN NoUser ELSE @] IN s.at = r.at
    BY DEF TypeOK, Row
  <2>3. \A r \in log' : r.at <= now
    <3>1. CASE delete_user(u)
      <4>1. \A s \in log' : \E r \in log : s.at = r.at
        BY <2>2, <3>1 DEF delete_user
      <4> QED
        BY <4>1, <1>1
    <3>2. CASE create_user(u)
      BY <1>1, <3>2 DEF create_user
    <3> QED
      BY <3>1, <3>2, <1>4
  <2> QED
    BY <2>1, <2>3, <1>1
<1>5. ASSUME NEW p \in Project, update_entity(p)
      PROVE  Near'
  BY <1>1, <1>5 DEF update_entity, TypeOK
<1>6. ASSUME NEW j \in Job, job_start(j)
      PROVE  Near'
  <2>1. /\ job'[j].at = now /\ \A i \in Job \ {j} : job'[i] = job[i]
        /\ UNCHANGED <<log, open, users, now, touched>>
    BY <1>6 DEF job_start, TypeOK
  <2> QED
    BY <2>1, <1>1
<1>7. ASSUME NEW j \in Job,
             job_reset(j) \/ job_unlock(j) \/ \E p \in Project : job_skip(j, p) \/ job_check(j, p)
      PROVE  Near'
  <2>1. /\ \A i \in Job : job'[i].at = job[i].at /\ (job'[i].pc # "idle" => job[i].pc # "idle")
        /\ UNCHANGED <<log, open, users, now>>
    <3>1. CASE job_reset(j)
      BY <3>1 DEF job_reset, TypeOK, JobState
    <3>2. CASE job_unlock(j)
      BY <3>2, UnlockStep DEF job_unlock
    <3>3. ASSUME NEW p \in Project, job_skip(j, p) \/ job_check(j, p)
          PROVE  /\ \A i \in Job : /\ job'[i].at = job[i].at
                                   /\ job'[i].pc # "idle" => job[i].pc # "idle"
                 /\ UNCHANGED <<log, open, users, now>>
      BY <3>3 DEF job_skip, job_check, TypeOK, JobState
    <3> QED
      BY <3>1, <3>2, <3>3, <1>7
  <2>2. \A p \in Project : touched'[p] <= now
    <3>1. CASE touched' = touched
      BY <3>1, <1>1
    <3>2. CASE touched' # touched
      <4>1. touched' = [touched EXCEPT ![job[j].cur] = now]
        BY <3>2, <1>7 DEF job_reset, job_unlock, job_skip, job_check
      <4> QED
        BY <4>1, <1>1 DEF TypeOK
    <3> QED
      BY <3>1, <3>2
  <2> QED
    BY <2>1, <2>2, <1>1
<1>8. ASSUME NEW j \in Job, job_commit(j) \/ job_fail(j)
      PROVE  Near'
  <2>1. /\ \A i \in Job : job'[i].at = job[i].at /\ (job'[i].pc # "idle" => job[i].pc # "idle")
        /\ UNCHANGED <<open, users, now, touched>>
    BY <1>8 DEF job_commit, job_fail, Idle, TypeOK, JobState
  <2>2. \A r \in log' : r.at <= now
    BY <1>1, <1>8 DEF job_commit, job_fail, IInv, WroteInv, ResetRow
  <2> QED
    BY <2>1, <2>2, <1>1
<1>9. CASE tick
  <2>1. /\ now' = now + 1 /\ UNCHANGED <<log, open, users, touched, job>>
        /\ open = {} /\ (\A j \in Job : job[j].pc = "idle") /\ now < job[Cron].at + CronPeriod
    BY <1>9 DEF tick, Timely
  <2>2. /\ \A r \in log : r.at \in Nat
        /\ \A p \in Project : touched[p] \in Int
        /\ \A j \in Job : job[j].at \in Nat
    BY DEF TypeOK, Row, JobState
  <2> QED
    BY <2>1, <2>2, <1>1
<1>10. CASE UNCHANGED vars
  BY <1>1, <1>10 DEF vars
<1> QED
  BY <1>2, <1>3, <1>4, <1>5, <1>6, <1>7, <1>8, <1>9, <1>10 DEF Next, job_step

LEMMA ReleasingStep ==
  ASSUME Timely, TypeOK, TypeOK', IInv, Agreeing, Releasing, [Next]_vars
  PROVE  Releasing'
<1>0. /\ Near /\ Order /\ Handled /\ StaleLockReleased
      /\ now \in Nat /\ Cron \in Job /\ job[Cron] \in JobState
      /\ \A p \in Project : touched[p] \in Int /\ touched[p] <= now
      /\ \A p \in Project : touched'[p] \in Int
      /\ \A r \in log : r.at \in Nat /\ r.stamp \in Nat
      /\ MapHold \in Nat /\ CronPeriod \in Nat /\ EntityWindow \in Nat /\ ActiveWindow \in Nat
  BY TaskAssumption, HoldAssumption DEF Releasing, TypeOK, Near, Row
<1>a. /\ job[Cron].at \in Nat /\ job[Cron].stamp \in Nat /\ job[Cron].todo \subseteq Project
      /\ job[Cron].cur \in Project \union {NoProject}
      /\ \A t \in Task : TaskProject[t] \in Project /\ TaskProject[t] # NoProject
  BY <1>0, TaskAssumption DEF JobState
<1>b. \A t, r : IsNewest(r, StateRows(log, t)) => r \in log /\ r.task = t /\ r.event # "COMMENT"
  BY DEF IsNewest, StateRows
<1> DEFINE Rest == Order' /\ Handled' /\ StaleLockReleased'
<1>1. log' = log => OldRows
  BY DEF OldRows
<1>2. ASSUME NEW u \in User, NEW t \in Task, NEW e \in TaskEvent, NEW c \in BOOLEAN,
             begin_task_event(u, t, e, c)
      PROVE  Rest
  <2>1. UNCHANGED <<log, now, touched, job>>
    BY <1>2 DEF begin_task_event
  <2> QED
    BY <2>1, <1>0, <1>1, ReleasingBesides
<1>3. ASSUME NEW q \in open, commit_task_event(q) \/ abort_task_event(q)
      PROVE  Rest
  <2>1. UNCHANGED <<now, touched, job>>
    BY <1>3 DEF commit_task_event, abort_task_event
  <2>2. OldRows
    <3>1. CASE abort_task_event(q)
      BY <3>1, <1>1 DEF abort_task_event
    <3>2. CASE commit_task_event(q)
      <4>1. PICK W : W = {RowOf(q)}
        OBVIOUS
      <4>2. log' = log \union W
        BY <3>2, <4>1 DEF commit_task_event
      <4>3. \A w \in W : ~(w.at < now)
        BY <4>1, <1>0 DEF RowOf, Near
      <4> QED
        BY <4>2, <4>3, OldRowsOfWrite
    <3> QED
      BY <3>1, <3>2, <1>3
  <2> QED
    BY <2>1, <2>2, <1>0, ReleasingBesides
<1>4. ASSUME NEW u \in User, delete_user(u) \/ create_user(u)
      PROVE  Rest
  <2>1. UNCHANGED <<now, touched, job>>
    BY <1>4 DEF delete_user, create_user
  <2>2. OldRows
    <3>1. CASE create_user(u)
      BY <3>1, <1>1 DEF create_user
    <3>2. CASE delete_user(u)
      <4>1. log' = Forget(log, u)
        BY <3>2 DEF delete_user, Forget
      <4> QED
        BY <4>1, OldRowsOfForget
    <3> QED
      BY <3>1, <3>2, <1>4
  <2> QED
    BY <2>1, <2>2, <1>0, ReleasingBesides
<1>5. ASSUME NEW p \in Project, update_entity(p)
      PROVE  Rest
  <2>1. UNCHANGED <<log, now, job>> /\ touched' = [touched EXCEPT ![p] = now]
    BY <1>5 DEF update_entity
  <2>2. \A q \in Project : touched[q] <= touched'[q]
    BY <2>1, <1>0 DEF TypeOK
  <2> QED
    BY <2>1, <2>2, <1>1, ReleasingBesides
<1>6. ASSUME NEW j \in Job, j # Cron, job_step(j)
      PROVE  Rest
  <2>1. now' = now /\ job'[Cron] = job[Cron]
    <3>1. \E x : job' = [job EXCEPT ![j] = x]
      BY <1>6 DEF job_step, job_start, job_reset, job_unlock, job_commit, job_fail, job_skip,
                    job_check
    <3>2. now' = now
      BY <1>6 DEF job_step, job_start, job_reset, job_unlock, job_commit, job_fail, job_skip,
                    job_check
    <3> QED
      BY <3>1, <3>2, <1>0, <1>6 DEF TypeOK
  <2>2. OldRows
    <3>1. CASE log' = log
      BY <3>1, <1>1
    <3>2. CASE job_commit(j)
      <4>1. \A w \in job[j].wrote : w.at = now
        BY <3>2, <1>0 DEF job_commit, Near, IInv, WroteInv, ResetRow
      <4>2. log' = log \union job[j].wrote
        BY <3>2 DEF job_commit
      <4> QED
        BY <4>1, <4>2, <1>0, OldRowsOfWrite
    <3> QED
      BY <3>1, <3>2, <1>6
         DEF job_step, job_start, job_reset, job_unlock, job_fail, job_skip, job_check
  <2>3. \A q \in Project : touched[q] <= touched'[q]
    <3>1. CASE touched' = touched
      BY <3>1, <1>0
    <3>2. CASE touched' # touched
      <4>1. touched' = [touched EXCEPT ![job[j].cur] = now]
        BY <3>2, <1>6
           DEF job_step, job_start, job_reset, job_unlock, job_commit, job_fail, job_skip, job_check
      <4> QED
        BY <4>1, <1>0 DEF TypeOK
    <3> QED
      BY <3>1, <3>2
  <2> QED
    BY <2>1, <2>2, <2>3, ReleasingBesides
<1>7. ASSUME job_start(Cron)
      PROVE  Rest
  <2>1. /\ job'[Cron] = [pc |-> "next", stamp |-> clock + 1, at |-> now, todo |-> active_projects,
                         cur |-> NoProject, wrote |-> {}]
        /\ UNCHANGED <<log, now, touched>>
    BY <1>7, <1>0 DEF job_start, TypeOK
  <2>2. Order'
    <3>1. \A r \in log : r.stamp < clock + 1
      BY <1>0 DEF IInv, StampsBelow, TypeOK
    <3> QED
      BY <2>1, <3>1 DEF Order
  <2>3. Handled'
    <3>1. ASSUME NEW t \in Task, NEW r \in log, Due(r, t, job[Cron].at)'
          PROVE  TaskProject[t] \in job'[Cron].todo
      <4>1. r.task = t /\ r.at >= now - ActiveWindow
        BY <2>1, <3>1, <1>b DEF Due
      <4>2. TaskProject[t] \in active_projects
        BY <4>1, <1>a DEF active_projects
      <4> QED
        BY <4>2, <2>1
    <3> QED
      BY <2>1, <3>1 DEF Handled
  <2>4. StaleLockReleased'
    BY <2>1, <1>0 DEF StaleLockReleased, Overstayed
  <2> QED
    BY <2>2, <2>3, <2>4
<1>8. ASSUME NEW p \in Project, job_skip(Cron, p) \/ job_check(Cron, p)
      PROVE  Rest
  <2>1. /\ UNCHANGED <<log, now, touched>>
        /\ job[Cron].pc = "next" /\ job'[Cron].pc # "idle"
        /\ job'[Cron].at = job[Cron].at /\ job'[Cron].stamp = job[Cron].stamp
        /\ job'[Cron].wrote = job[Cron].wrote /\ job'[Cron].todo = job[Cron].todo \ {p}
    BY <1>8, <1>0 DEF job_skip, job_check, TypeOK, JobState
  <2>2. job[Cron].cur = NoProject
    BY <2>1, <1>0 DEF Handled
  <2>3. CASE job_skip(Cron, p)
    <3>1. touched[p] > job[Cron].at - EntityWindow /\ job'[Cron].cur = job[Cron].cur
      BY <2>3, <1>0 DEF job_skip, TypeOK, JobState
    <3>2. \A t \in Task : \A r \in log : Due(r, t, job[Cron].at) => TaskProject[t] # p
      BY <3>1, <1>0, <1>a DEF Due
    <3> QED
      BY <3>1, <3>2, <2>1, <2>2, <1>0, ReleasingWithin
  <2>4. CASE job_check(Cron, p)
    <3>1. job'[Cron].cur = p /\ job'[Cron].pc = "reset"
      BY <2>4, <1>0 DEF job_check, TypeOK, JobState
    <3>2. \A t \in Task : TaskProject[t] \in job[Cron].todo \union {job[Cron].cur} =>
                            TaskProject[t] \in job'[Cron].todo \union {job'[Cron].cur}
      BY <3>1, <2>1, <2>2, <1>a
    <3> QED
      BY <3>1, <3>2, <2>1, <1>0, ReleasingWithin
  <2> QED
    BY <2>3, <2>4, <1>8
<1>9. ASSUME job_reset(Cron)
      PROVE  Rest
  <2>1. /\ UNCHANGED <<log, now>>
        /\ job[Cron].pc = "reset" /\ job'[Cron] = [job[Cron] EXCEPT !.pc = "unlock"]
        /\ touched' = touched \/ touched' = [touched EXCEPT ![job[Cron].cur] = now]
    BY <1>9, <1>0 DEF job_reset, TypeOK
  <2>2. /\ job'[Cron].pc = "unlock" /\ job'[Cron].at = job[Cron].at
        /\ job'[Cron].stamp = job[Cron].stamp /\ job'[Cron].todo = job[Cron].todo
        /\ job'[Cron].cur = job[Cron].cur /\ job'[Cron].wrote = job[Cron].wrote
    BY <2>1, <1>0 DEF JobState
  <2>3. \A q \in Project : touched[q] <= touched'[q]
    BY <2>1, <1>0 DEF TypeOK
  <2> QED
    BY <2>1, <2>2, <2>3, <1>0, ReleasingWithin
<1>10. ASSUME job_unlock(Cron)
       PROVE  Rest
  <2>1. /\ UNCHANGED <<log, now, touched>> /\ job[Cron].pc = "unlock"
        /\ job'[Cron].pc = "next" /\ job'[Cron].cur = NoProject
        /\ job'[Cron].at = job[Cron].at /\ job'[Cron].stamp = job[Cron].stamp
        /\ job'[Cron].todo = job[Cron].todo
        /\ job'[Cron].wrote = job[Cron].wrote \union {ResetRow(Cron, t) : t \in unlockable(Cron)}
    BY <1>10, <1>0 DEF job_unlock, TypeOK, JobState
  <2>2. ASSUME NEW t \in Task, NEW r \in log, Due(r, t, job[Cron].at),
               TaskProject[t] = job[Cron].cur
        PROVE  t \in unlockable(Cron)
    <3>1. SilentRows(log, t) = StateRows(log, t)
      BY DEF Agreeing, SilentRows, StateRows
    <3>2. Expired(r, job[Cron].at)
      BY <2>2, <1>0, <1>a DEF Due, Expired
    <3>3. IsStaleLock(log, t, job[Cron].at)
      BY <2>2, <3>1, <3>2 DEF Due, IsStaleLock, IsNewest
    <3> QED
      BY <2>2, <3>3, <1>0 DEF unlockable, Near
  <2>3. \A t \in Task : \A r \in log :
          /\ Due(r, t, job[Cron].at)
          /\ \/ TaskProject[t] \in job[Cron].todo \union {job[Cron].cur}
             \/ ResetRow(Cron, t) \in job[Cron].wrote
          => \/ TaskProject[t] \in job'[Cron].todo \union {job'[Cron].cur}
             \/ ResetRow(Cron, t) \in job'[Cron].wrote
    BY <2>1, <2>2
  <2> QED
    BY <2>1, <2>3, <1>0, ReleasingWithin
<1>11. ASSUME job_commit(Cron)
       PROVE  Rest
  <2>1. /\ UNCHANGED <<now, touched>> /\ log' = log \union job[Cron].wrote
        /\ job[Cron].pc = "next" /\ job[Cron].todo = {} /\ job[Cron].cur = NoProject
        /\ job'[Cron].pc = "idle" /\ job'[Cron].at = job[Cron].at /\ job[Cron].at = now
    BY <1>11, <1>0 DEF job_commit, Idle, TypeOK, Handled, Near
  <2>2. \A w \in job[Cron].wrote : w.at = now
    BY <2>1, <1>0 DEF IInv, WroteInv, ResetRow
  <2>3. OldRows
    BY <2>1, <2>2, <1>0, OldRowsOfWrite
  <2>4. ASSUME NEW t \in Task, NEW r \in log', r.at < now, r.event = "MAP",
               IsNewest(r, StateRows(log', t)),
               r.at + MapHold < now, r.at >= now - ActiveWindow,
               touched[TaskProject[t]] + EntityWindow <= now
        PROVE  FALSE
    <3>1. PICK s \in log : /\ s.at = r.at /\ s.stamp = r.stamp /\ s.event = "MAP"
                           /\ IsNewest(s, StateRows(log, t))
      BY <2>3, <2>4 DEF OldRows
    <3>2. Due(s, t, job[Cron].at)
      BY <2>1, <2>4, <3>1 DEF Due
    <3>3. ResetRow(Cron, t) \in job[Cron].wrote
      BY <2>1, <3>2, <1>0, <1>a DEF Handled
    <3>4. ResetRow(Cron, t) \in StateRows(log', t) /\ ResetRow(Cron, t).stamp = job[Cron].stamp
      BY <2>1, <3>3 DEF StateRows, ResetRow
    <3>5. job[Cron].stamp <= r.stamp
      BY <2>4, <3>4 DEF IsNewest
    <3>6. s.stamp < job[Cron].stamp
      BY <2>1, <2>4, <3>1, <1>0 DEF Order
    <3> QED
      BY <3>1, <3>5, <3>6, <1>0, <1>a
  <2>5. \A r \in log' : r.at \in Nat
    BY DEF TypeOK, Row
  <2>6. Handled'
    <3> SUFFICES ASSUME NEW t \in Task, NEW r \in log', Due(r, t, job[Cron].at)'
                 PROVE  FALSE
      BY <2>1 DEF Handled
    <3>1. /\ IsNewest(r, StateRows(log', t)) /\ r.event = "MAP"
          /\ r.at + MapHold < now /\ r.at >= now - ActiveWindow
          /\ touched[TaskProject[t]] + EntityWindow <= now
      BY <2>1 DEF Due
    <3> QED
      BY <3>1, <2>4, <2>5, <1>0
  <2>7. StaleLockReleased'
    <3> SUFFICES ASSUME NEW t \in Task, NEW r \in log', Overstayed(r, t)',
                        ~(r.at < now - ActiveWindow)
                 PROVE  FALSE
      BY <2>1 DEF StaleLockReleased
    <3>1. /\ IsNewest(r, StateRows(log', t)) /\ r.event = "MAP"
          /\ r.at + MapHold + CronPeriod < now
          /\ touched[TaskProject[t]] + EntityWindow + CronPeriod <= now
      BY <2>1 DEF Overstayed
    <3>2. /\ r.at < now /\ r.at + MapHold < now /\ r.at >= now - ActiveWindow
          /\ touched[TaskProject[t]] + EntityWindow <= now
      BY <3>1, <2>5, <1>0, <1>a
    <3> QED
      BY <3>1, <3>2, <2>4
  <2>8. Order'
    BY <2>1 DEF Order
  <2> QED
    BY <2>6, <2>7, <2>8
<1>12. ~job_fail(Cron)
  BY DEF job_fail, Timely
<1>13. ASSUME tick
       PROVE  Rest
  <2>1. /\ now' = now + 1 /\ UNCHANGED <<log, touched, job>>
        /\ job[Cron].pc = "idle" /\ now < job[Cron].at + CronPeriod /\ job[Cron].at <= now
    BY <1>13, <1>0 DEF tick, Timely, Near
  <2>2. \A t \in Task : \A r \in log : ~Due(r, t, job[Cron].at)
    BY <2>1, <1>0 DEF Handled
  <2>3. StaleLockReleased'
    <3> SUFFICES ASSUME NEW t \in Task, NEW r \in log, Overstayed(r, t)',
                        ~(r.at < now' - ActiveWindow)
                 PROVE  FALSE
      BY <2>1 DEF StaleLockReleased
    <3>1. /\ IsNewest(r, StateRows(log, t)) /\ r.event = "MAP"
          /\ r.at + MapHold + CronPeriod < now + 1
          /\ touched[TaskProject[t]] + EntityWindow + CronPeriod <= now + 1
          /\ r.at >= now + 1 - ActiveWindow
      BY <2>1, <1>0 DEF Overstayed
    <3>2. /\ r.at + MapHold < job[Cron].at /\ r.at >= job[Cron].at - ActiveWindow
          /\ touched[TaskProject[t]] + EntityWindow <= job[Cron].at
      BY <3>1, <2>1, <1>0, <1>a
    <3> QED
      BY <3>1, <3>2, <2>2 DEF Due
  <2>4. Order' /\ Handled'
    BY <2>1, <1>0 DEF Order, Handled, Due
  <2> QED
    BY <2>3, <2>4
<1>14. ASSUME UNCHANGED vars
       PROVE  Rest
  BY <1>14, <1>0, <1>1, ReleasingBesides DEF vars
<1>15. ASSUME NEW j \in Job, job_step(j)
       PROVE  Rest
  BY <1>15, <1>6, <1>7, <1>8, <1>9, <1>10, <1>11, <1>12 DEF job_step
<1>16. Rest
  BY <1>2, <1>3, <1>4, <1>5, <1>13, <1>14, <1>15 DEF Next
<1> QED
  BY <1>16, NearStep DEF Releasing

\* StaleLockReleased: if the scheduled runs are on time, every one succeeds, svcfmtm is not deleted
\* and clients comment with COMMENT events only, a MAP lock without progress is released MapHold +
\* CronPeriod hours after it was taken, whatever other runs there are.
THEOREM StaleLockReleasedHolds == Timely => (Spec => []StaleLockReleased)
<1> SUFFICES ASSUME Timely PROVE Spec => []StaleLockReleased
  OBVIOUS
<1>1. Init => Releasing
  BY TaskAssumption DEF Init, Releasing, Near, Order, Handled, StaleLockReleased, Idle
<1>2. /\ IInv /\ IInv' /\ Agreeing /\ Releasing /\ [Next]_vars => Releasing'
  BY ReleasingStep DEF IInv
<1>3. Releasing => StaleLockReleased
  BY DEF Releasing
<1>4. Conventional
  BY DEF Timely
<1>5. Spec => []Agreeing
  BY <1>4, AgreeingHolds
<1> QED
  BY <1>1, <1>2, <1>3, <1>5, Invariant, PTL DEF Spec

-----------------------------------------------------------------------------
(* The event log implements the abstract board. *)

board == [t \in Task |-> [state |-> task_state(log, t), stamp |-> state_stamp(log, t)]]

LEMMA BoardSame ==
  ASSUME \A t \in Task : /\ task_state(log, t)' = task_state(log, t)
                         /\ state_stamp(log, t)' = state_stamp(log, t)
  PROVE  board' = board
BY DEF board

LEMMA BoardStamp ==
  ASSUME NEW L \in Log, NEW t \in Task
  PROVE  /\ state_stamp(L, t) \in Nat
         /\ state_stamp(L, t) = 0 \/ \E r \in L : r.stamp = state_stamp(L, t)
<1>1. CASE StateRows(L, t) = {}
  BY <1>1 DEF state_stamp
<1>2. CASE StateRows(L, t) # {}
  <2>1. PICK m \in StateRows(L, t) : IsNewest(m, StateRows(L, t))
    BY <1>2 DEF Log, HasNewest
  <2>2. state_stamp(L, t) = m.stamp
    BY <2>1, StateFromNewest DEF Log
  <2> QED
    BY <2>1, <2>2 DEF StateRows, Log, Row
<1> QED
  BY <1>1, <1>2

\* A committed event is a write of one register, or is not noticed.
LEMMA CommitRefines ==
  ASSUME IInv, NEW q \in open, commit_task_event(q)
  PROVE  (\E t \in Task : Board!Write(t)) \/ board' = board
<1> DEFINE W == {RowOf(q)}
<1>1. log' = log \union W
  BY DEF commit_task_event
<1>2. log \in Log /\ W \in SUBSET Row /\ Batch(W, log)
  BY RequestBatch DEF IInv, TypeOK, LogInv, Log
<1>3. q \in Request /\ q.stamp \in Nat /\ q.task \in Task /\ q.event \in TaskEvent /\ q.stamp > 0
  BY DEF IInv, TypeOK, Request, StampsPositive
<1>4. /\ RowOf(q).stamp = q.stamp /\ RowOf(q).task = q.task /\ RowOf(q).event = q.event
      /\ RowOf(q).state = set_task_state[q.event]
  BY DEF RowOf
<1>5. ASSUME NEW t \in Task, t # q.task \/ q.event = "COMMENT" \/ q.stamp < state_stamp(log, t)
      PROVE  /\ task_state(log', t) = task_state(log, t)
             /\ state_stamp(log', t) = state_stamp(log, t)
  <2>1. \A w \in StateRows(W, t) : w.stamp < state_stamp(log, t)
    BY <1>4, <1>5 DEF StateRows
  <2> QED
    BY <1>1, <1>2, <2>1, OldWriteIgnored
<1>6. CASE q.event = "COMMENT" \/ q.stamp < state_stamp(log, q.task)
  BY <1>5, <1>6, BoardSame
<1>7. CASE q.event # "COMMENT" /\ ~(q.stamp < state_stamp(log, q.task))
  <2>1. q.stamp > state_stamp(log, q.task)
    <3>1. /\ state_stamp(log, q.task) \in Nat
          /\ state_stamp(log, q.task) = 0 \/ \E r \in log : r.stamp = state_stamp(log, q.task)
      BY <1>2, <1>3, BoardStamp
    <3>2. \A r \in log : r.stamp # q.stamp
      BY DEF IInv, StampsApart
    <3>3. q.stamp # state_stamp(log, q.task)
      BY <1>3, <3>1, <3>2
    <3> QED
      BY <1>3, <1>7, <3>1, <3>3
  <2>2. RowOf(q) \in StateRows(W, q.task)
    BY <1>4, <1>7 DEF StateRows
  <2>3. state_stamp(log, q.task) <= RowOf(q).stamp
    BY <1>2, <1>3, <1>4, <2>1, BoardStamp
  <2>4. /\ task_state(log', q.task) = set_task_state[q.event]
        /\ state_stamp(log', q.task) = q.stamp
    BY <1>1, <1>2, <1>3, <1>4, <2>2, <2>3, NewWriteTakes
  <2>5. board' = [board EXCEPT ![q.task] = board'[q.task]]
    BY <1>3, <1>5 DEF board
  <2>6. board'[q.task] = [state |-> set_task_state[q.event], stamp |-> q.stamp]
    BY <1>3, <2>4 DEF board
  <2>7. set_task_state[q.event] \in MappingState
    BY <1>3, <1>7, TriggerType
  <2>8. board'[q.task] \in Board!Cell /\ board'[q.task].stamp > board[q.task].stamp
    BY <1>3, <2>1, <2>6, <2>7 DEF Board!Cell, Board!States, MappingState, board
  <2>9. Board!Write(q.task)
    BY <2>5, <2>8 DEF Board!Write, board
  <2> QED
    BY <1>3, <2>9
<1> QED
  BY <1>6, <1>7

\* The commit of a run of the job is a release, or is not noticed.
LEMMA JobCommitRefines ==
  ASSUME IInv, NEW j \in Job, job_commit(j)
  PROVE  (\E t \in Task : Board!Release(board'[t].stamp)) \/ board' = board
<1> DEFINE W == job[j].wrote
           T == {t \in Task : StateRows(W, t) # {} /\ state_stamp(log, t) < job[j].stamp}
<1>1. log' = log \union W /\ job[j].pc # "idle"
  BY DEF job_commit
<1>2. log \in Log /\ W \in SUBSET Row /\ Batch(W, log)
  BY <1>1, JobBatch DEF IInv, TypeOK, LogInv, Log
<1>3. job[j].stamp \in Nat /\ job[j].stamp > 0
  BY <1>1, JobStampNat DEF IInv, StampsPositive
<1>4. \A w \in W : w.stamp = job[j].stamp /\ w.state = "UNLOCKED_TO_MAP"
  <2>1. set_task_state["RESET"] = "UNLOCKED_TO_MAP"
    BY DEF set_task_state, TaskEvent
  <2> QED
    BY <2>1 DEF IInv, WroteInv, ResetRow
<1>5. \A t \in Task : state_stamp(log, t) \in Nat /\ state_stamp(log, t) # job[j].stamp
  <2> TAKE t \in Task
  <2>1. \A r \in log : r.stamp # job[j].stamp
    BY <1>1 DEF IInv, StampsApart
  <2> QED
    BY <1>2, <1>3, <2>1, BoardStamp
<1>6. ASSUME NEW t \in Task \ T
      PROVE  /\ task_state(log', t) = task_state(log, t)
             /\ state_stamp(log', t) = state_stamp(log, t)
  <2>1. \A w \in StateRows(W, t) : w.stamp < state_stamp(log, t)
    BY <1>3, <1>4, <1>5, <1>6 DEF StateRows
  <2> QED
    BY <1>1, <1>2, <2>1, OldWriteIgnored
<1>7. ASSUME NEW t \in T
      PROVE  /\ task_state(log', t) = "UNLOCKED_TO_MAP"
             /\ state_stamp(log', t) = job[j].stamp
  <2>1. PICK w \in StateRows(W, t) : TRUE
    BY <1>7
  <2>2. w.stamp = job[j].stamp /\ w.state = "UNLOCKED_TO_MAP"
    BY <1>4, <2>1 DEF StateRows
  <2>3. state_stamp(log, t) <= w.stamp
    BY <1>3, <1>5, <1>7, <2>2
  <2> QED
    BY <1>1, <1>2, <1>7, <2>1, <2>2, <2>3, NewWriteTakes
<1> HIDE DEF T
<1>8. T \in SUBSET Task
  BY DEF T
<1>9. CASE T = {}
  BY <1>6, <1>9, BoardSame
<1>10. CASE T # {}
  <2>1. PICK t \in T : TRUE
    BY <1>10
  <2>2. board'[t].stamp = job[j].stamp
    BY <1>7, <1>8, <2>1 DEF board
  <2>3. \A u \in T : job[j].stamp > board[u].stamp
    BY <1>3, <1>5, <1>8 DEF board, T
  <2>4. board' = [u \in Task |-> IF u \in T
                                   THEN [state |-> "UNLOCKED_TO_MAP", stamp |-> job[j].stamp]
                                   ELSE board[u]]
    BY <1>6, <1>7, <1>8 DEF board
  <2>5. Board!Release(job[j].stamp)
    BY <1>8, <2>3, <2>4 DEF Board!Release, board
  <2> QED
    BY <1>8, <2>1, <2>2, <2>5
<1> QED
  BY <1>9, <1>10

\* The event log, with its comments, deleted users, late commits and overlapping runs of
\* the job, implements one last-writer-wins register per task (TaskBoard).
THEOREM Implements == Spec => BoardSpec
<1>1. Init => Board!Init
  BY DEF Init, Board!Init, task_state, state_stamp, StateRows
<1>2. ASSUME IInv, [Next]_vars PROVE Board!Next \/ board' = board
  <2>1. log \in Log
    BY <1>2 DEF IInv, TypeOK, LogInv, Log
  <2>2. CASE log' = log
    BY <2>2, BoardSame
  <2>3. ASSUME NEW u \in User, log' = Forget(log, u) PROVE board' = board
    BY <2>1, <2>3, ForgetKeeps, BoardSame
  <2> QED
    BY <1>2, <2>2, <2>3, LogSteps, CommitRefines, JobCommitRefines DEF Board!Next, board
<1>3. IInv /\ [Next]_vars => [Board!Next]_board
  BY <1>2
<1> QED
  BY <1>1, <1>3, Invariant, PTL DEF Spec, BoardSpec, Board!Spec, board

=============================================================================

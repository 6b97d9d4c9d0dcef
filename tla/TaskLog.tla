------------------------------ MODULE TaskLog ------------------------------
(***************************************************************************)
(* The table task_events as data, and the three ways the backend reads it. *)
(*                                                                         *)
(* Task events are append-only rows.  The trigger task_event_state_trigger *)
(* fills in the column "state" of every row from its event alone; the      *)
(* state of a task is not stored anywhere, it is the state of the newest   *)
(* row of the task that is not a comment (DbTask.one, DbTask.all).  The    *)
(* job that releases abandoned locks reads the same table through another  *)
(* filter: the newest row that has no comment text.                        *)
(*                                                                         *)
(* A row carries created_at = now(), which in PostgreSQL is the start of   *)
(* the transaction and not its commit.  It is modelled by two fields: "at" *)
(* is its hour, for the ages the job compares, and "stamp" its rank among  *)
(* all transaction starts, for the order of the rows.                      *)
(***************************************************************************)
EXTENDS Integers

CONSTANTS
    MapHold,      \* hours a MAP lock may stay without progress (3)
    AssignHold    \* hours an ASSIGN lock may stay without progress (72)

ASSUME HoldAssumption == MapHold \in Nat /\ AssignHold \in Nat

\* db/enums.py TaskEvent: what a client may post; RESET is also what the job writes.
TaskEvent == {"MAP", "FINISH", "VALIDATE", "GOOD", "BAD", "SPLIT", "MERGE",
              "ASSIGN", "COMMENT", "RESET"}

\* db/enums.py MappingState.
MappingState == {"UNLOCKED_TO_MAP", "LOCKED_FOR_MAPPING", "UNLOCKED_TO_VALIDATE",
                 "LOCKED_FOR_VALIDATION", "UNLOCKED_DONE"}

\* The SQL NULL in the column state.
NoState == "NULL"

(***************************************************************************)
(* The trigger: OLD is NULL in an INSERT trigger, so a COMMENT row gets no *)
(* state.                                                                  *)
(***************************************************************************)
set_task_state ==
  [e \in TaskEvent |->
     CASE e \in {"MAP", "ASSIGN"}           -> "LOCKED_FOR_MAPPING"
       [] e = "FINISH"                      -> "UNLOCKED_TO_VALIDATE"
       [] e = "VALIDATE"                    -> "LOCKED_FOR_VALIDATION"
       [] e \in {"GOOD", "SPLIT", "MERGE"}  -> "UNLOCKED_DONE"
       [] e \in {"BAD", "RESET"}            -> "UNLOCKED_TO_MAP"
       [] e = "COMMENT"                     -> NoState]

\* r is the newest of rows: ORDER BY created_at DESC LIMIT 1.
IsNewest(r, rows) == r \in rows /\ \A q \in rows : q.stamp <= r.stamp

Newest(rows) == CHOOSE r \in rows : IsNewest(r, rows)

\* Mutant of StateRows: comments are not filtered out.
StateRows_all(log, t) == {r \in log : r.task = t}

\* The rows DbTask.one and DbTask.all look at.
StateRows(log, t) == {r \in log : r.task = t /\ r.event # "COMMENT"}

\* The rows unlock_old_locked_tasks looks at.
SilentRows(log, t) == {r \in log : r.task = t /\ ~r.comment}

\* The computed column task_state.
task_state(log, t) ==
  IF StateRows(log, t) = {} THEN "UNLOCKED_TO_MAP" ELSE Newest(StateRows(log, t)).state

\* The rank of the row that decides the state of t; 0 if there is none.
state_stamp(log, t) ==
  IF StateRows(log, t) = {} THEN 0 ELSE Newest(StateRows(log, t)).stamp

\* Mutant of Expired: one age limit for both locks.
Expired_same(r, now) == r.event \in {"ASSIGN", "MAP"} /\ r.at < now - AssignHold

(***************************************************************************)
(* The WHERE clause of filtered_events: the newest silent row is a lock    *)
(* that is too old at hour "now".                                          *)
(***************************************************************************)
Expired(r, now) ==
  \/ r.event = "ASSIGN" /\ r.at < now - AssignHold
  \/ r.event = "MAP"    /\ r.at < now - MapHold

\* Mutant of IsStaleLock: DISTINCT ON without ORDER BY, any silent row of the task.
IsStaleLock_any(log, t, now) == \E r \in SilentRows(log, t) : Expired(r, now)

IsStaleLock(log, t, now) ==
  \E r \in SilentRows(log, t) : IsNewest(r, SilentRows(log, t)) /\ Expired(r, now)
=============================================================================

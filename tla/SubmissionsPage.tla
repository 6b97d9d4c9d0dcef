--------------------------- MODULE SubmissionsPage --------------------------
(***************************************************************************)
(* The submissions of a project in the management frontend: the table with *)
(* its filter and pages, and the review of one submission, together with   *)
(* the project page it shares its browser and its store with.              *)
(*                                                                         *)
(* A review is one click and up to four requests to three places: the      *)
(* review state of the submission and the status of its entity in ODK      *)
(* Central, and the rows of the geometry log.  Only the first is awaited,  *)
(* each has its own permission, and any of them may fail alone.            *)
(***************************************************************************)
EXTENDS ProjectPage, Sequences, FiniteSets

CONSTANTS
    Sub, NoSub,      \* submissions of the project's form
    Entity, EntityOf, \* row.feature: the entity a submission is about
    Pages,           \* pagination.pages
    MaxTable,        \* bound: requests for the table, those of a page just opened not counted
    MaxReviews       \* bound: reviews, and openings of the modal

ASSUME SubmissionsAssumption ==
  /\ EntityOf \in [Sub -> Entity] /\ NoSub \notin Sub
  /\ Pages \in {1, 2} /\ MaxTable \in Nat /\ MaxReviews \in Nat

VARIABLES
    table,          \* submissionTableData, with the number of the request it answers; None at first
    tableLoading,   \* submissionTableDataLoading
    tableCalls, tableSent,
    modal,          \* updateReviewStatusModal: the submission, and its review state in the table
    reviewStatus,   \* the button chosen in the modal
    badGeomLogList, \* the store's copy of the log
    logCalls, asked,    \* requests for the log; number of them
    updating,       \* the call of handleStatusUpdate that awaits its first request
    writes,         \* the requests it sent after that
    reviews,
    reviewState,    \* ODK Central: __system.reviewState
    status,         \* ODK Central: the status property of an entity
    geometrylog,    \* the rows with status BAD
    verdict         \* history: the last review of an entity, if nothing interfered

tableVars == <<table, tableLoading, tableCalls, tableSent>>
modalVars == <<modal, reviewStatus, badGeomLogList, logCalls, asked>>
reviewVars == <<updating, writes, reviews, reviewState, status, geometrylog, verdict>>
vars == <<pageVars, tableVars, modalVars, reviewVars>>

-----------------------------------------------------------------------------
Verdict == {"approved", "hasIssues"}
ReviewState == Verdict \union {"received"}

\* A row of the log is known by who added it with his how-many-th review.
GeomRow == [entity : Entity, who : {"me", "other"}, n : Nat]
RowsOf(rows, e) == {g \in rows : g.entity = e}

Query == [task_id : Task \union {NoTask}, pagination : 1..Pages]

Write ==
  [n : Nat, kind : {"post", "status"}, sub : Sub, verdict : Verdict]
    \union [n : Nat, kind : {"delete"}, sub : Sub, verdict : Verdict, row : GeomRow]

\* A review whose first request is awaited, with the log as the modal knew it.
Update == [sub : Sub, verdict : Verdict, list : SUBSET GeomRow, answer : {None, "done", "failed"}]

ASSUME UpdateAssumption == None \notin Update \union {"done", "failed"}

TypeOK ==
  /\ PageTypeOK
  /\ table \in [n : Nat, query : Query, rows : [Sub -> ReviewState]] \union {None}
  /\ tableLoading \in BOOLEAN /\ tableSent \in Nat
  /\ tableCalls \subseteq [n : 1..tableSent, query : Query, answer : [Sub -> ReviewState] \union {None}]
  /\ modal \in [sub : Sub, state : ReviewState] \union {NoSub}
  /\ reviewStatus \in ReviewState
  /\ badGeomLogList \subseteq GeomRow
  /\ asked \in Nat
  /\ logCalls \subseteq [n : 1..asked, answer : (SUBSET GeomRow) \union {None}]
  /\ updating \in Update \union {None}
  /\ writes \subseteq Write
  /\ reviews \in 0..MaxReviews
  /\ reviewState \in [Sub -> ReviewState]
  /\ status \in [Entity -> {"SURVEY_SUBMITTED", "VALIDATED", "MARKED_BAD"}]
  /\ geometrylog \subseteq GeomRow
  /\ verdict \in [Entity -> [sub : Sub, verdict : Verdict] \union {None}]

OnTable == page.name = "table"

Init ==
  /\ PageInit
  /\ table = None /\ tableLoading = OnTable
  /\ tableSent \in 1..(MaxTable + 1)
  /\ tableCalls = IF ~OnTable THEN {}
                  ELSE {[n |-> tableSent, query |-> [task_id |-> NoTask, pagination |-> 1],
                         answer |-> None]}
  /\ modal = NoSub /\ reviewStatus = "received" /\ badGeomLogList = {}
  /\ updating = None /\ writes = {}
  /\ reviews \in 0..MaxReviews
  /\ logCalls = {} /\ asked = reviews
  /\ reviewState = [s \in Sub |-> "received"]
  /\ status = [e \in Entity |-> "SURVEY_SUBMITTED"]
  /\ geometrylog = {}
  /\ verdict = [e \in Entity |-> None]

-----------------------------------------------------------------------------
(* The table. *)

\* SubmissionTableService for each of the queries.
SubmissionTableService(queries) ==
  /\ tableCalls' = tableCalls \union
       {[n |-> tableSent + i, query |-> queries[i], answer |-> None] : i \in DOMAIN queries}
  /\ tableSent' = tableSent + Len(queries)
  /\ tableLoading' = TRUE
  /\ UNCHANGED table

\* GetGeometryLog, when the modal opens, or the page opens with the modal.
GetGeometryLog ==
  /\ logCalls' = logCalls \union {[n |-> asked + 1, answer |-> None]}
  /\ asked' = asked + 1
  /\ UNCHANGED badGeomLogList

\* A step of the project page, and the first effects of the table if that is where it led.
page_step ==
  /\ PageNext
  /\ IF page'.name = "table" /\ ~OnTable
     THEN /\ SubmissionTableService(<<[task_id |-> page'.task_id, pagination |-> 1]>>)
          /\ IF modal = NoSub THEN UNCHANGED modalVars
             ELSE /\ GetGeometryLog
                  /\ reviewStatus' = modal.state /\ UNCHANGED modal
     ELSE UNCHANGED <<tableVars, modalVars>>
  /\ UNCHANGED reviewVars

\* page is the only variable of the project page that changes here.
show(query) ==
  /\ page' = [name |-> "table", task_id |-> query.task_id, pagination |-> query.pagination]
  /\ UNCHANGED <<rights, authDetails, board, old, boundaries, selectedTask, shown, activity,
                 loading, calls, sent, answered, doubts, blind, elsewhere, overlaps, own,
                 events, others>>

\* Mutant of setFilter: the page of the table is kept.
setFilter_keep_page(t) ==
  /\ OnTable /\ tableSent <= MaxTable
  /\ t # NoTask \/ ~tableLoading
  /\ show([task_id |-> t, pagination |-> 1])
  /\ SubmissionTableService(<<[task_id |-> t, pagination |-> page.pagination]>>)
  /\ UNCHANGED <<modalVars, reviewVars>>

\* A task is chosen, or the filter reset: the table is asked for with the page it was at, and
\* then, as that is set to 1, once more.
setFilter(t) ==
  /\ OnTable /\ tableSent <= MaxTable
  /\ t # NoTask \/ ~tableLoading
  /\ show([task_id |-> t, pagination |-> 1])
  /\ LET query(p) == [task_id |-> t, pagination |-> p] IN
     SubmissionTableService(IF page.pagination = 1 THEN <<query(1)>>
                            ELSE <<query(page.pagination), query(1)>>)
  /\ UNCHANGED <<modalVars, reviewVars>>

handleChangePage(p) ==
  /\ OnTable /\ ~tableLoading /\ table # None /\ tableSent <= MaxTable
  /\ p \in 1..Pages /\ p # page.pagination
  /\ show([task_id |-> page.task_id, pagination |-> p])
  /\ SubmissionTableService(<<[task_id |-> page.task_id, pagination |-> p]>>)
  /\ UNCHANGED <<modalVars, reviewVars>>

refreshTable ==
  /\ OnTable /\ ~tableLoading /\ tableSent <= MaxTable
  /\ SubmissionTableService(<<[task_id |-> page.task_id, pagination |-> page.pagination]>>)
  /\ UNCHANGED <<pageVars, modalVars, reviewVars>>

\* The endpoint submission_table.
submission_table(c) ==
  /\ c.answer = None /\ mapper(rights)
  /\ tableCalls' = (tableCalls \ {c}) \union {[c EXCEPT !.answer = reviewState]}
  /\ UNCHANGED <<pageVars, table, tableLoading, tableSent, modalVars, reviewVars>>

\* Any answer is shown, and ends the loading, whatever was asked for after it.
SetSubmissionTable(c) ==
  /\ c.answer # None
  /\ table' = [n |-> c.n, query |-> c.query, rows |-> c.answer]
  /\ tableCalls' = tableCalls \ {c}
  /\ tableLoading' = FALSE
  /\ UNCHANGED <<pageVars, tableSent, modalVars, reviewVars>>

-----------------------------------------------------------------------------
(* The review. *)

closed == modal' = NoSub /\ reviewStatus' = "received"

\* The icon of a row; any submission may be on the page that is shown.
SetUpdateReviewStatusModal(s) ==
  /\ OnTable /\ ~tableLoading /\ table # None
  /\ modal = NoSub /\ asked < MaxReviews
  /\ modal' = [sub |-> s, state |-> table.rows[s]]
  /\ reviewStatus' = table.rows[s]
  /\ GetGeometryLog
  /\ UNCHANGED <<pageVars, tableVars, reviewVars>>

setReviewStatus(v) ==
  /\ OnTable /\ modal # NoSub /\ reviewStatus # v
  /\ reviewStatus' = v
  /\ UNCHANGED <<pageVars, tableVars, modal, badGeomLogList, logCalls, asked, reviewVars>>

Cancel ==
  /\ OnTable /\ modal # NoSub /\ closed
  /\ UNCHANGED <<pageVars, tableVars, badGeomLogList, logCalls, asked, reviewVars>>

\* The outcome of a review is certain if no earlier one of the entity is still being written,
\* and, for an approval, if the modal knows the one row there may be.
certain(e, v) ==
  /\ \A w \in writes : EntityOf[w.sub] # e
  /\ v = "hasIssues" \/ /\ RowsOf(badGeomLogList, e) = RowsOf(geometrylog, e)
                        /\ Cardinality(RowsOf(geometrylog, e)) <= 1

\* Update: nothing is sent for the review state the row of the table has anyway.
handleStatusUpdate ==
  /\ OnTable /\ modal # NoSub /\ reviewStatus # "received" /\ updating = None
  /\ IF modal.state = reviewStatus
     THEN closed /\ UNCHANGED <<updating, reviews, verdict>>
     ELSE /\ reviews < MaxReviews /\ reviews' = reviews + 1
          /\ updating' = [sub |-> modal.sub, verdict |-> reviewStatus, list |-> badGeomLogList,
                          answer |-> None]
          /\ verdict' = [verdict EXCEPT ![EntityOf[modal.sub]] =
               IF certain(EntityOf[modal.sub], reviewStatus)
               THEN [sub |-> modal.sub, verdict |-> reviewStatus] ELSE None]
          /\ UNCHANGED <<modal, reviewStatus>>
  /\ UNCHANGED <<pageVars, tableVars, badGeomLogList, logCalls, asked, writes, reviewState,
                 status, geometrylog>>

\* The rest of handleStatusUpdate, sent whether the review state was set or not.
\* The modal is closed, even if it is by now that of another submission.
after_review(ws) ==
  /\ updating # None /\ updating.answer # None
  /\ IF updating.answer = "done" /\ table # None
     THEN table' = [table EXCEPT !.rows[updating.sub] = updating.verdict]
     ELSE UNCHANGED table
  /\ writes' = writes \union ws
  /\ updating' = None
  /\ closed
  /\ UNCHANGED <<pageVars, tableLoading, tableCalls, tableSent, badGeomLogList, logCalls, asked,
                 reviews, reviewState, status, geometrylog, verdict>>

follow_up(kind) == [n |-> reviews, kind |-> kind, sub |-> updating.sub, verdict |-> updating.verdict]

\* Mutant of review_answered: the row of an earlier bad submission is not looked for.
review_answered_keeps_row ==
  after_review({follow_up("status")} \union
    (IF updating.verdict = "hasIssues" THEN {follow_up("post")} ELSE {}))

\* One row of the entity is deleted if the list had one; which is the first is not known.
review_answered ==
  \/ /\ updating # None /\ updating.verdict = "hasIssues"
     /\ after_review({follow_up("status"), follow_up("post")})
  \/ /\ updating # None /\ updating.verdict = "approved"
     /\ LET known == RowsOf(updating.list, EntityOf[updating.sub]) IN
        \/ known = {} /\ after_review({follow_up("status")})
        \/ \E g \in known :
             after_review({follow_up("status"),
                           [n |-> reviews, kind |-> "delete", sub |-> updating.sub,
                            verdict |-> "approved", row |-> g]})

-----------------------------------------------------------------------------
(* The backend and ODK Central. *)

doubt(s) == verdict' = [verdict EXCEPT ![EntityOf[s]] = None]

\* update_review_state: for project managers.
update_review_state ==
  /\ updating # None /\ updating.answer = None
  /\ IF project_manager(rights)
     THEN /\ updating' = [updating EXCEPT !.answer = "done"]
          /\ reviewState' = [reviewState EXCEPT ![updating.sub] = updating.verdict]
          /\ UNCHANGED verdict
     ELSE /\ updating' = [updating EXCEPT !.answer = "failed"]
          /\ doubt(updating.sub) /\ UNCHANGED reviewState
  /\ UNCHANGED <<pageVars, tableVars, modalVars, writes, reviews, status, geometrylog>>

\* read_geom_logs: a project without a row is answered with 404, which the store takes as [].
read_geom_logs(c) ==
  /\ c.answer = None /\ mapper(rights)
  /\ logCalls' = (logCalls \ {c}) \union {[c EXCEPT !.answer = geometrylog]}
  /\ UNCHANGED <<pageVars, tableVars, modal, reviewStatus, badGeomLogList, asked, reviewVars>>

SetGeometryLog(c) ==
  /\ c.answer # None
  /\ badGeomLogList' = c.answer /\ logCalls' = logCalls \ {c}
  /\ UNCHANGED <<pageVars, tableVars, modal, reviewStatus, asked, reviewVars>>

\* create_geom_log (BAD) and delete_geom_log are for project managers ...
geometry_written(w) ==
  /\ w.kind \in {"post", "delete"}
  /\ writes' = writes \ {w}
  /\ IF ~project_manager(rights)
     THEN doubt(w.sub) /\ UNCHANGED geometrylog
     ELSE /\ geometrylog' = IF w.kind = "delete" THEN geometrylog \ {w.row}
                            ELSE geometrylog \union
                                   {[entity |-> EntityOf[w.sub], who |-> "me", n |-> w.n]}
          /\ UNCHANGED verdict
  /\ UNCHANGED <<pageVars, tableVars, modalVars, updating, reviews, reviewState, status>>

\* ... set_odk_entities_mapping_status for every mapper.
set_odk_entities_mapping_status(w) ==
  /\ w.kind = "status"
  /\ writes' = writes \ {w}
  /\ IF mapper(rights)
     THEN /\ status' = [status EXCEPT ![EntityOf[w.sub]] =
                          IF w.verdict = "approved" THEN "VALIDATED" ELSE "MARKED_BAD"]
          /\ UNCHANGED verdict
     ELSE doubt(w.sub) /\ UNCHANGED status
  /\ UNCHANGED <<pageVars, tableVars, modalVars, updating, reviews, reviewState, geometrylog>>

\* A step of somebody else, or the loss of a request or an answer.
other_step ==
  /\ others < MaxOthers /\ others' = others + 1
  /\ UNCHANGED <<rights, authDetails, board, old, page, boundaries, selectedTask, shown, activity,
                 loading, calls, sent, answered, doubts, blind, elsewhere, overlaps, own, events>>

\* Another reviewer, on his own page.
other_review(s, v) ==
  /\ other_step
  /\ reviewState[s] # v
  /\ reviewState' = [reviewState EXCEPT ![s] = v]
  /\ status' = [status EXCEPT ![EntityOf[s]] = IF v = "approved" THEN "VALIDATED" ELSE "MARKED_BAD"]
  /\ IF v = "hasIssues"
     THEN geometrylog' = geometrylog \union {[entity |-> EntityOf[s], who |-> "other", n |-> others]}
     ELSE LET known == RowsOf(geometrylog, EntityOf[s]) IN
          IF known = {} THEN UNCHANGED geometrylog
          ELSE \E g \in known : geometrylog' = geometrylog \ {g}
  /\ doubt(s)
  /\ UNCHANGED <<tableVars, modalVars, updating, writes, reviews>>

lose_table(c) ==
  /\ other_step
  /\ tableCalls' = tableCalls \ {c} /\ tableLoading' = FALSE
  /\ UNCHANGED <<table, tableSent, modalVars, reviewVars>>

\* GetGeometryLog takes any error for an empty log.
lose_log(c) ==
  /\ other_step
  /\ logCalls' = logCalls \ {c} /\ badGeomLogList' = {}
  /\ UNCHANGED <<tableVars, modal, reviewStatus, asked, reviewVars>>

lose_review ==
  /\ other_step
  /\ updating # None /\ updating.answer # "failed"
  /\ updating' = [updating EXCEPT !.answer = "failed"]
  /\ doubt(updating.sub)
  /\ UNCHANGED <<tableVars, modalVars, writes, reviews, reviewState, status, geometrylog>>

lose_write(w) ==
  /\ other_step
  /\ writes' = writes \ {w}
  /\ doubt(w.sub)
  /\ UNCHANGED <<tableVars, modalVars, updating, reviews, reviewState, status, geometrylog>>

Next ==
  \/ page_step
  \/ \E t \in Task \union {NoTask} : setFilter(t)
  \/ \E p \in 1..Pages : handleChangePage(p)
  \/ refreshTable
  \/ \E c \in tableCalls : submission_table(c) \/ SetSubmissionTable(c) \/ lose_table(c)
  \/ \E s \in Sub : SetUpdateReviewStatusModal(s)
  \/ \E v \in Verdict : setReviewStatus(v)
  \/ Cancel \/ handleStatusUpdate \/ review_answered
  \/ update_review_state \/ lose_review
  \/ \E c \in logCalls : read_geom_logs(c) \/ SetGeometryLog(c) \/ lose_log(c)
  \/ \E w \in writes :
       geometry_written(w) \/ set_odk_entities_mapping_status(w) \/ lose_write(w)
  \/ \E s \in Sub, v \in Verdict : other_review(s, v)

Spec == Init /\ [][Next]_vars

-----------------------------------------------------------------------------
(* Properties. *)

\* The submissions listed are those of the filter and the page that are shown, once nothing is
\* under way and the answer that came last is that to the request sent last: every change of
\* the filter or the page ends with a request for what is then shown.
TableShowsFilter ==
  (OnTable /\ tableCalls = {} /\ table # None) /\ (table.n = tableSent)
  => table.query = [task_id |-> page.task_id, pagination |-> page.pagination]

\* When the requests of a review have all been handled, ODK Central and the geometry log agree
\* with it: an approved entity is VALIDATED and has no bad geometry, a rejected one is
\* MARKED_BAD and has one, unless something was refused or lost, another review of the entity
\* came between, the modal did not know the log, or the log had several rows of the entity.
ReviewAgrees ==
  \A e \in Entity :
    /\ verdict[e] # None
    /\ updating = None \/ EntityOf[updating.sub] # e
    /\ \A w \in writes : EntityOf[w.sub] # e
    => /\ reviewState[verdict[e].sub] = verdict[e].verdict
       /\ status[e] = IF verdict[e].verdict = "approved" THEN "VALIDATED" ELSE "MARKED_BAD"
       /\ verdict[e].verdict = "approved" <=> RowsOf(geometrylog, e) = {}
=============================================================================

--------------------------- MODULE BackgroundJobs ---------------------------
(***************************************************************************)
(* Requests of the backend, the pooled connections they borrow, and the    *)
(* background tasks that go on with a connection after it went back to the *)
(* pool: the files of a large project, and basemaps.  One project; what a  *)
(* statement writes is committed when its connection is, and a connection  *)
(* that has made a basemap commits every statement on its own.             *)
(***************************************************************************)
EXTENDS Naturals, Sequences

CONSTANTS
    Request, NoRequest,
    Kind,           \* what each request asks for
    Source,         \* the tile source of the basemap it makes
    Conn, NoConn,   \* connections of the pool
    MaxFaults,      \* bound: statements, commands and uploads that fail
    MaxRestarts     \* bound: restarts of the API

\* The statements of a request that write, in order.  "files" is generate_files for a large
\* project with custom tiles.
Script ==
  [files  |-> <<"form", "task">>,
   tiles  |-> <<"task">>,
   delete |-> <<"s3", "tasks", "basemaps", "project">>]

ASSUME JobsAssumption ==
  /\ Kind \in [Request -> DOMAIN Script]
  /\ Source \in [Request -> STRING]
  /\ NoRequest \notin Request /\ NoConn \notin Conn
  /\ MaxFaults \in Nat /\ MaxRestarts \in Nat

VARIABLES
    conn,               \* the pool: who holds a connection, its mode, what it has not committed
    request,
    stage,              \* where the background tasks of a request are
    project,            \* whether the project is in the database
    background_tasks,   \* status of the row of each request, if there is one
    basemaps,           \* the same for the table of basemaps
    committed,          \* history: statements that were committed
    object,             \* what of a basemap is in the bucket
    file,               \* for each source the archive in /tmp and the commands that write it
    raised,             \* history: the database calls of a basemap task that raised, by stage
    faults, restarts

tables == <<project, background_tasks, basemaps, committed>>
failures == <<raised, faults, restarts>>
jobsVars == <<conn, request, stage, tables, object, file, failures>>

-----------------------------------------------------------------------------
RowStatus == {"none", "PENDING", "SUCCESS", "FAILED"}

Statement == {"form", "task", "s3", "tasks", "basemaps", "project", "token"}

\* A statement, and for a DELETE the rows it has found.
Write == [by : Request, what : Statement, rows : SUBSET Request]

Stage == {"none", "files", "read", "basemap", "create", "tilepack", "tiling", "upload",
          "uploaded", "listed", "failing", "failed", "unlink", "done"}

\* Where a basemap task calls the database: the try block, then the except block.
Calls == {"create", "uploaded", "listed", "failing", "failed"}

JobsTypeOK ==
  /\ conn \in [Conn -> [holder : Request \union {NoRequest}, autocommit : BOOLEAN,
                        intrans : BOOLEAN, pending : SUBSET Write]]
  /\ request \in [Request -> [at : {"new", "running", "done", "failed"},
                              conn : Conn \union {NoConn}, step : 1..5]]
  /\ stage \in [Request -> Stage]
  /\ project \in BOOLEAN
  /\ background_tasks \in [Request -> RowStatus] /\ basemaps \in [Request -> RowStatus]
  /\ committed \subseteq Request \X Statement
  /\ object \in [Request -> {"none", "partial", "whole"}]
  /\ file \in [{Source[r] : r \in Request} -> [exists : BOOLEAN, writers : SUBSET Request]]
  /\ raised \subseteq Request \X Calls
  /\ faults \in 0..MaxFaults /\ restarts \in 0..MaxRestarts

Idle == [holder |-> NoRequest, autocommit |-> FALSE, intrans |-> FALSE, pending |-> {}]

JobsInit ==
  /\ conn = [c \in Conn |-> Idle]
  /\ request = [r \in Request |-> [at |-> "new", conn |-> NoConn, step |-> 1]]
  /\ stage = [r \in Request |-> "none"]
  /\ project = TRUE
  /\ background_tasks = [r \in Request |-> "none"] /\ basemaps = [r \in Request |-> "none"]
  /\ committed = {}
  /\ object = [r \in Request |-> "none"]
  /\ file = [s \in {Source[r] : r \in Request} |-> [exists |-> FALSE, writers |-> {}]]
  /\ raised = {} /\ faults = 0 /\ restarts = 0

-----------------------------------------------------------------------------
(* Connections. *)

\* What the database holds once the statements of ws are committed.
Commit(ws) ==
  LET gone(what) == UNION {w.rows : w \in {v \in ws : v.what = what}} IN
  /\ project' = (project /\ \A w \in ws : w.what # "project")
  /\ background_tasks' = [r \in Request |->
       IF r \in gone("tasks") THEN "none"
       ELSE IF \E w \in ws : w.by = r /\ w.what = "task" THEN "PENDING"
       ELSE background_tasks[r]]
  /\ basemaps' = [r \in Request |-> IF r \in gone("basemaps") THEN "none" ELSE basemaps[r]]
  /\ committed' = committed \union {<<w.by, w.what>> : w \in ws}

\* A statement is committed at once, or with the transaction it belongs to.
Execute(c, w) ==
  IF conn[c].autocommit
  THEN Commit({w}) /\ UNCHANGED conn
  ELSE /\ conn' = [conn EXCEPT ![c].intrans = TRUE, ![c].pending = @ \union {w}]
       /\ UNCHANGED tables

Rows(what) ==
  CASE what = "tasks"    -> {q \in Request : background_tasks[q] # "none"}
    [] what = "basemaps" -> {q \in Request : basemaps[q] # "none"}
    [] OTHER             -> {}

\* Mutant of GiveBack: the holder is set to the wrong null value.
GiveBack_null(c) ==
  [conn EXCEPT ![c].holder = NoConn, ![c].intrans = FALSE, ![c].pending = {}]

\* The connection context ends: committed or rolled back, and back in the pool as it is.
GiveBack(c) ==
  [conn EXCEPT ![c].holder = NoRequest, ![c].intrans = FALSE, ![c].pending = {}]

\* A row that a transaction has deleted: an UPDATE waits for the end of it.
Locked(r, what) ==
  \E c \in Conn : \E w \in conn[c].pending : w.what = what /\ r \in w.rows

-----------------------------------------------------------------------------
(* Requests. *)

\* The handler's first query; a connection that a background task left in a transaction is
\* handed out as it is.
db_conn(r) ==
  /\ request[r].at = "new" /\ project
  /\ \E c \in Conn :
       /\ conn[c].holder = NoRequest
       /\ conn' = [conn EXCEPT ![c].holder = r, ![c].intrans = ~conn[c].autocommit]
       /\ request' = [request EXCEPT ![r].at = "running", ![r].conn = c]
  /\ UNCHANGED <<stage, tables, object, file, failures>>

statement(r) ==
  LET what == Script[Kind[r]][request[r].step] IN
  /\ request[r].at = "running" /\ request[r].step <= Len(Script[Kind[r]])
  /\ IF what = "s3"
     THEN /\ object' = [q \in Request |-> "none"]       \* delete_all_objs_under_prefix
          /\ UNCHANGED <<conn, tables>>
     ELSE /\ Execute(request[r].conn, [by |-> r, what |-> what, rows |-> Rows(what)])
          /\ UNCHANGED object
  /\ request' = [request EXCEPT ![r].step = @ + 1]
  /\ UNCHANGED <<stage, file, failures>>

\* An exception anywhere in the handler.
fail(r) ==
  /\ request[r].at = "running" /\ faults < MaxFaults
  /\ request' = [request EXCEPT ![r].at = "failed"]
  /\ conn' = GiveBack(request[r].conn)
  /\ faults' = faults + 1
  /\ UNCHANGED <<stage, tables, object, file, raised, restarts>>

\* The connection goes back before the background tasks start.
answer(r) ==
  /\ request[r].at = "running" /\ request[r].step > Len(Script[Kind[r]])
  /\ Commit(conn[request[r].conn].pending)
  /\ conn' = GiveBack(request[r].conn)
  /\ request' = [request EXCEPT ![r].at = "done"]
  /\ stage' = [stage EXCEPT ![r] = CASE Kind[r] = "files" -> "files"
                                 [] Kind[r] = "tiles" -> "basemap"
                                 [] OTHER -> "done"]
  /\ UNCHANGED <<object, file, failures>>

-----------------------------------------------------------------------------
(* Background tasks. *)

To(r, step) == stage' = [stage EXCEPT ![r] = step]

\* It reads the project, talks to ODK Central, and writes the token, on a connection that
\* belongs to the pool.
generate_project_files(r) ==
  LET c == request[r].conn IN
  \/ /\ stage[r] = "files"
     /\ IF project THEN To(r, "read") ELSE To(r, "done")
     /\ conn' = [conn EXCEPT ![c].intrans = ~conn[c].autocommit]
     /\ UNCHANGED <<request, tables, object, file, failures>>
  \/ /\ stage[r] = "read" /\ project
     /\ Execute(c, [by |-> r, what |-> "token", rows |-> {}])
     /\ To(r, "basemap")
     /\ UNCHANGED <<request, object, file, failures>>
  \/ /\ stage[r] = "read"         \* ODK Central fails, or the row is gone
     /\ IF project THEN faults < MaxFaults /\ faults' = faults + 1 ELSE UNCHANGED faults
     /\ To(r, "done")
     /\ UNCHANGED <<conn, request, tables, object, file, raised, restarts>>

\* Mutant of set_autocommit: an open transaction is committed first.
set_autocommit_forced(r) ==
  LET c == request[r].conn IN
  /\ stage[r] = "basemap"
  /\ Commit(conn[c].pending)
  /\ conn' = [conn EXCEPT ![c].autocommit = TRUE, ![c].intrans = FALSE, ![c].pending = {}]
  /\ To(r, "create")
  /\ UNCHANGED <<request, object, file, failures>>

\* psycopg refuses to change the mode inside a transaction; that is outside the try block.
set_autocommit(r) ==
  LET c == request[r].conn IN
  /\ stage[r] = "basemap"
  /\ IF conn[c].intrans
     THEN To(r, "done") /\ UNCHANGED conn
     ELSE To(r, "create") /\ conn' = [conn EXCEPT ![c].autocommit = TRUE]
  /\ UNCHANGED <<request, tables, object, file, failures>>

\* A call of the database raises: what it wrote is written or not.
raises(r, to) ==
  /\ faults < MaxFaults /\ faults' = faults + 1
  /\ raised' = raised \union {<<r, stage[r]>>}
  /\ To(r, to)
  /\ UNCHANGED restarts

\* The row is inserted, and the bounding box read from the project in the same statement; as
\* long as the call has not returned there is no basemap that could be marked as failed.
DbBasemap_create(r) ==
  /\ stage[r] = "create"
  /\ \/ /\ basemaps' = [basemaps EXCEPT ![r] = "PENDING"]
        /\ To(r, IF project THEN "tilepack" ELSE "failed")
        /\ UNCHANGED failures
     \/ /\ basemaps' \in {basemaps, [basemaps EXCEPT ![r] = "PENDING"]}
        /\ raises(r, "failed")
  /\ UNCHANGED <<conn, request, project, background_tasks, committed, object, file>>

mbtiles_file(r) == Source[r]

tilepack(r) ==
  LET s == mbtiles_file(r) IN
  \/ /\ stage[r] = "tilepack"
     /\ file' = [file EXCEPT ![s].exists = TRUE, ![s].writers = @ \union {r}]
     /\ To(r, "tiling")
     /\ UNCHANGED <<conn, request, tables, object, failures>>
  \/ /\ stage[r] = "tiling"
     /\ file' = [file EXCEPT ![s].writers = @ \ {r}]
     /\ \/ To(r, "upload") /\ UNCHANGED faults
        \/ faults < MaxFaults /\ faults' = faults + 1 /\ To(r, "failing")
     /\ UNCHANGED <<conn, request, tables, object, raised, restarts>>

\* Mutant of add_file_to_bucket: a failed upload is not noticed.
add_file_to_bucket_quiet(r) ==
  /\ stage[r] = "upload"
  /\ \/ object' = [object EXCEPT ![r] = "whole"] /\ UNCHANGED faults
     \/ faults < MaxFaults /\ faults' = faults + 1 /\ UNCHANGED object
  /\ To(r, "uploaded")
  /\ UNCHANGED <<conn, request, tables, file, raised, restarts>>

\* The archive may have been removed by another task.
add_file_to_bucket(r) ==
  LET f == file[mbtiles_file(r)] IN
  /\ stage[r] = "upload"
  /\ \/ /\ f.exists
        /\ object' = [object EXCEPT ![r] = IF f.writers = {} THEN "whole" ELSE "partial"]
        /\ To(r, "uploaded") /\ UNCHANGED faults
     \/ /\ IF f.exists THEN faults < MaxFaults /\ faults' = faults + 1 ELSE UNCHANGED faults
        /\ To(r, "failing") /\ UNCHANGED object
  /\ UNCHANGED <<conn, request, tables, file, raised, restarts>>

Marked(rows, r, status) == [rows EXCEPT ![r] = IF @ = "none" THEN @ ELSE status]

\* DbBasemap.update and DbBackgroundTask.update: a pool of their own, so committed at once;
\* an exception if there is no row, or if the database fails.
update(r, table, from, status, ok, none) ==
  LET what == IF table = "basemaps" THEN "basemaps" ELSE "tasks"
      rows == IF table = "basemaps" THEN basemaps ELSE background_tasks
      mark == /\ ~Locked(r, what)
              /\ IF table = "basemaps"
                 THEN basemaps' = Marked(rows, r, status) /\ UNCHANGED background_tasks
                 ELSE background_tasks' = Marked(rows, r, status) /\ UNCHANGED basemaps IN
  /\ stage[r] = from
  /\ \/ /\ mark
        /\ To(r, IF rows[r] = "none" THEN none ELSE ok)
        /\ UNCHANGED failures
     \/ /\ mark \/ UNCHANGED <<basemaps, background_tasks>>
        /\ raises(r, none)
  /\ UNCHANGED <<conn, request, project, committed, object, file>>

succeeded(r) ==
  \/ update(r, "basemaps", "uploaded", "SUCCESS", "listed", "failing")
  \/ update(r, "background_tasks", "listed", "SUCCESS", "unlink", "failing")

\* Mutant of reports_failure: only the basemap is marked.
reports_failure_half(r) == update(r, "basemaps", "failing", "FAILED", "unlink", "unlink")

\* The except block.
reports_failure(r) ==
  \/ update(r, "basemaps", "failing", "FAILED", "failed", "unlink")
  \/ update(r, "background_tasks", "failed", "FAILED", "unlink", "unlink")

unlink(r) ==
  /\ stage[r] = "unlink"
  /\ file' = [file EXCEPT ![mbtiles_file(r)] = [exists |-> FALSE, writers |-> {}]]
  /\ To(r, "done")
  /\ UNCHANGED <<conn, request, tables, object, failures>>

background(r) ==
  \/ generate_project_files(r) \/ set_autocommit(r) \/ DbBasemap_create(r) \/ tilepack(r)
  \/ add_file_to_bucket(r) \/ succeeded(r) \/ reports_failure(r) \/ unlink(r)

\* The process ends: open transactions are rolled back, tasks are forgotten.
restart ==
  /\ restarts < MaxRestarts
  /\ restarts' = restarts + 1
  /\ conn' = [c \in Conn |-> Idle]
  /\ request' = [r \in Request |->
       IF request[r].at = "running" THEN [request[r] EXCEPT !.at = "failed"] ELSE request[r]]
  /\ stage' = [r \in Request |-> IF stage[r] = "none" THEN "none" ELSE "done"]
  /\ file' = [s \in DOMAIN file |-> [exists |-> FALSE, writers |-> {}]]
  /\ UNCHANGED <<tables, object, faults, raised>>

JobsNext ==
  \/ \E r \in Request : db_conn(r) \/ statement(r) \/ fail(r) \/ answer(r) \/ background(r)
  \/ restart

JobsSpec == JobsInit /\ [][JobsNext]_jobsVars

\* Handlers and background tasks go on.
JobsFairSpec ==
  /\ JobsSpec
  /\ \A r \in Request : WF_jobsVars(statement(r) \/ answer(r)) /\ WF_jobsVars(background(r))

-----------------------------------------------------------------------------
(* Properties. *)

Deleting == \E r \in Request : Kind[r] = "delete" /\ request[r].at # "new"

\* The except block itself raised.
Unreported(r) == <<r, "failing">> \in raised \/ <<r, "failed">> \in raised

\* While nobody deletes the project, a basemap listed as ready has been uploaded, and no task
\* that is over as failed lists one as ready.  The task says the same as its basemap once it is
\* over, unless the database failed that very call: the creation of the basemap, which leaves
\* nothing to mark, the last call of the try block, or one of the except block.
ReportedRight ==
  ~Deleting => \A r \in Request :
    /\ basemaps[r] = "SUCCESS" => object[r] # "none"
    /\ background_tasks[r] = "FAILED" => basemaps[r] # "SUCCESS"
    /\ background_tasks[r] = "FAILED" => basemaps[r] = "FAILED" \/ <<r, "create">> \in raised
    /\ background_tasks[r] = "SUCCESS" => basemaps[r] = "SUCCESS" \/ <<r, "listed">> \in raised
    /\ stage[r] = "unlink" => background_tasks[r] # "PENDING" \/ Unreported(r)

\* An incomplete archive is only ever uploaded when two tasks for one source overlapped.
PartialIsShared ==
  \A r \in Request : object[r] = "partial" =>
    \E q \in Request \ {r} : Source[q] = Source[r] /\ stage[q] # "none"

\* Both: what is listed as ready is there, and is whole up to one named cause.
ReadyIsThere == ReportedRight /\ PartialIsShared

\* A request that failed left nothing in the database, if its connection never made a basemap.
FailureLeavesNothing ==
  \A r \in Request : request[r].at = "failed" /\ request[r].conn \in Conn
                     /\ (\E s \in Statement : <<r, s>> \in committed) =>
    \/ conn[request[r].conn].autocommit
    \/ restarts > 0

\* What is reported is what happened: neither a basemap that is not there nor rows of a request
\* that failed, up to the named causes.
OutcomeSound == ReadyIsThere /\ FailureLeavesNothing

\* A transaction is ended by who holds the connection: while one request holds it, none of
\* its statements is committed, or lost, before its own end, except that a basemap task
\* makes the connection commit each statement.
NotEndedByOthers ==
  [][\A c \in Conn : LET r == conn[c].holder IN
       r \in Request /\ request'[r].at = "running" =>
         conn[c].pending \subseteq conn'[c].pending]_jobsVars

\* A basemap task that has inserted its row ends, and the background task is then no longer
\* PENDING, unless the API is restarted, the project deleted, or the except block itself failed.
JobReports ==
  \A r \in Request :
    basemaps[r] = "PENDING" ~>
      background_tasks[r] # "PENDING" \/ restarts > 0 \/ Deleting \/ Unreported(r)
=============================================================================

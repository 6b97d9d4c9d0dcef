------------------------- MODULE BackendJobsProofs --------------------------
(***************************************************************************)
(* What the backend does on its own and between requests.  About           *)
(* EntitySync, for any entities and syncs.  About BackgroundJobs, for any  *)
(* requests, connections, sources, failures and restarts: that rests on    *)
(* who holds a connection and whose statements wait on it (Borrowing), and *)
(* on what rows, bucket and archive are like at each stage of a background *)
(* task (Reported, Writers).                                               *)
(***************************************************************************)
EXTENDS EntitySync, BackgroundJobs, TLAPS

-----------------------------------------------------------------------------
Syncs == Reader \union {JobSync}

SyncState == [pc : {"idle", "fetched"}, snap : Snapshot, current : BOOLEAN]

-----------------------------------------------------------------------------
(* Type correctness. *)

LEMMA UpdateType ==
  ASSUME TypeOK, NEW e \in Entity, NEW s \in Status, Update(e, s)
  PROVE  /\ odk' \in [Entity -> [status : Status \union {Absent}, updated : Int]]
         /\ hooks' \subseteq [entity : Entity, status : Status, n : Nat]
         /\ updates' \in Nat /\ settled' = FALSE
<1>1. odk' \in [Entity -> [status : Status \union {Absent}, updated : Int]]
  <2>1. [status |-> s, updated |-> now] \in [status : Status \union {Absent}, updated : Int]
    BY DEF TypeOK
  <2> QED
    BY <2>1 DEF Update, TypeOK
<1>2. updates' \in Nat
  BY DEF Update, TypeOK
<1>3. [entity |-> e, status |-> s, n |-> updates'] \in [entity : Entity, status : Status, n : Nat]
  BY <1>2
<1> QED
  BY <1>1, <1>2, <1>3 DEF Update, TypeOK

LEMMA OutdatedType ==
  ASSUME TypeOK
  PROVE  Outdated(sync) \in [Syncs -> SyncState]
<1>1. DOMAIN sync = Syncs /\ \A r \in Syncs : sync[r] \in SyncState
  BY DEF TypeOK, Syncs, SyncState
<1>2. \A r \in Syncs : [sync[r] EXCEPT !.current = FALSE] \in SyncState
  BY <1>1 DEF SyncState
<1> QED
  BY <1>1, <1>2 DEF Outdated

LEMMA NoSyncType == NoSync \in SyncState
BY DEF NoSync, SyncState, Snapshot

LEMMA FetchType ==
  ASSUME TypeOK, NEW r \in Syncs, fetch(r)
  PROVE  sync' \in [Syncs -> SyncState]
<1>1. [e \in Entity |-> odk[e].status] \in Snapshot
  BY DEF TypeOK, Snapshot
<1>2. [pc |-> "fetched", snap |-> [e \in Entity |-> odk[e].status], current |-> TRUE] \in SyncState
  BY <1>1 DEF SyncState
<1>3. sync \in [Syncs -> SyncState]
  BY DEF TypeOK, Syncs, SyncState
<1>4. sync' = [sync EXCEPT ![r] = [pc |-> "fetched", snap |-> [e \in Entity |-> odk[e].status],
                                   current |-> TRUE]]
  BY DEF fetch
<1> QED
  BY <1>2, <1>3, <1>4

LEMMA UpsertType ==
  ASSUME TypeOK, NEW r \in Syncs, upsert(r)
  PROVE  /\ sync' \in [Syncs -> SyncState]
         /\ mirror' \in [Entity -> EntityState \union {Absent}]
         /\ settled' \in BOOLEAN
<1>1. sync \in [Syncs -> SyncState]
  BY DEF TypeOK, Syncs, SyncState
<1>2. sync[r].snap \in Snapshot /\ sync[r].current \in BOOLEAN
  BY <1>1 DEF SyncState
<1>3. \A e \in Entity : sync[r].snap[e] \in EntityState \union {Absent}
  BY <1>2 DEF upsert, Readable, Snapshot, Status
<1>4. upserted(sync[r].snap) \in [Entity -> EntityState \union {Absent}]
  BY <1>3 DEF upserted, TypeOK
<1>5. sync' \in [Syncs -> SyncState]
  BY <1>1, NoSyncType DEF upsert
<1> QED
  BY <1>2, <1>4, <1>5 DEF upsert

LEMMA InitType == Init => TypeOK
<1> SUFFICES ASSUME Init PROVE TypeOK
  OBVIOUS
<1>1. odk \in [Entity -> [status : Status \union {Absent}, updated : Int]]
  <2>1. {[status |-> s, updated |-> -EntityWindow] : s \in {"READY", Absent}}
          \subseteq [status : Status \union {Absent}, updated : Int]
    BY EntityAssumption DEF Status, EntityState
  <2>2. odk \in [Entity -> {[status |-> s, updated |-> -EntityWindow] : s \in {"READY", Absent}}]
    BY DEF Init
  <2> QED
    BY <2>1, <2>2
<1>2. sync \in [Syncs -> SyncState]
  BY NoSyncType DEF Init, Syncs
<1>3. mirror \in [Entity -> EntityState \union {Absent}]
  BY DEF Init
<1>4. job \in [pc : {"idle", "checked", "reset", "sync"}, at : Int, todo : SUBSET Entity]
  BY DEF Init
<1>5. sync \in [Reader \union {JobSync} ->
                 [pc : {"idle", "fetched"}, snap : Snapshot, current : BOOLEAN]]
  BY <1>2 DEF Syncs, SyncState
<1> QED
  BY <1>1, <1>3, <1>4, <1>5 DEF Init, TypeOK

LEMMA StepType == TypeOK /\ [Next]_vars => TypeOK'
<1> SUFFICES ASSUME TypeOK, [Next]_vars PROVE TypeOK'
  OBVIOUS
<1>1. sync \in [Syncs -> SyncState]
  BY DEF TypeOK, Syncs, SyncState
<1>2. ASSUME NEW e \in Entity, NEW s \in {"READY", "NEW_GEOM"}, create_entity(e, s) PROVE TypeOK'
  <2>1. s \in Status
    BY DEF Status, EntityState
  <2> QED
    BY <1>2, <2>1, UpdateType, OutdatedType DEF create_entity, TypeOK, Syncs, SyncState
<1>3. ASSUME NEW e \in Entity, NEW s \in FormStatus, submit(e, s) PROVE TypeOK'
  <2>1. s \in Status
    BY EntityAssumption
  <2> QED
    BY <1>3, <2>1, UpdateType, OutdatedType DEF submit, TypeOK, Syncs, SyncState
<1>4. ASSUME NEW e \in Entity, mapFeature(e) PROVE TypeOK'
  BY <1>4 DEF mapFeature, TypeOK, EntityState
<1>5. ASSUME NEW e \in Entity, NEW s \in EntityState, review(e, s) PROVE TypeOK'
  BY <1>5 DEF review, TypeOK
<1>6. ASSUME NEW q \in posts, set_odk_entities_mapping_status(q) PROVE TypeOK'
  <2>1. q.entity \in Entity /\ q.status \in Status
    BY DEF TypeOK, Status
  <2> QED
    BY <1>6, <2>1, UpdateType, OutdatedType
    DEF set_odk_entities_mapping_status, TypeOK, Syncs, SyncState
<1>7. ASSUME NEW q \in posts, lose_post(q) PROVE TypeOK'
  BY <1>7 DEF lose_post, TypeOK
<1>8. ASSUME NEW h \in hooks, update_entity_status_in_fmtm(h) PROVE TypeOK'
  <2>1. mirror' \in [Entity -> EntityState \union {Absent}] /\ settled' \in BOOLEAN
    BY <1>8 DEF update_entity_status_in_fmtm, TypeOK
  <2> QED
    BY <1>8, <2>1 DEF update_entity_status_in_fmtm, TypeOK
<1>9. ASSUME NEW h \in hooks, lose_hook(h) PROVE TypeOK'
  BY <1>9 DEF lose_hook, TypeOK
<1>10. ASSUME NEW r \in Reader, sync_read(r) PROVE TypeOK'
  BY <1>10, FetchType DEF sync_read, TypeOK, Syncs, SyncState
<1>11. ASSUME NEW r \in Reader, sync_write(r) PROVE TypeOK'
  BY <1>11, UpsertType DEF sync_write, TypeOK, Syncs, SyncState
<1>12. ASSUME NEW r \in Reader, abort_sync(r) PROVE TypeOK'
  <2>1. sync' \in [Syncs -> SyncState]
    BY <1>1, <1>12, NoSyncType DEF abort_sync
  <2> QED
    BY <1>12, <2>1 DEF abort_sync, TypeOK, Syncs, SyncState
<1>13. CASE job_check
  BY <1>13 DEF job_check, TypeOK
<1>14. CASE job_fetch_opened
  <2>1. recent_opened_entities \subseteq Entity
    BY DEF recent_opened_entities, UpdatedSince
  <2> QED
    BY <1>14, <2>1 DEF job_fetch_opened, TypeOK
<1>15. ASSUME NEW e \in Entity, job_reset(e) PROVE TypeOK'
  <2>1. "READY" \in Status
    BY DEF Status, EntityState
  <2>2. job' \in [pc : {"idle", "checked", "reset", "sync"}, at : Int, todo : SUBSET Entity]
    BY <1>15 DEF job_reset, TypeOK
  <2>3. Update(e, "READY") /\ sync' = Outdated(sync)
    BY <1>15 DEF job_reset
  <2>4. /\ odk' \in [Entity -> [status : Status \union {Absent}, updated : Int]]
        /\ hooks' \subseteq [entity : Entity, status : Status, n : Nat]
        /\ updates' \in Nat /\ settled' = FALSE
    BY <2>1, <2>3, UpdateType
  <2> QED
    BY <1>15, <2>2, <2>3, <2>4, OutdatedType DEF job_reset, TypeOK, Syncs, SyncState
<1>16. CASE job_fetch_all
  BY <1>16, FetchType DEF job_fetch_all, TypeOK, Syncs, SyncState
<1>17. CASE job_upsert
  BY <1>17, UpsertType DEF job_upsert, TypeOK, Syncs, SyncState
<1>18. CASE job_fail
  <2>1. sync' \in [Syncs -> SyncState]
    BY <1>1, <1>18, NoSyncType DEF job_fail, Syncs
  <2> QED
    BY <1>18, <2>1 DEF job_fail, TypeOK, Syncs, SyncState
<1>19. CASE tick
  BY <1>19 DEF tick, TypeOK
<1>20. CASE UNCHANGED vars
  BY <1>20 DEF vars, TypeOK
<1> QED
  BY <1>2, <1>3, <1>4, <1>5, <1>6, <1>7, <1>8, <1>9, <1>10, <1>11, <1>12, <1>13, <1>14,
     <1>15, <1>16, <1>17, <1>18, <1>19, <1>20 DEF Next

\* Type correctness of ODK Central's entities, the mirror, the syncs and the job.
THEOREM TypeCorrect == Spec => []TypeOK
BY InitType, StepType, PTL DEF Spec

-----------------------------------------------------------------------------
(* What the job resets. *)

\* Once the job has found the project quiet, what it sees updated was updated after that.
QuietBefore ==
  /\ job.at <= now
  /\ job.pc # "reset" => job.todo = {}
  /\ job.pc = "checked" =>
       \A e \in Entity : \/ odk[e].status = Absent
                         \/ odk[e].updated <= job.at - EntityWindow
                         \/ odk[e].updated >= job.at

ResetInv == TypeOK /\ QuietBefore /\ OnlyOpenedMeanwhile

\* An update by anybody keeps it.
LEMMA UpdateKeepsReset ==
  ASSUME ResetInv, NEW e \in Entity, NEW s \in Status, Update(e, s), now' = now,
         \/ job' = job
         \/ job' = [job EXCEPT !.todo = @ \ {e}] /\ job.pc = "reset"
  PROVE  QuietBefore' /\ OnlyOpenedMeanwhile'
<1>1. odk'[e].updated = now /\ odk'[e].status = s
  BY DEF Update, ResetInv, TypeOK
<1>2. \A f \in Entity : f # e => odk'[f] = odk[f]
  BY DEF Update, ResetInv, TypeOK
<1>3. job'.at = job.at /\ job'.pc = job.pc /\ job'.todo \subseteq job.todo
  BY DEF ResetInv, TypeOK
<1>4. job.at <= now /\ now \in Int /\ job.at \in Int
  BY DEF ResetInv, QuietBefore, TypeOK
<1>5. OnlyOpenedMeanwhile'
  BY <1>1, <1>2, <1>3, <1>4 DEF ResetInv, OnlyOpenedMeanwhile, TypeOK
<1>6. QuietBefore'
  BY <1>1, <1>2, <1>3, <1>4 DEF ResetInv, QuietBefore
<1> QED
  BY <1>5, <1>6

LEMMA StepReset == ResetInv /\ [Next]_vars => QuietBefore' /\ OnlyOpenedMeanwhile'
<1> SUFFICES ASSUME ResetInv, [Next]_vars PROVE QuietBefore' /\ OnlyOpenedMeanwhile'
  OBVIOUS
<1> USE DEF ResetInv
<1>1. ASSUME NEW e \in Entity, NEW s \in Status, Update(e, s), UNCHANGED <<job, now>>
      PROVE  QuietBefore' /\ OnlyOpenedMeanwhile'
  BY <1>1, UpdateKeepsReset
<1>2. CASE UNCHANGED <<odk, job, now>>
  BY <1>2 DEF QuietBefore, OnlyOpenedMeanwhile
<1>3. \A s \in FormStatus : s \in Status
  BY EntityAssumption
<1>4. /\ "READY" \in Status /\ "NEW_GEOM" \in Status
      /\ \A q \in posts : q.entity \in Entity /\ q.status \in Status
  BY DEF Status, EntityState, TypeOK
<1>5. CASE job_check
  <2>1. /\ job'.pc = "checked" /\ job'.at = now /\ job'.todo = {} /\ now' = now /\ odk' = odk
        /\ now \in Int
    BY <1>5 DEF job_check, TypeOK
  <2>2. \A e \in Entity : odk[e].status = Absent \/ ~(odk[e].updated > now - EntityWindow)
    BY <1>5 DEF job_check, UpdatedSince
  <2>3. \A e \in Entity : odk[e].status = Absent \/ odk[e].updated <= now - EntityWindow
    BY <2>2, EntityAssumption DEF TypeOK
  <2> QED
    BY <2>1, <2>3 DEF QuietBefore, OnlyOpenedMeanwhile
<1>6. CASE job_fetch_opened
  <2>1. /\ job'.pc = "reset" /\ job'.at = job.at /\ job'.todo = recent_opened_entities
        /\ now' = now /\ odk' = odk
    BY <1>6 DEF job_fetch_opened, TypeOK
  <2>2. ASSUME NEW e \in recent_opened_entities PROVE odk[e].updated >= job.at
    <3>1. e \in Entity /\ odk[e].status # Absent /\ odk[e].updated > job.at - OpenedWindow
      BY <2>2 DEF recent_opened_entities, UpdatedSince
    <3>2. odk[e].updated \in Int /\ job.at \in Int
      BY <3>1 DEF TypeOK
    <3>3. ~(odk[e].updated <= job.at - EntityWindow)
      BY <3>1, <3>2, EntityAssumption
    <3> QED
      BY <1>6, <3>1, <3>3 DEF QuietBefore, job_fetch_opened
  <2> QED
    BY <2>1, <2>2 DEF QuietBefore, OnlyOpenedMeanwhile
<1>7. ASSUME NEW e \in Entity, job_reset(e) PROVE QuietBefore' /\ OnlyOpenedMeanwhile'
  BY <1>4, <1>7, UpdateKeepsReset DEF job_reset
<1>8. CASE job_fetch_all
  BY <1>8 DEF job_fetch_all, QuietBefore, OnlyOpenedMeanwhile, TypeOK
<1>9. CASE job_upsert
  BY <1>9 DEF job_upsert, QuietBefore, OnlyOpenedMeanwhile, TypeOK
<1>10. CASE job_fail
  BY <1>10 DEF job_fail, QuietBefore, OnlyOpenedMeanwhile, TypeOK
<1>11. CASE tick
  BY <1>11 DEF tick, QuietBefore, OnlyOpenedMeanwhile, TypeOK
<1> QED
  BY <1>1, <1>2, <1>3, <1>4, <1>5, <1>6, <1>7, <1>8, <1>9, <1>10, <1>11
  DEF Next, vars, create_entity, submit, mapFeature, review, set_odk_entities_mapping_status,
      lose_post, update_entity_status_in_fmtm, lose_hook, sync_read, sync_write, abort_sync

\* Whatever the job is about to set back to READY was opened after its run began: what
\* "more than 1hr" was meant for is exactly what it never finds.
THEOREM OnlyOpenedMeanwhileHolds == Spec => []OnlyOpenedMeanwhile
<1>1. Init => ResetInv
  BY InitType DEF Init, ResetInv, QuietBefore, OnlyOpenedMeanwhile
<1>2. ResetInv /\ [Next]_vars => ResetInv'
  BY StepType, StepReset DEF ResetInv
<1>3. ResetInv => OnlyOpenedMeanwhile
  BY DEF ResetInv
<1> QED
  BY <1>1, <1>2, <1>3, PTL DEF Spec

-----------------------------------------------------------------------------
(* What a sync leaves behind. *)

\* A snapshot marked current is what ODK Central holds.
CurrentInv ==
  \A r \in Syncs : sync[r].current => sync[r].snap = [e \in Entity |-> odk[e].status]

SettledInv == TypeOK /\ CurrentInv /\ SettledInSync

LEMMA UpdateUnsettles ==
  ASSUME SettledInv, NEW e, NEW s, Update(e, s), sync' = Outdated(sync)
  PROVE  CurrentInv' /\ SettledInSync'
<1>1. \A r \in Syncs : sync'[r].current = FALSE
  BY DEF SettledInv, TypeOK, Syncs, Outdated
<1> QED
  BY <1>1 DEF Update, CurrentInv, SettledInSync

LEMMA UpsertSettles ==
  ASSUME SettledInv, NEW r \in Syncs, upsert(r), odk' = odk
  PROVE  CurrentInv' /\ SettledInSync'
<1>1. \A i \in Syncs : sync'[i] = sync[i] \/ sync'[i].current = FALSE
  BY DEF upsert, NoSync, SettledInv, TypeOK, Syncs
<1>2. CurrentInv'
  BY <1>1 DEF SettledInv, CurrentInv
<1>3. ASSUME settled' PROVE InSync'
  <2>1. sync[r].snap = [e \in Entity |-> odk[e].status]
    BY <1>3 DEF upsert, SettledInv, CurrentInv
  <2>2. \A e \in Entity : mirror'[e] = IF odk[e].status = Absent THEN mirror[e] ELSE odk[e].status
    BY <2>1 DEF upsert, upserted
  <2> QED
    BY <2>2 DEF InSync
<1> QED
  BY <1>2, <1>3 DEF SettledInSync

LEMMA FetchSettles ==
  ASSUME SettledInv, NEW r \in Syncs, fetch(r), UNCHANGED <<odk, mirror, settled>>
  PROVE  CurrentInv' /\ SettledInSync'
<1>1. \A i \in Syncs : sync'[i] = sync[i] \/ sync'[i].snap = [e \in Entity |-> odk[e].status]
  BY DEF fetch, SettledInv, TypeOK, Syncs
<1> QED
  BY <1>1 DEF SettledInv, CurrentInv, SettledInSync, InSync

LEMMA StepSettled == SettledInv /\ [Next]_vars => CurrentInv' /\ SettledInSync'
<1> SUFFICES ASSUME SettledInv, [Next]_vars PROVE CurrentInv' /\ SettledInSync'
  OBVIOUS
<1>1. ASSUME NEW e, NEW s, Update(e, s), sync' = Outdated(sync)
      PROVE  CurrentInv' /\ SettledInSync'
  BY <1>1, UpdateUnsettles
<1>2. CASE UNCHANGED <<odk, mirror, sync, settled>>
  BY <1>2 DEF SettledInv, CurrentInv, SettledInSync, InSync
<1>3. ASSUME NEW h \in hooks, update_entity_status_in_fmtm(h)
      PROVE  CurrentInv' /\ SettledInSync'
  BY <1>3 DEF update_entity_status_in_fmtm, SettledInv, CurrentInv, SettledInSync, InSync
<1>4. ASSUME NEW r \in Reader, sync_read(r) PROVE CurrentInv' /\ SettledInSync'
  BY <1>4, FetchSettles DEF sync_read, Syncs
<1>5. ASSUME NEW r \in Reader, sync_write(r) PROVE CurrentInv' /\ SettledInSync'
  BY <1>5, UpsertSettles DEF sync_write, Syncs
<1>6. ASSUME NEW r \in Syncs, sync' = [sync EXCEPT ![r] = NoSync],
             UNCHANGED <<odk, mirror, settled>>
      PROVE  CurrentInv' /\ SettledInSync'
  <2>1. \A i \in Syncs : sync'[i] = sync[i] \/ sync'[i].current = FALSE
    BY <1>6 DEF NoSync, SettledInv, TypeOK, Syncs
  <2> QED
    BY <1>6, <2>1 DEF SettledInv, CurrentInv, SettledInSync, InSync
<1>7. ASSUME NEW r \in Reader, abort_sync(r) PROVE CurrentInv' /\ SettledInSync'
  BY <1>6, <1>7 DEF abort_sync, Syncs
<1>8. CASE job_fetch_all
  BY <1>8, FetchSettles DEF job_fetch_all, Syncs
<1>9. CASE job_upsert
  BY <1>9, UpsertSettles DEF job_upsert, Syncs
<1>10. CASE job_fail
  BY <1>6, <1>10 DEF job_fail, Syncs
<1> QED
  BY <1>1, <1>2, <1>3, <1>4, <1>5, <1>7, <1>8, <1>9, <1>10
  DEF Next, vars, create_entity, submit, mapFeature, review, set_odk_entities_mapping_status,
      lose_post, lose_hook, job_check, job_fetch_opened, job_reset, tick

\* A sync that fetched after the last change in ODK Central leaves an exact mirror.
THEOREM SettledInSyncHolds == Spec => []SettledInSync
<1>1. Init => SettledInv
  BY InitType DEF Init, SettledInv, CurrentInv, SettledInSync, NoSync, Syncs
<1>2. SettledInv /\ [Next]_vars => SettledInv'
  BY StepType, StepSettled DEF SettledInv
<1>3. SettledInv => SettledInSync
  BY DEF SettledInv
<1> QED
  BY <1>1, <1>2, <1>3, PTL DEF Spec

-----------------------------------------------------------------------------
(* Connections of BackgroundJobs. *)

ConnState == [holder : Request \union {NoRequest}, autocommit : BOOLEAN,
              intrans : BOOLEAN, pending : SUBSET Write]

RequestState == [at : {"new", "running", "done", "failed"},
                 conn : Conn \union {NoConn}, step : 1..5]

\* A request that is being handled holds the connection it uses, and it alone.
Held ==
  /\ \A r \in Request : request[r].at = "running" =>
       request[r].conn \in Conn /\ conn[request[r].conn].holder = r
  /\ \A c \in Conn : LET r == conn[c].holder IN
       r \in Request => request[r].at = "running" /\ request[r].conn = c

LEMMA ScriptSteps ==
  ASSUME NEW r \in Request, NEW i \in 1..5, i <= Len(Script[Kind[r]])
  PROVE  /\ i + 1 \in 1..5
         /\ Script[Kind[r]][i] \in Statement \ {"token"}
         /\ Kind[r] # "delete" => Script[Kind[r]][i] \in {"form", "task"}
<1>1. Kind[r] \in DOMAIN Script
  BY JobsAssumption
<1>2. Kind[r] \in {"files", "tiles", "delete"}
  BY <1>1 DEF Script
<1>3. CASE Kind[r] = "files"
  <2>1. Script[Kind[r]] = <<"form", "task">>
    BY <1>3 DEF Script
  <2> QED
    BY <2>1, <1>3 DEF Statement
<1>4. CASE Kind[r] = "tiles"
  <2>1. Script[Kind[r]] = <<"task">>
    BY <1>4 DEF Script
  <2> QED
    BY <2>1, <1>4 DEF Statement
<1>5. CASE Kind[r] = "delete"
  <2>1. Script[Kind[r]] = <<"s3", "tasks", "basemaps", "project">>
    BY <1>5 DEF Script
  <2> QED
    BY <2>1, <1>5 DEF Statement
<1> QED
  BY <1>2, <1>3, <1>4, <1>5

LEMMA CommitType ==
  ASSUME JobsTypeOK, NEW ws \in SUBSET Write, Commit(ws)
  PROVE  /\ project' \in BOOLEAN /\ committed' \subseteq Request \X Statement
         /\ background_tasks' \in [Request -> RowStatus] /\ basemaps' \in [Request -> RowStatus]
<1>1. committed' \subseteq Request \X Statement
  BY DEF Commit, Write, JobsTypeOK
<1>2. background_tasks' \in [Request -> RowStatus]
  BY DEF Commit, JobsTypeOK, RowStatus
<1>3. basemaps' \in [Request -> RowStatus]
  BY DEF Commit, JobsTypeOK, RowStatus
<1> QED
  BY <1>1, <1>2, <1>3 DEF Commit, JobsTypeOK

LEMMA ExecuteType ==
  ASSUME JobsTypeOK, NEW c \in Conn, NEW w \in Write, Execute(c, w)
  PROVE  /\ conn' \in [Conn -> ConnState]
         /\ project' \in BOOLEAN /\ committed' \subseteq Request \X Statement
         /\ background_tasks' \in [Request -> RowStatus] /\ basemaps' \in [Request -> RowStatus]
         /\ \A d \in Conn : /\ conn'[d].holder = conn[d].holder
                            /\ conn'[d].autocommit = conn[d].autocommit
                            /\ conn[d].pending \subseteq conn'[d].pending
                            /\ conn'[d].pending \subseteq conn[d].pending
                                 \union IF d = c THEN {w} ELSE {}
<1>0. conn \in [Conn -> ConnState]
  BY DEF JobsTypeOK, ConnState
<1>1. CASE conn[c].autocommit
  <2>1. Commit({w}) /\ conn' = conn
    BY <1>1 DEF Execute
  <2>2. {w} \in SUBSET Write
    OBVIOUS
  <2> QED
    BY <2>1, <2>2, <1>0, CommitType
<1>2. CASE ~conn[c].autocommit
  <2>1. /\ conn' = [conn EXCEPT ![c].intrans = TRUE, ![c].pending = @ \union {w}]
        /\ UNCHANGED tables
    BY <1>2 DEF Execute
  <2>2. conn' \in [Conn -> ConnState]
    BY <2>1, <1>0 DEF ConnState
  <2>3. \A d \in Conn : /\ conn'[d].holder = conn[d].holder
                       /\ conn'[d].autocommit = conn[d].autocommit
                       /\ conn[d].pending \subseteq conn'[d].pending
                       /\ conn'[d].pending \subseteq conn[d].pending
                            \union IF d = c THEN {w} ELSE {}
    BY <2>1, <1>0 DEF ConnState
  <2> QED
    BY <2>1, <2>2, <2>3 DEF tables, JobsTypeOK
<1> QED
  BY <1>1, <1>2

LEMMA GiveBackType ==
  ASSUME conn \in [Conn -> ConnState], NEW c \in Conn
  PROVE  /\ GiveBack(c) \in [Conn -> ConnState]
         /\ GiveBack(c)[c].holder = NoRequest /\ GiveBack(c)[c].pending = {}
         /\ GiveBack(c)[c].autocommit = conn[c].autocommit
         /\ \A d \in Conn \ {c} : GiveBack(c)[d] = conn[d]
BY DEF GiveBack, ConnState

LEMMA RowsType == \A what : Rows(what) \in SUBSET Request
BY DEF Rows

\* Background tasks begin when the request has been answered.
Begun ==
  \A r \in Request : stage[r] # "none" => request[r].at = "done" /\ request[r].conn \in Conn

\* What is not committed yet was written by the holder of the connection, or is the token of a
\* background task.
Owned ==
  \A c \in Conn : \A w \in conn[c].pending :
    /\ w.what = "token" => stage[w.by] # "none"
    /\ w.what # "token" => conn[c].holder = w.by
    /\ w.what \in {"tasks", "basemaps", "project"} => Kind[w.by] = "delete"

Borrowing == JobsTypeOK /\ Held /\ Begun /\ Owned

LEMMA Types ==
  ASSUME JobsTypeOK
  PROVE  /\ conn \in [Conn -> ConnState] /\ request \in [Request -> RequestState]
         /\ stage \in [Request -> Stage]
BY DEF JobsTypeOK, ConnState, RequestState

LEMMA TypesSuffice ==
  ASSUME conn \in [Conn -> ConnState], request \in [Request -> RequestState],
         stage \in [Request -> Stage], project \in BOOLEAN,
         background_tasks \in [Request -> RowStatus], basemaps \in [Request -> RowStatus],
         committed \subseteq Request \X Statement,
         object \in [Request -> {"none", "partial", "whole"}],
         file \in [{Source[r] : r \in Request} -> [exists : BOOLEAN, writers : SUBSET Request]],
         raised \subseteq Request \X Calls,
         faults \in 0..MaxFaults, restarts \in 0..MaxRestarts
  PROVE  JobsTypeOK
BY DEF JobsTypeOK, ConnState, RequestState

LEMMA BorrowingStart == JobsInit => Borrowing
<1> SUFFICES ASSUME JobsInit PROVE Borrowing
  OBVIOUS
<1> USE DEF JobsInit
<1>1. JobsTypeOK
  BY JobsAssumption DEF JobsTypeOK, Idle, Stage, RowStatus
<1>2. Held /\ Begun /\ Owned
  BY JobsAssumption DEF Held, Begun, Owned, Idle
<1> QED
  BY <1>1, <1>2 DEF Borrowing

LEMMA BorrowingConn ==
  ASSUME Borrowing, NEW r \in Request, db_conn(r)
  PROVE  Borrowing'
<1>1. PICK c \in Conn :
        /\ conn[c].holder = NoRequest
        /\ conn' = [conn EXCEPT ![c].holder = r, ![c].intrans = ~conn[c].autocommit]
        /\ request' = [request EXCEPT ![r].at = "running", ![r].conn = c]
  BY DEF db_conn
<1>2. /\ request[r].at = "new"
      /\ UNCHANGED <<stage, project, background_tasks, basemaps, committed, object, file, raised,
                     faults, restarts>>
  BY DEF db_conn, tables, failures
<1>3. /\ conn \in [Conn -> ConnState] /\ request \in [Request -> RequestState]
      /\ JobsTypeOK /\ Held /\ Begun /\ Owned
  BY Types DEF Borrowing
<1>4. /\ conn' \in [Conn -> ConnState] /\ conn'[c].holder = r
      /\ \A d \in Conn : conn'[d].pending = conn[d].pending
      /\ \A d \in Conn \ {c} : conn'[d] = conn[d]
  BY <1>1, <1>3 DEF ConnState
<1>5. /\ request' \in [Request -> RequestState]
      /\ request'[r].at = "running" /\ request'[r].conn = c
      /\ \A q \in Request \ {r} : request'[q] = request[q]
  BY <1>1, <1>3 DEF RequestState
<1>6. JobsTypeOK'
  BY <1>2, <1>3, <1>4, <1>5 DEF JobsTypeOK, ConnState, RequestState
<1>7. Held'
  BY <1>1, <1>2, <1>3, <1>4, <1>5, JobsAssumption DEF Held
<1>8. Begun'
  BY <1>2, <1>3, <1>5 DEF Begun
<1>9. Owned'
  <2>1. \A w \in conn[c].pending : w.what = "token"
    BY <1>1, <1>3, JobsAssumption DEF Owned, ConnState, Write
  <2> QED
    BY <2>1, <1>2, <1>3, <1>4 DEF Owned
<1> QED
  BY <1>6, <1>7, <1>8, <1>9 DEF Borrowing

LEMMA BorrowingStatement ==
  ASSUME Borrowing, NEW r \in Request, statement(r)
  PROVE  Borrowing'
<1> DEFINE what == Script[Kind[r]][request[r].step]
           c == request[r].conn
           w == [by |-> r, what |-> what, rows |-> Rows(what)]
<1>1. /\ conn \in [Conn -> ConnState] /\ request \in [Request -> RequestState]
      /\ JobsTypeOK /\ Held /\ Begun /\ Owned
  BY Types DEF Borrowing
<1>2. /\ request[r].at = "running" /\ request[r].step <= Len(Script[Kind[r]])
      /\ request' = [request EXCEPT ![r].step = @ + 1]
      /\ UNCHANGED <<stage, file, raised, faults, restarts>>
  BY DEF statement, failures
<1>3. c \in Conn /\ conn[c].holder = r
  BY <1>1, <1>2 DEF Held
<1>4. /\ request[r].step + 1 \in 1..5 /\ what \in Statement \ {"token"}
      /\ Kind[r] # "delete" => what \in {"form", "task"}
  BY <1>1, <1>2, ScriptSteps DEF RequestState
<1>5. /\ request' \in [Request -> RequestState]
      /\ \A q \in Request : request'[q].at = request[q].at /\ request'[q].conn = request[q].conn
  BY <1>1, <1>2, <1>4 DEF RequestState
<1>6. w \in Write
  BY <1>4, RowsType DEF Write
<1>7. /\ conn' \in [Conn -> ConnState]
      /\ project' \in BOOLEAN /\ committed' \subseteq Request \X Statement
      /\ background_tasks' \in [Request -> RowStatus] /\ basemaps' \in [Request -> RowStatus]
      /\ object' \in [Request -> {"none", "partial", "whole"}]
      /\ \A d \in Conn : /\ conn'[d].holder = conn[d].holder
                         /\ conn'[d].pending \subseteq conn[d].pending
                              \union IF d = c THEN {w} ELSE {}
  <2>1. CASE what = "s3"
    <3>1. conn' = conn /\ UNCHANGED tables /\ object' = [q \in Request |-> "none"]
      BY <2>1 DEF statement
    <3> QED
      BY <3>1, <1>1 DEF tables, JobsTypeOK
  <2>2. CASE what # "s3"
    <3>1. Execute(c, w) /\ object' = object
      BY <2>2 DEF statement
    <3> QED
      BY <3>1, <1>1, <1>3, <1>6, ExecuteType DEF JobsTypeOK
  <2> QED
    BY <2>1, <2>2
<1>8. JobsTypeOK'
  BY <1>1, <1>2, <1>5, <1>7 DEF JobsTypeOK, ConnState, RequestState
<1>9. Held' /\ Begun'
  BY <1>1, <1>2, <1>5, <1>7 DEF Held, Begun
<1>10. Owned'
  BY <1>1, <1>2, <1>3, <1>4, <1>7 DEF Owned
<1> QED
  BY <1>8, <1>9, <1>10 DEF Borrowing

LEMMA BorrowingFail ==
  ASSUME Borrowing, NEW r \in Request, fail(r)
  PROVE  Borrowing'
<1> DEFINE c == request[r].conn
<1>1. /\ conn \in [Conn -> ConnState] /\ request \in [Request -> RequestState]
      /\ JobsTypeOK /\ Held /\ Begun /\ Owned
  BY Types DEF Borrowing
<1>2. /\ request[r].at = "running" /\ faults < MaxFaults /\ faults' = faults + 1
      /\ request' = [request EXCEPT ![r].at = "failed"] /\ conn' = GiveBack(c)
      /\ UNCHANGED <<stage, project, background_tasks, basemaps, committed, object, file, raised, restarts>>
  BY DEF fail, tables
<1>3. c \in Conn /\ conn[c].holder = r
  BY <1>1, <1>2 DEF Held
<1>4. /\ conn' \in [Conn -> ConnState] /\ conn'[c].holder = NoRequest /\ conn'[c].pending = {}
      /\ \A d \in Conn \ {c} : conn'[d] = conn[d]
  BY <1>1, <1>2, <1>3, GiveBackType
<1>5. /\ request' \in [Request -> RequestState] /\ request'[r].at = "failed"
      /\ \A q \in Request : request'[q].conn = request[q].conn
      /\ \A q \in Request \ {r} : request'[q].at = request[q].at
  BY <1>1, <1>2 DEF RequestState
<1>6. faults' \in 0..MaxFaults
  BY <1>1, <1>2, JobsAssumption DEF JobsTypeOK
<1>7. JobsTypeOK'
  BY <1>1, <1>2, <1>4, <1>5, <1>6 DEF JobsTypeOK, ConnState, RequestState
<1>8. Held'
  BY <1>1, <1>2, <1>3, <1>4, <1>5, JobsAssumption DEF Held
<1>9. Begun' /\ Owned'
  BY <1>1, <1>2, <1>4, <1>5 DEF Begun, Owned
<1> QED
  BY <1>7, <1>8, <1>9 DEF Borrowing

LEMMA BorrowingAnswer ==
  ASSUME Borrowing, NEW r \in Request, answer(r)
  PROVE  Borrowing'
<1> DEFINE c == request[r].conn
<1>1. /\ conn \in [Conn -> ConnState] /\ request \in [Request -> RequestState]
      /\ stage \in [Request -> Stage]
      /\ JobsTypeOK /\ Held /\ Begun /\ Owned
  BY Types DEF Borrowing
<1>2. /\ request[r].at = "running" /\ Commit(conn[c].pending)
      /\ request' = [request EXCEPT ![r].at = "done"] /\ conn' = GiveBack(c)
      /\ UNCHANGED <<object, file, raised, faults, restarts>>
  BY DEF answer, failures
<1>3. c \in Conn /\ conn[c].holder = r
  BY <1>1, <1>2 DEF Held
<1>4. /\ conn' \in [Conn -> ConnState] /\ conn'[c].holder = NoRequest /\ conn'[c].pending = {}
      /\ \A d \in Conn \ {c} : conn'[d] = conn[d]
  BY <1>1, <1>2, <1>3, GiveBackType
<1>5. /\ request' \in [Request -> RequestState] /\ request'[r].at = "done"
      /\ \A q \in Request : request'[q].conn = request[q].conn
      /\ \A q \in Request \ {r} : request'[q].at = request[q].at
  BY <1>1, <1>2 DEF RequestState
<1>6. /\ stage' \in [Request -> Stage] /\ stage'[r] # "none"
      /\ \A q \in Request \ {r} : stage'[q] = stage[q]
  <2>1. \E s \in {"files", "basemap", "done"} : stage' = [stage EXCEPT ![r] = s]
    <3>1. CASE Kind[r] = "files"
      BY <3>1 DEF answer
    <3>2. CASE Kind[r] = "tiles"
      BY <3>2 DEF answer
    <3>3. CASE Kind[r] # "files" /\ Kind[r] # "tiles"
      BY <3>3 DEF answer
    <3> QED
      BY <3>1, <3>2, <3>3
  <2> QED
    BY <2>1, <1>1 DEF Stage
<1>7. conn[c].pending \in SUBSET Write
  BY <1>1, <1>3 DEF ConnState
<1>8. JobsTypeOK'
  <2>1. /\ project' \in BOOLEAN /\ committed' \subseteq Request \X Statement
        /\ background_tasks' \in [Request -> RowStatus] /\ basemaps' \in [Request -> RowStatus]
    BY <1>1, <1>2, <1>7, CommitType
  <2> QED
    BY <2>1, <1>1, <1>2, <1>4, <1>5, <1>6 DEF JobsTypeOK, ConnState, RequestState
<1>9. Held'
  BY <1>1, <1>2, <1>3, <1>4, <1>5, JobsAssumption DEF Held
<1>10. Begun'
  BY <1>1, <1>2, <1>3, <1>5, <1>6 DEF Begun
<1>11. Owned'
  <2>1. \A d \in Conn : \A w \in conn[d].pending : w.by \in Request
    BY <1>1 DEF ConnState, Write
  <2>2. \A d \in Conn \ {c} : conn'[d] = conn[d] /\ \A w \in conn[d].pending :
          stage[w.by] # "none" => stage'[w.by] # "none"
    BY <2>1, <1>4, <1>6
  <2> QED
    BY <2>2, <1>1, <1>4 DEF Owned
<1> QED
  BY <1>11, <1>8, <1>9, <1>10 DEF Borrowing

\* Steps of a background task that use no connection of the pool.
LEMMA BorrowingWork ==
  ASSUME Borrowing, NEW r \in Request, stage[r] # "none", UNCHANGED <<conn, request>>,
         NEW s \in Stage \ {"none"}, To(r, s), JobsTypeOK'
  PROVE  Borrowing'
<1>1. stage \in [Request -> Stage]
  BY Types DEF Borrowing
<1>2. \A q \in Request : (stage[q] # "none") <=> (stage'[q] # "none")
  BY <1>1 DEF To
<1>3. Held' /\ Begun'
  BY <1>2 DEF Borrowing, Held, Begun
<1>4. Owned'
  <2>1. \A c \in Conn : \A w \in conn[c].pending : w.by \in Request
    BY Types DEF Borrowing, ConnState, Write
  <2> QED
    BY <2>1, <1>2 DEF Borrowing, Owned
<1> QED
  BY <1>3, <1>4 DEF Borrowing

LEMMA BorrowingFiles ==
  ASSUME Borrowing, NEW r \in Request, generate_project_files(r)
  PROVE  Borrowing'
<1> DEFINE c == request[r].conn
<1>1. /\ conn \in [Conn -> ConnState] /\ request \in [Request -> RequestState]
      /\ stage \in [Request -> Stage]
      /\ JobsTypeOK /\ Held /\ Begun /\ Owned
  BY Types DEF Borrowing
<1>2. CASE /\ stage[r] = "files"
           /\ conn' = [conn EXCEPT ![c].intrans = ~conn[c].autocommit]
           /\ UNCHANGED <<request, tables, object, file, failures>>
           /\ To(r, "read") \/ To(r, "done")
  <2>1. c \in Conn
    BY <1>1, <1>2 DEF Begun
  <2>2. /\ conn' \in [Conn -> ConnState]
        /\ \A d \in Conn : conn'[d].holder = conn[d].holder /\ conn'[d].pending = conn[d].pending
    BY <2>1, <1>1, <1>2 DEF ConnState
  <2>3. /\ stage' \in [Request -> Stage]
        /\ \A q \in Request : (stage[q] # "none") <=> (stage'[q] # "none")
    BY <1>1, <1>2 DEF To, Stage
  <2>4. JobsTypeOK'
    BY <2>2, <2>3, <1>1, <1>2 DEF JobsTypeOK, ConnState, tables, failures
  <2>5. Held' /\ Begun'
    BY <2>2, <2>3, <1>1, <1>2 DEF Held, Begun
  <2>6. Owned'
    <3>1. \A d \in Conn : \A w \in conn[d].pending : w.by \in Request
      BY <1>1 DEF ConnState, Write
    <3> QED
      BY <3>1, <2>2, <2>3, <1>1 DEF Owned
  <2> QED
    BY <2>4, <2>5, <2>6 DEF Borrowing
<1>3. CASE /\ stage[r] = "read" /\ Execute(c, [by |-> r, what |-> "token", rows |-> {}])
           /\ To(r, "basemap") /\ UNCHANGED <<request, object, file, failures>>
  <2> DEFINE w == [by |-> r, what |-> "token", rows |-> {}]
  <2>1. c \in Conn /\ w \in Write
    BY <1>1, <1>3 DEF Begun, Write, Statement
  <2>2. /\ conn' \in [Conn -> ConnState]
        /\ project' \in BOOLEAN /\ committed' \subseteq Request \X Statement
        /\ background_tasks' \in [Request -> RowStatus] /\ basemaps' \in [Request -> RowStatus]
        /\ \A d \in Conn : /\ conn'[d].holder = conn[d].holder
                           /\ conn'[d].pending \subseteq conn[d].pending
                                \union IF d = c THEN {w} ELSE {}
    BY <2>1, <1>1, <1>3, ExecuteType
  <2>3. /\ stage' \in [Request -> Stage]
        /\ \A q \in Request : (stage[q] # "none") <=> (stage'[q] # "none")
    BY <1>1, <1>3 DEF To, Stage
  <2>4. JobsTypeOK'
    BY <2>2, <2>3, <1>1, <1>3 DEF JobsTypeOK, ConnState, failures
  <2>5. Held' /\ Begun'
    BY <2>2, <2>3, <1>1, <1>3 DEF Held, Begun
  <2>6. Owned'
    <3>1. \A d \in Conn : \A v \in conn[d].pending : v.by \in Request
      BY <1>1 DEF ConnState, Write
    <3>2. w.what = "token" /\ w.by = r /\ stage'[r] # "none"
      BY <2>3, <1>3
    <3> QED
      BY <3>1, <3>2, <2>2, <2>3, <1>1 DEF Owned
  <2> QED
    BY <2>4, <2>5, <2>6 DEF Borrowing
<1>4. CASE /\ stage[r] = "read" /\ To(r, "done")
           /\ (faults < MaxFaults /\ faults' = faults + 1) \/ UNCHANGED faults
           /\ UNCHANGED <<conn, request, tables, object, file, raised, restarts>>
  <2>1. "done" \in Stage \ {"none"}
    BY DEF Stage
  <2>2. JobsTypeOK'
    <3>1. stage' \in [Request -> Stage]
      BY <2>1, <1>1, <1>4 DEF To
    <3>2. faults' \in 0..MaxFaults
      BY <1>1, <1>4, JobsAssumption DEF JobsTypeOK
    <3> QED
      BY <3>1, <3>2, <1>1, <1>4 DEF JobsTypeOK, tables
  <2> QED
    BY <2>1, <2>2, <1>4, BorrowingWork
<1>5. \/ /\ stage[r] = "files"
         /\ conn' = [conn EXCEPT ![c].intrans = ~conn[c].autocommit]
         /\ UNCHANGED <<request, tables, object, file, failures>>
         /\ To(r, "read") \/ To(r, "done")
      \/ /\ stage[r] = "read" /\ Execute(c, [by |-> r, what |-> "token", rows |-> {}])
         /\ To(r, "basemap") /\ UNCHANGED <<request, object, file, failures>>
      \/ /\ stage[r] = "read" /\ To(r, "done")
         /\ (faults < MaxFaults /\ faults' = faults + 1) \/ UNCHANGED faults
         /\ UNCHANGED <<conn, request, tables, object, file, raised, restarts>>
  BY DEF generate_project_files
<1> QED
  BY <1>2, <1>3, <1>4, <1>5

LEMMA BorrowingMode ==
  ASSUME Borrowing, NEW r \in Request, set_autocommit(r)
  PROVE  Borrowing'
<1> DEFINE c == request[r].conn
<1>1. /\ conn \in [Conn -> ConnState] /\ stage \in [Request -> Stage]
      /\ JobsTypeOK /\ Held /\ Begun /\ Owned
  BY Types DEF Borrowing
<1>2. /\ stage[r] = "basemap"
      /\ To(r, "done") \/ To(r, "create")
      /\ conn' = conn \/ conn' = [conn EXCEPT ![c].autocommit = TRUE]
      /\ UNCHANGED <<request, tables, object, file, failures>>
  <2>1. CASE conn[c].intrans
    BY <2>1 DEF set_autocommit
  <2>2. CASE ~conn[c].intrans
    BY <2>2 DEF set_autocommit
  <2> QED
    BY <2>1, <2>2
<1>3. /\ conn' \in [Conn -> ConnState]
      /\ \A d \in Conn : conn'[d].holder = conn[d].holder /\ conn'[d].pending = conn[d].pending
  <2>1. CASE conn' = [conn EXCEPT ![c].autocommit = TRUE]
    <3>1. c \in Conn
      BY <1>1, <1>2 DEF Begun
    <3> QED
      BY <2>1, <3>1, <1>1 DEF ConnState
  <2> QED
    BY <2>1, <1>1, <1>2
<1>4. /\ stage' \in [Request -> Stage]
      /\ \A q \in Request : (stage[q] # "none") <=> (stage'[q] # "none")
  BY <1>1, <1>2 DEF To, Stage
<1>5. JobsTypeOK'
  BY <1>1, <1>2, <1>3, <1>4 DEF JobsTypeOK, ConnState, tables, failures
<1>6. Held' /\ Begun'
  BY <1>1, <1>2, <1>3, <1>4 DEF Held, Begun
<1>7. Owned'
  <2>1. \A d \in Conn : \A w \in conn[d].pending : w.by \in Request
    BY <1>1 DEF ConnState, Write
  <2> QED
    BY <2>1, <1>1, <1>3, <1>4 DEF Owned
<1> QED
  BY <1>5, <1>6, <1>7 DEF Borrowing

\* A call of the database that raises.
LEMMA RaisesType ==
  ASSUME JobsTypeOK, NEW r \in Request, stage[r] \in Calls, NEW to, raises(r, to)
  PROVE  /\ raised' \subseteq Request \X Calls /\ raised \subseteq raised'
         /\ <<r, stage[r]>> \in raised'
         /\ faults' \in 0..MaxFaults /\ restarts' = restarts
         /\ To(r, to)
<1>1. faults \in 0..MaxFaults /\ faults < MaxFaults /\ faults' = faults + 1 /\ MaxFaults \in Nat
  BY JobsAssumption DEF JobsTypeOK, raises
<1>2. raised' = raised \union {<<r, stage[r]>>} /\ raised \subseteq Request \X Calls
  BY DEF JobsTypeOK, raises
<1> QED
  BY <1>1, <1>2 DEF raises

\* The creation of a basemap, spelled out.
LEMMA CreateDoes ==
  ASSUME JobsTypeOK, NEW r \in Request, DbBasemap_create(r)
  PROVE  /\ stage[r] = "create" /\ basemaps' \in [Request -> RowStatus]
         /\ raised' \subseteq Request \X Calls /\ raised \subseteq raised' /\ faults' \in 0..MaxFaults
         /\ \/ /\ basemaps' = [basemaps EXCEPT ![r] = "PENDING"]
               /\ To(r, IF project THEN "tilepack" ELSE "failed")
            \/ /\ basemaps' \in {basemaps, [basemaps EXCEPT ![r] = "PENDING"]}
               /\ To(r, "failed") /\ <<r, "create">> \in raised'
         /\ UNCHANGED <<conn, request, project, background_tasks, committed, object, file, restarts>>
<1>1. stage[r] = "create" /\ stage[r] \in Calls
      /\ UNCHANGED <<conn, request, project, background_tasks, committed, object, file>>
  BY DEF DbBasemap_create, Calls
<1>2. basemaps' \in [Request -> RowStatus]
  BY DEF DbBasemap_create, JobsTypeOK, RowStatus
<1>3. CASE /\ basemaps' = [basemaps EXCEPT ![r] = "PENDING"]
           /\ To(r, IF project THEN "tilepack" ELSE "failed")
           /\ UNCHANGED failures
  BY <1>1, <1>2, <1>3 DEF JobsTypeOK, failures
<1>4. CASE /\ basemaps' \in {basemaps, [basemaps EXCEPT ![r] = "PENDING"]}
           /\ raises(r, "failed")
  BY <1>1, <1>2, <1>4, RaisesType
<1> QED
  BY <1>3, <1>4 DEF DbBasemap_create

LEMMA BorrowingTiles ==
  ASSUME Borrowing, NEW r \in Request, DbBasemap_create(r) \/ tilepack(r) \/ unlink(r)
  PROVE  Borrowing'
<1>1. stage \in [Request -> Stage] /\ JobsTypeOK
  BY Types DEF Borrowing
<1>2. CASE DbBasemap_create(r)
  <2>1. PICK s \in {"tilepack", "failed"} : To(r, s)
    BY <1>1, <1>2, CreateDoes
  <2>2. s \in Stage \ {"none"}
    BY DEF Stage
  <2>3. stage' \in [Request -> Stage]
    BY <2>1, <2>2, <1>1 DEF To
  <2>4. JobsTypeOK'
    BY <2>3, <1>1, <1>2, CreateDoes DEF JobsTypeOK
  <2> QED
    BY <2>1, <2>2, <2>4, <1>1, <1>2, CreateDoes, BorrowingWork
<1>3. CASE tilepack(r)
  <2>1. PICK s \in {"tiling", "upload", "failing"} : To(r, s)
    BY <1>3 DEF tilepack
  <2>2. s \in Stage \ {"none"}
    BY DEF Stage
  <2>3. stage' \in [Request -> Stage]
    BY <2>1, <2>2, <1>1 DEF To
  <2>4. file' \in [{Source[q] : q \in Request} -> [exists : BOOLEAN, writers : SUBSET Request]]
    <3>1. CASE file' = [file EXCEPT ![Source[r]].exists = TRUE, ![Source[r]].writers = @ \union {r}]
      BY <3>1, <1>1 DEF JobsTypeOK
    <3>2. CASE file' = [file EXCEPT ![Source[r]].writers = @ \ {r}]
      BY <3>2, <1>1 DEF JobsTypeOK
    <3> QED
      BY <3>1, <3>2, <1>3 DEF tilepack, mbtiles_file
  <2>5. faults' \in 0..MaxFaults
    BY <1>1, <1>3, JobsAssumption DEF JobsTypeOK, tilepack, failures
  <2>6. /\ stage[r] # "none" /\ UNCHANGED <<conn, request>>
        /\ UNCHANGED <<project, background_tasks, basemaps, committed, object, raised, restarts>>
    BY <1>3 DEF tilepack, tables, failures
  <2>7. JobsTypeOK'
    BY <2>3, <2>4, <2>5, <2>6, <1>1 DEF JobsTypeOK
  <2> QED
    BY <2>1, <2>2, <2>6, <2>7, BorrowingWork
<1>4. CASE unlink(r)
  <2>1. "done" \in Stage \ {"none"}
    BY DEF Stage
  <2>2. JobsTypeOK'
    BY <2>1, <1>1, <1>4 DEF JobsTypeOK, unlink, To, failures, tables, mbtiles_file
  <2> QED
    BY <2>1, <2>2, <1>4, BorrowingWork DEF unlink
<1> QED
  BY <1>2, <1>3, <1>4

LEMMA BorrowingUpload ==
  ASSUME Borrowing, NEW r \in Request, add_file_to_bucket(r)
  PROVE  Borrowing'
<1>1. stage \in [Request -> Stage] /\ JobsTypeOK
  BY Types DEF Borrowing
<1>2. PICK s \in {"uploaded", "failing"} : To(r, s)
  BY DEF add_file_to_bucket
<1>3. s \in Stage \ {"none"}
  BY DEF Stage
<1>4. object' \in [Request -> {"none", "partial", "whole"}]
  BY <1>1 DEF JobsTypeOK, add_file_to_bucket
<1>5. faults' \in 0..MaxFaults
  BY <1>1, JobsAssumption DEF JobsTypeOK, add_file_to_bucket
<1>6. JobsTypeOK'
  BY <1>1, <1>2, <1>3, <1>4, <1>5 DEF JobsTypeOK, To, add_file_to_bucket, tables
<1> QED
  BY <1>2, <1>3, <1>6, BorrowingWork DEF add_file_to_bucket

\* The updates of the rows of a basemap and its background task, spelled out.
Reports(r) ==
  /\ stage[r] # "none"
  /\ \E s \in {"listed", "unlink", "failing", "failed"} : To(r, s)
  /\ background_tasks' \in [Request -> RowStatus] /\ basemaps' \in [Request -> RowStatus]
  /\ raised' \subseteq Request \X Calls /\ raised \subseteq raised' /\ faults' \in 0..MaxFaults
  /\ UNCHANGED <<conn, request, project, committed, object, file, restarts>>

\* One update of a row of basemaps, or of background_tasks.
UpdateDoes(r, rows, rest, from, status, ok, none) ==
  /\ stage[r] = from
  /\ raised' \subseteq Request \X Calls /\ raised \subseteq raised' /\ faults' \in 0..MaxFaults
  /\ \/ rows' = Marked(rows, r, status) /\ To(r, IF rows[r] = "none" THEN none ELSE ok)
     \/ /\ rows' \in {rows, Marked(rows, r, status)}
        /\ To(r, none) /\ <<r, from>> \in raised'
  /\ rest' = rest
  /\ UNCHANGED <<conn, request, project, committed, object, file, restarts>>

LEMMA UpdateIs ==
  ASSUME JobsTypeOK, NEW r \in Request, NEW from \in Calls, NEW status, NEW ok, NEW none
  PROVE  /\ update(r, "basemaps", from, status, ok, none) =>
              UpdateDoes(r, basemaps, background_tasks, from, status, ok, none)
         /\ update(r, "background_tasks", from, status, ok, none) =>
              UpdateDoes(r, background_tasks, basemaps, from, status, ok, none)
<1>1. UNCHANGED failures => /\ raised' \subseteq Request \X Calls /\ raised \subseteq raised'
                           /\ faults' \in 0..MaxFaults /\ restarts' = restarts
  BY DEF failures, JobsTypeOK
<1>2. stage[r] = from /\ raises(r, none) =>
        /\ raised' \subseteq Request \X Calls /\ raised \subseteq raised' /\ <<r, from>> \in raised'
        /\ faults' \in 0..MaxFaults /\ restarts' = restarts /\ To(r, none)
  BY RaisesType
<1>3. ASSUME update(r, "basemaps", from, status, ok, none)
      PROVE  UpdateDoes(r, basemaps, background_tasks, from, status, ok, none)
  BY <1>1, <1>2, <1>3 DEF update, UpdateDoes
<1>4. ASSUME update(r, "background_tasks", from, status, ok, none)
      PROVE  UpdateDoes(r, background_tasks, basemaps, from, status, ok, none)
  BY <1>1, <1>2, <1>4 DEF update, UpdateDoes
<1> QED
  BY <1>3, <1>4

LEMMA UpdateReports ==
  ASSUME JobsTypeOK, NEW r \in Request, succeeded(r) \/ reports_failure(r)
  PROVE  Reports(r)
<1>1. basemaps \in [Request -> RowStatus] /\ background_tasks \in [Request -> RowStatus]
      /\ {"uploaded", "listed", "failing", "failed"} \subseteq Calls /\ {"SUCCESS", "FAILED"} \subseteq RowStatus
  BY DEF JobsTypeOK, Calls, RowStatus
<1>2. CASE \/ update(r, "basemaps", "uploaded", "SUCCESS", "listed", "failing")
           \/ update(r, "basemaps", "failing", "FAILED", "failed", "unlink")
  <2>1. \/ UpdateDoes(r, basemaps, background_tasks, "uploaded", "SUCCESS", "listed", "failing")
        \/ UpdateDoes(r, basemaps, background_tasks, "failing", "FAILED", "failed", "unlink")
    BY <1>1, <1>2, UpdateIs
  <2>2. ASSUME NEW status \in RowStatus
        PROVE  /\ Marked(basemaps, r, status) \in [Request -> RowStatus]
               /\ \A q \in Request \ {r} : Marked(basemaps, r, status)[q] = basemaps[q]
    BY <1>1 DEF Marked
  <2> QED
    BY <2>1, <2>2, <1>1 DEF UpdateDoes, Reports
<1>3. CASE \/ update(r, "background_tasks", "listed", "SUCCESS", "unlink", "failing")
           \/ update(r, "background_tasks", "failed", "FAILED", "unlink", "unlink")
  <2>1. \/ UpdateDoes(r, background_tasks, basemaps, "listed", "SUCCESS", "unlink", "failing")
        \/ UpdateDoes(r, background_tasks, basemaps, "failed", "FAILED", "unlink", "unlink")
    BY <1>1, <1>3, UpdateIs
  <2>2. ASSUME NEW status \in RowStatus
        PROVE  /\ Marked(background_tasks, r, status) \in [Request -> RowStatus]
               /\ \A q \in Request \ {r} : Marked(background_tasks, r, status)[q] = background_tasks[q]
    BY <1>1 DEF Marked
  <2> QED
    BY <2>1, <2>2, <1>1 DEF UpdateDoes, Reports
<1> QED
  BY <1>2, <1>3 DEF succeeded, reports_failure

LEMMA BorrowingReports ==
  ASSUME Borrowing, NEW r \in Request, succeeded(r) \/ reports_failure(r)
  PROVE  Borrowing'
<1>1. stage \in [Request -> Stage] /\ JobsTypeOK /\ Reports(r)
  BY Types, UpdateReports DEF Borrowing
<1>2. PICK s \in {"listed", "unlink", "failing", "failed"} : To(r, s)
  BY <1>1 DEF Reports
<1>3. s \in Stage \ {"none"}
  BY DEF Stage
<1>4. JobsTypeOK'
  BY <1>1, <1>2, <1>3 DEF JobsTypeOK, Reports, To
<1> QED
  BY <1>1, <1>2, <1>3, <1>4, BorrowingWork DEF Reports

LEMMA BorrowingRestart == Borrowing /\ restart => Borrowing'
<1> SUFFICES ASSUME Borrowing, restart PROVE Borrowing'
  OBVIOUS
<1>1. /\ conn \in [Conn -> ConnState] /\ request \in [Request -> RequestState]
      /\ JobsTypeOK /\ Held /\ Begun /\ Owned
  BY Types DEF Borrowing
<1>2. conn' \in [Conn -> ConnState]
  BY DEF restart, ConnState, Idle
<1>3. /\ request' \in [Request -> RequestState]
      /\ \A r \in Request : request'[r].at # "running" /\ request'[r].conn = request[r].conn
      /\ \A r \in Request : request[r].at = "done" => request'[r].at = "done"
  BY <1>1 DEF restart, RequestState
<1>4. stage' \in [Request -> Stage] /\ \A r \in Request : stage'[r] # "none" => stage[r] # "none"
  BY DEF restart, Stage
<1>5. restarts' \in 0..MaxRestarts
  BY <1>1, JobsAssumption DEF JobsTypeOK, restart
<1>6. file' \in [{Source[r] : r \in Request} -> [exists : BOOLEAN, writers : SUBSET Request]]
  BY <1>1 DEF JobsTypeOK, restart
<1>7. JobsTypeOK'
  BY <1>1, <1>2, <1>3, <1>4, <1>5, <1>6 DEF JobsTypeOK, restart, tables, ConnState, RequestState
<1>8. Held' /\ Begun'
  BY <1>1, <1>3, <1>4, JobsAssumption DEF Held, Begun, restart, Idle
<1>9. Owned'
  BY DEF Owned, restart, Idle
<1> QED
  BY <1>7, <1>8, <1>9 DEF Borrowing

LEMMA BorrowingStep == Borrowing /\ [JobsNext]_jobsVars => Borrowing'
<1> SUFFICES ASSUME Borrowing, [JobsNext]_jobsVars PROVE Borrowing'
  OBVIOUS
<1>1. CASE restart
  BY <1>1, BorrowingRestart
<1>2. ASSUME NEW r \in Request, db_conn(r) \/ statement(r) \/ fail(r) \/ answer(r)
      PROVE  Borrowing'
  BY <1>2, BorrowingConn, BorrowingStatement, BorrowingFail, BorrowingAnswer
<1>3. ASSUME NEW r \in Request, background(r)
      PROVE  Borrowing'
  BY <1>3, BorrowingFiles, BorrowingMode, BorrowingTiles, BorrowingUpload, BorrowingReports
     DEF background
<1>4. CASE UNCHANGED jobsVars
  BY <1>4 DEF jobsVars, tables, failures, Borrowing, JobsTypeOK, Held, Begun, Owned
<1> QED
  BY <1>1, <1>2, <1>3, <1>4 DEF JobsNext

LEMMA AlwaysBorrowing == JobsSpec => []Borrowing
BY BorrowingStart, BorrowingStep, PTL DEF JobsSpec

\* JobsTypeOK holds throughout: the backend's tables, pool, archives and tasks are of their types.
THEOREM JobsTypeCorrect == JobsSpec => []JobsTypeOK
<1>1. Borrowing => JobsTypeOK
  BY DEF Borrowing
<1> QED
  BY <1>1, AlwaysBorrowing, PTL

-----------------------------------------------------------------------------
(* Transactions of BackgroundJobs. *)

\* What a statement of a request does to the pool and the tables.
LEMMA StatementDoes ==
  ASSUME Borrowing, NEW r \in Request, statement(r)
  PROVE  LET c == request[r].conn
             what == Script[Kind[r]][request[r].step]
             w == [by |-> r, what |-> what, rows |-> Rows(what)] IN
         /\ request[r].at = "running" /\ c \in Conn /\ conn[c].holder = r
         /\ w \in Write /\ w.by = r /\ w.what = what /\ what \in Statement \ {"token"}
         /\ Kind[r] # "delete" => what \in {"form", "task"}
         /\ \/ what = "s3" /\ conn' = conn /\ UNCHANGED tables
            \/ what # "s3" /\ Execute(c, w) /\ object' = object
         /\ \A q \in Request : request'[q].at = request[q].at /\ request'[q].conn = request[q].conn
         /\ UNCHANGED <<stage, file, raised, faults, restarts>>
<1> DEFINE c == request[r].conn
           what == Script[Kind[r]][request[r].step]
           w == [by |-> r, what |-> what, rows |-> Rows(what)]
<1>1. /\ conn \in [Conn -> ConnState] /\ request \in [Request -> RequestState] /\ Held
  BY Types DEF Borrowing
<1>2. /\ request[r].at = "running" /\ request[r].step <= Len(Script[Kind[r]])
      /\ request' = [request EXCEPT ![r].step = @ + 1]
      /\ UNCHANGED <<stage, file, raised, faults, restarts>>
  BY DEF statement, failures
<1>3. c \in Conn /\ conn[c].holder = r
  BY <1>1, <1>2 DEF Held
<1>4. what \in Statement \ {"token"} /\ (Kind[r] # "delete" => what \in {"form", "task"})
  BY <1>1, <1>2, ScriptSteps DEF RequestState
<1>5. \A q \in Request : request'[q].at = request[q].at /\ request'[q].conn = request[q].conn
  BY <1>1, <1>2 DEF RequestState
<1>6. w \in Write
  BY <1>4, RowsType DEF Write
<1>7. \/ what = "s3" /\ conn' = conn /\ UNCHANGED tables
      \/ what # "s3" /\ Execute(c, w) /\ object' = object
  <2>1. CASE what = "s3"
    BY <2>1 DEF statement
  <2>2. CASE what # "s3"
    BY <2>2 DEF statement
  <2> QED
    BY <2>1, <2>2
<1> QED
  BY <1>2, <1>3, <1>4, <1>5, <1>6, <1>7

\* What the end of a request does to the pool.
LEMMA EndDoes ==
  ASSUME Borrowing, NEW r \in Request, fail(r) \/ answer(r)
  PROVE  LET c == request[r].conn IN
         /\ request[r].at = "running" /\ c \in Conn /\ conn[c].holder = r
         /\ conn[c].pending \in SUBSET Write
         /\ conn'[c].holder = NoRequest /\ conn'[c].autocommit = conn[c].autocommit
         /\ \A d \in Conn \ {c} : conn'[d] = conn[d]
         /\ request'[r].at # "running" /\ request'[r].at # "new"
         /\ answer(r) => request'[r].at = "done"
         /\ \A q \in Request : request'[q].conn = request[q].conn
         /\ \A q \in Request \ {r} : request'[q].at = request[q].at
<1> DEFINE c == request[r].conn
<1>1. /\ conn \in [Conn -> ConnState] /\ request \in [Request -> RequestState] /\ Held
  BY Types DEF Borrowing
<1>2. request[r].at = "running" /\ conn' = GiveBack(c)
  BY DEF fail, answer
<1>3. c \in Conn /\ conn[c].holder = r
  BY <1>1, <1>2 DEF Held
<1>4. conn[c].pending \in SUBSET Write
  BY <1>1, <1>3 DEF ConnState
<1>5. /\ conn'[c].holder = NoRequest /\ conn'[c].autocommit = conn[c].autocommit
      /\ \A d \in Conn \ {c} : conn'[d] = conn[d]
  BY <1>1, <1>2, <1>3, GiveBackType
<1>6. /\ request'[r].at # "running" /\ request'[r].at # "new"
      /\ answer(r) => request'[r].at = "done"
      /\ \A q \in Request : request'[q].conn = request[q].conn
      /\ \A q \in Request \ {r} : request'[q].at = request[q].at
  <2>1. CASE fail(r) /\ ~answer(r)
    BY <2>1, <1>1 DEF fail, RequestState
  <2>2. CASE answer(r)
    BY <2>2, <1>1 DEF answer, RequestState
  <2> QED
    BY <2>1, <2>2
<1> QED
  BY <1>2, <1>3, <1>4, <1>5, <1>6

\* What a background task does to the pool: the three steps that use the connection, and the rest.
LEMMA WorkDoes ==
  ASSUME Borrowing, NEW r \in Request, background(r)
  PROVE  LET c == request[r].conn
             w == [by |-> r, what |-> "token", rows |-> {}] IN
         /\ stage[r] # "none" /\ request[r].at = "done" /\ c \in Conn /\ w \in Write
         /\ request' = request /\ restarts' = restarts
         /\ conn' \in [Conn -> ConnState]
         /\ \A d \in Conn : /\ conn'[d].holder = conn[d].holder
                            /\ conn[d].autocommit => conn'[d].autocommit
                            /\ conn[d].pending \subseteq conn'[d].pending
         /\ Execute(c, w) \/ committed' = committed
<1> DEFINE c == request[r].conn
           w == [by |-> r, what |-> "token", rows |-> {}]
<1>1. /\ conn \in [Conn -> ConnState] /\ JobsTypeOK /\ Begun
  BY Types DEF Borrowing
<1>2. CASE generate_project_files(r)
  <2>1. stage[r] # "none" /\ request' = request /\ restarts' = restarts
    BY <1>2 DEF generate_project_files, failures
  <2>2. request[r].at = "done" /\ c \in Conn /\ w \in Write
    BY <2>1, <1>1 DEF Begun, Write, Statement
  <2>3. CASE Execute(c, w)
    BY <2>1, <2>2, <2>3, <1>1, ExecuteType
  <2>4. CASE UNCHANGED tables /\ conn' = [conn EXCEPT ![c].intrans = ~conn[c].autocommit]
    BY <2>1, <2>2, <2>4, <1>1 DEF ConnState, tables
  <2>5. CASE UNCHANGED tables /\ conn' = conn
    BY <2>1, <2>2, <2>5, <1>1 DEF tables
  <2> QED
    BY <2>3, <2>4, <2>5, <1>2 DEF generate_project_files
<1>3. CASE set_autocommit(r)
  <2>1. stage[r] # "none" /\ request' = request /\ restarts' = restarts /\ UNCHANGED tables
    BY <1>3 DEF set_autocommit, failures
  <2>2. request[r].at = "done" /\ c \in Conn /\ w \in Write
    BY <2>1, <1>1 DEF Begun, Write, Statement
  <2>3. CASE conn[c].intrans
    BY <2>1, <2>2, <2>3, <1>1, <1>3 DEF set_autocommit, tables
  <2>4. CASE ~conn[c].intrans
    <3>1. conn' = [conn EXCEPT ![c].autocommit = TRUE]
      BY <2>4, <1>3 DEF set_autocommit
    <3> QED
      BY <3>1, <2>1, <2>2, <1>1 DEF ConnState, tables
  <2> QED
    BY <2>3, <2>4
<1>4. CASE DbBasemap_create(r) \/ tilepack(r) \/ add_file_to_bucket(r) \/ unlink(r) \/ Reports(r)
  <2>1. stage[r] # "none" /\ UNCHANGED <<conn, request, committed, restarts>>
    BY <1>4, <1>1, CreateDoes DEF tilepack, add_file_to_bucket, unlink, Reports, tables, failures
  <2>2. request[r].at = "done" /\ c \in Conn /\ w \in Write
    BY <2>1, <1>1 DEF Begun, Write, Statement
  <2> QED
    BY <2>1, <2>2, <1>1
<1> QED
  BY <1>1, <1>2, <1>3, <1>4, UpdateReports DEF background

\* While the holder of a connection goes on, what it has written stays.
Undisturbed ==
  \A c \in Conn : LET r == conn[c].holder IN
    r \in Request /\ request'[r].at = "running" => conn[c].pending \subseteq conn'[c].pending

LEMMA UndisturbedStep ==
  ASSUME Borrowing, [JobsNext]_jobsVars
  PROVE  Undisturbed
<1>1. /\ conn \in [Conn -> ConnState] /\ request \in [Request -> RequestState]
      /\ JobsTypeOK /\ Held
  BY Types DEF Borrowing
<1>2. ASSUME NEW r \in Request, db_conn(r)
      PROVE  Undisturbed
  <2>1. PICK c \in Conn :
          conn' = [conn EXCEPT ![c].holder = r, ![c].intrans = ~conn[c].autocommit]
    BY <1>2 DEF db_conn
  <2>2. \A d \in Conn : conn[d].pending \subseteq conn'[d].pending
    BY <2>1, <1>1 DEF ConnState
  <2> QED
    BY <2>2 DEF Undisturbed
<1>3. ASSUME NEW r \in Request, statement(r)
      PROVE  Undisturbed
  <2> DEFINE c == request[r].conn
             what == Script[Kind[r]][request[r].step]
             w == [by |-> r, what |-> what, rows |-> Rows(what)]
  <2>1. c \in Conn /\ w \in Write /\ (conn' = conn \/ Execute(c, w))
    BY <1>3, StatementDoes
  <2>2. \A d \in Conn : conn[d].pending \subseteq conn'[d].pending
    BY <2>1, <1>1, ExecuteType
  <2> QED
    BY <2>2 DEF Undisturbed
<1>4. ASSUME NEW r \in Request, fail(r) \/ answer(r)
      PROVE  Undisturbed
  BY <1>1, <1>4, EndDoes DEF Undisturbed
<1>5. ASSUME NEW r \in Request, background(r)
      PROVE  Undisturbed
  BY <1>1, <1>5, WorkDoes DEF Undisturbed
<1>6. CASE restart
  <2>1. \A r \in Request : request'[r].at # "running"
    BY <1>1, <1>6 DEF restart, RequestState
  <2> QED
    BY <2>1 DEF Undisturbed
<1>7. CASE UNCHANGED jobsVars
  BY <1>7 DEF Undisturbed, jobsVars
<1> QED
  BY <1>2, <1>3, <1>4, <1>5, <1>6, <1>7 DEF JobsNext

\* NotEndedByOthers: no other request and no background task ends the transaction of the request
\* that holds a connection of the pool, or takes a statement out of it.
THEOREM NotEndedByOthersHolds == JobsSpec => NotEndedByOthers
<1>1. Borrowing /\ [JobsNext]_jobsVars => [Undisturbed]_jobsVars
  BY UndisturbedStep
<1>2. JobsSpec => [][Undisturbed]_jobsVars
  BY <1>1, AlwaysBorrowing, PTL DEF JobsSpec
<1> QED
  BY <1>2 DEF NotEndedByOthers, Undisturbed

-----------------------------------------------------------------------------
(* What is committed and reported by BackgroundJobs. *)

\* A committed statement of a request that was not answered went through a connection that commits
\* each on its own, unless the API was restarted.
Traced ==
  \A r \in Request : (\E s \in Statement : <<r, s>> \in committed) =>
    \/ request[r].at = "done"
    \/ request[r].at # "new" /\ request[r].conn \in Conn /\ conn[request[r].conn].autocommit
    \/ restarts > 0

\* An archive is written by those tasks only that are making tiles of its source.
Writers ==
  \A s \in DOMAIN file : \A q \in file[s].writers : stage[q] = "tiling" /\ Source[q] = s

\* Where a background task is, and what the rows and the bucket say of it.
StageFits(r) ==
  LET b == basemaps[r]
      t == background_tasks[r] IN
  /\ stage[r] \in {"none", "files", "read", "basemap", "create"} => b = "none"
  /\ stage[r] \in {"tilepack", "tiling", "upload", "uploaded"} => b = "PENDING"
  /\ stage[r] \in {"uploaded", "listed"} => object[r] # "none"
  /\ stage[r] = "listed" => b = "SUCCESS"
  /\ stage[r] = "failing" => b # "none"
  /\ stage[r] = "failed" => b # "SUCCESS" /\ (b = "FAILED" \/ <<r, "create">> \in raised)
  /\ stage[r] = "unlink" => t # "PENDING" \/ Unreported(r)
  /\ stage[r] \notin {"failing", "failed", "unlink", "done"} => t \in {"none", "PENDING"}
  /\ stage[r] \in {"failing", "failed"} =>
       t \in {"none", "PENDING"} \/ (t = "SUCCESS" /\ <<r, "listed">> \in raised)
  /\ b = "SUCCESS" => object[r] # "none"
  /\ t = "SUCCESS" => b = "SUCCESS" \/ <<r, "listed">> \in raised
  /\ t = "FAILED" => b # "SUCCESS" /\ (b = "FAILED" \/ <<r, "create">> \in raised)

Reported == ~Deleting => project /\ \A r \in Request : StageFits(r)

LEMMA CommitAdds ==
  ASSUME NEW ws \in SUBSET Write, Commit(ws)
  PROVE  \A r, s : <<r, s>> \in committed' =>
           <<r, s>> \in committed \/ \E w \in ws : w.by = r
BY DEF Commit

LEMMA ExecuteAdds ==
  ASSUME NEW c, NEW w \in Write, Execute(c, w)
  PROVE  \A r, s : <<r, s>> \in committed' =>
           <<r, s>> \in committed \/ (r = w.by /\ conn[c].autocommit)
<1>1. CASE conn[c].autocommit
  BY <1>1, CommitAdds DEF Execute
<1>2. CASE ~conn[c].autocommit
  BY <1>2 DEF Execute, tables
<1> QED
  BY <1>1, <1>2

LEMMA TracedStep ==
  ASSUME Borrowing, Traced, [JobsNext]_jobsVars
  PROVE  Traced'
<1>1. /\ conn \in [Conn -> ConnState] /\ request \in [Request -> RequestState]
      /\ JobsTypeOK /\ Held /\ Begun /\ Owned
  BY Types DEF Borrowing
<1>2. ASSUME NEW r \in Request, db_conn(r)
      PROVE  Traced'
  <2>1. PICK c \in Conn :
          /\ conn' = [conn EXCEPT ![c].holder = r, ![c].intrans = ~conn[c].autocommit]
          /\ request' = [request EXCEPT ![r].at = "running", ![r].conn = c]
    BY <1>2 DEF db_conn
  <2>2. \A d \in Conn : conn'[d].autocommit = conn[d].autocommit
    BY <2>1, <1>1 DEF ConnState
  <2>3. \A q \in Request \ {r} : request'[q] = request[q]
    BY <2>1, <1>1 DEF RequestState
  <2>4. request[r].at = "new" /\ UNCHANGED <<committed, restarts>>
    BY <1>2 DEF db_conn, tables, failures
  <2> QED
    BY <2>2, <2>3, <2>4 DEF Traced
<1>3. ASSUME NEW r \in Request, statement(r)
      PROVE  Traced'
  <2> DEFINE c == request[r].conn
             what == Script[Kind[r]][request[r].step]
             w == [by |-> r, what |-> what, rows |-> Rows(what)]
  <2>1. /\ request[r].at = "running" /\ c \in Conn /\ w \in Write /\ w.by = r
        /\ \/ conn' = conn /\ UNCHANGED tables
           \/ Execute(c, w)
        /\ \A q \in Request : request'[q].at = request[q].at /\ request'[q].conn = request[q].conn
        /\ restarts' = restarts
    BY <1>3, StatementDoes
  <2>2. \A d \in Conn : conn'[d].autocommit = conn[d].autocommit
    BY <2>1, <1>1, ExecuteType
  <2>3. \A q, s : <<q, s>> \in committed' =>
          <<q, s>> \in committed \/ (q = r /\ conn[c].autocommit)
    <3>1. CASE UNCHANGED tables
      BY <3>1 DEF tables
    <3>2. CASE Execute(c, w)
      BY <3>2, <2>1, ExecuteAdds
    <3> QED
      BY <3>1, <3>2, <2>1
  <2> QED
    BY <2>1, <2>2, <2>3 DEF Traced
<1>4. ASSUME NEW r \in Request, fail(r) \/ answer(r)
      PROVE  Traced'
  <2> DEFINE c == request[r].conn
  <2>1. /\ request[r].at = "running" /\ c \in Conn /\ conn[c].holder = r
        /\ conn[c].pending \in SUBSET Write
        /\ conn'[c].autocommit = conn[c].autocommit
        /\ \A d \in Conn \ {c} : conn'[d] = conn[d]
        /\ request'[r].at # "new"
        /\ answer(r) => request'[r].at = "done"
        /\ \A q \in Request : request'[q].conn = request[q].conn
        /\ \A q \in Request \ {r} : request'[q].at = request[q].at
    BY <1>4, EndDoes
  <2>2. restarts' = restarts
    BY <1>4 DEF fail, answer, failures
  <2>3. \A q, s : <<q, s>> \in committed' =>
          <<q, s>> \in committed \/ request'[q].at = "done"
    <3>1. CASE fail(r)
      BY <3>1 DEF fail, tables
    <3>2. CASE answer(r)
      <4>1. Commit(conn[c].pending)
        BY <3>2 DEF answer
      <4>2. \A w \in conn[c].pending : w.by \in Request /\ request'[w.by].at = "done"
        <5>1. \A w \in conn[c].pending : w.by \in Request
          BY <2>1 DEF Write
        <5>2. \A w \in conn[c].pending : w.what = "token" => request[w.by].at = "done"
          BY <5>1, <2>1, <1>1 DEF Owned, Begun
        <5>3. \A w \in conn[c].pending : w.what # "token" => w.by = r
          BY <2>1, <1>1 DEF Owned
        <5> QED
          BY <5>1, <5>2, <5>3, <2>1, <3>2
      <4> QED
        BY <4>1, <4>2, <2>1, CommitAdds
    <3> QED
      BY <3>1, <3>2, <1>4
  <2> QED
    BY <2>1, <2>2, <2>3 DEF Traced
<1>5. ASSUME NEW r \in Request, background(r)
      PROVE  Traced'
  <2> DEFINE c == request[r].conn
             w == [by |-> r, what |-> "token", rows |-> {}]
  <2>1. /\ request[r].at = "done" /\ w \in Write /\ request' = request /\ restarts' = restarts
        /\ \A d \in Conn : conn[d].autocommit => conn'[d].autocommit
        /\ Execute(c, w) \/ committed' = committed
    BY <1>5, WorkDoes
  <2>2. \A q, s : <<q, s>> \in committed' => <<q, s>> \in committed \/ q = r
    BY <2>1, ExecuteAdds
  <2> QED
    BY <2>1, <2>2 DEF Traced
<1>6. CASE restart
  <2>1. restarts' > 0
    BY <1>1, <1>6, JobsAssumption DEF restart, JobsTypeOK
  <2> QED
    BY <2>1 DEF Traced
<1>7. CASE UNCHANGED jobsVars
  BY <1>7 DEF Traced, jobsVars, tables, failures
<1> QED
  BY <1>2, <1>3, <1>4, <1>5, <1>6, <1>7 DEF JobsNext

LEMMA WritersStep ==
  ASSUME Borrowing, Writers, PartialIsShared, [JobsNext]_jobsVars
  PROVE  Writers' /\ PartialIsShared'
<1>1. /\ stage \in [Request -> Stage] /\ request \in [Request -> RequestState]
      /\ JobsTypeOK /\ Begun
  BY Types DEF Borrowing
<1>2. /\ file \in [{Source[q] : q \in Request} -> [exists : BOOLEAN, writers : SUBSET Request]]
      /\ object \in [Request -> {"none", "partial", "whole"}]
  BY <1>1 DEF JobsTypeOK
<1> DEFINE Quiet ==
             /\ \A q \in Request : stage[q] # "none" => stage'[q] # "none"
             /\ \A q \in Request : object'[q] = "partial" => object[q] = "partial"
           Same(r) ==
             /\ file' = file /\ stage[r] # "tiling" /\ stage'[r] # "none"
             /\ \A q \in Request \ {r} : stage'[q] = stage[q]
<1>3. ASSUME NEW r \in Request, Same(r)
      PROVE  Writers'
  BY <1>2, <1>3 DEF Writers
<1>4. Quiet => PartialIsShared'
  BY DEF PartialIsShared
<1>5. ASSUME NEW r \in Request, db_conn(r) \/ statement(r) \/ fail(r)
      PROVE  Writers' /\ PartialIsShared'
  <2>1. UNCHANGED <<stage, file>>
    BY <1>5 DEF db_conn, statement, fail
  <2>2. Quiet
    <3>1. object' = object \/ object' = [q \in Request |-> "none"]
      <4>1. CASE statement(r)
        BY <4>1 DEF statement
      <4>2. CASE db_conn(r) \/ fail(r)
        BY <4>2 DEF db_conn, fail
      <4> QED
        BY <4>1, <4>2, <1>5
    <3> QED
      BY <2>1, <3>1
  <2>3. Writers'
    BY <2>1 DEF Writers
  <2> QED
    BY <1>4, <2>2, <2>3
<1>6. ASSUME NEW r \in Request, answer(r)
      PROVE  Writers' /\ PartialIsShared'
  <2>1. stage[r] = "none" /\ UNCHANGED <<object, file>>
    BY <1>1, <1>6 DEF answer, Begun
  <2>2. \E s \in {"files", "basemap", "done"} : stage' = [stage EXCEPT ![r] = s]
    <3>1. CASE Kind[r] = "files"
      BY <3>1, <1>6 DEF answer
    <3>2. CASE Kind[r] = "tiles"
      BY <3>2, <1>6 DEF answer
    <3>3. CASE Kind[r] # "files" /\ Kind[r] # "tiles"
      BY <3>3, <1>6 DEF answer
    <3> QED
      BY <3>1, <3>2, <3>3
  <2>3. Same(r) /\ Quiet
    BY <2>1, <2>2, <1>1
  <2> QED
    BY <2>3, <1>3, <1>4
<1>7. ASSUME NEW r \in Request,
             generate_project_files(r) \/ set_autocommit(r) \/ DbBasemap_create(r) \/ Reports(r),
             stage[r] # "tiling"
      PROVE  Writers' /\ PartialIsShared'
  <2>1. \E s \in Stage \ {"none"} : To(r, s)
    <3>1. CASE Reports(r)
      BY <3>1 DEF Reports, Stage
    <3>2. CASE generate_project_files(r)
      BY <3>2 DEF generate_project_files, Stage
    <3>3. CASE set_autocommit(r)
      BY <3>3 DEF set_autocommit, Stage
    <3>4. CASE DbBasemap_create(r)
      BY <3>4, <1>1, CreateDoes DEF Stage
    <3> QED
      BY <3>1, <3>2, <3>3, <3>4, <1>7
  <2>2. UNCHANGED <<object, file>>
    BY <1>7 DEF generate_project_files, set_autocommit, DbBasemap_create, Reports
  <2>3. Same(r) /\ Quiet
    BY <2>1, <2>2, <1>1, <1>7 DEF To
  <2> QED
    BY <2>3, <1>3, <1>4
<1>8. ASSUME NEW r \in Request, tilepack(r)
      PROVE  Writers' /\ PartialIsShared'
  <2>1. object' = object
    BY <1>8 DEF tilepack
  <2>2. /\ \E s \in {"tiling", "upload", "failing"} : stage' = [stage EXCEPT ![r] = s]
    BY <1>8 DEF tilepack, To
  <2>3. Quiet
    BY <2>1, <2>2, <1>1
  <2>4. Writers'
    <3>1. CASE /\ file' = [file EXCEPT ![Source[r]].exists = TRUE,
                                    ![Source[r]].writers = @ \union {r}]
               /\ stage' = [stage EXCEPT ![r] = "tiling"]
      <4>1. /\ DOMAIN file' = DOMAIN file
            /\ \A s \in DOMAIN file \ {Source[r]} : file'[s] = file[s]
            /\ Source[r] \in DOMAIN file
            /\ file'[Source[r]].writers = file[Source[r]].writers \union {r}
        BY <3>1, <1>2
      <4>2. stage'[r] = "tiling" /\ \A q \in Request \ {r} : stage'[q] = stage[q]
        BY <3>1, <1>1
      <4>3. \A s \in DOMAIN file : file[s].writers \in SUBSET Request
        BY <1>2
      <4> QED
        BY <4>1, <4>2, <4>3 DEF Writers
    <3>2. CASE /\ file' = [file EXCEPT ![Source[r]].writers = @ \ {r}]
               /\ \E s \in {"upload", "failing"} : stage' = [stage EXCEPT ![r] = s]
      <4>1. /\ DOMAIN file' = DOMAIN file
            /\ \A s \in DOMAIN file \ {Source[r]} : file'[s] = file[s]
            /\ Source[r] \in DOMAIN file
            /\ file'[Source[r]].writers = file[Source[r]].writers \ {r}
        BY <3>2, <1>2
      <4>2. \A q \in Request \ {r} : stage'[q] = stage[q]
        BY <3>2, <1>1
      <4>3. \A s \in DOMAIN file : file[s].writers \in SUBSET Request
        BY <1>2
      <4>4. \A s \in DOMAIN file \ {Source[r]} : r \notin file[s].writers
        BY DEF Writers
      <4> QED
        BY <4>1, <4>2, <4>3, <4>4 DEF Writers
    <3> QED
      BY <3>1, <3>2, <1>8 DEF tilepack, mbtiles_file, To
  <2> QED
    BY <1>4, <2>3, <2>4
<1>9. ASSUME NEW r \in Request, add_file_to_bucket(r)
      PROVE  Writers' /\ PartialIsShared'
  <2>1. file' = file /\ stage[r] = "upload"
    BY <1>9 DEF add_file_to_bucket
  <2>2. \E s \in {"uploaded", "failing"} : stage' = [stage EXCEPT ![r] = s]
    BY <1>9 DEF add_file_to_bucket, To
  <2>3. /\ stage'[r] # "none" /\ \A q \in Request \ {r} : stage'[q] = stage[q]
        /\ Same(r)
    BY <2>1, <2>2, <1>1
  <2>4. \A q \in Request \ {r} : object'[q] = object[q]
    BY <1>2, <1>9 DEF add_file_to_bucket
  <2>5. object'[r] = "partial" => object[r] = "partial" \/ file[Source[r]].writers # {}
    BY <1>2, <1>9 DEF add_file_to_bucket, mbtiles_file
  <2>6. ASSUME NEW q \in file[Source[r]].writers
        PROVE  q \in Request \ {r} /\ stage[q] = "tiling" /\ Source[q] = Source[r]
    BY <1>2, <2>1 DEF Writers
  <2>7. PartialIsShared'
    <3> SUFFICES ASSUME NEW q \in Request, object'[q] = "partial"
                 PROVE  \E p \in Request \ {q} : Source[p] = Source[q] /\ stage'[p] # "none"
      BY DEF PartialIsShared
    <3>1. CASE object[q] = "partial"
      BY <3>1, <2>3 DEF PartialIsShared
    <3>2. CASE object[q] # "partial"
      <4>1. q = r /\ file[Source[r]].writers # {}
        BY <3>2, <2>4, <2>5
      <4> QED
        BY <4>1, <2>3, <2>6
    <3> QED
      BY <3>1, <3>2
  <2> QED
    BY <1>3, <2>3, <2>7
<1>10. ASSUME NEW r \in Request, unlink(r)
       PROVE  Writers' /\ PartialIsShared'
  <2>1. /\ object' = object /\ stage[r] = "unlink" /\ stage' = [stage EXCEPT ![r] = "done"]
        /\ file' = [file EXCEPT ![Source[r]] = [exists |-> FALSE, writers |-> {}]]
    BY <1>10 DEF unlink, To, mbtiles_file
  <2>2. /\ DOMAIN file' = DOMAIN file
        /\ \A s \in DOMAIN file : file'[s].writers \subseteq file[s].writers
    BY <2>1, <1>2
  <2>3. \A q \in Request : stage[q] = "tiling" => stage'[q] = "tiling"
    BY <2>1, <1>1
  <2>4. Writers'
    BY <2>2, <2>3, <1>2 DEF Writers
  <2>5. Quiet
    BY <2>1, <1>1
  <2> QED
    BY <1>4, <2>4, <2>5
<1>11. CASE restart
  <2>1. Writers'
    BY <1>11 DEF restart, Writers
  <2>2. Quiet
    BY <1>11 DEF restart
  <2> QED
    BY <1>4, <2>1, <2>2
<1>12. CASE UNCHANGED jobsVars
  BY <1>12 DEF jobsVars, Writers, PartialIsShared
<1>13. ASSUME NEW r \in Request, background(r)
       PROVE  Writers' /\ PartialIsShared'
  <2>1. CASE generate_project_files(r) \/ set_autocommit(r) \/ DbBasemap_create(r)
    <3>1. stage[r] # "tiling"
      BY <2>1 DEF generate_project_files, set_autocommit, DbBasemap_create
    <3> QED
      BY <3>1, <2>1, <1>7
  <2>2. CASE succeeded(r) \/ reports_failure(r)
    <3>1. stage[r] # "tiling"
      BY <2>2 DEF succeeded, reports_failure, update
    <3> QED
      BY <3>1, <2>2, <1>1, <1>7, UpdateReports
  <2> QED
    BY <2>1, <2>2, <1>8, <1>9, <1>10, <1>13 DEF background
<1> QED
  BY <1>5, <1>6, <1>11, <1>12, <1>13 DEF JobsNext

\* A commit of no deletions.
LEMMA CommitFits ==
  ASSUME JobsTypeOK, NEW ws \in SUBSET Write, Commit(ws),
         \A w \in ws : w.what \notin {"tasks", "basemaps", "project"}
  PROVE  /\ project' = project
         /\ \A q \in Request :
              /\ basemaps'[q] = basemaps[q]
              /\ \/ background_tasks'[q] = background_tasks[q]
                 \/ /\ background_tasks'[q] = "PENDING"
                    /\ \E w \in ws : w.by = q /\ w.what = "task"
<1>1. /\ basemaps \in [Request -> RowStatus] /\ background_tasks \in [Request -> RowStatus]
      /\ project \in BOOLEAN
  BY DEF JobsTypeOK
<1>2. /\ UNION {w.rows : w \in {v \in ws : v.what = "tasks"}} = {}
      /\ UNION {w.rows : w \in {v \in ws : v.what = "basemaps"}} = {}
  OBVIOUS
<1>3. project' = project
  BY <1>1 DEF Commit
<1>4. \A q \in Request : basemaps'[q] = basemaps[q]
  BY <1>1, <1>2 DEF Commit
<1>5. \A q \in Request :
        \/ background_tasks'[q] = background_tasks[q]
        \/ background_tasks'[q] = "PENDING" /\ \E w \in ws : w.by = q /\ w.what = "task"
  BY <1>1, <1>2 DEF Commit
<1> QED
  BY <1>3, <1>4, <1>5

\* One statement that is no deletion.
LEMMA ExecuteFits ==
  ASSUME JobsTypeOK, NEW c, NEW w \in Write, Execute(c, w),
         w.what \notin {"tasks", "basemaps", "project"}
  PROVE  /\ project' = project
         /\ \A q \in Request :
              /\ basemaps'[q] = basemaps[q]
              /\ \/ background_tasks'[q] = background_tasks[q]
                 \/ background_tasks'[q] = "PENDING" /\ w.by = q /\ w.what = "task"
<1>1. CASE conn[c].autocommit
  <2>1. Commit({w})
    BY <1>1 DEF Execute
  <2> QED
    BY <2>1, CommitFits
<1>2. CASE ~conn[c].autocommit
  BY <1>2 DEF Execute, tables
<1> QED
  BY <1>1, <1>2

\* A step of one background task leaves what concerns the others alone.
LEMMA FitsOthers ==
  ASSUME Reported, ~Deleting, NEW r \in Request, StageFits(r)', project' = project,
         raised \subseteq raised',
         \A q \in Request \ {r} : /\ stage'[q] = stage[q] /\ basemaps'[q] = basemaps[q]
                                /\ background_tasks'[q] = background_tasks[q]
                                /\ object'[q] = object[q]
  PROVE  Reported'
<1>1. ASSUME NEW q \in Request
      PROVE  StageFits(q)'
  BY <1>1 DEF Reported, StageFits, Unreported
<1> QED
  BY <1>1 DEF Reported

\* Whatever else happens, a row may become PENDING before its task has begun.
LEMMA FitsPending ==
  ASSUME JobsTypeOK, Reported, ~Deleting, project' = project, raised' = raised,
         \A q \in Request :
           /\ \/ stage'[q] = stage[q]
              \/ stage[q] = "none" /\ stage'[q] \in {"files", "basemap", "done"}
           /\ basemaps'[q] = basemaps[q] /\ object'[q] = object[q]
           /\ \/ background_tasks'[q] = background_tasks[q]
              \/ background_tasks'[q] = "PENDING" /\ stage[q] = "none"
  PROVE  Reported'
<1>1. ASSUME NEW q \in Request
      PROVE  StageFits(q)'
  <2>1. CASE stage'[q] = stage[q] /\ background_tasks'[q] = background_tasks[q]
    BY <2>1 DEF Reported, StageFits, Unreported
  <2>2. CASE stage[q] = "none"
    BY <2>2 DEF Reported, StageFits
  <2> QED
    BY <2>1, <2>2
<1> QED
  BY <1>1 DEF Reported

LEMMA ReportedTask ==
  ASSUME Borrowing, Reported, ~Deleting, NEW r \in Request, background(r)
  PROVE  Reported'
<1>1. /\ stage \in [Request -> Stage] /\ JobsTypeOK /\ StageFits(r) /\ project
      /\ basemaps \in [Request -> RowStatus] /\ background_tasks \in [Request -> RowStatus]
      /\ object \in [Request -> {"none", "partial", "whole"}]
  BY Types DEF Borrowing, JobsTypeOK, Reported
<1>2. CASE generate_project_files(r)
  <2> DEFINE c == request[r].conn
             w == [by |-> r, what |-> "token", rows |-> {}]
  <2>1. /\ stage[r] \in {"files", "read"} /\ object' = object /\ raised' = raised
        /\ \E s \in {"read", "basemap", "done"} : stage' = [stage EXCEPT ![r] = s]
        /\ UNCHANGED tables \/ Execute(c, w)
    BY <1>2 DEF generate_project_files, failures, To
  <2>2. project' = project /\ \A q \in Request : /\ basemaps'[q] = basemaps[q]
                                              /\ background_tasks'[q] = background_tasks[q]
    <3>1. CASE UNCHANGED tables
      BY <3>1 DEF tables
    <3>2. CASE Execute(c, w)
      <4>1. w \in Write /\ w.what = "token"
        BY DEF Write, Statement
      <4> QED
        BY <4>1, <3>2, <1>1, ExecuteFits
    <3> QED
      BY <3>1, <3>2, <2>1
  <2>3. StageFits(r)'
    BY <2>1, <2>2, <1>1 DEF StageFits, Unreported
  <2> QED
    BY <2>1, <2>2, <2>3, <1>1, FitsOthers
<1>3. CASE set_autocommit(r) \/ tilepack(r) \/ unlink(r)
  <2>1. /\ \/ stage[r] = "basemap" /\ \E s \in {"create", "done"} : stage' = [stage EXCEPT ![r] = s]
           \/ stage[r] = "tilepack" /\ stage' = [stage EXCEPT ![r] = "tiling"]
           \/ /\ stage[r] = "tiling"
              /\ \E s \in {"upload", "failing"} : stage' = [stage EXCEPT ![r] = s]
           \/ stage[r] = "unlink" /\ stage' = [stage EXCEPT ![r] = "done"]
        /\ UNCHANGED <<project, basemaps, background_tasks, object, raised>>
    BY <1>3 DEF set_autocommit, tilepack, unlink, tables, failures, To
  <2>2. StageFits(r)'
    BY <2>1, <1>1 DEF StageFits, Unreported
  <2> QED
    BY <2>1, <2>2, <1>1, FitsOthers
<1>4. CASE DbBasemap_create(r)
  <2>1. /\ stage[r] = "create" /\ raised \subseteq raised'
        /\ \/ basemaps' = [basemaps EXCEPT ![r] = "PENDING"] /\ stage' = [stage EXCEPT ![r] = "tilepack"]
           \/ /\ basemaps' \in {basemaps, [basemaps EXCEPT ![r] = "PENDING"]}
              /\ stage' = [stage EXCEPT ![r] = "failed"] /\ <<r, "create">> \in raised'
        /\ UNCHANGED <<project, background_tasks, object>>
    BY <1>1, <1>4, CreateDoes DEF To
  <2>2. StageFits(r)'
    BY <2>1, <1>1 DEF StageFits, Unreported
  <2> QED
    BY <2>1, <2>2, <1>1, FitsOthers
<1>5. CASE add_file_to_bucket(r)
  <2>1. /\ stage[r] = "upload"
        /\ \/ /\ \E o \in {"whole", "partial"} : object' = [object EXCEPT ![r] = o]
              /\ stage' = [stage EXCEPT ![r] = "uploaded"]
           \/ object' = object /\ stage' = [stage EXCEPT ![r] = "failing"]
        /\ UNCHANGED <<project, basemaps, background_tasks, raised>>
    BY <1>5 DEF add_file_to_bucket, To, tables
  <2>2. StageFits(r)'
    BY <2>1, <1>1 DEF StageFits, Unreported
  <2> QED
    BY <2>1, <2>2, <1>1, FitsOthers
<1>6. {"uploaded", "listed", "failing", "failed"} \subseteq Calls /\ {"SUCCESS", "FAILED"} \subseteq RowStatus
  BY DEF Calls, RowStatus
<1>7. CASE update(r, "basemaps", "uploaded", "SUCCESS", "listed", "failing")
  <2>1. /\ stage[r] = "uploaded" /\ raised \subseteq raised'
        /\ \/ basemaps'[r] = "SUCCESS" /\ stage' = [stage EXCEPT ![r] = "listed"]
           \/ basemaps'[r] \in {basemaps[r], "SUCCESS"} /\ stage' = [stage EXCEPT ![r] = "failing"]
        /\ \A q \in Request \ {r} : basemaps'[q] = basemaps[q]
        /\ UNCHANGED <<project, background_tasks, object>>
    <3>1. UpdateDoes(r, basemaps, background_tasks, "uploaded", "SUCCESS", "listed", "failing")
      BY <1>1, <1>6, <1>7, UpdateIs
    <3>2. basemaps[r] = "PENDING"
      BY <3>1, <1>1 DEF StageFits, UpdateDoes
    <3>3. /\ \A q \in Request \ {r} : Marked(basemaps, r, "SUCCESS")[q] = basemaps[q]
          /\ basemaps[r] = "none" => Marked(basemaps, r, "SUCCESS")[r] = "none"
          /\ basemaps[r] # "none" => Marked(basemaps, r, "SUCCESS")[r] = "SUCCESS"
      BY <1>1 DEF Marked, JobsTypeOK
    <3> QED
      BY <3>1, <3>2, <3>3, <1>1 DEF UpdateDoes, To
  <2>2. StageFits(r)'
    BY <2>1, <1>1 DEF StageFits, Unreported
  <2> QED
    BY <2>1, <2>2, <1>1, FitsOthers
<1>8. CASE update(r, "basemaps", "failing", "FAILED", "failed", "unlink")
  <2>1. /\ stage[r] = "failing" /\ raised \subseteq raised'
        /\ \/ basemaps'[r] = "FAILED" /\ stage' = [stage EXCEPT ![r] = "failed"]
           \/ /\ basemaps'[r] \in {basemaps[r], "FAILED"} /\ stage' = [stage EXCEPT ![r] = "unlink"]
              /\ <<r, "failing">> \in raised'
        /\ \A q \in Request \ {r} : basemaps'[q] = basemaps[q]
        /\ UNCHANGED <<project, background_tasks, object>>
    <3>1. UpdateDoes(r, basemaps, background_tasks, "failing", "FAILED", "failed", "unlink")
      BY <1>1, <1>6, <1>8, UpdateIs
    <3>2. basemaps[r] # "none"
      BY <3>1, <1>1 DEF StageFits, UpdateDoes
    <3>3. /\ \A q \in Request \ {r} : Marked(basemaps, r, "FAILED")[q] = basemaps[q]
          /\ basemaps[r] = "none" => Marked(basemaps, r, "FAILED")[r] = "none"
          /\ basemaps[r] # "none" => Marked(basemaps, r, "FAILED")[r] = "FAILED"
      BY <1>1 DEF Marked, JobsTypeOK
    <3> QED
      BY <3>1, <3>2, <3>3, <1>1 DEF UpdateDoes, To
  <2>2. StageFits(r)'
    BY <2>1, <1>1 DEF StageFits, Unreported
  <2> QED
    BY <2>1, <2>2, <1>1, FitsOthers
<1>9. CASE update(r, "background_tasks", "listed", "SUCCESS", "unlink", "failing")
  <2>1. /\ stage[r] = "listed" /\ raised \subseteq raised'
        /\ \/ background_tasks'[r] = "SUCCESS" /\ stage' = [stage EXCEPT ![r] = "unlink"]
           \/ background_tasks'[r] = "none" /\ stage' = [stage EXCEPT ![r] = "failing"]
           \/ /\ background_tasks'[r] \in {background_tasks[r], "SUCCESS"} /\ <<r, "listed">> \in raised'
              /\ stage' = [stage EXCEPT ![r] = "failing"]
        /\ \A q \in Request \ {r} : background_tasks'[q] = background_tasks[q]
        /\ UNCHANGED <<project, basemaps, object>>
    <3>1. UpdateDoes(r, background_tasks, basemaps, "listed", "SUCCESS", "unlink", "failing")
      BY <1>1, <1>6, <1>9, UpdateIs
    <3>2. /\ \A q \in Request \ {r} : Marked(background_tasks, r, "SUCCESS")[q] = background_tasks[q]
          /\ background_tasks[r] = "none" => Marked(background_tasks, r, "SUCCESS")[r] = "none"
          /\ background_tasks[r] # "none" => Marked(background_tasks, r, "SUCCESS")[r] = "SUCCESS"
      BY <1>1 DEF Marked, JobsTypeOK
    <3> QED
      BY <3>1, <3>2, <1>1 DEF UpdateDoes, To
  <2>2. StageFits(r)'
    BY <2>1, <1>1 DEF StageFits, Unreported
  <2> QED
    BY <2>1, <2>2, <1>1, FitsOthers
<1>10. CASE update(r, "background_tasks", "failed", "FAILED", "unlink", "unlink")
  <2>1. /\ stage[r] = "failed" /\ raised \subseteq raised' /\ stage' = [stage EXCEPT ![r] = "unlink"]
        /\ \/ background_tasks'[r] \in {"none", "FAILED"}
           \/ background_tasks'[r] = background_tasks[r] /\ <<r, "failed">> \in raised'
        /\ \A q \in Request \ {r} : background_tasks'[q] = background_tasks[q]
        /\ UNCHANGED <<project, basemaps, object>>
    <3>1. UpdateDoes(r, background_tasks, basemaps, "failed", "FAILED", "unlink", "unlink")
      BY <1>1, <1>6, <1>10, UpdateIs
    <3>2. /\ \A q \in Request \ {r} : Marked(background_tasks, r, "FAILED")[q] = background_tasks[q]
          /\ background_tasks[r] = "none" => Marked(background_tasks, r, "FAILED")[r] = "none"
          /\ background_tasks[r] # "none" => Marked(background_tasks, r, "FAILED")[r] = "FAILED"
      BY <1>1 DEF Marked, JobsTypeOK
    <3> QED
      BY <3>1, <3>2, <1>1 DEF UpdateDoes, To
  <2>2. StageFits(r)'
    BY <2>1, <1>1 DEF StageFits, Unreported
  <2> QED
    BY <2>1, <2>2, <1>1, FitsOthers
<1> QED
  BY <1>2, <1>3, <1>4, <1>5, <1>7, <1>8, <1>9, <1>10 DEF background, succeeded, reports_failure

LEMMA ReportedStep ==
  ASSUME Borrowing, Reported, [JobsNext]_jobsVars
  PROVE  Reported'
<1> SUFFICES ASSUME ~Deleting' PROVE Reported'
  BY DEF Reported
<1>1. /\ conn \in [Conn -> ConnState] /\ request \in [Request -> RequestState]
      /\ stage \in [Request -> Stage]
      /\ JobsTypeOK /\ Held /\ Begun /\ Owned
  BY Types DEF Borrowing
<1>2. ASSUME NEW r \in Request, db_conn(r) \/ fail(r)
      PROVE  Reported'
  <2>1. /\ UNCHANGED <<stage, project, basemaps, background_tasks, object, raised>>
        /\ \A q \in Request : request[q].at # "new" => request'[q].at # "new"
    BY <1>1, <1>2 DEF db_conn, fail, tables, failures, RequestState
  <2>2. ~Deleting
    BY <2>1 DEF Deleting
  <2> QED
    BY <2>1, <2>2, <1>1, FitsPending
<1>3. ASSUME NEW r \in Request, statement(r)
      PROVE  Reported'
  <2> DEFINE c == request[r].conn
             what == Script[Kind[r]][request[r].step]
             w == [by |-> r, what |-> what, rows |-> Rows(what)]
  <2>1. /\ request[r].at = "running" /\ w \in Write /\ w.by = r /\ w.what = what
        /\ Kind[r] # "delete" => what \in {"form", "task"}
        /\ \/ what = "s3" /\ conn' = conn /\ UNCHANGED tables
           \/ what # "s3" /\ Execute(c, w) /\ object' = object
        /\ \A q \in Request : request'[q].at = request[q].at
        /\ stage' = stage /\ raised' = raised
    BY <1>3, StatementDoes DEF statement, failures
  <2>2. ~Deleting
    BY <2>1 DEF Deleting
  <2>3. Kind[r] # "delete"
    BY <2>1, <2>2 DEF Deleting
  <2>4. Execute(c, w) /\ object' = object /\ w.what \notin {"tasks", "basemaps", "project"}
    BY <2>1, <2>3
  <2>5. stage[r] = "none"
    BY <2>1, <1>1 DEF Begun
  <2>6. /\ project' = project
        /\ \A q \in Request :
             /\ basemaps'[q] = basemaps[q]
             /\ \/ background_tasks'[q] = background_tasks[q]
                \/ background_tasks'[q] = "PENDING" /\ stage[q] = "none"
    BY <2>1, <2>4, <2>5, <1>1, ExecuteFits
  <2> QED
    BY <2>1, <2>2, <2>4, <2>6, <1>1, FitsPending
<1>4. ASSUME NEW r \in Request, answer(r)
      PROVE  Reported'
  <2> DEFINE c == request[r].conn
  <2>1. /\ request[r].at = "running" /\ c \in Conn /\ conn[c].holder = r
        /\ conn[c].pending \in SUBSET Write
        /\ request'[r].at # "new"
        /\ \A q \in Request \ {r} : request'[q].at = request[q].at
    BY <1>4, EndDoes
  <2>2. ~Deleting
    BY <2>1 DEF Deleting
  <2>3. Kind[r] # "delete"
    BY <2>1, <2>2 DEF Deleting
  <2>4. \A w \in conn[c].pending :
          /\ w.what \notin {"tasks", "basemaps", "project"}
          /\ w.what = "task" => w.by = r
    BY <2>1, <2>3, <1>1 DEF Owned
  <2>5. stage[r] = "none" /\ object' = object /\ raised' = raised /\ Commit(conn[c].pending)
    BY <2>1, <1>1, <1>4 DEF Begun, answer, failures
  <2>6. \E s \in {"files", "basemap", "done"} : stage' = [stage EXCEPT ![r] = s]
    <3>1. CASE Kind[r] = "files"
      BY <3>1, <1>4 DEF answer
    <3>2. CASE Kind[r] = "tiles"
      BY <3>2, <1>4 DEF answer
    <3>3. CASE Kind[r] # "files" /\ Kind[r] # "tiles"
      BY <3>3, <1>4 DEF answer
    <3> QED
      BY <3>1, <3>2, <3>3
  <2>7. /\ project' = project
        /\ \A q \in Request :
             /\ basemaps'[q] = basemaps[q]
             /\ \/ background_tasks'[q] = background_tasks[q]
                \/ background_tasks'[q] = "PENDING" /\ stage[q] = "none"
    BY <2>1, <2>4, <2>5, <1>1, CommitFits
  <2>8. \A q \in Request :
          stage'[q] = stage[q] \/ (stage[q] = "none" /\ stage'[q] \in {"files", "basemap", "done"})
    BY <2>5, <2>6, <1>1
  <2> QED
    BY <2>2, <2>5, <2>7, <2>8, <1>1, FitsPending
<1>5. ASSUME NEW r \in Request, background(r)
      PROVE  Reported'
  <2>1. request' = request
    BY <1>5, WorkDoes
  <2> QED
    BY <2>1, <1>5, ReportedTask DEF Deleting
<1>6. CASE restart
  <2>1. /\ UNCHANGED <<project, basemaps, background_tasks, object, raised>>
        /\ \A q \in Request : request[q].at # "new" => request'[q].at # "new"
        /\ \A q \in Request : stage'[q] = IF stage[q] = "none" THEN "none" ELSE "done"
    BY <1>1, <1>6 DEF restart, tables, RequestState
  <2>2. ~Deleting
    BY <2>1 DEF Deleting
  <2>3. ASSUME NEW q \in Request
        PROVE  StageFits(q)'
    BY <2>1, <2>2 DEF Reported, StageFits, Unreported
  <2> QED
    BY <2>1, <2>2, <2>3 DEF Reported
<1>7. CASE UNCHANGED jobsVars
  BY <1>7 DEF jobsVars, tables, failures, Reported, StageFits, Unreported, Deleting
<1> QED
  BY <1>2, <1>3, <1>4, <1>5, <1>6, <1>7 DEF JobsNext

\* OutcomeSound: the rows of basemaps and background tasks report what happened, and a request that
\* failed left nothing, with no other exceptions than the named ones.
THEOREM OutcomeSoundHolds == JobsSpec => []OutcomeSound
<1>1. JobsInit => Traced /\ Writers /\ PartialIsShared /\ Reported
  <2> SUFFICES ASSUME JobsInit PROVE Traced /\ Writers /\ PartialIsShared /\ Reported
    OBVIOUS
  <2> USE DEF JobsInit
  <2>1. Traced
    BY DEF Traced
  <2>2. Writers
    BY DEF Writers
  <2>3. PartialIsShared
    BY DEF PartialIsShared
  <2>4. Reported
    BY DEF Reported, StageFits
  <2> QED
    BY <2>1, <2>2, <2>3, <2>4
<1>2. Borrowing /\ Traced /\ Writers /\ PartialIsShared /\ Reported /\ [JobsNext]_jobsVars
        => Traced' /\ Writers' /\ PartialIsShared' /\ Reported'
  BY TracedStep, WritersStep, ReportedStep
<1>3. Traced /\ PartialIsShared /\ Reported => OutcomeSound
  <2> SUFFICES ASSUME Traced, PartialIsShared, Reported PROVE OutcomeSound
    OBVIOUS
  <2>1. ReportedRight
    BY DEF Reported, StageFits, ReportedRight
  <2>2. FailureLeavesNothing
    BY DEF Traced, FailureLeavesNothing
  <2> QED
    BY <2>1, <2>2 DEF OutcomeSound, ReadyIsThere
<1> QED
  BY <1>1, <1>2, <1>3, AlwaysBorrowing, PTL DEF JobsSpec

=============================================================================

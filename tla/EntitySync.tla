----------------------------- MODULE EntitySync -----------------------------
(***************************************************************************)
(* The features of one project: their mapping status is kept as a property *)
(* of Entities in ODK Central and mirrored in the table odk_entities, which*)
(* the mapper frontend shows.                                              *)
(*                                                                         *)
(* Three things write the mirror: the webhook ODK Central calls for every  *)
(* entity update, GET /projects/{id}/entities/statuses (page loads and the *)
(* sync button), which fetches all statuses and then upserts them, and the *)
(* unlock job, which sets opened entities back to READY in ODK Central and *)
(* then does the same.  None of them compares versions.                    *)
(***************************************************************************)
EXTENDS Integers, FiniteSets

CONSTANTS
    Entity,
    Reader, JobSync,      \* requests that sync the mirror; the one inside the unlock job
    FormStatus,           \* the statuses the survey form writes
    Absent,               \* no such entity, or no row for it
    EntityWindow,         \* hours an entity update makes the job skip the project (72)
    OpenedWindow,         \* the age, in hours, the job compares opened entities with (1)
    HooksMayFail,         \* whether webhook calls may be lost
    MaxUpdates, MaxTime   \* bounds: updates in ODK Central; hours

\* db/enums.py EntityState.
EntityState == {"READY", "OPENED_IN_ODK", "SURVEY_SUBMITTED", "NEW_GEOM", "VALIDATED",
                "MARKED_BAD"}

\* Any value of the property "status" that is not one of those numbers.
Invalid == "INVALID"

Status == EntityState \union {Invalid}

ASSUME EntityAssumption ==
  /\ JobSync \notin Reader
  /\ FormStatus \subseteq Status
  /\ Absent \notin Status
  /\ EntityWindow \in Nat /\ OpenedWindow \in Nat /\ OpenedWindow <= EntityWindow
  /\ HooksMayFail \in BOOLEAN
  /\ MaxUpdates \in Nat /\ MaxTime \in Nat

VARIABLES
    odk,       \* ODK Central: status and hour of the last update of each entity
    surveyed,  \* the entities with a submission
    mirror,    \* odk_entities: the status of each entity
    posts,     \* requests to set a status, sent by frontends and not yet executed
    hooks,     \* webhook calls under way
    sync,      \* for each sync: what it has fetched and not yet written
    job,       \* the unlock job, on this project
    now,
    updates,   \* number of entity updates in ODK Central
    settled    \* (history) the mirror was last written from a snapshot that is still true

vars == <<odk, surveyed, mirror, posts, hooks, sync, job, now, updates, settled>>

-----------------------------------------------------------------------------
Snapshot == [Entity -> Status \union {Absent}]

TypeOK ==
  /\ odk \in [Entity -> [status : Status \union {Absent}, updated : Int]]
  /\ surveyed \subseteq Entity
  /\ mirror \in [Entity -> EntityState \union {Absent}]
  /\ posts \subseteq [entity : Entity, status : EntityState]
  /\ hooks \subseteq [entity : Entity, status : Status, n : Nat]
  /\ sync \in [Reader \union {JobSync} ->
                 [pc : {"idle", "fetched"}, snap : Snapshot, current : BOOLEAN]]
  /\ job \in [pc : {"idle", "checked", "reset", "sync"}, at : Int, todo : SUBSET Entity]
  /\ now \in Nat
  /\ updates \in Nat
  /\ settled \in BOOLEAN

NoSync == [pc |-> "idle", snap |-> [e \in Entity |-> Absent], current |-> FALSE]

\* The project's entities were created in ODK Central long ago; no page has been loaded.
Init ==
  /\ odk \in [Entity -> {[status |-> s, updated |-> -EntityWindow] : s \in {"READY", Absent}}]
  /\ surveyed = {}
  /\ mirror = [e \in Entity |-> Absent]
  /\ posts = {}
  /\ hooks = {}
  /\ sync = [r \in Reader \union {JobSync} |-> NoSync]
  /\ job = [pc |-> "idle", at |-> 0, todo |-> {}]
  /\ now = 0
  /\ updates = 0
  /\ settled = FALSE

-----------------------------------------------------------------------------
(***************************************************************************)
(* ODK Central.  Every update of an entity is announced by one webhook     *)
(* call; the calls may arrive in any order or not at all.                  *)
(***************************************************************************)
Update(e, s) ==
  /\ updates < MaxUpdates
  /\ updates' = updates + 1
  /\ odk' = [odk EXCEPT ![e] = [status |-> s, updated |-> now]]
  /\ hooks' = hooks \union {[entity |-> e, status |-> s, n |-> updates']}
  /\ settled' = FALSE

\* What the syncs have fetched, once ODK Central has changed.
Outdated(f) == [r \in DOMAIN f |-> [f[r] EXCEPT !.current = FALSE]]

\* A new feature drawn by a mapper, or the upload of the project's features.
create_entity(e, s) ==
  /\ odk[e].status = Absent
  /\ Update(e, s)
  /\ sync' = Outdated(sync)
  /\ UNCHANGED <<surveyed, mirror, posts, job, now>>

\* The survey of the entity is submitted from ODK Collect, which opens for any status.
submit(e, s) ==
  /\ odk[e].status # Absent
  /\ Update(e, s)
  /\ surveyed' = surveyed \union {e}
  /\ sync' = Outdated(sync)
  /\ UNCHANGED <<mirror, posts, job, now>>

-----------------------------------------------------------------------------
(***************************************************************************)
(* The frontends.  A request to set a status is not awaited.               *)
(***************************************************************************)
\* mapFeature: only what the mirror shows as READY is set to OPENED_IN_ODK.
mapFeature(e) ==
  /\ mirror[e] = "READY"
  /\ posts' = posts \union {[entity |-> e, status |-> "OPENED_IN_ODK"]}
  /\ UNCHANGED <<odk, surveyed, mirror, hooks, sync, job, now, updates, settled>>

\* UpdateReviewStatusModal: a submission is approved or has issues.
review(e, s) ==
  /\ e \in surveyed
  /\ s \in {"VALIDATED", "MARKED_BAD"}
  /\ posts' = posts \union {[entity |-> e, status |-> s]}
  /\ UNCHANGED <<odk, surveyed, mirror, hooks, sync, job, now, updates, settled>>

\* POST /projects/{id}/entity/status: the status of the entity is not looked at.
set_odk_entities_mapping_status(q) ==
  /\ Update(q.entity, q.status)
  /\ posts' = posts \ {q}
  /\ sync' = Outdated(sync)
  /\ UNCHANGED <<surveyed, mirror, job, now>>

\* The phone is offline, or ODK Central is: the error is caught and ignored.
lose_post(q) ==
  /\ posts' = posts \ {q}
  /\ UNCHANGED <<odk, surveyed, mirror, hooks, sync, job, now, updates, settled>>

-----------------------------------------------------------------------------
(***************************************************************************)
(* The mirror.                                                             *)
(***************************************************************************)
\* DbOdkEntities.update changes rows and adds none.
update_entity_status_in_fmtm(h) ==
  /\ hooks' = hooks \ {h}
  /\ IF h.status \in EntityState /\ mirror[h.entity] # Absent
       THEN mirror' = [mirror EXCEPT ![h.entity] = h.status] /\ settled' = FALSE
       ELSE UNCHANGED <<mirror, settled>>
  /\ UNCHANGED <<odk, surveyed, posts, sync, job, now, updates>>

lose_hook(h) ==
  /\ HooksMayFail
  /\ hooks' = hooks \ {h}
  /\ UNCHANGED <<odk, surveyed, mirror, posts, sync, job, now, updates, settled>>

\* get_entities_data, of all entities.
fetch(r) ==
  /\ sync[r].pc = "idle"
  /\ sync' = [sync EXCEPT ![r] = [pc |-> "fetched", current |-> TRUE,
                                  snap |-> [e \in Entity |-> odk[e].status]]]

\* Mutant of Readable: a project feature without an entity makes the list unusable.
Readable_all(snap) == \A e \in Entity : snap[e] \in EntityState

\* DbOdkEntities.upsert of a list that has a status out of range raises.
Readable(snap) == \A e \in Entity : snap[e] # Invalid

\* Mutant of upserted: ON CONFLICT DO NOTHING.
upserted_once(snap) ==
  [e \in Entity |-> IF mirror[e] # Absent THEN mirror[e] ELSE snap[e]]

\* INSERT ... ON CONFLICT DO UPDATE: rows of other entities stay.
upserted(snap) ==
  [e \in Entity |-> IF snap[e] = Absent THEN mirror[e] ELSE snap[e]]

upsert(r) ==
  /\ sync[r].pc = "fetched"
  /\ Readable(sync[r].snap)
  /\ mirror' = upserted(sync[r].snap)
  /\ settled' = sync[r].current
  /\ sync' = [sync EXCEPT ![r] = NoSync]

\* GET /projects/{id}/entities/statuses, in two steps.
sync_read(r) ==
  /\ fetch(r)
  /\ UNCHANGED <<odk, surveyed, mirror, posts, hooks, job, now, updates, settled>>

sync_write(r) ==
  /\ upsert(r)
  /\ UNCHANGED <<odk, surveyed, posts, hooks, job, now, updates>>

\* A status is out of range, or the API restarts: nothing is written.
abort_sync(r) ==
  /\ sync[r].pc = "fetched"
  /\ sync' = [sync EXCEPT ![r] = NoSync]
  /\ UNCHANGED <<odk, surveyed, mirror, posts, hooks, job, now, updates, settled>>

-----------------------------------------------------------------------------
(***************************************************************************)
(* The unlock job, as far as this project's entities are concerned         *)
(* (TaskEvents has the rest).  A run starts at most once an hour.          *)
(***************************************************************************)
UpdatedSince(h) == {e \in Entity : odk[e].status # Absent /\ odk[e].updated > h}

\* trigger_unlock_tasks: a project with recent updates is skipped.
job_check ==
  /\ job.pc = "idle" /\ job.at < now
  /\ UpdatedSince(now - EntityWindow) = {}
  /\ job' = [pc |-> "checked", at |-> now, todo |-> {}]
  /\ UNCHANGED <<odk, surveyed, mirror, posts, hooks, sync, now, updates, settled>>

\* reset_entities_status: get_entities_data(filter_date = one hour before the run).
recent_opened_entities ==
  {e \in UpdatedSince(job.at - OpenedWindow) : odk[e].status = "OPENED_IN_ODK"}

job_fetch_opened ==
  /\ job.pc = "checked"
  /\ job' = [job EXCEPT !.pc = "reset", !.todo = recent_opened_entities]
  /\ UNCHANGED <<odk, surveyed, mirror, posts, hooks, sync, now, updates, settled>>

\* update_entity_mapping_status to READY, one entity after the other.
job_reset(e) ==
  /\ job.pc = "reset" /\ e \in job.todo
  /\ Update(e, "READY")
  /\ job' = [job EXCEPT !.todo = @ \ {e}]
  /\ sync' = Outdated(sync)
  /\ UNCHANGED <<surveyed, mirror, posts, now>>

job_fetch_all ==
  /\ job.pc = "reset" /\ job.todo = {}
  /\ fetch(JobSync)
  /\ job' = [job EXCEPT !.pc = "sync"]
  /\ UNCHANGED <<odk, surveyed, mirror, posts, hooks, now, updates, settled>>

job_upsert ==
  /\ job.pc = "sync"
  /\ upsert(JobSync)
  /\ job' = [job EXCEPT !.pc = "idle"]
  /\ UNCHANGED <<odk, surveyed, posts, hooks, now, updates>>

\* A call to ODK Central, or the upsert, raises: what was reset there stays reset.
job_fail ==
  /\ job.pc # "idle"
  /\ job' = [job EXCEPT !.pc = "idle", !.todo = {}]
  /\ sync' = [sync EXCEPT ![JobSync] = NoSync]
  /\ UNCHANGED <<odk, surveyed, mirror, posts, hooks, now, updates, settled>>

tick ==
  /\ now < MaxTime
  /\ now' = now + 1
  /\ UNCHANGED <<odk, surveyed, mirror, posts, hooks, sync, job, updates, settled>>

-----------------------------------------------------------------------------
Next ==
  \/ \E e \in Entity, s \in {"READY", "NEW_GEOM"} : create_entity(e, s)
  \/ \E e \in Entity, s \in FormStatus : submit(e, s)
  \/ \E e \in Entity : mapFeature(e) \/ job_reset(e)
  \/ \E e \in Entity, s \in EntityState : review(e, s)
  \/ \E q \in posts : set_odk_entities_mapping_status(q) \/ lose_post(q)
  \/ \E h \in hooks : update_entity_status_in_fmtm(h) \/ lose_hook(h)
  \/ \E r \in Reader : sync_read(r) \/ sync_write(r) \/ abort_sync(r)
  \/ job_check \/ job_fetch_opened \/ job_fetch_all \/ job_upsert \/ job_fail
  \/ tick

Spec == Init /\ [][Next]_vars

(***************************************************************************)
(* Fairness: a webhook call ends, one way or the other; somebody keeps     *)
(* loading the project's page or pressing the sync button; not every such  *)
(* request is hit by a restart of the API; and one that fetched a status   *)
(* out of range ends with an error.                                        *)
(***************************************************************************)
EndHooks == \E h \in hooks : update_entity_status_in_fmtm(h) \/ lose_hook(h)

Fairness ==
  /\ WF_vars(EndHooks)
  /\ \A r \in Reader : /\ WF_vars(sync_read(r)) /\ SF_vars(sync_write(r))
                      /\ WF_vars(~Readable(sync[r].snap) /\ abort_sync(r))

FairSpec == Spec /\ Fairness

-----------------------------------------------------------------------------
(* Properties. *)

InSync == \A e \in Entity : odk[e].status # Absent => mirror[e] = odk[e].status

\* A sync that fetched after the last change in ODK Central leaves an exact mirror, which
\* stays exact until the next change there or the next late webhook (upsert).
SettledInSync == settled => InSync

\* Once nobody updates entities any more, the mirror becomes exact and stays so, whatever
\* webhook calls were lost or overtook each other and however page loads overlapped, unless
\* some entity was left with a status out of range, which no sync can write.
Converges == <>[](InSync \/ \E e \in Entity : odk[e].status = Invalid)

\* What the job is about to reset was updated after the run began: a project whose
\* entities were quiet has no other that reset_entities_status would find.
OnlyOpenedMeanwhile == \A e \in job.todo : odk[e].updated >= job.at

\* "Reset status for entities that have been 'open in ODK' for more than 1hr": when a run
\* is done with resetting, no entity is left open since before the hour.
AbandonedReset ==
  [][job_fetch_all => \A e \in Entity :
       ~(odk[e].status = "OPENED_IN_ODK" /\ odk[e].updated <= job.at - OpenedWindow)]_vars
=============================================================================

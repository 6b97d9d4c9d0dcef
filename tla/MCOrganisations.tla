-------------------------- MODULE MCOrganisations --------------------------
(***************************************************************************)
(* The instance of Organisations for TLC.  It starts at one of two points: *)
(* with the whole timeline of one account ahead, or on its last day, on    *)
(* which organisations come and go: a startup has made HOTOSM, everybody   *)
(* has just logged in and a run is about to delete localadmin, whom it had *)
(* selected before.                                                        *)
(***************************************************************************)
EXTENDS Organisations

CONSTANTS u1, u2, cron, demand, hot, other

FirstDay ==
  /\ now = 0 /\ warned_at = now /\ started_at = now
  /\ users = {LocalAdmin} /\ run = [r \in Run |-> IdleRun]

LastDay ==
  /\ now = MaxTime /\ warned_at = now /\ started_at = now
  /\ users = User
  /\ run = [r \in Run |-> IF r = Cron
                           THEN [IdleRun EXCEPT !.pc = "delete", !.at = now, !.doomed = {LocalAdmin}]
                           ELSE IdleRun]

JustLoggedIn ==
  /\ last_login_at = [u \in User |-> now] /\ due = last_login_at
  /\ sent = [u \in User |-> {}] /\ refused = sent /\ manually = {}

\* All organisations there were have been deleted.
NoOrganisation ==
  /\ organisations = [o \in Org |-> None] /\ organisation_managers = {}
  /\ nextval = MaxOrgs /\ logos = {}

HotOrganisation ==
  /\ organisations = [o \in Org |-> IF o = 1 THEN [name |-> hot, approved |-> TRUE,
                                                  created_by |-> LocalAdmin, logo |-> TRUE]
                                    ELSE None]
  /\ organisation_managers = {<<1, LocalAdmin>>} /\ nextval = 1 /\ logos = {1}

MCInit ==
  /\ (FirstDay /\ NoOrganisation) \/ (LastDay /\ HotOrganisation)
  /\ JustLoggedIn
  /\ requests = {} /\ orphaned = {} /\ lost = {}

\* Bounds: one account until the last day, and no run on demand on that day.
Bounded == IF now < MaxTime THEN users' \subseteq {LocalAdmin} ELSE run'[demand] = IdleRun

MCSpec == MCInit /\ [][OrgNext /\ Bounded]_<<vars, orgVars>>

NoChange == [name |-> None, created_by |-> None, logo |-> FALSE]

\* A logo and a founder, or a name.
Changes == {[NoChange EXCEPT !.logo = TRUE, !.created_by = u2], [NoChange EXCEPT !.name = other]}
=============================================================================

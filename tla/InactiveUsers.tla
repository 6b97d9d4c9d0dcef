--------------------------- MODULE InactiveUsers ----------------------------
(***************************************************************************)
(* Accounts that nobody uses are warned and then deleted:                  *)
(* process_inactive_users, run by cron once a week and, on demand, by      *)
(* POST /users/process-inactive-users.                                     *)
(*                                                                         *)
(* A run keeps no record of whom it has warned.  It decides from           *)
(* last_login_at alone, through one window per warning, so that who is     *)
(* warned, and how often, depends on when the runs happen.  Logins and     *)
(* other runs commit between the queries of a run.                         *)
(***************************************************************************)
EXTENDS Integers

CONSTANTS
    User,
    Run, Cron,           \* runs of the job, the scheduled one among them
    WARNING_INTERVALS,   \* days before deletion ({21, 14, 7})
    THRESHOLD,           \* INACTIVITY_THRESHOLD, in days (730)
    Window,              \* width of the window of a warning, in days (7)
    Period, Late,        \* days between two scheduled runs (7), delay of a run
    MaxGap,              \* days within which some run gets through its warnings
    Token,               \* whether SVC_OSM_TOKEN is set
    MaxTime              \* bound: days

ASSUME InactiveAssumption ==
  /\ Cron \in Run
  /\ THRESHOLD \in Nat
  /\ WARNING_INTERVALS \subseteq 0..THRESHOLD
  /\ Window \in Nat /\ Period \in Nat \ {0} /\ Late \in Nat /\ MaxGap \in Nat
  /\ Token \in BOOLEAN
  /\ MaxTime \in Nat

VARIABLES
    users,           \* the ids in table users
    last_login_at,
    sent,            \* the warnings each user was sent since the last login
    refused,         \* history: the warnings OSM refused to pass on since the last login
    due,             \* the day before which the last message says nothing happens
    manually,        \* history: the users whose last message is of a run made on demand
    now,             \* days
    warned_at,       \* start of the last run that sent all its warnings
    started_at,      \* start of the last scheduled run
    run

messages == <<sent, refused, due, manually>>

vars == <<users, last_login_at, messages, now, warned_at, started_at, run>>

RunState == [pc : {"idle", "warn", "select", "delete"}, at : Nat,
             levels : SUBSET WARNING_INTERVALS, doomed : SUBSET User]

IdleRun == [pc |-> "idle", at |-> 0, levels |-> {}, doomed |-> {}]

TypeOK ==
  /\ users \subseteq User
  /\ last_login_at \in [User -> Nat]
  /\ sent \in [User -> SUBSET WARNING_INTERVALS]
  /\ refused \in [User -> SUBSET WARNING_INTERVALS]
  /\ due \in [User -> Nat]
  /\ manually \subseteq User
  /\ now \in Nat /\ warned_at \in Nat /\ started_at \in Nat
  /\ run \in [Run -> RunState]

\* The migration that added the column set it to now() for every user.
Init ==
  /\ users = User
  /\ last_login_at = [u \in User |-> 0]
  /\ sent = [u \in User |-> {}]
  /\ refused = [u \in User |-> {}]
  /\ due = [u \in User |-> 0]
  /\ manually = {}
  /\ now = 0 /\ warned_at = 0 /\ started_at = 0
  /\ run = [r \in Run |-> IdleRun]

-----------------------------------------------------------------------------
\* get_or_create_user: the row is created, or its last_login_at set to now.
login(u) ==
  /\ users' = users \union {u}
  /\ last_login_at' = [last_login_at EXCEPT ![u] = now]
  /\ sent' = [sent EXCEPT ![u] = {}]
  /\ refused' = [refused EXCEPT ![u] = {}]
  /\ due' = [due EXCEPT ![u] = now]
  /\ manually' = manually \ {u}
  /\ UNCHANGED <<now, warned_at, started_at, run>>

\* DELETE /users/{id} by an administrator.
delete_user_by_identifier(u) ==
  /\ users' = users \ {u}
  /\ UNCHANGED <<last_login_at, messages, now, warned_at, started_at, run>>

-----------------------------------------------------------------------------
(***************************************************************************)
(* process_inactive_users.                                                 *)
(***************************************************************************)
start(r) ==
  /\ run[r].pc = "idle"
  /\ run' = [run EXCEPT ![r] = [pc |-> "warn", at |-> now, levels |-> WARNING_INTERVALS,
                                doomed |-> {}]]

\* "0 0 * * 0": once a period, perhaps a little late.
cron_start ==
  /\ started_at \div Period < now \div Period
  /\ now % Period <= Late
  /\ start(Cron)
  /\ started_at' = now
  /\ UNCHANGED <<users, last_login_at, messages, now, warned_at>>

delete_inactive_users(r) ==
  /\ r # Cron
  /\ start(r)
  /\ UNCHANGED <<users, last_login_at, messages, now, warned_at, started_at>>

\* Mutant of users_to_warn: a window open at the wrong end.
users_to_warn_open(r, d) ==
  {u \in users : LET date == run[r].at - (THRESHOLD - d) IN
                 last_login_at[u] < date /\ last_login_at[u] > date - Window}

users_to_warn(r, d) ==
  {u \in users : LET date == run[r].at - (THRESHOLD - d) IN
                 last_login_at[u] < date /\ last_login_at[u] >= date - Window}

\* send_warning_email_or_osm to the users of S.  OSM takes the messages to some of them; one
\* it refuses, with any other status, is logged, and the run goes on.
send_warnings(r, S, d) ==
  \E told \in SUBSET S :
    /\ sent' = [u \in User |-> IF u \in told THEN sent[u] \union {d} ELSE sent[u]]
    /\ refused' = [u \in User |-> IF u \in S \ told THEN refused[u] \union {d} ELSE refused[u]]
    /\ due' = [u \in User |-> IF u \in told THEN now + d ELSE due[u]]
    /\ manually' = IF r = Cron THEN manually \ told ELSE manually \union told

\* Without a token nothing is sent.
to_tell(r, d) == IF Token THEN users_to_warn(r, d) ELSE {}

\* One turn of the loop over WARNING_INTERVALS, the furthest from deletion first.
warn(r, d) ==
  /\ run[r].pc = "warn"
  /\ d \in run[r].levels /\ \A e \in run[r].levels : e <= d
  /\ send_warnings(r, to_tell(r, d), d)
  /\ run' = [run EXCEPT ![r].levels = @ \ {d}]
  /\ UNCHANGED <<users, last_login_at, now, warned_at, started_at>>

warn_end(r) ==
  /\ run[r].pc = "warn" /\ run[r].levels = {}
  /\ run' = [run EXCEPT ![r].pc = "select"]
  /\ warned_at' = run[r].at
  /\ UNCHANGED <<users, last_login_at, messages, now, started_at>>

\* The run ends after some of the messages of one level: OSM cannot be reached, or the database.
warn_fail(r, d) ==
  /\ run[r].pc = "warn" /\ d \in run[r].levels
  /\ \E S \in SUBSET to_tell(r, d) : send_warnings(r, S, d)
  /\ run' = [run EXCEPT ![r] = IdleRun]
  /\ UNCHANGED <<users, last_login_at, now, warned_at, started_at>>

\* Mutant of users_to_delete: an account is deleted one window early.
users_to_delete_early(r) == {u \in users : last_login_at[u] < run[r].at - THRESHOLD + Window}

users_to_delete(r) == {u \in users : last_login_at[u] < run[r].at - THRESHOLD}

select_users_to_delete(r) ==
  /\ run[r].pc = "select"
  /\ run' = [run EXCEPT ![r].pc = "delete", ![r].doomed = users_to_delete(r)]
  /\ UNCHANGED <<users, last_login_at, messages, now, warned_at, started_at>>

\* DbUser.delete of each, and the commit.
delete_users(r) ==
  /\ run[r].pc = "delete"
  /\ users' = users \ run[r].doomed
  /\ run' = [run EXCEPT ![r] = IdleRun]
  /\ UNCHANGED <<last_login_at, messages, now, warned_at, started_at>>

\* A DELETE fails on a foreign key, or the process ends: nobody is deleted.
delete_fail(r) ==
  /\ run[r].pc \in {"select", "delete"}
  /\ run' = [run EXCEPT ![r] = IdleRun]
  /\ UNCHANGED <<users, last_login_at, messages, now, warned_at, started_at>>

\* A day passes.  Runs are short, and not all of them fail for ever.
tick ==
  /\ now < MaxTime
  /\ \A r \in Run : run[r].pc = "idle"
  /\ now < warned_at + MaxGap
  /\ now' = now + 1
  /\ UNCHANGED <<users, last_login_at, messages, warned_at, started_at, run>>

Next ==
  \/ \E u \in User : login(u) \/ delete_user_by_identifier(u)
  \/ cron_start
  \/ \E r \in Run :
       \/ delete_inactive_users(r) \/ warn_end(r) \/ select_users_to_delete(r)
       \/ delete_users(r) \/ delete_fail(r)
       \/ \E d \in WARNING_INTERVALS : warn(r, d) \/ warn_fail(r, d)
  \/ tick

Spec == Init /\ [][Next]_vars

-----------------------------------------------------------------------------
(* Properties. *)

\* What OSM was asked to tell a user since the last login.
Tried(u) == sent[u] \union refused[u]

\* "Warning: 21, 14, 7 days before deletion": whoever a run selects for deletion was sent, since
\* the last login, every warning but those that OSM refused, although no run remembers what
\* another has sent.  It takes runs that are never further apart than a window is wide.
AllWarningsSent ==
  [][\A r \in Run : select_users_to_delete(r) =>
       \A u \in users_to_delete(r) : Tried(u) = WARNING_INTERVALS]_vars

\* Whoever a run selects for deletion was sent some warning since the last login, or OSM refused
\* one, if the runs that got through their warnings are no further apart than all windows together.
SomeWarningSent ==
  [][\A r \in Run : select_users_to_delete(r) =>
       \A u \in users_to_delete(r) : Tried(u) # {}]_vars

\* "Your account will be deleted in {days_remaining} days if you do not log in": an account is
\* deleted earlier than the last message said only if the run that deletes it, or the one that sent the
\* message, was made on demand; and then by less than a window.
NotSoonerThanTold ==
  [][\A r \in Run : delete_users(r) =>
       \A u \in run[r].doomed \intersect users : due[u] > now =>
         /\ due[u] < now + Window
         /\ r # Cron \/ u \in manually]_vars
=============================================================================
